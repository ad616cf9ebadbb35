--------------------------- MODULE VgaLinkProofs ---------------------------
(***************************************************************************)
(* Proofs about VgaLink for any canvases, room on PIX and the wire, number *)
(* of registers in a call and number of times the VGA dies.                *)
(***************************************************************************)
EXTENDS VgaLink, SequenceTheorems, TLAPS

(* A program that runs finds the VGA reset; a call is a program's.         *)
SetUp == left > 0 \/ api # "running"

CallInv ==
    /\ machine = "up" => ~needsReset
    /\ busy => machine = "up"
    /\ ~busy => ~SetUp

(* The VGA that is off has a blank screen, and what PIX holds when it is   *)
(* turned on makes it the RIA's canvas, unless one was lost.               *)
CanvasInv ==
    /\ mirrored => WillBe(canvas)
    /\ \A i \in DOMAIN pix : pix[i].reg = "display" => pix[i].word = Console
    /\ ~vga.on => vga = Blank(FALSE)

(* Until the VGA dies for the first time, the backchannel of a VGA that    *)
(* was found stays attached.                                               *)
AttachedInv ==
    /\ ~vga.attached => wire = <<>>
    /\ \A i \in DOMAIN pix : pix[i].reg = "detach" => ~vga.attached
    /\ deaths = 0 =>
         /\ state # "lost"
         /\ state = "connected" => vga.on /\ vga.attached
         /\ state = "notFound" => ~vga.attached

(* What is on its way of the answers: asked for, given and held, sent.     *)
Asked == {i \in DOMAIN pix : pix[i].reg \in Key}
Sent == {i \in DOMAIN wire : wire[i].is # "vsync"}

MineInv ==
    /\ \A i \in DOMAIN pix : pix[i].mine => pix[i].reg \in Key
    /\ \A i \in DOMAIN wire : wire[i].mine => wire[i].is # "vsync"
    /\ ~SetUp =>
         /\ \A i \in DOMAIN pix : ~pix[i].mine
         /\ \A i \in DOMAIN wire : ~wire[i].mine
         /\ ~held.mine

(* Of a call that began with nothing on its way, one answer at most is,    *)
(* it is the call's, and only while the call waits.                        *)
FlightInv ==
    SetUp /\ ~muddled =>
        /\ \A i \in Asked : pix[i].mine
        /\ \A i \in Sent : wire[i].mine
        /\ held # Nothing => held.mine
        /\ \A i, j \in Asked : i = j
        /\ \A i, j \in Sent : i = j
        /\ Asked = {} \/ Sent = {}
        /\ held # Nothing => Asked = {} /\ Sent = {}
        /\ api # "waiting" => Asked = {} /\ Sent = {} /\ held = Nothing
        /\ api = "waiting" /\ deaths = 0 /\ state = "connected" =>
               Asked # {} \/ Sent # {} \/ held # Nothing

(* And the call knows what the VGA made of each of its key registers but   *)
(* the one whose answer it waits for.                                      *)
Good(v) == v \in {"none", "ack"}
VerdictInv ==
    SetUp /\ ~muddled =>
        /\ api \in {"running", "ack"} => \A k \in Key : Good(verdict[k])
        /\ api = "nak" => \E k \in Key : verdict[k] = "nak"
        /\ api = "waiting" => \E k \in Key :
              /\ \A q \in Key \ {k} : Good(verdict[q])
              /\ \A i \in Asked : pix[i].reg = k
              /\ \A i \in Sent : wire[i].is = verdict[k]
              /\ held # Nothing => held.is = verdict[k]

(* What is left of the program before comes before the display order that  *)
(* the stop leads to, and what the program writes after it: of messages p  *)
(* for a VGA that holds registers and modes tagged t.                      *)
Tags == vga.args \cup vga.drawn
IsOld(m) == m.reg \in Regs /\ ~m.new
OldFirst(p, t) ==
    \/ "old" \notin t /\ \A i \in DOMAIN p : ~IsOld(p[i])
    \/ \E k \in DOMAIN p :
         /\ p[k].reg = "display"
         /\ \A i \in DOMAIN p : IsOld(p[i]) => i < k
         /\ \A i \in DOMAIN p : p[i].new => i > k

(* Once the order is in PIX, nothing of a program follows it until the     *)
(* next one runs.                                                          *)
ResetLast(p, t) ==
    \/ t = {} /\ \A i \in DOMAIN p : p[i].reg \notin Regs
    \/ \E k \in DOMAIN p :
         /\ p[k].reg = "display"
         /\ \A i \in DOMAIN p : p[i].reg \in Regs => i < k

InheritInv ==
    /\ OldFirst(pix, Tags)
    /\ machine = "down" /\ ~needsReset => ResetLast(pix, Tags)
    /\ \A i \in DOMAIN pix : pix[i].new => pix[i].reg \in Regs

(* A VSYNC on the wire is one, and the trap has fired for it or has not.   *)
Vsyncs == {i \in DOMAIN wire : wire[i] = Vsync}
VsyncInv ==
    /\ deaths > 0 => debt = 0
    /\ deaths = 0 =>
         /\ \A i, j \in Vsyncs : i = j
         /\ fired => wire # <<>> /\ wire[1] = Vsync /\ trap = "off"
         /\ debt = IF Vsyncs = {} \/ fired THEN 0 ELSE 1
         /\ trap = "armed" =>
              /\ state = "connected"
              /\ wire = <<>> => phase = "locked"
              /\ wire # <<>> => wire[1] = Vsync

IInv ==
    /\ TypeOK /\ CallInv /\ CanvasInv /\ AttachedInv /\ MineInv /\ FlightInv
    /\ VerdictInv /\ InheritInv /\ VsyncInv

USE CanvasAssumption, RoomAssumption DEF ria, back, vsync, history

----------------------------------------------------------------------------
(* A message or a byte is put at the end of a queue, and the first taken.   *)
LEMMA PutFacts ==
    ASSUME NEW S, NEW s \in Seq(S), NEW m \in S
    PROVE  /\ Append(s, m) \in Seq(S)
           /\ DOMAIN Append(s, m) = 1..(Len(s) + 1)
           /\ Len(Append(s, m)) = Len(s) + 1
           /\ \A i \in 1..Len(s) : Append(s, m)[i] = s[i]
           /\ Append(s, m)[Len(s) + 1] = m
BY AppendProperties

LEMMA TakeFacts ==
    ASSUME NEW S, NEW s \in Seq(S), s # <<>>
    PROVE  /\ Tail(s) \in Seq(S) /\ Head(s) = s[1] /\ s[1] \in S
           /\ Len(s) \in Nat \ {0} /\ DOMAIN s = 1..Len(s)
           /\ Len(Tail(s)) = Len(s) - 1
           /\ DOMAIN Tail(s) = 1..(Len(s) - 1)
           /\ \A i \in 1..(Len(s) - 1) : Tail(s)[i] = s[i + 1]
BY HeadTailProperties

(* A wait that is over: what is on its way becomes a stray, and is else     *)
(* what it was.                                                            *)
LEMMA StrayFacts ==
    ASSUME NEW s \in Seq(Message)
    PROVE  /\ StrayAll(s) \in Seq(Message)
           /\ DOMAIN StrayAll(s) = DOMAIN s
           /\ Len(StrayAll(s)) = Len(s)
           /\ \A i \in DOMAIN s :
                 /\ StrayAll(s)[i].reg = s[i].reg
                 /\ StrayAll(s)[i].word = s[i].word
                 /\ StrayAll(s)[i].new = s[i].new
                 /\ StrayAll(s)[i].mine = FALSE
<1>1. \A m \in Message : /\ Stray(m) \in Message
                         /\ Stray(m).reg = m.reg /\ Stray(m).word = m.word
                         /\ Stray(m).new = m.new /\ Stray(m).mine = FALSE
  BY DEF Message, Stray
<1>2. DOMAIN s = 1..Len(s) /\ \A i \in DOMAIN s : s[i] \in Message
  OBVIOUS
<1>3. StrayAll(s) \in [1..Len(s) -> Message]
  BY <1>1, <1>2 DEF StrayAll
<1>4. StrayAll(s) \in Seq(Message)
  BY <1>3, SeqDef
<1> QED
  BY <1>1, <1>2, <1>3, <1>4 DEF StrayAll

LEMMA StrayByteFacts ==
    ASSUME NEW s \in Seq(Byte)
    PROVE  /\ StrayAll(s) \in Seq(Byte)
           /\ DOMAIN StrayAll(s) = DOMAIN s
           /\ Len(StrayAll(s)) = Len(s)
           /\ \A i \in DOMAIN s :
                 StrayAll(s)[i].is = s[i].is /\ StrayAll(s)[i].mine = FALSE
<1>1. \A b \in Byte : Stray(b) \in Byte /\ Stray(b).is = b.is /\ Stray(b).mine = FALSE
  BY DEF Byte, Stray
<1>2. DOMAIN s = 1..Len(s) /\ \A i \in DOMAIN s : s[i] \in Byte
  OBVIOUS
<1>3. StrayAll(s) \in [1..Len(s) -> Byte]
  BY <1>1, <1>2 DEF StrayAll
<1>4. StrayAll(s) \in Seq(Byte)
  BY <1>3, SeqDef
<1> QED
  BY <1>1, <1>2, <1>3, <1>4 DEF StrayAll

(* A new program: every message is of an old one.                          *)
LEMMA OldFacts ==
    ASSUME NEW s \in Seq(Message)
    PROVE  /\ Old(s) \in Seq(Message)
           /\ DOMAIN Old(s) = DOMAIN s
           /\ Len(Old(s)) = Len(s)
           /\ \A i \in DOMAIN s :
                 /\ Old(s)[i].reg = s[i].reg
                 /\ Old(s)[i].word = s[i].word
                 /\ Old(s)[i].mine = s[i].mine
                 /\ Old(s)[i].new = FALSE
<1>1. \A m \in Message : /\ Aging(m) \in Message
                         /\ Aging(m).reg = m.reg /\ Aging(m).word = m.word
                         /\ Aging(m).mine = m.mine /\ Aging(m).new = FALSE
  BY DEF Message, Aging
<1>2. DOMAIN s = 1..Len(s) /\ \A i \in DOMAIN s : s[i] \in Message
  OBVIOUS
<1>3. Old(s) \in [1..Len(s) -> Message]
  BY <1>1, <1>2 DEF Old
<1>4. Old(s) \in Seq(Message)
  BY <1>3, SeqDef
<1> QED
  BY <1>1, <1>2, <1>3, <1>4 DEF Old

LEMMA StrayHeld ==
    ASSUME TypeOK
    PROVE  /\ Stray(held) \in [is : Answers, mine : BOOLEAN] \cup {Nothing}
           /\ Stray(held).mine = FALSE /\ Stray(held).is = held.is
           /\ held = Nothing => Stray(held) = Nothing
           /\ held # Nothing => Stray(held) # Nothing
<1>c. Nothing \in [is : {"none"}, mine : BOOLEAN]
  BY DEF Nothing
<1>d. \A b \in [is : {"none"}, mine : BOOLEAN] : ~b.mine => b = Nothing
  BY DEF Nothing
<1>e. \A b \in [is : {"none"}, mine : BOOLEAN] :
         [b EXCEPT !.mine = FALSE] \in [is : {"none"}, mine : BOOLEAN]
         /\ ~[b EXCEPT !.mine = FALSE].mine
  OBVIOUS
<1>a. [Nothing EXCEPT !.mine = FALSE] = Nothing
  BY <1>c, <1>d, <1>e
<1>b. Nothing.is = "none" /\ "none" \notin Answers
  BY DEF Nothing, Answers
<1>1. Stray(Nothing) = Nothing /\ Nothing.is = "none" /\ "none" \notin Answers
  BY <1>a, <1>b DEF Stray
<1>2. ASSUME held \in [is : Answers, mine : BOOLEAN]
      PROVE  /\ Stray(held) \in [is : Answers, mine : BOOLEAN]
             /\ Stray(held).mine = FALSE /\ Stray(held).is = held.is
  BY <1>2 DEF Stray
<1>3. Nothing.mine = FALSE
  BY DEF Nothing
<1>4. ASSUME held \in [is : Answers, mine : BOOLEAN]
      PROVE  Stray(held) # Nothing
  BY <1>1, <1>2, <1>4
<1> QED
  BY <1>1, <1>2, <1>3, <1>4 DEF TypeOK

LEMMA OrderIsMessage ==
    ASSUME NEW o \in {"display", "detach"}
    PROVE  /\ Order(o) \in Message
           /\ Order(o).reg = o /\ Order(o).word = Console
           /\ Order(o).new = FALSE /\ Order(o).mine = FALSE
<1>1. Console \in Words /\ FALSE \in BOOLEAN /\ o \in Regs \cup {"display", "detach"}
  BY DEF Words
<1>2. Order(o) \in Message
  BY <1>1, Zenon DEF Order, Message
<1> QED
  BY <1>2 DEF Order

(* The message that Put appends.                                           *)
Register(r, w) == [reg |-> r, word |-> IF r = "canvas" THEN w ELSE Console,
                   new |-> TRUE, mine |-> r \in Key]

LEMMA RegisterIsMessage ==
    ASSUME NEW r \in Regs, NEW w \in Words
    PROVE  /\ Register(r, w) \in Message /\ Put(r, w) = Append(pix, Register(r, w))
           /\ Register(r, w).reg = r /\ Register(r, w).new = TRUE
           /\ Register(r, w).word = (IF r = "canvas" THEN w ELSE Console)
           /\ Register(r, w).mine <=> r \in Key
<1>1. Console \in Words /\ TRUE \in BOOLEAN /\ (r \in Key) \in BOOLEAN
      /\ r \in Regs \cup {"display", "detach"}
      /\ (IF r = "canvas" THEN w ELSE Console) \in Words
  BY DEF Words
<1>2. Register(r, w) \in Message
  BY <1>1, Zenon DEF Register, Message
<1> QED
  BY <1>2 DEF Register, Put

(* The only byte of a VSYNC; the answers carry one of two words.           *)
LEMMA ByteFacts ==
    /\ Vsync \in Byte
    /\ \A b \in Byte : b.is = "vsync" /\ ~b.mine => b = Vsync
    /\ \A b \in Byte : b.is # "vsync" => b.is \in Answers
    /\ \A a \in Answers, m \in BOOLEAN :
          LET b == [is |-> a, mine |-> m] IN
          /\ b \in Byte /\ b \in [is : Answers, mine : BOOLEAN]
          /\ b.is = a /\ b # Vsync /\ b # Nothing
<1>1. \A a \in Answers, m \in BOOLEAN :
          LET b == [is |-> a, mine |-> m] IN
          /\ b \in Byte /\ b \in [is : Answers, mine : BOOLEAN]
          /\ b.is = a
  BY Zenon DEF Byte
<1>2. \A a \in Answers, m \in BOOLEAN :
          LET b == [is |-> a, mine |-> m] IN b # Vsync /\ b # Nothing
  BY DEF Vsync, Nothing, Answers
<1>3. Vsync \in Byte
  BY DEF Vsync, Byte
<1> QED
  BY <1>1, <1>2, <1>3, SMT DEF Vsync, Byte

----------------------------------------------------------------------------
LEMMA GiveUpType ==
    ASSUME TypeOK, NEW p \in Seq(Message), Len(p) <= PixRoom,
           NEW r \in {"none", "ok", "EINVAL", "EIO", "refused"}, GiveUp(r, p),
           machine' \in {"up", "down"}, canvas' = canvas, needsReset' \in BOOLEAN
    PROVE  TypeOK'
<1>1. wire \in Seq(Byte)
  BY DEF TypeOK
<1>2. NoCall \in [first : 0..2, word : Words]
  BY DEF NoCall, Words
<1>3. Untried \in [Key -> Answers \cup {"none", "asked"}]
  BY DEF Untried
<1>4. pix' \in Seq(Message) /\ Len(pix') = Len(p)
  BY StrayFacts DEF GiveUp
<1>5. wire' \in Seq(Byte)
  BY <1>1, StrayByteFacts DEF GiveUp
<1>6. held' \in [is : Answers, mine : BOOLEAN] \cup {Nothing}
  BY StrayHeld DEF GiveUp
<1>7. 0 \in 0..MaxRegs
  OBVIOUS
<1>8. busy' \in BOOLEAN /\ muddled' \in BOOLEAN
  BY DEF GiveUp
<1>9. /\ result' = r /\ call' = NoCall /\ left' = 0 /\ api' = "running"
      /\ verdict' = Untried
      /\ UNCHANGED <<state, vga, phase, trap, fired, debt, deaths, mirrored>>
  BY DEF GiveUp
<1> QED
  BY <1>2, <1>3, <1>4, <1>5, <1>6, <1>7, <1>8, <1>9 DEF TypeOK

(* What a VGA's state can be.                                              *)
VgaType == [on : BOOLEAN, attached : BOOLEAN,
            canvas : Canvases \cup {Console},
            args : SUBSET {"new", "old"}, drawn : SUBSET {"new", "old"}]

LEMMA DrawnType ==
    ASSUME NEW v \in VgaType, NEW d \in SUBSET {"new", "old"},
           NEW c \in Canvases \cup {Console}
    PROVE  /\ [v EXCEPT !.args = {}, !.drawn = d] \in VgaType
           /\ [v EXCEPT !.args = {}, !.canvas = c, !.drawn = d] \in VgaType
           /\ v.drawn \in SUBSET {"new", "old"}
           /\ v.canvas \in Canvases \cup {Console}
<1> {} \in SUBSET {"new", "old"}
  OBVIOUS
<1> QED
  BY DEF VgaType

LEMMA EmitType ==
    ASSUME TypeOK, NEW b \in Byte, Emit(b)
    PROVE  wire' \in Seq(Byte) /\ trap' \in {"off", "set", "armed"} /\ fired' \in BOOLEAN
<1>1. wire \in Seq(Byte) /\ trap \in {"off", "set", "armed"} /\ fired \in BOOLEAN
  BY DEF TypeOK
<1>2. Append(wire, b) \in Seq(Byte)
  BY <1>1, PutFacts
<1> QED
  BY <1>1, <1>2 DEF Emit, Edge, TrapFires, NoTrap

LEMMA TypeStep ==
    ASSUME TypeOK, MineInv, [Next]_vars, debt' \in -1..WireRoom + 1
    PROVE  TypeOK'
<1>x. pix \in Seq(Message) /\ Len(pix) <= PixRoom /\ wire \in Seq(Byte)
  BY DEF TypeOK, VgaType
<1>c. Words # {} /\ Console \in Words /\ NoCall \in [first : 0..2, word : Words]
  BY DEF NoCall, Words
<1>u. Untried \in [Key -> Answers \cup {"none", "asked"}]
  BY DEF Untried
<1>p. \A r \in Regs, w \in Words : Put(r, w) \in Seq(Message) /\ Len(Put(r, w)) = Len(pix) + 1
  <2>1. TAKE r \in Regs, w \in Words
  <2>2. Register(r, w) \in Message /\ Put(r, w) = Append(pix, Register(r, w))
    BY RegisterIsMessage
  <2> QED
    BY <2>2, <1>x, PutFacts
<1>o. \A o \in {"display", "detach"} :
         /\ Append(pix, Order(o)) \in Seq(Message)
         /\ Len(Append(pix, Order(o))) = Len(pix) + 1
  <2>1. TAKE o \in {"display", "detach"}
  <2>2. Order(o) \in Message
    BY OrderIsMessage
  <2> QED
    BY <2>2, <1>x, PutFacts
<1>r. 1 <= PixRoom
  OBVIOUS
<1>1. CASE UNCHANGED vars
  BY <1>1 DEF TypeOK, VgaType, vars
<1>2. CASE Ask
  BY <1>2 DEF TypeOK, VgaType, Ask
<1>3. CASE PixApiXreg
  <2>1. CASE Refuse
    <3>1. GiveUp("refused", pix) /\ UNCHANGED <<machine, canvas, needsReset>>
      BY <2>1 DEF Refuse, Answer
    <3>2. machine' \in {"up", "down"} /\ needsReset' \in BOOLEAN
      BY <3>1 DEF TypeOK, VgaType
    <3> QED
      BY <3>1, <3>2, <1>x, GiveUpType
  <2>2. ASSUME NEW c \in Calls, Setup(c[1], c[2], c[3])
        PROVE  TypeOK'
    <3>1. c[1] \in 0..2 /\ c[2] \in 1..MaxRegs /\ c[3] \in Words
      BY DEF Calls
    <3>2. [first |-> c[1], word |-> c[3]] \in [first : 0..2, word : Words]
          /\ [first |-> 1, word |-> Console] \in [first : 0..2, word : Words]
      BY <3>1, <1>c
    <3>3. /\ busy' = busy /\ call' \in [first : 0..2, word : Words]
          /\ left' \in 0..MaxRegs /\ api' \in {"running", "waiting"} \cup Answers
      BY <2>2, <3>1, <3>2 DEF TypeOK, VgaType, Setup, Working
    <3>4. canvas' \in Canvases \cup {Console}
      BY <2>2, <3>1 DEF TypeOK, VgaType, Setup, Working, SetCanvas, Words
    <3>5. pix' \in Seq(Message) /\ Len(pix') <= PixRoom
      BY <2>2, <3>1, <1>p DEF TypeOK, VgaType, Setup, Working, PixReady, Regs, Key
    <3>6. verdict' \in [Key -> Answers \cup {"none", "asked"}] /\ muddled' \in BOOLEAN
      BY <2>2, <1>u DEF Setup, Strays
    <3> QED
      BY <2>2, <3>3, <3>4, <3>5, <3>6 DEF TypeOK, VgaType, Setup, Working
  <2>3. CASE Send
    <3> DEFINE r == RegAt(call.first + left - 1)
    <3>1. r \in Regs /\ call.word \in Words
      BY DEF TypeOK, VgaType, RegAt, Regs, Key
    <3>2. Put(r, call.word) \in Seq(Message) /\ Len(Put(r, call.word)) <= PixRoom
      BY <2>3, <3>1, <1>p DEF Send, PixReady
    <3>3. CASE r \in Key \/ left > 1
      <4>1. canvas' \in Canvases \cup {Console}
        BY <2>3, <3>3, <3>1 DEF TypeOK, VgaType, Send, SetCanvas, Words
      <4>2. verdict' \in [Key -> Answers \cup {"none", "asked"}]
        BY <2>3, <3>3 DEF TypeOK, VgaType, Send
      <4>3. left' \in 0..MaxRegs /\ api' \in {"running", "waiting"} \cup Answers
        BY <2>3, <3>3 DEF TypeOK, VgaType, Send
      <4>4. UNCHANGED <<call, muddled>> /\ Working /\ pix' = Put(r, call.word)
        BY <2>3, <3>3 DEF Send
      <4> QED
        BY <3>2, <4>1, <4>2, <4>3, <4>4 DEF TypeOK, VgaType, Working
    <3>4. CASE ~(r \in Key \/ left > 1)
      <4>1. GiveUp("ok", Put(r, call.word)) /\ UNCHANGED <<machine, canvas, needsReset>>
        BY <2>3, <3>4 DEF TypeOK, VgaType, Send
      <4>2. machine' \in {"up", "down"} /\ needsReset' \in BOOLEAN
        BY <4>1 DEF TypeOK, VgaType
      <4> QED
        BY <4>1, <4>2, <3>2, GiveUpType
    <3> QED
      BY <3>3, <3>4
  <2>4. CASE Acked \/ Naked \/ Timeout
    <3>1. PICK r \in {"ok", "EINVAL", "EIO"} :
             GiveUp(r, pix) /\ UNCHANGED <<machine, canvas, needsReset>>
      BY <2>4 DEF Acked, Naked, Timeout, Answer
    <3>2. machine' \in {"up", "down"} /\ needsReset' \in BOOLEAN
      BY <3>1 DEF TypeOK, VgaType
    <3> QED
      BY <3>1, <3>2, <1>x, GiveUpType
  <2> QED
    BY <1>3, <2>1, <2>2, <2>3, <2>4 DEF PixApiXreg
<1>4. CASE Stop
  <2>1. GiveUp("none", pix) /\ machine' = "down" /\ needsReset' = TRUE /\ canvas' = canvas
    BY <1>4 DEF Stop
  <2>2. machine' \in {"up", "down"} /\ needsReset' \in BOOLEAN
    BY <2>1
  <2> QED
    BY <2>1, <2>2, <1>x, GiveUpType
<1>5. CASE ResetAgain
  BY <1>5 DEF TypeOK, VgaType, ResetAgain
<1>6. CASE VgaTaskReset
  <2>1. pix' \in Seq(Message) /\ Len(pix') <= PixRoom
    BY <1>6, <1>o, <1>x DEF VgaTaskReset, PixReady
  <2>2. canvas' \in Canvases \cup {Console} /\ needsReset' \in BOOLEAN /\ mirrored' \in BOOLEAN
    BY <1>6 DEF VgaTaskReset
  <2> QED
    BY <1>6, <2>1, <2>2 DEF TypeOK, VgaType, VgaTaskReset
<1>7. CASE VgaTaskLost
  BY <1>7, <1>o DEF TypeOK, VgaType, VgaTaskLost, PixReady
<1>8. CASE Run
  <2>1. Aged \in VgaType
    BY DEF TypeOK, VgaType, Aged, OldTags
  <2>2. Old(pix) \in Seq(Message) /\ Len(Old(pix)) <= PixRoom
    BY <1>x, OldFacts
  <2> QED
    BY <1>8, <2>1, <2>2 DEF TypeOK, VgaType, Run
<1>9. CASE RunConnects
  <2>1. [Aged EXCEPT !.attached = TRUE] \in VgaType
    BY DEF TypeOK, VgaType, Aged, OldTags
  <2>2. <<Order("detach")>> \in Seq(Message) /\ Len(<<Order("detach")>>) = 1
    BY OrderIsMessage
  <2> QED
    <3>1. /\ machine' = "up"
          /\ UNCHANGED <<busy, call, left, api, canvas, needsReset, back, trap, fired,
                         debt, deaths, history>>
      BY <1>9 DEF RunConnects
    <3>2. state' \in {"notFound", "connected", "lost"} /\ pix' \in Seq(Message)
          /\ Len(pix') <= PixRoom
      BY <1>9, <2>2, <1>r, <1>x DEF RunConnects
    <3>3. vga' \in VgaType
      BY <1>9, <2>1 DEF RunConnects, TypeOK, VgaType
    <3> QED
      BY <3>1, <3>2, <3>3 DEF TypeOK, VgaType
<1>10. CASE PixTask
  <2>1. pix # <<>> => pix' \in Seq(Message) /\ Len(pix') <= PixRoom
    <3>1. pix' = Tail(pix)
      BY <1>10 DEF PixTask, TakeCanvas, TakeMode, TakeArgument, TakeDisplay, TakeDetach, Take
    <3> QED
      BY <3>1, <1>x, TakeFacts
  <2>2. Msg \in Message \/ pix = <<>>
    BY TakeFacts DEF TypeOK, VgaType, Msg
  <2>3. pix # <<>>
    BY <1>10 DEF PixTask, TakeCanvas, TakeMode, TakeArgument, TakeDisplay, TakeDetach, Take
  <2>4. Msg \in Message /\ Tag \in {"new", "old"}
    BY <2>2, <2>3 DEF Tag
  <2>5. CASE TakeCanvas \/ TakeMode \/ TakeArgument \/ TakeDisplay
    <3>1. UNCHANGED <<ria, state, phase, deaths, mirrored, muddled, result>>
      BY <2>5 DEF TakeCanvas, TakeMode, TakeArgument, TakeDisplay, Take
    <3>v. vga \in VgaType
      BY DEF TypeOK, VgaType
    <3>2. vga' \in VgaType
      <4>1. CASE TakeCanvas
        <5>1. Msg.word # Bad => Msg.word \in Canvases \cup {Console}
          BY <2>4 DEF Message, Words
        <5>2. CASE vga' = [vga EXCEPT !.args = {}]
          BY <5>2, <3>v DEF VgaType
        <5>3. ASSUME NEW d \in SUBSET {"new", "old"}, Msg.word # Bad,
                     vga' = [vga EXCEPT !.args = {}, !.canvas = Msg.word, !.drawn = d]
              PROVE  vga' \in VgaType
          BY <5>1, <5>3, <3>v, DrawnType
        <5>4. {} \in SUBSET {"new", "old"} /\ {Tag} \in SUBSET {"new", "old"}
          BY <2>4
        <5> QED
          BY <4>1, <5>2, <5>3, <5>4 DEF TakeCanvas
      <4>2. CASE TakeMode
        <5>1. CASE vga' = [vga EXCEPT !.args = {}]
          BY <5>1, <3>v DEF VgaType
        <5>2. CASE vga' = [vga EXCEPT !.args = {}, !.drawn = @ \cup {Tag}]
          BY <5>2, <3>v, <2>4, DrawnType
        <5> QED
          BY <4>2, <5>1, <5>2 DEF TakeMode
      <4>3. CASE TakeArgument
        BY <4>3, <2>4 DEF TakeArgument, TypeOK, VgaType
      <4>4. CASE TakeDisplay
        BY <4>4 DEF TakeDisplay, TypeOK, VgaType
      <4> QED
        BY <2>5, <4>1, <4>2, <4>3, <4>4
    <3>3. \A a \in Answers : Reply(a) /\ Msg.reg \in Key =>
            /\ held' \in [is : Answers, mine : BOOLEAN] \cup {Nothing}
            /\ wire' \in Seq(Byte) /\ trap' \in {"off", "set", "armed"}
            /\ fired' \in BOOLEAN
            /\ verdict' \in [Key -> Answers \cup {"none", "asked"}]
      <4>1. SUFFICES ASSUME NEW a \in Answers, Reply(a), Msg.reg \in Key
                     PROVE  /\ held' \in [is : Answers, mine : BOOLEAN] \cup {Nothing}
                            /\ wire' \in Seq(Byte) /\ trap' \in {"off", "set", "armed"}
                            /\ fired' \in BOOLEAN
                            /\ verdict' \in [Key -> Answers \cup {"none", "asked"}]
        OBVIOUS
      <4> DEFINE b == [is |-> a, mine |-> Msg.mine]
      <4>2. b \in Byte /\ b \in [is : Answers, mine : BOOLEAN]
        BY <2>4, Zenon DEF Message, Byte
      <4>3. verdict' \in [Key -> Answers \cup {"none", "asked"}]
        BY <4>1 DEF Reply, TypeOK, VgaType
      <4>4. RiaSend(b)
        BY <4>1 DEF Reply
      <4> HIDE DEF b
      <4>5. CASE phase = "locked"
        BY <4>2, <4>3, <4>4, <4>5, <1>x DEF RiaSend, TypeOK, VgaType
      <4>6. CASE phase # "locked"
        <5>1. Emit(b) /\ held' = held
          BY <4>4, <4>6 DEF RiaSend
        <5> QED
          BY <4>2, <4>3, <5>1, EmitType DEF TypeOK, VgaType
      <4> QED
        BY <4>5, <4>6
    <3>4. /\ held' \in [is : Answers, mine : BOOLEAN] \cup {Nothing}
          /\ wire' \in Seq(Byte) /\ trap' \in {"off", "set", "armed"}
          /\ fired' \in BOOLEAN
          /\ verdict' \in [Key -> Answers \cup {"none", "asked"}]
      <4>1. CASE TakeCanvas
        BY <4>1, <3>3 DEF TakeCanvas, Key, Answers
      <4>2. CASE TakeMode
        BY <4>2, <3>3 DEF TakeMode, Key, Answers
      <4>3. CASE TakeArgument \/ TakeDisplay
        BY <4>3 DEF TakeArgument, TakeDisplay, TypeOK, VgaType
      <4> QED
        BY <2>5, <4>1, <4>2, <4>3
    <3> QED
      BY <2>1, <2>3, <3>1, <3>2, <3>4 DEF TypeOK, VgaType
  <2>6. CASE TakeDetach
    <3>1. vga' \in VgaType
      BY <2>6 DEF TakeDetach, TypeOK, VgaType
    <3>2. held' = Nothing /\ phase' = "unseen"
          /\ UNCHANGED <<ria, state, wire, vsync, deaths, history>>
      BY <2>6 DEF TakeDetach
    <3> QED
      BY <2>1, <2>3, <3>1, <3>2 DEF TypeOK, VgaType
  <2> QED
    BY <1>10, <2>5, <2>6 DEF PixTask
<1>11. CASE RiaTask
  <2>1. held \in Byte
    BY <1>11 DEF TypeOK, VgaType, RiaTask, Nothing, Byte
  <2> QED
    BY <1>11, <2>1, EmitType DEF TypeOK, VgaType, RiaTask, Nothing
<1>12. CASE RiaVsync
  BY <1>12, ByteFacts, EmitType DEF TypeOK, VgaType, RiaVsync
<1>13. CASE LockoutBegins \/ LockoutEnds
  BY <1>13 DEF TypeOK, VgaType, LockoutBegins, LockoutEnds
<1>14. CASE VgaDies \/ VgaBoots
  <2>1. \A on \in BOOLEAN : Blank(on) \in
              VgaType
    BY DEF Blank, VgaType
  <2>2. <<>> \in Seq(Byte)
    OBVIOUS
  <2>3. CASE VgaDies
    <3>a. deaths \in 0..MaxDeaths /\ deaths' = deaths + 1 /\ deaths < MaxDeaths
      BY <2>3 DEF TypeOK, VgaType, VgaDies
    <3>b. mirrored' \in BOOLEAN
      BY <2>3 DEF VgaDies
    <3>1. deaths' \in 0..MaxDeaths /\ mirrored' \in BOOLEAN
      BY <3>a, <3>b
    <3>2. vga' \in VgaType
      BY <2>1, <2>3 DEF VgaDies
    <3>3. /\ held' = Nothing /\ wire' \in Seq(Byte) /\ phase' = "unseen"
          /\ UNCHANGED <<ria, state, pix, trap, fired, verdict, muddled, result>>
      BY <2>2, <2>3 DEF VgaDies
    <3> QED
      BY <3>1, <3>2, <3>3 DEF TypeOK, VgaType
  <2>4. CASE VgaBoots
    <3>1. UNCHANGED <<ria, state, pix, back, vsync, deaths, history>>
      BY <2>4 DEF VgaBoots
    <3>2. vga' \in VgaType
      BY <2>1, <2>4 DEF VgaBoots
    <3> QED
      BY <3>1, <3>2 DEF TypeOK, VgaType
  <2> QED
    BY <1>14, <2>3, <2>4
<1>15. CASE PixDrops
  BY <1>15, TakeFacts DEF TypeOK, VgaType, PixDrops
<1>16. CASE Interrupts
  <2>1. CASE ReceiveVsync
    <3>1. wire' \in Seq(Byte)
      BY <2>1, <1>x, TakeFacts DEF ReceiveVsync, Received
    <3>2. trap' \in {"off", "set", "armed"} /\ fired' \in BOOLEAN
          /\ UNCHANGED <<ria, state, pix, vga, held, phase, deaths, history>>
      BY <2>1 DEF ReceiveVsync
    <3>3. /\ machine' \in {"up", "down"} /\ busy' \in BOOLEAN
          /\ call' \in [first : 0..2, word : Words] /\ left' \in 0..MaxRegs
          /\ api' \in {"running", "waiting"} \cup Answers
          /\ canvas' \in Canvases \cup {Console} /\ needsReset' \in BOOLEAN
          /\ state' \in {"notFound", "connected", "lost"}
          /\ pix' \in Seq(Message) /\ Len(pix') <= PixRoom
      BY <3>2 DEF TypeOK, VgaType
    <3> QED
      BY <3>1, <3>2, <3>3 DEF TypeOK, VgaType
  <2>2. CASE ReceiveAnswer
    <3>1. Head(wire) \in Byte /\ Tail(wire) \in Seq(Byte) /\ Head(wire).is # "vsync"
      BY <2>2, TakeFacts, ByteFacts DEF TypeOK, VgaType, ReceiveAnswer, Received, MineInv
    <3>2. api' \in {"running", "waiting"} \cup Answers
      BY <2>2, <3>1, ByteFacts DEF TypeOK, VgaType, ReceiveAnswer
    <3>3. trap' \in {"off", "set", "armed"} /\ fired' \in BOOLEAN
      BY <2>2 DEF TypeOK, VgaType, ReceiveAnswer, Edge, NoTrap, TrapFires
    <3> QED
      BY <2>2, <3>1, <3>2, <3>3 DEF TypeOK, VgaType, ReceiveAnswer, Received
  <2>3. CASE Arm \/ BitFires \/ Disarm
    <3>1. trap' \in {"off", "set", "armed"} /\ fired' \in BOOLEAN
      BY <2>3 DEF TypeOK, VgaType, Arm, BitFires, Disarm, TrapFires
    <3>2. UNCHANGED <<ria, state, pix, vga, back, deaths, history>>
      BY <2>3 DEF Arm, BitFires, Disarm
    <3> QED
      BY <3>1, <3>2 DEF TypeOK, VgaType
  <2> QED
    BY <1>16, <2>1, <2>2, <2>3 DEF Interrupts
<1> QED
  BY <1>1, <1>2, <1>3, <1>4, <1>5, <1>6, <1>7, <1>8, <1>9, <1>10, <1>11, <1>12,
     <1>13, <1>14, <1>15, <1>16 DEF Next

----------------------------------------------------------------------------
(* A program runs, and calls, on a VGA that has been reset.                *)
LEMMA CallStep ==
    ASSUME CallInv, [Next]_vars
    PROVE  CallInv'
<1> USE DEF CallInv, SetUp
<1>1. CASE UNCHANGED vars
  BY <1>1 DEF vars
<1>2. CASE Ask \/ ResetAgain \/ VgaTaskReset \/ VgaTaskLost \/ Run \/ RunConnects
  BY <1>2 DEF Ask, ResetAgain, VgaTaskReset, VgaTaskLost, Run, RunConnects
<1>3. CASE PixApiXreg
  <2>1. CASE Refuse \/ Acked \/ Naked \/ Timeout
    BY <2>1 DEF Refuse, Acked, Naked, Timeout, Answer, GiveUp
  <2>2. ASSUME NEW c \in Calls, Setup(c[1], c[2], c[3])
        PROVE  CallInv'
    BY <2>2 DEF Setup, Idle, Working
  <2>3. CASE Send
    <3>1. busy /\ UNCHANGED <<machine, needsReset>>
      BY <2>3 DEF Send, Working
    <3>2. busy' \/ (~busy' /\ left' = 0 /\ api' = "running")
      BY <2>3 DEF Send, Working, GiveUp
    <3> QED
      BY <3>1, <3>2
  <2> QED
    BY <1>3, <2>1, <2>2, <2>3 DEF PixApiXreg
<1>4. CASE Stop
  BY <1>4 DEF Stop, GiveUp
<1>5. CASE PixTask
  BY <1>5 DEF PixTask, TakeCanvas, TakeMode, TakeArgument, TakeDisplay, TakeDetach, Take
<1>6. CASE RiaTask \/ RiaVsync \/ LockoutBegins \/ LockoutEnds \/ VgaDies \/ VgaBoots \/ PixDrops
  <2>1. UNCHANGED ria
    BY <1>6 DEF RiaTask, RiaVsync, LockoutBegins, LockoutEnds, VgaDies, VgaBoots, PixDrops
  <2> QED
    BY <2>1
<1>7. CASE Interrupts
  BY <1>7 DEF Interrupts, ReceiveVsync, ReceiveAnswer, Arm, BitFires, Disarm
<1> QED
  BY <1>1, <1>2, <1>3, <1>4, <1>5, <1>6, <1>7 DEF Next

----------------------------------------------------------------------------
(* The canvas a VGA with canvas v will have when it has taken p.           *)
Leads(p, v, c) ==
    \/ c = v /\ \A i \in DOMAIN p : ~SetsCanvas(p[i])
    \/ \E i \in DOMAIN p :
          /\ SetsCanvas(p[i]) /\ c = p[i].word
          /\ \A j \in DOMAIN p : j > i => ~SetsCanvas(p[j])

LEMMA LeadsWillBe == \A c : WillBe(c) <=> Leads(pix, vga.canvas, c)
BY DEF WillBe, Leads

LEMMA LeadsSame ==
    ASSUME NEW p, NEW q, NEW v, NEW c, Leads(p, v, c), DOMAIN q = DOMAIN p,
           \A i \in DOMAIN p : q[i].reg = p[i].reg /\ q[i].word = p[i].word
    PROVE  Leads(q, v, c)
BY DEF Leads, SetsCanvas

LEMMA LeadsPut ==
    ASSUME NEW p \in Seq(Message), NEW m \in Message, NEW v, NEW c
    PROVE  /\ SetsCanvas(m) => Leads(Append(p, m), v, m.word)
           /\ ~SetsCanvas(m) /\ Leads(p, v, c) => Leads(Append(p, m), v, c)
<1> DEFINE q == Append(p, m)
<1>1. /\ DOMAIN q = 1..(Len(p) + 1) /\ DOMAIN p = 1..Len(p) /\ Len(p) \in Nat
      /\ \A i \in 1..Len(p) : q[i] = p[i]
      /\ q[Len(p) + 1] = m
  BY PutFacts
<1> HIDE DEF q
<1>2. ASSUME SetsCanvas(m) PROVE Leads(q, v, m.word)
  <2>1. SetsCanvas(q[Len(p) + 1]) /\ m.word = q[Len(p) + 1].word
    BY <1>1, <1>2
  <2> QED
    BY <1>1, <2>1 DEF Leads
<1>3. ASSUME ~SetsCanvas(m), Leads(p, v, c) PROVE Leads(q, v, c)
  <2>1. \A i \in DOMAIN q : SetsCanvas(q[i]) => i \in DOMAIN p /\ SetsCanvas(p[i])
    BY <1>1, <1>3
  <2>2. CASE c = v /\ \A i \in DOMAIN p : ~SetsCanvas(p[i])
    BY <2>1, <2>2 DEF Leads
  <2>3. CASE \E i \in DOMAIN p :
          /\ SetsCanvas(p[i]) /\ c = p[i].word
          /\ \A j \in DOMAIN p : j > i => ~SetsCanvas(p[j])
    <3>1. PICK i \in DOMAIN p :
          /\ SetsCanvas(p[i]) /\ c = p[i].word
          /\ \A j \in DOMAIN p : j > i => ~SetsCanvas(p[j])
      BY <2>3
    <3>2. i \in DOMAIN q /\ q[i] = p[i]
      BY <1>1
    <3> QED
      BY <2>1, <3>1, <3>2 DEF Leads
  <2> QED
    BY <1>3, <2>2, <2>3 DEF Leads
<1> QED
  BY <1>2, <1>3 DEF q

LEMMA LeadsTake ==
    ASSUME NEW p \in Seq(Message), p # <<>>, NEW v, NEW c, Leads(p, v, c)
    PROVE  /\ SetsCanvas(Head(p)) => Leads(Tail(p), Head(p).word, c)
           /\ ~SetsCanvas(Head(p)) => Leads(Tail(p), v, c)
<1> DEFINE q == Tail(p)
<1>1. /\ DOMAIN q = 1..(Len(p) - 1) /\ DOMAIN p = 1..Len(p) /\ Len(p) \in Nat \ {0}
      /\ \A i \in 1..(Len(p) - 1) : q[i] = p[i + 1]
      /\ Head(p) = p[1]
  BY TakeFacts
<1> HIDE DEF q
<1>2. CASE c = v /\ \A i \in DOMAIN p : ~SetsCanvas(p[i])
  <2>1. ~SetsCanvas(Head(p)) /\ \A i \in DOMAIN q : ~SetsCanvas(q[i])
    BY <1>1, <1>2
  <2> QED
    BY <1>2, <2>1 DEF Leads, q
<1>3. CASE \E i \in DOMAIN p :
          /\ SetsCanvas(p[i]) /\ c = p[i].word
          /\ \A j \in DOMAIN p : j > i => ~SetsCanvas(p[j])
  <2>1. PICK i \in DOMAIN p :
          /\ SetsCanvas(p[i]) /\ c = p[i].word
          /\ \A j \in DOMAIN p : j > i => ~SetsCanvas(p[j])
    BY <1>3
  <2>2. CASE i = 1
    <3>1. \A j \in DOMAIN q : ~SetsCanvas(q[j])
      BY <1>1, <2>1, <2>2
    <3> QED
      BY <1>1, <2>1, <2>2, <3>1 DEF Leads, q
  <2>3. CASE i # 1
    <3>1. i - 1 \in DOMAIN q /\ q[i - 1] = p[i]
      BY <1>1, <2>3
    <3>2. \A j \in DOMAIN q : j > i - 1 => ~SetsCanvas(q[j])
      BY <1>1, <2>1
    <3>3. \A u : Leads(q, u, c)
      BY <2>1, <3>1, <3>2 DEF Leads
    <3> QED
      BY <3>3 DEF q
  <2> QED
    BY <2>2, <2>3
<1> QED
  BY <1>2, <1>3 DEF Leads

(* A display order names the console.                                      *)
DisplayInv == \A i \in DOMAIN pix : pix[i].reg = "display" => pix[i].word = Console

(* An action that leaves PIX alone, or makes strays or old ones of what is *)
(* in it, and leaves both canvases alone.                                  *)
LEMMA CanvasFrame ==
    ASSUME CanvasInv, DOMAIN pix' = DOMAIN pix,
           \A i \in DOMAIN pix : pix'[i].reg = pix[i].reg /\ pix'[i].word = pix[i].word,
           canvas' = canvas, mirrored' = mirrored, vga'.canvas = vga.canvas,
           ~vga'.on => vga' = Blank(FALSE)
    PROVE  CanvasInv'
<1>1. ASSUME mirrored' PROVE WillBe(canvas)'
  <2>1. Leads(pix, vga.canvas, canvas)
    BY <1>1, LeadsWillBe DEF CanvasInv
  <2>2. Leads(pix', vga'.canvas, canvas')
    BY <2>1, LeadsSame
  <2> QED
    BY <2>2 DEF WillBe, Leads
<1> QED
  BY <1>1 DEF CanvasInv

(* A message m is put at the end of PIX.                                   *)
LEMMA CanvasPut ==
    ASSUME CanvasInv, TypeOK, NEW p \in Seq(Message), NEW m \in Message,
           p = Append(pix, m), DOMAIN pix' = DOMAIN p,
           \A i \in DOMAIN p : pix'[i].reg = p[i].reg /\ pix'[i].word = p[i].word,
           m.reg = "display" => m.word = Console,
           canvas' = IF SetsCanvas(m) THEN m.word ELSE canvas,
           mirrored' = mirrored \/ SetsCanvas(m), vga' = vga
    PROVE  CanvasInv'
<1>1. pix \in Seq(Message)
  BY DEF TypeOK
<1>2. ASSUME mirrored' PROVE WillBe(canvas)'
  <2>1. CASE SetsCanvas(m)
    <3>1. Leads(p, vga.canvas, canvas')
      BY <2>1, <1>1, LeadsPut
    <3>2. Leads(pix', vga.canvas, canvas')
      BY <3>1, LeadsSame
    <3> QED
      BY <3>2 DEF WillBe, Leads
  <2>2. CASE ~SetsCanvas(m)
    <3>1. Leads(pix, vga.canvas, canvas)
      BY <1>2, <2>2, LeadsWillBe DEF CanvasInv
    <3>2. Leads(p, vga.canvas, canvas')
      BY <3>1, <2>2, <1>1, LeadsPut
    <3>3. Leads(pix', vga.canvas, canvas')
      BY <3>2, LeadsSame
    <3> QED
      BY <3>3 DEF WillBe, Leads
  <2> QED
    BY <2>1, <2>2
<1>3. DisplayInv'
  BY <1>1, PutFacts DEF CanvasInv, DisplayInv
<1> QED
  BY <1>2, <1>3 DEF CanvasInv, DisplayInv

(* The VGA, or nobody, takes the message at the front of PIX.              *)
LEMMA CanvasTake ==
    ASSUME CanvasInv, TypeOK, pix # <<>>, pix' = Tail(pix), canvas' = canvas,
           mirrored' => mirrored,
           mirrored' => vga'.canvas = IF SetsCanvas(Head(pix)) THEN Head(pix).word
                                                               ELSE vga.canvas,
           ~vga'.on => vga' = Blank(FALSE)
    PROVE  CanvasInv'
<1>1. pix \in Seq(Message)
  BY DEF TypeOK
<1>2. ASSUME mirrored' PROVE WillBe(canvas)'
  <2>1. Leads(pix, vga.canvas, canvas)
    BY <1>2, LeadsWillBe DEF CanvasInv
  <2>2. Leads(pix', vga'.canvas, canvas')
    BY <2>1, <1>1, <1>2, LeadsTake
  <2> QED
    BY <2>2 DEF WillBe, Leads
<1>3. DisplayInv'
  BY <1>1, TakeFacts DEF CanvasInv, DisplayInv
<1> QED
  BY <1>2, <1>3 DEF CanvasInv, DisplayInv

LEMMA GiveUpFacts ==
    ASSUME TypeOK, NEW p \in Seq(Message), NEW r, GiveUp(r, p)
    PROVE  /\ pix' \in Seq(Message) /\ DOMAIN pix' = DOMAIN p /\ Len(pix') = Len(p)
           /\ \A i \in DOMAIN p :
                 /\ pix'[i].reg = p[i].reg /\ pix'[i].word = p[i].word
                 /\ pix'[i].new = p[i].new /\ pix'[i].mine = FALSE
           /\ wire' \in Seq(Byte) /\ DOMAIN wire' = DOMAIN wire /\ Len(wire') = Len(wire)
           /\ \A i \in DOMAIN wire : wire'[i].is = wire[i].is /\ wire'[i].mine = FALSE
           /\ held'.mine = FALSE /\ held'.is = held.is
           /\ held' = Nothing <=> held = Nothing
<1>1. pix' = StrayAll(p) /\ wire' = StrayAll(wire) /\ held' = Stray(held)
  BY DEF GiveUp
<1>2. wire \in Seq(Byte)
  BY DEF TypeOK
<1> QED
  BY <1>1, <1>2, StrayFacts, StrayByteFacts, StrayHeld

(* A call puts register r on PIX.                                          *)
LEMMA CanvasRegister ==
    ASSUME CanvasInv, TypeOK, NEW r \in Regs, NEW w \in Words, SetCanvas(r, w),
           DOMAIN pix' = DOMAIN Put(r, w),
           \A i \in DOMAIN Put(r, w) :
              pix'[i].reg = Put(r, w)[i].reg /\ pix'[i].word = Put(r, w)[i].word,
           mirrored' = mirrored, vga' = vga
    PROVE  CanvasInv'
<1> DEFINE m == Register(r, w)
<1>1. /\ m \in Message /\ Put(r, w) = Append(pix, m) /\ m.reg = r
      /\ r = "canvas" => m.word = w
  BY RegisterIsMessage
<1> HIDE DEF m
<1>2. r # "display"
  BY DEF Regs, Key
<1>3. pix \in Seq(Message) /\ Append(pix, m) \in Seq(Message)
  BY <1>1, PutFacts DEF TypeOK
<1>4. canvas' = IF SetsCanvas(m) THEN m.word ELSE canvas
  BY <1>1, <1>2 DEF SetCanvas, SetsCanvas
<1>5. CASE mirrored' = (mirrored \/ SetsCanvas(m))
  BY <1>1, <1>2, <1>3, <1>4, <1>5, CanvasPut
<1>6. CASE ~mirrored' /\ SetsCanvas(m)
  <2>1. DisplayInv'
    BY <1>1, <1>2, <1>3, PutFacts DEF CanvasInv, DisplayInv
  <2> QED
    BY <2>1, <1>6 DEF CanvasInv, DisplayInv
<1> QED
  BY <1>5, <1>6 DEF TypeOK

LEMMA CanvasStep ==
    ASSUME TypeOK, CanvasInv, [Next]_vars
    PROVE  CanvasInv'
<1>x. pix \in Seq(Message) /\ call.word \in Words
  BY DEF TypeOK
<1>b. ~vga.on => vga = Blank(FALSE)
  BY DEF CanvasInv
<1>a. Aged.canvas = vga.canvas /\ Aged.on = vga.on /\ (vga = Blank(FALSE) => Aged = vga)
  <2>1. \A v \in VgaType : v.args = {} /\ v.drawn = {} =>
                            [v EXCEPT !.args = {}, !.drawn = {}] = v
    BY DEF VgaType
  <2>2. vga \in VgaType
    BY DEF TypeOK, VgaType
  <2>3. Aged.canvas = vga.canvas /\ Aged.on = vga.on
    BY <2>2 DEF Aged, VgaType
  <2>4. Blank(FALSE).args = {} /\ Blank(FALSE).drawn = {} /\ OldTags({}) = {}
    BY DEF Blank, OldTags
  <2>5. ASSUME vga = Blank(FALSE) PROVE Aged = vga
    <3>1. vga.args = {} /\ vga.drawn = {}
      BY <2>4, <2>5
    <3>2. Aged = [vga EXCEPT !.args = {}, !.drawn = {}]
      BY <3>1, <2>4 DEF Aged
    <3> QED
      BY <2>1, <2>2, <3>1, <3>2
  <2> QED
    BY <2>3, <2>5
<1>1. CASE \/ UNCHANGED <<pix, canvas, mirrored, vga>>
           \/ pix' = StrayAll(pix) /\ UNCHANGED <<canvas, mirrored, vga>>
  BY <1>1, <1>x, <1>b, StrayFacts, CanvasFrame
<1>3. CASE PixApiXreg
  <2>1. CASE Refuse \/ Acked \/ Naked \/ Timeout
    <3>1. pix' = StrayAll(pix) /\ UNCHANGED <<canvas, mirrored, vga>>
      BY <2>1 DEF Refuse, Acked, Naked, Timeout, Answer, GiveUp
    <3> QED
      BY <3>1, <1>1
  <2>2. ASSUME NEW c \in Calls, Setup(c[1], c[2], c[3])
        PROVE  CanvasInv'
    <3>1. c[3] \in Words /\ "canvas" \in Regs
      BY DEF Calls, Regs, Key
    <3>2. CASE c[1] = 0 /\ c[2] > 1
      <4>1. /\ pix' = Put("canvas", c[3]) /\ SetCanvas("canvas", c[3])
            /\ mirrored' = mirrored /\ vga' = vga
        BY <2>2, <3>2 DEF Setup, Working
      <4> QED
        BY <3>1, <4>1, CanvasRegister
    <3>3. CASE ~(c[1] = 0 /\ c[2] > 1)
      BY <2>2, <3>3, <1>1 DEF Setup, Working
    <3> QED
      BY <3>2, <3>3
  <2>3. CASE Send
    <3> DEFINE r == RegAt(call.first + left - 1)
    <3>1. r \in Regs
      BY DEF RegAt, Regs, Key
    <3>2. CASE r \in Key \/ left > 1
      <4>1. /\ pix' = Put(r, call.word) /\ SetCanvas(r, call.word)
            /\ mirrored' = mirrored /\ vga' = vga
        BY <2>3, <3>2 DEF Send, Working
      <4> QED
        BY <3>1, <4>1, <1>x, CanvasRegister
    <3>3. CASE ~(r \in Key \/ left > 1)
      <4>1. GiveUp("ok", Put(r, call.word)) /\ canvas' = canvas
        BY <2>3, <3>3 DEF Send
      <4>2. Put(r, call.word) \in Seq(Message)
        <5>1. /\ Register(r, call.word) \in Message
              /\ Put(r, call.word) = Append(pix, Register(r, call.word))
          BY <3>1, <1>x, RegisterIsMessage
        <5> QED
          BY <1>x, <5>1, PutFacts
      <4>3. SetCanvas(r, call.word) /\ mirrored' = mirrored /\ vga' = vga
        BY <4>1, <3>3 DEF SetCanvas, Key, GiveUp
      <4> QED
        BY <3>1, <1>x, <4>1, <4>2, <4>3, GiveUpFacts, CanvasRegister
    <3> QED
      BY <3>2, <3>3
  <2> QED
    BY <1>3, <2>1, <2>2, <2>3 DEF PixApiXreg
<1>4. CASE VgaTaskReset
  <2>1. Order("display") \in Message /\ SetsCanvas(Order("display"))
        /\ Order("display").word = Console
    BY OrderIsMessage DEF SetsCanvas
  <2>2. pix' = Append(pix, Order("display")) /\ canvas' = Console /\ mirrored' = TRUE
        /\ vga' = vga
    BY <1>4 DEF VgaTaskReset
  <2> QED
    BY <2>1, <2>2, <1>x, PutFacts, CanvasPut
<1>5. CASE VgaTaskLost
  <2>1. Order("detach") \in Message /\ ~SetsCanvas(Order("detach"))
        /\ Order("detach").reg # "display"
    BY OrderIsMessage DEF SetsCanvas
  <2>2. pix' = Append(pix, Order("detach")) /\ canvas' = canvas /\ mirrored' = mirrored
        /\ vga' = vga
    BY <1>5 DEF VgaTaskLost
  <2> QED
    BY <2>1, <2>2, <1>x, PutFacts, CanvasPut DEF TypeOK
<1>6. CASE Run
  <2>1. vga' = Aged
    BY <1>6 DEF Run
  <2> QED
    BY <1>6, <2>1, <1>a, <1>x, <1>b, OldFacts, CanvasFrame DEF Run
<1>7. CASE RunConnects
  <2>1. CASE vga.on
    <3>1. vga' = [Aged EXCEPT !.attached = TRUE] /\ UNCHANGED <<pix, canvas, mirrored>>
      BY <1>7, <2>1 DEF RunConnects
    <3>2. vga'.canvas = vga.canvas /\ vga'.on = vga.on
      BY <3>1, <1>a DEF TypeOK, Aged
    <3> QED
      BY <3>1, <3>2, <2>1, CanvasFrame
  <2>2. CASE ~vga.on
    <3>1. Order("detach") \in Message /\ ~SetsCanvas(Order("detach"))
          /\ Order("detach").reg # "display"
      BY OrderIsMessage DEF SetsCanvas
    <3>2. pix' = Append(pix, Order("detach")) /\ canvas' = canvas /\ mirrored' = mirrored
          /\ vga' = vga
      BY <1>7, <2>2 DEF RunConnects
    <3> QED
      BY <3>1, <3>2, <1>x, PutFacts, CanvasPut DEF TypeOK
  <2> QED
    BY <2>1, <2>2
<1>8. CASE PixTask
  <2>t. vga \in VgaType
    BY DEF TypeOK, VgaType
  <2>1. CASE TakeCanvas
    <3>1. /\ pix # <<>> /\ pix' = Tail(pix) /\ Msg.reg = "canvas" /\ vga.on
          /\ UNCHANGED <<canvas, mirrored>>
      BY <2>1 DEF TakeCanvas, Take
    <3>2. /\ Msg.word = Bad => vga' = [vga EXCEPT !.args = {}]
          /\ Msg.word # Bad => \E d : vga' = [vga EXCEPT !.args = {}, !.canvas = Msg.word, !.drawn = d]
      BY <2>1 DEF TakeCanvas
    <3>3. vga'.on = vga.on /\ vga'.canvas = IF SetsCanvas(Msg) THEN Msg.word ELSE vga.canvas
      BY <3>1, <3>2, <2>t DEF SetsCanvas, VgaType
    <3> QED
      BY <3>1, <3>3, CanvasTake DEF Msg
  <2>2. CASE TakeMode \/ TakeArgument
    <3>1. /\ pix # <<>> /\ pix' = Tail(pix) /\ ~SetsCanvas(Msg) /\ vga.on
          /\ UNCHANGED <<canvas, mirrored>>
      BY <2>2 DEF TakeMode, TakeArgument, Take, SetsCanvas
    <3>2. \E a, d : vga' = [vga EXCEPT !.args = a] \/ vga' = [vga EXCEPT !.args = a, !.drawn = d]
      BY <2>2 DEF TakeMode, TakeArgument
    <3>3. vga'.on = vga.on /\ vga'.canvas = vga.canvas
      BY <3>2, <2>t DEF VgaType
    <3> QED
      BY <3>1, <3>3, CanvasTake DEF Msg
  <2>3. CASE TakeDisplay
    <3>1. /\ pix # <<>> /\ pix' = Tail(pix) /\ Msg.reg = "display" /\ vga.on
          /\ UNCHANGED <<canvas, mirrored>>
          /\ vga' = [vga EXCEPT !.args = {}, !.drawn = {}, !.canvas = Console]
      BY <2>3 DEF TakeDisplay, Take
    <3>2. Msg.word = Console
      BY <3>1, <1>x, TakeFacts DEF Msg, CanvasInv
    <3>3. vga'.on = vga.on /\ vga'.canvas = Console
      BY <3>1, <2>t DEF VgaType
    <3> QED
      BY <3>1, <3>2, <3>3, CanvasTake DEF Msg, SetsCanvas
  <2>4. CASE TakeDetach
    <3>1. /\ pix # <<>> /\ pix' = Tail(pix) /\ Msg.reg = "detach" /\ vga.on
          /\ UNCHANGED <<canvas, mirrored>> /\ vga' = [vga EXCEPT !.attached = FALSE]
      BY <2>4 DEF TakeDetach
    <3>2. vga'.on = vga.on /\ vga'.canvas = vga.canvas /\ ~SetsCanvas(Msg)
      BY <3>1, <2>t DEF VgaType, SetsCanvas
    <3> QED
      BY <3>1, <3>2, CanvasTake DEF Msg
  <2> QED
    BY <1>8, <2>1, <2>2, <2>3, <2>4 DEF PixTask
<1>9. CASE VgaDies
  BY <1>9 DEF VgaDies, CanvasInv
<1>14. CASE VgaBoots
  <2>1. Blank(TRUE).canvas = Blank(FALSE).canvas /\ Blank(TRUE).on
    BY DEF Blank
  <2>2. vga' = Blank(TRUE) /\ vga = Blank(FALSE) /\ UNCHANGED <<pix, canvas, mirrored>>
    BY <1>14, <1>b DEF VgaBoots
  <2> QED
    BY <2>1, <2>2, CanvasFrame
<1>15. CASE PixDrops
  <2>1. /\ pix # <<>> /\ pix' = Tail(pix) /\ UNCHANGED <<canvas, vga>>
        /\ vga = Blank(FALSE)
        /\ mirrored' => mirrored /\ Head(pix) \in Orders
    BY <1>15, <1>b DEF PixDrops
  <2>b. Blank(FALSE).canvas = Console
    BY DEF Blank
  <2>2. vga.canvas = Console
    BY <2>1, <2>b
  <2>o. \A o \in Orders : o.word = Console
    BY OrderIsMessage DEF Orders
  <2>3. mirrored' => mirrored /\ vga'.canvas = IF SetsCanvas(Head(pix)) THEN Head(pix).word
                                                                      ELSE vga.canvas
    BY <2>1, <2>2, <2>o
  <2>4. pix # <<>> /\ pix' = Tail(pix) /\ canvas' = canvas /\ vga' = Blank(FALSE)
    BY <2>1
  <2> QED
    BY <2>3, <2>4, CanvasTake
<1>10. CASE Stop
  BY <1>10, <1>1 DEF Stop, GiveUp
<1>11. CASE UNCHANGED vars
  BY <1>11, <1>1 DEF vars
<1>12. CASE Ask \/ ResetAgain \/ RiaTask \/ RiaVsync \/ LockoutBegins \/ LockoutEnds
  BY <1>12, <1>1 DEF Ask, ResetAgain, RiaTask, RiaVsync, LockoutBegins, LockoutEnds
<1>13. CASE Interrupts
  BY <1>13, <1>1 DEF Interrupts, ReceiveVsync, ReceiveAnswer, Arm, BitFires, Disarm
<1> QED
  BY <1>3, <1>4, <1>5, <1>6, <1>7, <1>8, <1>9, <1>10, <1>11, <1>12, <1>13,
     <1>14, <1>15 DEF Next

----------------------------------------------------------------------------
(* What becomes of the VGA's power and its backchannel's pin.              *)
LEMMA PowerFacts ==
    ASSUME TypeOK, [Next]_vars
    PROVE  \/ VgaDies \/ VgaBoots \/ RunConnects \/ TakeDetach
           \/ vga'.on = vga.on /\ vga'.attached = vga.attached
<1>t. vga \in VgaType
  BY DEF TypeOK, VgaType
<1>1. CASE vga' = vga
  BY <1>1
<1>2. CASE PixTask
  <2>1. CASE TakeCanvas \/ TakeMode \/ TakeArgument \/ TakeDisplay
    <3>1. \E a, c, d : \/ vga' = [vga EXCEPT !.args = a]
                       \/ vga' = [vga EXCEPT !.args = a, !.drawn = d]
                       \/ vga' = [vga EXCEPT !.args = a, !.canvas = c, !.drawn = d]
                       \/ vga' = [vga EXCEPT !.args = a, !.drawn = d, !.canvas = c]
      BY <2>1, Zenon DEF TakeCanvas, TakeMode, TakeArgument, TakeDisplay
    <3> QED
      BY <3>1, <1>t DEF VgaType
  <2> QED
    BY <1>2, <2>1 DEF PixTask
<1>3. CASE Run
  BY <1>3, <1>t DEF Run, Aged, VgaType
<1>4. CASE PixApiXreg
  <2>1. ASSUME NEW c \in Calls, Setup(c[1], c[2], c[3]) PROVE vga' = vga
    BY <2>1 DEF Setup, Working
  <2>2. CASE Send
    BY <2>2, <1>1 DEF Send, Working, GiveUp
  <2> QED
    BY <1>4, <1>1, <2>1, <2>2
       DEF PixApiXreg, Refuse, Acked, Naked, Timeout, Answer, GiveUp
<1>5. CASE UNCHANGED vars \/ Ask \/ Stop \/ ResetAgain \/ VgaTaskReset \/ VgaTaskLost
  BY <1>5, <1>1 DEF vars, Ask, Stop, GiveUp, ResetAgain, VgaTaskReset, VgaTaskLost
<1>6. CASE RiaTask \/ RiaVsync \/ LockoutBegins \/ LockoutEnds \/ PixDrops
  BY <1>6, <1>1 DEF RiaTask, RiaVsync, LockoutBegins, LockoutEnds, PixDrops
<1>7. CASE Interrupts
  BY <1>7, <1>1 DEF Interrupts, ReceiveVsync, ReceiveAnswer, Arm, BitFires, Disarm
<1> QED
  BY <1>2, <1>3, <1>4, <1>5, <1>6, <1>7 DEF Next

(* How the wire can change: bytes become strays, one is put at the end,    *)
(* the first is taken, or the VGA dies.                                    *)
LEMMA WireFacts ==
    ASSUME TypeOK, [Next]_vars
    PROVE  \/ wire' = wire \/ wire' = StrayAll(wire)
           \/ vga.attached /\ (RiaTask \/ RiaVsync \/ TakeCanvas \/ TakeMode)
           \/ wire # <<>> /\ wire' = Tail(wire)
           \/ VgaDies /\ wire' = <<>>
<1>1. CASE RiaTask \/ RiaVsync
  BY <1>1 DEF RiaTask, RiaVsync, Emit
<1>2. CASE PixTask
  BY <1>2 DEF PixTask, TakeCanvas, TakeMode, Reply, RiaSend, Emit,
              TakeArgument, TakeDisplay, TakeDetach
<1>3. CASE PixApiXreg
  <2>1. ASSUME NEW c \in Calls, Setup(c[1], c[2], c[3]) PROVE wire' = wire
    BY <2>1 DEF Setup, Working
  <2>2. CASE Send
    BY <2>2 DEF Send, Working, GiveUp
  <2> QED
    BY <1>3, <2>1, <2>2 DEF PixApiXreg, Refuse, Acked, Naked, Timeout, Answer, GiveUp
<1>4. CASE UNCHANGED vars \/ Ask \/ Stop \/ ResetAgain \/ VgaTaskReset \/ VgaTaskLost
           \/ Run \/ RunConnects
  BY <1>4 DEF vars, Ask, Stop, GiveUp, ResetAgain, VgaTaskReset, VgaTaskLost, Run, RunConnects
<1>5. CASE LockoutBegins \/ LockoutEnds \/ VgaDies \/ VgaBoots \/ PixDrops
  BY <1>5 DEF LockoutBegins, LockoutEnds, VgaDies, VgaBoots, PixDrops
<1>6. CASE Interrupts
  BY <1>6 DEF Interrupts, ReceiveVsync, ReceiveAnswer, Received, Arm, BitFires, Disarm
<1> QED
  BY <1>1, <1>2, <1>3, <1>4, <1>5, <1>6 DEF Next

(* How PIX can change: nothing new is in it, a program's register is put   *)
(* at the end, an order of the RIA is, or the first message is taken.      *)
LEMMA PixFacts ==
    ASSUME TypeOK, CallInv, [Next]_vars
    PROVE  \/ pix' = pix \/ pix' = StrayAll(pix)
           \/ Run /\ pix' = Old(pix)
           \/ \E r \in Regs, w \in Words :
                 /\ machine = "up" /\ machine' = "up" /\ vga' = vga
                 /\ pix' = Put(r, w) \/ pix' = StrayAll(Put(r, w))
           \/ VgaTaskReset /\ pix' = Append(pix, Order("display"))
           \/ VgaTaskLost /\ pix' = Append(pix, Order("detach"))
           \/ RunConnects /\ ~vga.on /\ pix' = Append(pix, Order("detach"))
           \/ (PixTask \/ PixDrops) /\ pix # <<>> /\ pix' = Tail(pix)
<1>1. CASE UNCHANGED vars \/ Ask \/ Stop \/ ResetAgain \/ VgaTaskReset \/ VgaTaskLost
           \/ Run
  BY <1>1 DEF vars, Ask, Stop, GiveUp, ResetAgain, VgaTaskReset, VgaTaskLost, Run
<1>2. CASE RunConnects
  <2>1. ~vga.on => pix' = <<Order("detach")>> /\ pix = <<>>
    BY <1>2 DEF RunConnects
  <2>2. Append(<<>>, Order("detach")) = <<Order("detach")>>
    OBVIOUS
  <2> QED
    BY <1>2, <2>1, <2>2 DEF RunConnects
<1>3. CASE PixApiXreg
  <2>1. CASE Refuse \/ Acked \/ Naked \/ Timeout
    BY <2>1 DEF Refuse, Acked, Naked, Timeout, Answer, GiveUp
  <2>2. ASSUME NEW c \in Calls, Setup(c[1], c[2], c[3])
        PROVE  \/ pix' = pix
               \/ \E r \in Regs, w \in Words :
                     machine = "up" /\ machine' = "up" /\ vga' = vga /\ pix' = Put(r, w)
    <3>1. c[3] \in Words /\ "canvas" \in Regs
      BY DEF Calls, Regs, Key
    <3>2. machine = "up" /\ machine' = "up" /\ vga' = vga
      BY <2>2 DEF Setup, Idle, CallInv, Working
    <3>3. pix' = pix \/ pix' = Put("canvas", c[3])
      BY <2>2 DEF Setup
    <3> QED
      BY <3>1, <3>2, <3>3
  <2>3. CASE Send
    <3> DEFINE r == RegAt(call.first + left - 1)
    <3>1. r \in Regs /\ call.word \in Words
      BY DEF RegAt, Regs, Key, TypeOK
    <3>2. machine = "up" /\ machine' = "up" /\ vga' = vga
      BY <2>3 DEF Send, Working, GiveUp, CallInv
    <3>3. pix' = Put(r, call.word) \/ pix' = StrayAll(Put(r, call.word))
      BY <2>3 DEF Send, GiveUp
    <3> QED
      BY <3>1, <3>2, <3>3
  <2> QED
    BY <1>3, <2>1, <2>2, <2>3 DEF PixApiXreg
<1>4. CASE PixTask \/ PixDrops
  BY <1>4 DEF PixTask, TakeCanvas, TakeMode, TakeArgument, TakeDisplay, TakeDetach, Take,
              PixDrops
<1>5. CASE RiaTask \/ RiaVsync \/ LockoutBegins \/ LockoutEnds \/ VgaDies \/ VgaBoots
  BY <1>5 DEF RiaTask, RiaVsync, LockoutBegins, LockoutEnds, VgaDies, VgaBoots
<1>6. CASE Interrupts
  BY <1>6 DEF Interrupts, ReceiveVsync, ReceiveAnswer, Arm, BitFires, Disarm
<1> QED
  BY <1>1, <1>2, <1>3, <1>4, <1>5, <1>6 DEF Next

(* What PIX holds was there before, or was put there.                      *)
LEMMA PixOrigin ==
    ASSUME TypeOK, CallInv, [Next]_vars, NEW i \in DOMAIN pix'
    PROVE  \/ \E j \in DOMAIN pix : pix'[i].reg = pix[j].reg
           \/ pix'[i].reg \in Regs
           \/ VgaTaskReset /\ pix'[i].reg = "display"
           \/ VgaTaskLost \/ (RunConnects /\ ~vga.on)
<1>x. pix \in Seq(Message)
  BY DEF TypeOK
<1>p. ASSUME NEW m \in Message, NEW k \in DOMAIN Append(pix, m)
      PROVE  (\E j \in DOMAIN pix : Append(pix, m)[k].reg = pix[j].reg)
             \/ Append(pix, m)[k].reg = m.reg
  BY <1>x, PutFacts
<1>1. CASE pix' = pix \/ pix' = StrayAll(pix) \/ pix' = Old(pix)
  <2>1. DOMAIN pix' = DOMAIN pix
    BY <1>1, <1>x, StrayFacts, OldFacts
  <2>2. \A j \in DOMAIN pix : StrayAll(pix)[j].reg = pix[j].reg /\ Old(pix)[j].reg = pix[j].reg
    BY <1>x, StrayFacts, OldFacts
  <2> QED
    BY <1>1, <2>1, <2>2
<1>2. ASSUME NEW r \in Regs, NEW w \in Words, pix' = Put(r, w) \/ pix' = StrayAll(Put(r, w))
      PROVE  (\E j \in DOMAIN pix : pix'[i].reg = pix[j].reg) \/ pix'[i].reg \in Regs
  <2> DEFINE m == Register(r, w)
  <2>1. m \in Message /\ Put(r, w) = Append(pix, m) /\ m.reg = r
    BY RegisterIsMessage
  <2> HIDE DEF m
  <2>2. Append(pix, m) \in Seq(Message)
    BY <2>1, <1>x, PutFacts
  <2> DEFINE p == Append(pix, m)
  <2> HIDE DEF p
  <2>4. DOMAIN StrayAll(p) = DOMAIN p /\ \A j \in DOMAIN p : StrayAll(p)[j].reg = p[j].reg
    BY <2>2, StrayFacts DEF p
  <2>5. pix' = p \/ pix' = StrayAll(p)
    BY <1>2, <2>1 DEF p
  <2>3. i \in DOMAIN p /\ pix'[i].reg = p[i].reg
    BY <2>4, <2>5
  <2> USE DEF p
  <2> QED
    BY <2>1, <2>3, <1>p
<1>3. CASE VgaTaskReset /\ pix' = Append(pix, Order("display"))
  BY <1>3, <1>p, OrderIsMessage
<1>4. CASE pix # <<>> /\ pix' = Tail(pix)
  BY <1>4, <1>x, TakeFacts
<1> QED
  BY <1>1, <1>2, <1>3, <1>4, PixFacts

LEMMA StateFacts ==
    ASSUME [Next]_vars
    PROVE  /\ state' = state \/ VgaTaskLost \/ RunConnects
           /\ deaths' = deaths \/ VgaDies
<1>1. CASE UNCHANGED vars \/ Ask \/ Stop \/ ResetAgain \/ VgaTaskReset \/ VgaTaskLost
           \/ Run \/ RunConnects
  BY <1>1 DEF vars, Ask, Stop, GiveUp, ResetAgain, VgaTaskReset, VgaTaskLost, Run, RunConnects
<1>2. CASE PixApiXreg
  <2>1. ASSUME NEW c \in Calls, Setup(c[1], c[2], c[3]) PROVE UNCHANGED <<state, deaths>>
    BY <2>1 DEF Setup, Working
  <2>2. CASE Send
    BY <2>2 DEF Send, Working, GiveUp
  <2> QED
    BY <1>2, <2>1, <2>2 DEF PixApiXreg, Refuse, Acked, Naked, Timeout, Answer, GiveUp
<1>3. CASE PixTask
  BY <1>3 DEF PixTask, TakeCanvas, TakeMode, TakeArgument, TakeDisplay, TakeDetach, Take
<1>4. CASE RiaTask \/ RiaVsync \/ LockoutBegins \/ LockoutEnds \/ VgaDies \/ VgaBoots \/ PixDrops
  BY <1>4 DEF RiaTask, RiaVsync, LockoutBegins, LockoutEnds, VgaDies, VgaBoots, PixDrops
<1>5. CASE Interrupts
  BY <1>5 DEF Interrupts, ReceiveVsync, ReceiveAnswer, Arm, BitFires, Disarm
<1> QED
  BY <1>1, <1>2, <1>3, <1>4, <1>5 DEF Next

(* Until the VGA dies, a VGA that was found is there.                      *)
LEMMA AttachedStep ==
    ASSUME TypeOK, CallInv, CanvasInv, AttachedInv, [Next]_vars
    PROVE  AttachedInv'
<1>w. wire \in Seq(Byte) /\ deaths \in Nat /\ vga \in VgaType
  BY DEF TypeOK, VgaType
<1>x. pix \in Seq(Message)
  BY DEF TypeOK
<1>d. VgaDies => deaths' # 0 /\ wire' = <<>> /\ ~vga'.attached
  BY <1>w DEF VgaDies, Blank
<1>b. VgaBoots => ~vga.on /\ ~vga.attached /\ ~vga'.attached /\ wire' = wire /\ pix' = pix
  BY DEF VgaBoots, CanvasInv, Blank
<1>c. RunConnects =>
        /\ pix = <<>> /\ wire' = wire /\ state = "lost"
        /\ (vga.on /\ vga'.attached /\ pix' = pix) \/ (~vga.on /\ vga' = vga)
  BY <1>w DEF RunConnects, Aged, VgaType
<1>t. TakeDetach => ~vga.attached /\ ~vga'.attached /\ wire' = wire
  <2>1. ASSUME TakeDetach PROVE pix # <<>> /\ Head(pix).reg = "detach" /\ wire' = wire
                               /\ vga' = [vga EXCEPT !.attached = FALSE]
    BY <2>1 DEF TakeDetach, Msg
  <2> QED
    BY <2>1, <1>x, <1>w, TakeFacts DEF AttachedInv, VgaType
<1>o. ~vga.on => ~vga.attached
  BY DEF CanvasInv, Blank
<1>1. (~vga.attached => wire = <<>>)'
  <2>1. CASE VgaDies \/ VgaBoots \/ RunConnects \/ TakeDetach
    BY <2>1, <1>d, <1>b, <1>c, <1>t DEF AttachedInv
  <2>2. CASE ~VgaDies /\ vga'.attached = vga.attached
    <3>1. SUFFICES ASSUME ~vga.attached PROVE wire' = <<>>
      BY <2>2
    <3>2. wire = <<>> /\ StrayAll(wire) = <<>>
      <4>1. wire = <<>> /\ DOMAIN wire = {}
        BY <3>1 DEF AttachedInv
      <4>2. StrayAll(wire) \in Seq(Byte) /\ Len(StrayAll(wire)) = Len(wire)
        BY <1>w, StrayByteFacts
      <4> QED
        BY <4>1, <4>2
    <3> QED
      BY <2>2, <3>1, <3>2, WireFacts
  <2> QED
    BY <2>1, <2>2, PowerFacts
<1>2. (\A i \in DOMAIN pix : pix[i].reg = "detach" => ~vga.attached)'
  <2>1. SUFFICES ASSUME NEW i \in DOMAIN pix', pix'[i].reg = "detach" PROVE ~vga'.attached
    OBVIOUS
  <2>2. "detach" \notin Regs
    BY DEF Regs, Key
  <2>3. CASE RunConnects /\ vga.on
    BY <1>c, <2>3, <2>1
  <2>4. CASE ~(RunConnects /\ vga.on)
    <3>1. VgaTaskLost => ~vga.attached
      BY DEF VgaTaskLost
    <3>2. ~vga.attached
      BY <2>1, <2>2, <2>4, <3>1, <1>o, PixOrigin DEF AttachedInv
    <3> QED
      BY <3>2, <2>4, <1>d, <1>b, <1>c, <1>t, PowerFacts
  <2> QED
    BY <2>3, <2>4
<1>3. (deaths = 0 => /\ state # "lost"
                     /\ state = "connected" => vga.on /\ vga.attached
                     /\ state = "notFound" => ~vga.attached)'
  <2>1. SUFFICES ASSUME deaths' = 0
                 PROVE  /\ state' # "lost"
                        /\ state' = "connected" => vga'.on /\ vga'.attached
                        /\ state' = "notFound" => ~vga'.attached
    OBVIOUS
  <2>2. deaths = 0 /\ ~VgaDies
    BY <2>1, <1>d, StateFacts
  <2>3. /\ state # "lost"
        /\ state = "connected" => vga.on /\ vga.attached
        /\ state = "notFound" => ~vga.attached
    BY <2>2 DEF AttachedInv
  <2>4. state' = state /\ ~RunConnects
    BY <2>3, <1>c, StateFacts DEF VgaTaskLost
  <2> QED
    BY <2>2, <2>3, <2>4, <1>b, <1>t, PowerFacts
<1> QED
  BY <1>1, <1>2, <1>3 DEF AttachedInv

----------------------------------------------------------------------------
(* A call is broken off, given up or answered: what it leaves is strays.   *)
LEMMA Breaks ==
    ASSUME TypeOK,
           \/ Refuse \/ Acked \/ Naked \/ Timeout \/ Stop
           \/ Send /\ ~(RegAt(call.first + left - 1) \in Key \/ left > 1)
    PROVE  \E r, p : p \in Seq(Message) /\ GiveUp(r, p)
<1>x. pix \in Seq(Message) /\ call.word \in Words
  BY DEF TypeOK
<1>1. CASE Refuse \/ Acked \/ Naked \/ Timeout \/ Stop
  BY <1>1, <1>x DEF Refuse, Acked, Naked, Timeout, Answer, Stop
<1>2. CASE Send /\ ~(RegAt(call.first + left - 1) \in Key \/ left > 1)
  <2> DEFINE r == RegAt(call.first + left - 1)
  <2>1. r \in Regs
    BY DEF RegAt, Regs, Key
  <2>2. Register(r, call.word) \in Message
        /\ Put(r, call.word) = Append(pix, Register(r, call.word))
    BY <2>1, <1>x, RegisterIsMessage
  <2>3. Put(r, call.word) \in Seq(Message)
    BY <2>2, <1>x, PutFacts
  <2> QED
    BY <1>2, <2>3 DEF Send
<1> QED
  BY <1>1, <1>2

LEMMA AfterBreak ==
    ASSUME TypeOK, NEW r, NEW p \in Seq(Message), GiveUp(r, p)
    PROVE  MineInv' /\ FlightInv' /\ VerdictInv'
<1>1. /\ \A i \in DOMAIN pix' : pix'[i].mine = FALSE
      /\ \A i \in DOMAIN wire' : wire'[i].mine = FALSE
      /\ held'.mine = FALSE
  BY GiveUpFacts
<1>2. ~SetUp'
  BY DEF GiveUp, SetUp
<1> QED
  BY <1>1, <1>2 DEF MineInv, FlightInv, VerdictInv

(* A register of a call that waits for its answer, or does not.            *)
Sends(r) ==
    /\ left > 0 /\ api \in {"running", "ack"} /\ r \in Regs
    /\ r \in Key \/ left > 1
    /\ pix' = Put(r, call.word)
    /\ left' = left - 1
    /\ api' = IF r \in Key THEN "waiting" ELSE "running"
    /\ verdict' = IF r \in Key THEN [verdict EXCEPT ![r] = "asked"] ELSE verdict
    /\ UNCHANGED <<muddled, held, wire, state, deaths>>

LEMMA SendFacts ==
    ASSUME Send, RegAt(call.first + left - 1) \in Key \/ left > 1
    PROVE  Sends(RegAt(call.first + left - 1))
<1>1. RegAt(call.first + left - 1) \in Regs
  BY DEF RegAt, Regs, Key
<1> QED
  BY <1>1 DEF Send, Sends, Working

(* What a call is set up to.                                               *)
SetsUp ==
    /\ ~SetUp /\ muddled' = Strays
    /\ UNCHANGED <<held, wire, state, deaths>>
    /\ \/ /\ \E w \in Words : pix' = Put("canvas", w)
          /\ api' = "waiting"
          /\ verdict' = [Untried EXCEPT !["canvas"] = "asked"]
       \/ pix' = pix /\ left' > 0 /\ api' = "running" /\ verdict' = Untried

LEMMA SetupFacts ==
    ASSUME NEW c \in Calls, Setup(c[1], c[2], c[3])
    PROVE  SetsUp
<1>1. c[3] \in Words /\ c[2] \in 1..MaxRegs
  BY DEF Calls
<1>2. CASE c[1] = 0 /\ c[2] > 1
  BY <1>1, <1>2 DEF Setup, Working, Idle, SetUp, SetsUp
<1>3. CASE ~(c[1] = 0 /\ c[2] > 1)
  <2>1. c[2] > 0
    BY <1>1
  <2> QED
    BY <2>1, <1>3 DEF Setup, Working, Idle, SetUp, SetsUp
<1> QED
  BY <1>2, <1>3

(* The VGA answers the message at the front of PIX: the answer is held, is *)
(* sent, or goes nowhere.                                                  *)
LEMMA ReplyFacts ==
    ASSUME TypeOK, pix # <<>>, NEW a \in Answers, Reply(a)
    PROVE  \E b \in Byte :
              /\ b.is = a /\ b.mine = Head(pix).mine /\ b # Nothing /\ b # Vsync
              /\ \/ phase = "locked" /\ held' = b /\ wire' = wire
                 \/ phase # "locked" /\ vga.attached /\ held' = held /\ wire' = Append(wire, b)
                 \/ phase # "locked" /\ ~vga.attached /\ held' = held /\ wire' = wire
              /\ verdict' = IF Head(pix).mine THEN [verdict EXCEPT ![Head(pix).reg] = a]
                                              ELSE verdict
<1> DEFINE b == [is |-> a, mine |-> Msg.mine]
<1>1. Msg \in Message /\ Msg = Head(pix)
  BY TakeFacts DEF TypeOK, Msg
<1>2. Msg.mine \in BOOLEAN
  BY <1>1, Zenon DEF Message
<1>3. b \in Byte /\ b.is = a /\ b # Vsync /\ b # Nothing
  BY <1>2, ByteFacts
<1>4. b.mine = Msg.mine
  OBVIOUS
<1>5. RiaSend(b) /\ verdict' = IF Msg.mine THEN [verdict EXCEPT ![Msg.reg] = a] ELSE verdict
  BY DEF Reply
<1> HIDE DEF b
<1>6. \/ phase = "locked" /\ held' = b /\ wire' = wire
      \/ phase # "locked" /\ vga.attached /\ held' = held /\ wire' = Append(wire, b)
      \/ phase # "locked" /\ ~vga.attached /\ held' = held /\ wire' = wire
  BY <1>5 DEF RiaSend, Emit
<1> QED
  BY <1>1, <1>3, <1>4, <1>5, <1>6

(* Nothing of what is on its way becomes the call's, but what it sends.    *)
LEMMA MineFrame ==
    ASSUME MineInv, left' = left, api' = api \/ (SetUp /\ SetUp'),
           \A i \in DOMAIN pix' : pix'[i].mine =>
              \E j \in DOMAIN pix : pix[j].mine /\ pix'[i].reg = pix[j].reg,
           \A i \in DOMAIN wire' : wire'[i].mine =>
              /\ wire'[i].is # "vsync"
              /\ (\E j \in DOMAIN wire : wire[j].mine)
                 \/ held.mine \/ (\E j \in DOMAIN pix : pix[j].mine),
           held'.mine => held.mine \/ (\E j \in DOMAIN pix : pix[j].mine)
    PROVE  MineInv'
BY DEF MineInv, SetUp

LEMMA MineTake ==
    ASSUME TypeOK, pix # <<>>, NEW i \in DOMAIN Tail(pix), Tail(pix)[i].mine
    PROVE  \E j \in DOMAIN pix : pix[j].mine /\ Tail(pix)[i].reg = pix[j].reg
<1>1. pix \in Seq(Message)
  BY DEF TypeOK
<1> QED
  BY <1>1, TakeFacts

LEMMA MineOrder ==
    ASSUME TypeOK, NEW o \in {"display", "detach"}, NEW i \in DOMAIN Append(pix, Order(o)),
           Append(pix, Order(o))[i].mine
    PROVE  \E j \in DOMAIN pix : pix[j].mine /\ Append(pix, Order(o))[i].reg = pix[j].reg
<1>1. pix \in Seq(Message) /\ Order(o) \in Message /\ ~Order(o).mine
  BY OrderIsMessage DEF TypeOK
<1> QED
  BY <1>1, PutFacts

LEMMA MineStep ==
    ASSUME TypeOK, CallInv, MineInv, [Next]_vars
    PROVE  MineInv'
<1>x. pix \in Seq(Message) /\ wire \in Seq(Byte) /\ call.word \in Words
  BY DEF TypeOK
<1>p. ASSUME NEW r \in Regs, NEW w \in Words, NEW i \in DOMAIN Put(r, w), Put(r, w)[i].mine
      PROVE  Put(r, w)[i].reg \in Key
  <2>1. /\ Register(r, w) \in Message /\ Put(r, w) = Append(pix, Register(r, w))
        /\ Register(r, w).mine => Register(r, w).reg \in Key
    BY RegisterIsMessage
  <2> QED
    BY <2>1, <1>p, <1>x, PutFacts DEF MineInv
<1>1. ASSUME NEW r, NEW p \in Seq(Message), GiveUp(r, p) PROVE MineInv'
  BY <1>1, AfterBreak
<1>2. ASSUME NEW c \in Calls, Setup(c[1], c[2], c[3]) PROVE MineInv'
  <2>1. SetsUp
    BY <1>2, SetupFacts
  <2>2. "canvas" \in Regs /\ SetUp'
    BY <2>1 DEF SetsUp, SetUp, Regs, Key
  <2> QED
    BY <2>1, <2>2, <1>p DEF SetsUp, MineInv
<1>3. ASSUME NEW r, Sends(r) PROVE MineInv'
  <2>1. left \in Nat
    BY DEF TypeOK
  <2>3. SetUp'
    <3>1. CASE r \in Key
      BY <1>3, <3>1 DEF Sends, SetUp
    <3>2. CASE r \notin Key
      BY <1>3, <2>1, <3>2 DEF Sends, SetUp
    <3> QED
      BY <3>1, <3>2
  <2>4. wire' = wire /\ pix' = Put(r, call.word) /\ r \in Regs
    BY <1>3 DEF Sends
  <2>2. SetUp' /\ wire' = wire /\ pix' = Put(r, call.word) /\ r \in Regs
    BY <2>3, <2>4
  <2> QED
    BY <2>2, <1>x, <1>p DEF MineInv
<1>4. CASE UNCHANGED <<left, api, pix, wire, held>>
  BY <1>4 DEF MineInv, SetUp
<1>5. CASE VgaTaskReset \/ VgaTaskLost
  <2>1. PICK o \in {"display", "detach"} : pix' = Append(pix, Order(o))
    BY <1>5 DEF VgaTaskReset, VgaTaskLost
  <2>2. UNCHANGED <<left, api, wire, held>>
    BY <1>5 DEF VgaTaskReset, VgaTaskLost
  <2> QED
    BY <2>1, <2>2, MineOrder, MineFrame DEF MineInv
<1>6. CASE Run
  <2>1. UNCHANGED <<left, api, wire, held>> /\ pix' = Old(pix)
    BY <1>6 DEF Run
  <2>3. DOMAIN pix' = DOMAIN pix
        /\ \A i \in DOMAIN pix : pix'[i].reg = pix[i].reg /\ pix'[i].mine = pix[i].mine
    BY <2>1, <1>x, OldFacts
  <2>2. \A i \in DOMAIN pix' : pix'[i].mine =>
              \E j \in DOMAIN pix : pix[j].mine /\ pix'[i].reg = pix[j].reg
    BY <2>3
  <2> QED
    BY <2>1, <2>2, MineFrame DEF MineInv
<1>7. CASE RunConnects
  <2>1. UNCHANGED <<left, api, wire, held>>
    BY <1>7 DEF RunConnects
  <2>2. \A i \in DOMAIN pix' : pix'[i].mine =>
              \E j \in DOMAIN pix : pix[j].mine /\ pix'[i].reg = pix[j].reg
    <3>1. pix' = pix \/ pix' = Append(pix, Order("detach"))
      <4>1. pix = <<>> /\ (pix' = pix \/ pix' = <<Order("detach")>>)
        BY <1>7 DEF RunConnects
      <4>2. Append(<<>>, Order("detach")) = <<Order("detach")>>
        OBVIOUS
      <4> QED
        BY <4>1, <4>2
    <3> QED
      BY <3>1, MineOrder
  <2> QED
    BY <2>1, <2>2, MineFrame DEF MineInv
<1>w. ASSUME NEW b \in Byte, wire' = Append(wire, b) \/ wire' = wire,
             NEW i \in DOMAIN wire', wire'[i].mine
      PROVE  \/ b.mine /\ wire'[i] = b
             \/ \E j \in DOMAIN wire : wire'[i] = wire[j] /\ wire[j].mine
  BY <1>w, <1>x, PutFacts
<1>t. pix # <<>> /\ pix' = Tail(pix) =>
         \A i \in DOMAIN pix' : pix'[i].mine =>
              \E j \in DOMAIN pix : pix[j].mine /\ pix'[i].reg = pix[j].reg
  BY MineTake
<1>h. pix # <<>> => 1 \in DOMAIN pix /\ Head(pix) = pix[1]
  BY <1>x, TakeFacts
<1>8. CASE RiaTask
  <2>1. /\ held # Nothing /\ Emit(held) /\ held' = Nothing
        /\ UNCHANGED <<left, api, pix>>
    BY <1>8 DEF RiaTask
  <2>2. held \in Byte /\ held.is # "vsync" /\ Nothing.mine = FALSE
    BY <2>1 DEF TypeOK, Byte, Answers, Nothing
  <2>3. wire' = Append(wire, held) \/ wire' = wire
    BY <2>1 DEF Emit
  <2>4. \A i \in DOMAIN wire' : wire'[i].mine =>
              /\ wire'[i].is # "vsync"
              /\ (\E j \in DOMAIN wire : wire[j].mine) \/ held.mine
    BY <2>2, <2>3, <1>w DEF MineInv
  <2>5. \A i \in DOMAIN pix' : pix'[i].mine =>
              \E j \in DOMAIN pix : pix[j].mine /\ pix'[i].reg = pix[j].reg
    BY <2>1
  <2> QED
    BY <2>1, <2>2, <2>4, <2>5, MineFrame
<1>9. CASE RiaVsync
  <2>1. Emit(Vsync) /\ UNCHANGED <<left, api, pix, held>>
    BY <1>9 DEF RiaVsync
  <2>2. Vsync \in Byte /\ ~Vsync.mine
    BY ByteFacts DEF Vsync
  <2>3. wire' = Append(wire, Vsync) \/ wire' = wire
    BY <2>1 DEF Emit
  <2>4. \A i \in DOMAIN wire' : wire'[i].mine =>
              \E j \in DOMAIN wire : wire'[i] = wire[j] /\ wire[j].mine
    BY <2>2, <2>3, <1>w
  <2> QED
    BY <2>1, <2>4, MineFrame DEF MineInv
<1>10. CASE PixTask
  <2>1. /\ pix # <<>> /\ pix' = Tail(pix) /\ UNCHANGED <<left, api>>
    BY <1>10 DEF PixTask, TakeCanvas, TakeMode, TakeArgument, TakeDisplay, TakeDetach, Take
  <2>2. CASE TakeCanvas \/ TakeMode
    <3>1. PICK a \in Answers : Reply(a)
      BY <2>2 DEF TakeCanvas, TakeMode, Answers
    <3>2. PICK b \in Byte :
              /\ b.is = a /\ b.mine = Head(pix).mine
              /\ held' = held \/ held' = b
              /\ wire' = Append(wire, b) \/ wire' = wire
      BY <2>1, <3>1, ReplyFacts
    <3>3. b.is # "vsync"
      BY <3>2 DEF Answers
    <3>4. b.mine => \E j \in DOMAIN pix : pix[j].mine
      BY <2>1, <3>2, <1>h
    <3>5. \A i \in DOMAIN wire' : wire'[i].mine =>
              /\ wire'[i].is # "vsync"
              /\ (\E j \in DOMAIN wire : wire[j].mine) \/ b.mine
      BY <3>2, <3>3, <1>w DEF MineInv
    <3> QED
      BY <2>1, <3>2, <3>4, <3>5, <1>t, MineFrame
  <2>3. CASE TakeArgument \/ TakeDisplay \/ TakeDetach
    <3>1. wire' = wire /\ (held' = held \/ held' = Nothing) /\ ~Nothing.mine
      BY <2>3 DEF TakeArgument, TakeDisplay, TakeDetach, Nothing
    <3> QED
      BY <2>1, <3>1, <1>t, MineFrame DEF MineInv
  <2> QED
    BY <1>10, <2>2, <2>3 DEF PixTask
<1>11. CASE VgaDies
  <2>1. wire' = <<>> /\ held' = Nothing /\ ~Nothing.mine /\ UNCHANGED <<left, api, pix>>
    BY <1>11 DEF VgaDies, Nothing
  <2> QED
    BY <2>1, MineFrame
<1>12. CASE PixDrops
  <2>1. pix # <<>> /\ pix' = Tail(pix) /\ UNCHANGED <<left, api, wire, held>>
    BY <1>12 DEF PixDrops
  <2> QED
    BY <2>1, <1>t, MineFrame DEF MineInv
<1>13. CASE ReceiveVsync \/ ReceiveAnswer
  <2>1. wire # <<>> /\ wire' = Tail(wire) /\ UNCHANGED <<left, pix, held>>
    BY <1>13 DEF ReceiveVsync, ReceiveAnswer, Received
  <2>2. api' = api \/ (SetUp /\ SetUp')
    <3>1. CASE ReceiveVsync
      BY <3>1 DEF ReceiveVsync
    <3>2. CASE ReceiveAnswer
      <4>1. Head(wire).is \in Answers
        <5>1. Head(wire) \in Byte /\ Head(wire) # Vsync
              /\ (Head(wire).mine => Head(wire).is # "vsync")
          BY <2>1, <3>2, <1>x, TakeFacts DEF MineInv, ReceiveAnswer
        <5> QED
          BY <5>1, ByteFacts
      <4>2. api' = api \/ (api = "waiting" /\ api' = Head(wire).is)
        BY <3>2 DEF ReceiveAnswer
      <4> QED
        BY <4>1, <4>2 DEF SetUp, Answers
    <3> QED
      BY <1>13, <3>1, <3>2
  <2>3. \A i \in DOMAIN wire' : wire'[i].mine => \E j \in DOMAIN wire : wire'[i] = wire[j] /\ wire[j].mine
    BY <2>1, <1>x, TakeFacts
  <2> QED
    BY <2>1, <2>2, <2>3, MineFrame DEF MineInv
<1>14. CASE \/ UNCHANGED vars \/ Ask \/ ResetAgain \/ LockoutBegins \/ LockoutEnds
            \/ VgaBoots \/ Arm \/ BitFires \/ Disarm
  BY <1>14, <1>4 DEF vars, Ask, ResetAgain, LockoutBegins, LockoutEnds, VgaBoots, Arm,
                     BitFires, Disarm
<1>15. CASE PixApiXreg \/ Stop
  BY <1>15, <1>1, <1>2, <1>3, Breaks, SendFacts DEF PixApiXreg
<1> QED
  BY <1>5, <1>6, <1>7, <1>8, <1>9, <1>10, <1>11, <1>12, <1>13, <1>14, <1>15
     DEF Next, Interrupts

----------------------------------------------------------------------------
(* The messages that ask for an answer, and the answers on the wire, are   *)
(* what they were, perhaps each one place further on.                      *)
SameAsked == \E d \in {0, 1} :
    \A i \in DOMAIN pix' : pix'[i].reg \in Key =>
        /\ i + d \in DOMAIN pix
        /\ pix'[i].reg = pix[i + d].reg /\ pix'[i].mine = pix[i + d].mine

SameSent == \E d \in {0, 1} :
    \A i \in DOMAIN wire' : wire'[i].is # "vsync" =>
        i + d \in DOMAIN wire /\ wire'[i] = wire[i + d]

NoneLost ==
    /\ Asked # {} => Asked' # {}
    /\ Sent # {} => Sent' # {}

LEMMA Domains ==
    ASSUME TypeOK
    PROVE  /\ pix \in Seq(Message) /\ wire \in Seq(Byte)
           /\ DOMAIN pix = 1..Len(pix) /\ Len(pix) \in Nat
           /\ DOMAIN wire = 1..Len(wire) /\ Len(wire) \in Nat
BY DEF TypeOK

(* What is on its way of a call stays on its way, or is lost with a VGA    *)
(* that dies.                                                              *)
LEMMA FlightFrame ==
    ASSUME TypeOK, TypeOK', FlightInv, VerdictInv, SameAsked, SameSent,
           UNCHANGED <<left, api, muddled, verdict>>, held' \in {held, Nothing},
           deaths' = 0 /\ state' = "connected" =>
              deaths = 0 /\ state = "connected" /\ held' = held /\ NoneLost
    PROVE  FlightInv' /\ VerdictInv'
<1>n. \A i \in DOMAIN pix' \cup DOMAIN wire' : i \in Nat
  <2>1. pix' \in Seq(Message) /\ wire' \in Seq(Byte)
    BY DEF TypeOK
  <2> QED
    BY <2>1
<1>1. PICK d \in {0, 1} :
        \A i \in DOMAIN pix' : pix'[i].reg \in Key =>
            /\ i + d \in DOMAIN pix
            /\ pix'[i].reg = pix[i + d].reg /\ pix'[i].mine = pix[i + d].mine
  BY DEF SameAsked
<1>2. PICK e \in {0, 1} :
        \A i \in DOMAIN wire' : wire'[i].is # "vsync" =>
            i + e \in DOMAIN wire /\ wire'[i] = wire[i + e]
  BY DEF SameSent
<1>3. \A i \in Asked' : i \in Nat /\ i + d \in Asked
                        /\ pix'[i].reg = pix[i + d].reg /\ pix'[i].mine = pix[i + d].mine
  BY <1>1, <1>n DEF Asked
<1>4. \A i \in Sent' : i \in Nat /\ i + e \in Sent /\ wire'[i] = wire[i + e]
  BY <1>2, <1>n DEF Sent
<1>5. SetUp' <=> SetUp
  BY DEF SetUp
<1>6. SUFFICES ASSUME SetUp, ~muddled PROVE FlightInv' /\ VerdictInv'
  BY <1>5 DEF FlightInv, VerdictInv
<1>7. FlightInv'
  <2>1. /\ \A i \in Asked : pix[i].mine
        /\ \A i \in Sent : wire[i].mine
        /\ held # Nothing => held.mine
        /\ \A i, j \in Asked : i = j
        /\ \A i, j \in Sent : i = j
        /\ Asked = {} \/ Sent = {}
        /\ held # Nothing => Asked = {} /\ Sent = {}
        /\ api # "waiting" => Asked = {} /\ Sent = {} /\ held = Nothing
        /\ api = "waiting" /\ deaths = 0 /\ state = "connected" =>
               Asked # {} \/ Sent # {} \/ held # Nothing
    BY <1>6 DEF FlightInv
  <2>2. /\ \A i \in Asked' : pix'[i].mine
        /\ \A i \in Sent' : wire'[i].mine
        /\ held' # Nothing => held'.mine
    BY <1>3, <1>4, <2>1
  <2>3. \A i, j \in Asked' : i = j
    BY <1>3, <2>1
  <2>4. \A i, j \in Sent' : i = j
    BY <1>4, <2>1
  <2>5. (Asked = {} => Asked' = {}) /\ (Sent = {} => Sent' = {})
    BY <1>3, <1>4
  <2>6. /\ Asked' = {} \/ Sent' = {}
        /\ held' # Nothing => Asked' = {} /\ Sent' = {}
        /\ api' # "waiting" => Asked' = {} /\ Sent' = {} /\ held' = Nothing
    BY <2>1, <2>5
  <2>7. api' = "waiting" /\ deaths' = 0 /\ state' = "connected" =>
               Asked' # {} \/ Sent' # {} \/ held' # Nothing
    BY <2>1 DEF NoneLost
  <2> QED
    BY <2>2, <2>3, <2>4, <2>6, <2>7 DEF FlightInv
<1>8. VerdictInv'
  <2>1. /\ api \in {"running", "ack"} => \A k \in Key : Good(verdict[k])
        /\ api = "nak" => \E k \in Key : verdict[k] = "nak"
    BY <1>6 DEF VerdictInv
  <2>2. ASSUME api' = "waiting"
        PROVE  \E k \in Key :
                  /\ \A q \in Key \ {k} : Good(verdict'[q])
                  /\ \A i \in Asked' : pix'[i].reg = k
                  /\ \A i \in Sent' : wire'[i].is = verdict'[k]
                  /\ held' # Nothing => held'.is = verdict'[k]
    <3>1. PICK k \in Key :
              /\ \A q \in Key \ {k} : Good(verdict[q])
              /\ \A i \in Asked : pix[i].reg = k
              /\ \A i \in Sent : wire[i].is = verdict[k]
              /\ held # Nothing => held.is = verdict[k]
      BY <1>6, <2>2 DEF VerdictInv
    <3> QED
      BY <3>1, <1>3, <1>4
  <2> QED
    BY <2>1, <2>2 DEF VerdictInv, Good
<1> QED
  BY <1>7, <1>8

LEMMA AskedPut ==
    ASSUME TypeOK, NEW m \in Message, m.reg \notin Key, pix' = Append(pix, m)
    PROVE  SameAsked /\ (Asked # {} => Asked' # {})
<1>1. \A i \in DOMAIN pix' : pix'[i].reg \in Key =>
        i \in Nat /\ i \in DOMAIN pix /\ pix'[i] = pix[i]
  BY Domains, PutFacts
<1>2. \A i \in DOMAIN pix : i \in DOMAIN pix' /\ pix'[i] = pix[i]
  BY Domains, PutFacts
<1>3. \A i \in Nat : i + 0 = i
  OBVIOUS
<1> QED
  BY <1>1, <1>2, <1>3 DEF SameAsked, Asked

LEMMA AskedTake ==
    ASSUME TypeOK, pix # <<>>, pix' = Tail(pix)
    PROVE  SameAsked /\ (Head(pix).reg \notin Key /\ Asked # {} => Asked' # {})
<1>1. \A i \in DOMAIN pix' : i + 1 \in DOMAIN pix /\ pix'[i] = pix[i + 1]
  BY Domains, TakeFacts
<1>2. \A j \in DOMAIN pix : j = 1 \/ (j - 1 \in DOMAIN pix' /\ pix'[j - 1] = pix[j])
  BY Domains, TakeFacts
<1>3. Head(pix) = pix[1]
  BY Domains, TakeFacts
<1> QED
  BY <1>1, <1>2, <1>3 DEF SameAsked, Asked

LEMMA SentPut ==
    ASSUME TypeOK, wire' = Append(wire, Vsync)
    PROVE  SameSent /\ (Sent # {} => Sent' # {})
<1>v. Vsync \in Byte /\ Vsync.is = "vsync"
  BY ByteFacts DEF Vsync
<1>1. \A i \in DOMAIN wire' : wire'[i].is # "vsync" =>
        i \in Nat /\ i \in DOMAIN wire /\ wire'[i] = wire[i]
  BY <1>v, Domains, PutFacts
<1>2. \A i \in DOMAIN wire : i \in DOMAIN wire' /\ wire'[i] = wire[i]
  BY <1>v, Domains, PutFacts
<1>3. \A i \in Nat : i + 0 = i
  OBVIOUS
<1> QED
  BY <1>1, <1>2, <1>3 DEF SameSent, Sent

LEMMA SentTake ==
    ASSUME TypeOK, wire # <<>>, wire' = Tail(wire)
    PROVE  SameSent /\ (Head(wire).is = "vsync" /\ Sent # {} => Sent' # {})
<1>1. \A i \in DOMAIN wire' : i + 1 \in DOMAIN wire /\ wire'[i] = wire[i + 1]
  BY Domains, TakeFacts
<1>2. \A j \in DOMAIN wire : j = 1 \/ (j - 1 \in DOMAIN wire' /\ wire'[j - 1] = wire[j])
  BY Domains, TakeFacts
<1>3. Head(wire) = wire[1]
  BY Domains, TakeFacts
<1> QED
  BY <1>1, <1>2, <1>3 DEF SameSent, Sent

LEMMA SameQueues ==
    ASSUME TypeOK
    PROVE  /\ pix' = pix => SameAsked /\ Asked' = Asked
           /\ wire' = wire => SameSent /\ Sent' = Sent
           /\ wire' = <<>> => SameSent
           /\ pix' = Old(pix) => SameAsked /\ Asked' = Asked
<1>3. \A i \in Nat : i + 0 = i
  OBVIOUS
<1>1. ASSUME pix' = Old(pix) PROVE SameAsked /\ Asked' = Asked
  <2>1. DOMAIN pix' = DOMAIN pix
        /\ \A i \in DOMAIN pix : i \in Nat /\ pix'[i].reg = pix[i].reg /\ pix'[i].mine = pix[i].mine
    <3>1. pix \in Seq(Message) /\ \A i \in DOMAIN pix : i \in Nat
      BY Domains
    <3> QED
      BY <3>1, <1>1, OldFacts
  <2> QED
    BY <2>1, <1>3 DEF SameAsked, Asked
<1>2. \A i \in DOMAIN pix \cup DOMAIN wire : i \in Nat
  BY Domains
<1> QED
  BY <1>1, <1>2, <1>3 DEF SameAsked, SameSent, Asked, Sent

(* Of a call that began in the clear: a message that is asked for is the   *)
(* only thing on its way, and so is an answer.                             *)
LEMMA OnlyOne ==
    ASSUME TypeOK, FlightInv, SetUp, ~muddled
    PROVE  /\ pix # <<>> /\ Head(pix).reg \in Key =>
                /\ api = "waiting" /\ Head(pix).mine /\ held = Nothing
                /\ \A i \in DOMAIN pix : pix[i].reg \in Key => i = 1
                /\ Sent = {}
           /\ wire # <<>> /\ Head(wire).is # "vsync" =>
                /\ api = "waiting" /\ Head(wire).mine /\ held = Nothing
                /\ \A i \in DOMAIN wire : wire[i].is # "vsync" => i = 1
                /\ Asked = {}
           /\ held # Nothing => api = "waiting" /\ held.mine /\ Asked = {} /\ Sent = {}
<1>1. pix # <<>> => 1 \in DOMAIN pix /\ Head(pix) = pix[1]
  BY Domains, TakeFacts
<1>2. wire # <<>> => 1 \in DOMAIN wire /\ Head(wire) = wire[1]
  BY Domains, TakeFacts
<1>3. pix # <<>> /\ Head(pix).reg \in Key => 1 \in Asked
  BY <1>1 DEF Asked
<1>4. wire # <<>> /\ Head(wire).is # "vsync" => 1 \in Sent
  BY <1>2 DEF Sent
<1> QED
  BY <1>1, <1>2, <1>3, <1>4 DEF FlightInv, Asked, Sent

(* The VGA answers a key register of such a call.                          *)
LEMMA FlightReply ==
    ASSUME TypeOK, TypeOK', AttachedInv, FlightInv, VerdictInv, SetUp, ~muddled,
           pix # <<>>, pix' = Tail(pix), Head(pix).reg \in Key,
           NEW a \in Answers, Reply(a),
           UNCHANGED <<left, api, muddled, deaths, state>>
    PROVE  FlightInv' /\ VerdictInv'
<1>1. /\ api = "waiting" /\ Head(pix).mine /\ held = Nothing
      /\ \A i \in DOMAIN pix : pix[i].reg \in Key => i = 1
      /\ Sent = {}
  BY OnlyOne
<1>2. PICK b \in Byte :
          /\ b.is = a /\ b.mine = Head(pix).mine /\ b # Nothing /\ b # Vsync
          /\ \/ phase = "locked" /\ held' = b /\ wire' = wire
             \/ phase # "locked" /\ vga.attached /\ held' = held /\ wire' = Append(wire, b)
             \/ phase # "locked" /\ ~vga.attached /\ held' = held /\ wire' = wire
          /\ verdict' = IF Head(pix).mine THEN [verdict EXCEPT ![Head(pix).reg] = a]
                                          ELSE verdict
  BY ReplyFacts
<1>3. Asked' = {}
  <2>1. \A i \in DOMAIN pix' : i \in 1..(Len(pix) - 1) /\ pix'[i] = pix[i + 1]
    BY Domains, TakeFacts
  <2>2. \A i \in DOMAIN pix' : i + 1 \in DOMAIN pix /\ i + 1 # 1
    BY <2>1, Domains
  <2> QED
    BY <1>1, <2>1, <2>2 DEF Asked
<1>4. b.mine /\ b.is # "vsync"
  BY <1>1, <1>2 DEF Answers
<1>5. PICK k \in Key : Head(pix).reg = k /\ \A q \in Key \ {k} : Good(verdict[q])
  <2>1. 1 \in Asked /\ Head(pix) = pix[1]
    BY Domains, TakeFacts DEF Asked
  <2> QED
    BY <1>1, <2>1 DEF VerdictInv
<1>6. verdict'[k] = a /\ \A q \in Key \ {k} : Good(verdict'[q])
  <2>1. verdict' = [verdict EXCEPT ![k] = a] /\ DOMAIN verdict = Key
    BY <1>1, <1>2, <1>5 DEF TypeOK
  <2> QED
    BY <1>5, <2>1
<1>7. Sent' = {} \/ (held' = Nothing /\ Sent' = {Len(wire) + 1} /\ wire'[Len(wire) + 1] = b)
  <2>1. CASE wire' = wire
    BY <1>1, <2>1 DEF Sent
  <2>2. CASE wire' = Append(wire, b) /\ held' = held
    <3>1. /\ DOMAIN wire' = 1..(Len(wire) + 1) /\ wire'[Len(wire) + 1] = b
          /\ \A i \in 1..Len(wire) : wire'[i] = wire[i] /\ wire[i].is = "vsync"
      BY <2>2, <1>1, Domains, PutFacts DEF Sent
    <3> QED
      BY <1>1, <1>4, <2>2, <3>1, Domains DEF Sent
  <2> QED
    BY <1>2, <2>1, <2>2
<1>8. held' = Nothing \/ (held' = b /\ Sent' = {})
  BY <1>1, <1>2 DEF Sent
<1>9. deaths' = 0 /\ state' = "connected" => Sent' # {} \/ held' # Nothing
  <2>1. deaths' = 0 /\ state' = "connected" => vga.attached
    BY DEF AttachedInv
  <2>2. wire' = Append(wire, b) => Sent' # {}
    <3>1. wire' = Append(wire, b) =>
            Len(wire) + 1 \in DOMAIN wire' /\ wire'[Len(wire) + 1] = b
      BY Domains, PutFacts
    <3> QED
      BY <3>1, <1>4 DEF Sent
  <2> QED
    BY <2>1, <2>2, <1>2
<1>10. FlightInv'
  <2>1. /\ \A i \in Sent' : wire'[i].mine
        /\ held' # Nothing => held'.mine
        /\ \A i, j \in Sent' : i = j
        /\ held' # Nothing => Sent' = {}
    BY <1>4, <1>7, <1>8
  <2> QED
    BY <1>1, <1>3, <1>9, <2>1 DEF FlightInv
<1>11. VerdictInv'
  <2>1. /\ \A i \in Sent' : wire'[i].is = verdict'[k]
        /\ held' # Nothing => held'.is = verdict'[k]
    BY <1>2, <1>6, <1>7, <1>8
  <2> QED
    BY <1>1, <1>3, <1>6, <2>1 DEF VerdictInv
<1> QED
  BY <1>10, <1>11

(* A register is put on PIX with nothing on its way: it is all there is.   *)
LEMMA AskedAfterPut ==
    ASSUME TypeOK, Asked = {}, NEW r \in Regs, NEW w \in Words, pix' = Put(r, w)
    PROVE  /\ r \notin Key => Asked' = {}
           /\ r \in Key => /\ Asked' = {Len(pix) + 1}
                           /\ pix'[Len(pix) + 1].mine /\ pix'[Len(pix) + 1].reg = r
<1> DEFINE m == Register(r, w)
<1>1. m \in Message /\ Put(r, w) = Append(pix, m) /\ m.reg = r /\ (m.mine <=> r \in Key)
  BY RegisterIsMessage
<1> HIDE DEF m
<1>2. /\ DOMAIN pix' = 1..(Len(pix) + 1) /\ pix'[Len(pix) + 1] = m
      /\ \A i \in 1..Len(pix) : pix'[i] = pix[i] /\ pix[i].reg \notin Key
  BY <1>1, Domains, PutFacts DEF Asked
<1> QED
  BY <1>1, <1>2, Domains DEF Asked

LEMMA FlightSetup ==
    ASSUME TypeOK, SetsUp
    PROVE  FlightInv' /\ VerdictInv'
<1>1. SUFFICES ASSUME ~muddled' PROVE FlightInv' /\ VerdictInv'
  BY DEF FlightInv, VerdictInv
<1>2. Asked = {} /\ Sent = {} /\ held = Nothing
  BY <1>1 DEF SetsUp, Strays, Asked, Sent
<1>3. Sent' = {} /\ held' = Nothing
  BY <1>2 DEF SetsUp, Sent
<1>4. \A k \in Key : Good(Untried[k])
  BY DEF Untried, Good
<1>5. ASSUME NEW w \in Words, pix' = Put("canvas", w), api' = "waiting",
             verdict' = [Untried EXCEPT !["canvas"] = "asked"]
      PROVE  FlightInv' /\ VerdictInv'
  <2>1. "canvas" \in Regs /\ "canvas" \in Key
    BY DEF Regs, Key
  <2>2. Asked' = {Len(pix) + 1} /\ pix'[Len(pix) + 1].mine /\ pix'[Len(pix) + 1].reg = "canvas"
    BY <1>2, <1>5, <2>1, AskedAfterPut
  <2>3. \A q \in Key \ {"canvas"} : Good(verdict'[q])
    BY <1>4, <1>5 DEF Untried
  <2> QED
    BY <1>3, <1>5, <2>1, <2>2, <2>3 DEF FlightInv, VerdictInv
<1>6. ASSUME pix' = pix, api' = "running", verdict' = Untried
      PROVE  FlightInv' /\ VerdictInv'
  <2>1. Asked' = {}
    BY <1>2, <1>6 DEF Asked
  <2> QED
    BY <1>3, <1>4, <1>6, <2>1 DEF FlightInv, VerdictInv
<1> QED
  BY <1>5, <1>6 DEF SetsUp

LEMMA FlightSend ==
    ASSUME TypeOK, FlightInv, VerdictInv, NEW r, Sends(r)
    PROVE  FlightInv' /\ VerdictInv'
<1>1. SUFFICES ASSUME ~muddled' PROVE FlightInv' /\ VerdictInv'
  BY DEF FlightInv, VerdictInv
<1>2. SetUp /\ ~muddled /\ api \in {"running", "ack"} /\ api # "waiting" /\ r \in Regs
  BY <1>1 DEF SetUp, Sends, TypeOK
<1>3. Asked = {} /\ Sent = {} /\ held = Nothing /\ \A k \in Key : Good(verdict[k])
  BY <1>2 DEF FlightInv, VerdictInv
<1>4. Sent' = {} /\ held' = Nothing /\ pix' = Put(r, call.word) /\ call.word \in Words
  BY <1>3 DEF Sends, Sent, TypeOK
<1>5. CASE r \in Key
  <2>1. Asked' = {Len(pix) + 1} /\ pix'[Len(pix) + 1].mine /\ pix'[Len(pix) + 1].reg = r
    BY <1>2, <1>3, <1>4, <1>5, AskedAfterPut
  <2>2. api' = "waiting" /\ verdict' = [verdict EXCEPT ![r] = "asked"]
    BY <1>5 DEF Sends
  <2>3. \A q \in Key \ {r} : Good(verdict'[q])
    BY <1>3, <2>2 DEF TypeOK
  <2> QED
    BY <1>4, <1>5, <2>1, <2>2, <2>3 DEF FlightInv, VerdictInv
<1>6. CASE r \notin Key
  <2>1. Asked' = {}
    BY <1>2, <1>3, <1>4, <1>6, AskedAfterPut
  <2>2. api' = "running" /\ verdict' = verdict
    BY <1>6 DEF Sends
  <2> QED
    BY <1>3, <1>4, <2>1, <2>2 DEF FlightInv, VerdictInv
<1> QED
  BY <1>5, <1>6

(* What is held goes out when the lockout ends.                            *)
LEMMA FlightHeld ==
    ASSUME TypeOK, AttachedInv, FlightInv, VerdictInv, RiaTask
    PROVE  FlightInv' /\ VerdictInv'
<1>1. /\ held # Nothing /\ Emit(held) /\ held' = Nothing
      /\ UNCHANGED <<left, api, pix, verdict, muddled, deaths, state>>
  BY DEF RiaTask
<1>2. SUFFICES ASSUME SetUp, ~muddled PROVE FlightInv' /\ VerdictInv'
  BY <1>1 DEF FlightInv, VerdictInv, SetUp
<1>3. api = "waiting" /\ held.mine /\ Asked = {} /\ Sent = {}
  BY <1>1, <1>2, OnlyOne
<1>4. held \in Byte /\ held.is # "vsync"
  BY <1>1 DEF TypeOK, Byte, Answers, Nothing
<1>5. Asked' = {}
  BY <1>1, <1>3 DEF Asked
<1>6. CASE vga.attached
  <2>1. wire' = Append(wire, held)
    BY <1>1, <1>6 DEF Emit
  <2>2. /\ DOMAIN wire' = 1..(Len(wire) + 1) /\ wire'[Len(wire) + 1] = held
        /\ \A i \in 1..Len(wire) : wire'[i] = wire[i] /\ wire[i].is = "vsync"
    BY <1>3, <1>4, <2>1, Domains, PutFacts DEF Sent
  <2>3. Sent' = {Len(wire) + 1}
    BY <1>4, <2>2, Domains DEF Sent
  <2>4. \E k \in Key : held.is = verdict'[k] /\ \A q \in Key \ {k} : Good(verdict'[q])
    BY <1>1, <1>2, <1>3 DEF VerdictInv
  <2> QED
    BY <1>1, <1>3, <1>5, <2>2, <2>3, <2>4 DEF FlightInv, VerdictInv
<1>7. CASE ~vga.attached
  <2>1. ~(deaths = 0 /\ state = "connected")
    BY <1>7 DEF AttachedInv
  <2>2. Sent' = {}
    BY <1>1, <1>3, <1>7 DEF Emit, Sent
  <2>3. \E k \in Key : \A q \in Key \ {k} : Good(verdict'[q])
    BY <1>1, <1>2, <1>3 DEF VerdictInv
  <2> QED
    BY <1>1, <1>3, <1>5, <2>1, <2>2, <2>3 DEF FlightInv, VerdictInv
<1> QED
  BY <1>6, <1>7

(* The call takes its answer.                                              *)
LEMMA FlightAnswer ==
    ASSUME TypeOK, MineInv, FlightInv, VerdictInv, ReceiveAnswer
    PROVE  FlightInv' /\ VerdictInv'
<1>1. /\ wire # <<>> /\ wire' = Tail(wire) /\ Head(wire) # Vsync
      /\ api' = IF api = "waiting" THEN Head(wire).is ELSE api
      /\ UNCHANGED <<left, pix, held, verdict, muddled>>
  BY DEF ReceiveAnswer, Received
<1>2. Head(wire).is \in Answers /\ Head(wire).is # "vsync"
  <2>1. Head(wire) \in Byte /\ (Head(wire).mine => Head(wire).is # "vsync")
    BY <1>1, Domains, TakeFacts DEF MineInv
  <2> QED
    BY <1>1, <2>1, ByteFacts DEF Answers
<1>3. SetUp' => SetUp
  BY <1>1 DEF SetUp
<1>4. SUFFICES ASSUME SetUp, ~muddled PROVE FlightInv' /\ VerdictInv'
  BY <1>1, <1>3 DEF FlightInv, VerdictInv
<1>5. /\ api = "waiting" /\ held = Nothing
      /\ \A i \in DOMAIN wire : wire[i].is # "vsync" => i = 1
      /\ Asked = {}
  BY <1>1, <1>2, <1>4, OnlyOne
<1>6. Asked' = {} /\ held' = Nothing
  BY <1>1, <1>5 DEF Asked
<1>7. Sent' = {}
  <2>1. \A i \in DOMAIN wire' : i \in 1..(Len(wire) - 1) /\ wire'[i] = wire[i + 1]
    BY <1>1, Domains, TakeFacts
  <2>2. \A i \in DOMAIN wire' : i + 1 \in DOMAIN wire /\ i + 1 # 1
    BY <2>1, Domains
  <2> QED
    BY <1>5, <2>1, <2>2 DEF Sent
<1>8. \E k \in Key : Head(wire).is = verdict[k] /\ \A q \in Key \ {k} : Good(verdict[q])
  <2>1. 1 \in Sent /\ Head(wire) = wire[1]
    BY <1>1, <1>2, Domains, TakeFacts DEF Sent
  <2> QED
    BY <1>4, <1>5, <2>1 DEF VerdictInv
<1>9. api' \in Answers /\ api' = Head(wire).is
  BY <1>1, <1>2, <1>5
<1>10. FlightInv'
  BY <1>6, <1>7, <1>9 DEF FlightInv, Answers
<1>11. VerdictInv'
  BY <1>1, <1>8, <1>9 DEF VerdictInv, Good, Answers
<1> QED
  BY <1>10, <1>11

LEMMA FlightStep ==
    ASSUME TypeOK, TypeOK', CallInv, CanvasInv, AttachedInv, MineInv, FlightInv, VerdictInv,
           [Next]_vars
    PROVE  FlightInv' /\ VerdictInv'
<1>1. CASE UNCHANGED <<left, api, muddled, verdict, pix, wire, held, deaths, state>>
  BY <1>1, SameQueues, FlightFrame DEF NoneLost
<1>2. CASE PixApiXreg \/ Stop
  BY <1>2, Breaks, AfterBreak, SetupFacts, FlightSetup, SendFacts, FlightSend DEF PixApiXreg
<1>3. CASE VgaTaskReset \/ VgaTaskLost
  <2>1. PICK o \in {"display", "detach"} : pix' = Append(pix, Order(o))
    BY <1>3 DEF VgaTaskReset, VgaTaskLost
  <2>2. Order(o) \in Message /\ Order(o).reg \notin Key
    BY OrderIsMessage DEF Key
  <2>3. /\ UNCHANGED <<left, api, muddled, verdict, wire, held, deaths>>
        /\ state' \in {state, "lost"}
    BY <1>3 DEF VgaTaskReset, VgaTaskLost
  <2> QED
    BY <2>1, <2>2, <2>3, AskedPut, SameQueues, FlightFrame DEF NoneLost
<1>4. CASE Run
  <2>1. /\ UNCHANGED <<left, api, muddled, verdict, wire, held, deaths, state>>
        /\ pix' = Old(pix)
    BY <1>4 DEF Run
  <2> QED
    BY <2>1, SameQueues, FlightFrame DEF NoneLost
<1>5. CASE RunConnects
  <2>1. ~SetUp /\ UNCHANGED <<left, api>>
    BY <1>5 DEF RunConnects, CallInv
  <2> QED
    BY <2>1 DEF FlightInv, VerdictInv, SetUp
<1>6. CASE RiaTask
  BY <1>6, FlightHeld
<1>7. CASE RiaVsync
  <2>1. /\ UNCHANGED <<left, api, muddled, verdict, pix, held, deaths, state>>
        /\ wire' = Append(wire, Vsync) \/ wire' = wire
    BY <1>7 DEF RiaVsync, Emit
  <2> QED
    BY <2>1, SentPut, SameQueues, FlightFrame DEF NoneLost
<1>8. CASE TakeCanvas \/ TakeMode
  <2>1. /\ pix # <<>> /\ pix' = Tail(pix) /\ Head(pix).reg \in Key
        /\ UNCHANGED <<left, api, muddled, deaths, state>>
    BY <1>8 DEF TakeCanvas, TakeMode, Take, Msg, Key
  <2>2. PICK a \in Answers : Reply(a)
    BY <1>8 DEF TakeCanvas, TakeMode, Answers
  <2>3. CASE SetUp /\ ~muddled
    BY <2>1, <2>2, <2>3, FlightReply
  <2>4. CASE ~(SetUp /\ ~muddled)
    BY <2>1, <2>4 DEF FlightInv, VerdictInv, SetUp
  <2> QED
    BY <2>3, <2>4
<1>9. CASE TakeArgument \/ TakeDisplay
  <2>1. /\ pix # <<>> /\ pix' = Tail(pix) /\ Head(pix).reg \notin Key
        /\ UNCHANGED <<left, api, muddled, deaths, state, held, wire, verdict>>
    BY <1>9 DEF TakeArgument, TakeDisplay, Take, Msg, Key
  <2> QED
    BY <2>1, AskedTake, SameQueues, FlightFrame DEF NoneLost
<1>10. CASE TakeDetach
  <2>1. /\ pix # <<>> /\ pix' = Tail(pix) /\ Head(pix).reg = "detach" /\ held' = Nothing
        /\ UNCHANGED <<left, api, muddled, deaths, state, wire, verdict>>
    BY <1>10 DEF TakeDetach, Msg
  <2>2. ~(deaths = 0 /\ state = "connected")
    <3>1. 1 \in DOMAIN pix /\ Head(pix) = pix[1]
      BY <2>1, Domains, TakeFacts
    <3> QED
      BY <2>1, <3>1 DEF AttachedInv
  <2> QED
    BY <2>1, <2>2, AskedTake, SameQueues, FlightFrame
<1>11. CASE VgaDies
  <2>1. /\ wire' = <<>> /\ held' = Nothing /\ deaths' # 0
        /\ UNCHANGED <<left, api, muddled, state, pix, verdict>>
    BY <1>11 DEF VgaDies, TypeOK
  <2> QED
    BY <2>1, SameQueues, FlightFrame
<1>12. CASE PixDrops
  <2>1. /\ pix # <<>> /\ pix' = Tail(pix) /\ ~vga.on
        /\ UNCHANGED <<left, api, muddled, deaths, state, held, wire, verdict>>
    BY <1>12 DEF PixDrops
  <2>2. ~(deaths = 0 /\ state = "connected")
    BY <2>1 DEF AttachedInv
  <2> QED
    BY <2>1, <2>2, AskedTake, SameQueues, FlightFrame
<1>13. CASE ReceiveVsync
  <2>1. /\ wire # <<>> /\ wire' = Tail(wire) /\ Head(wire).is = "vsync"
        /\ UNCHANGED <<left, api, muddled, deaths, state, held, pix, verdict>>
    BY <1>13 DEF ReceiveVsync, Received, Vsync
  <2> QED
    BY <2>1, SentTake, SameQueues, FlightFrame DEF NoneLost
<1>14. CASE ReceiveAnswer
  BY <1>14, FlightAnswer
<1>15. CASE \/ UNCHANGED vars \/ Ask \/ ResetAgain \/ LockoutBegins \/ LockoutEnds
            \/ VgaBoots \/ Arm \/ BitFires \/ Disarm
  BY <1>15, <1>1 DEF vars, Ask, ResetAgain, LockoutBegins, LockoutEnds, VgaBoots, Arm,
                     BitFires, Disarm
<1> QED
  BY <1>2, <1>3, <1>4, <1>5, <1>6, <1>7, <1>8, <1>9, <1>10, <1>11, <1>12, <1>13, <1>14, <1>15
     DEF Next, PixTask, Interrupts

----------------------------------------------------------------------------
(* The bytes of VSYNCs stay where they are, and nothing fires.             *)
LEMMA VsyncFrame ==
    ASSUME TypeOK, VsyncInv, DOMAIN wire' = DOMAIN wire, wire' = <<>> <=> wire = <<>>,
           \A i \in DOMAIN wire : wire'[i] = Vsync <=> wire[i] = Vsync,
           UNCHANGED <<fired, debt, deaths>>, trap' = trap \/ (trap' = "off" /\ trap = "armed"),
           deaths = 0 /\ trap' = "armed" =>
              state' = state /\ (phase' = phase \/ phase' = "locked")
    PROVE  VsyncInv'
<1>1. Vsyncs' = Vsyncs
  BY DEF Vsyncs
<1>2. wire # <<>> => 1 \in DOMAIN wire
  BY Domains
<1> QED
  BY <1>1, <1>2 DEF VsyncInv

LEMMA VsyncStray ==
    ASSUME TypeOK, MineInv, wire' = StrayAll(wire)
    PROVE  /\ DOMAIN wire' = DOMAIN wire /\ (wire' = <<>> <=> wire = <<>>)
           /\ \A i \in DOMAIN wire : wire'[i] = Vsync <=> wire[i] = Vsync
<1>1. /\ wire' \in Seq(Byte) /\ DOMAIN wire' = DOMAIN wire /\ Len(wire') = Len(wire)
      /\ \A i \in DOMAIN wire : wire'[i].is = wire[i].is /\ wire'[i].mine = FALSE
  BY Domains, StrayByteFacts
<1>2. Vsync.is = "vsync" /\ Vsync.mine = FALSE
  BY DEF Vsync
<1>3. ASSUME NEW i \in DOMAIN wire PROVE wire'[i] = Vsync <=> wire[i] = Vsync
  <2>1. wire[i] \in Byte /\ wire'[i] \in Byte
    BY <1>1, Domains
  <2>2. wire[i].is = "vsync" => ~wire[i].mine
    BY DEF MineInv
  <2> QED
    BY <1>1, <1>2, <2>1, <2>2, ByteFacts
<1> QED
  BY <1>1, <1>3, Domains

(* An answer that is sent fires no trap: while answers may be sent, a trap *)
(* is armed only behind the start of a VSYNC.                              *)
LEMMA VsyncEmit ==
    ASSUME TypeOK, VsyncInv, NEW b \in Byte, b # Vsync, Emit(b), phase # "locked",
           UNCHANGED <<state, phase, deaths>>
    PROVE  VsyncInv'
<1>1. CASE ~vga.attached
  <2>1. UNCHANGED <<wire, trap, fired, debt>>
    BY <1>1 DEF Emit
  <2> QED
    BY <2>1, VsyncFrame
<1>2. CASE vga.attached /\ deaths # 0
  <2>1. debt' = 0
    BY <1>2 DEF Emit, Owe
  <2> QED
    BY <1>2, <2>1 DEF VsyncInv
<1>3. CASE vga.attached /\ deaths = 0
  <2>1. wire = <<>> => trap # "armed"
    BY <1>3 DEF VsyncInv
  <2>2. /\ wire' = Append(wire, b) /\ UNCHANGED <<trap, fired>>
        /\ debt \in Int /\ debt' = debt + (0 - 0)
    BY <1>3, <2>1 DEF Emit, Edge, NoTrap, Owe, Raised, TypeOK
  <2>3. /\ DOMAIN wire' = 1..(Len(wire) + 1) /\ wire'[Len(wire) + 1] = b
        /\ \A i \in 1..Len(wire) : wire'[i] = wire[i]
        /\ wire' # <<>>
    BY <2>2, Domains, PutFacts
  <2>4. Vsyncs' = Vsyncs
    BY <2>3, Domains DEF Vsyncs
  <2>5. wire # <<>> => 1 \in 1..Len(wire)
    BY Domains
  <2>6. debt' = debt
    BY <2>2
  <2> QED
    BY <1>3, <2>1, <2>2, <2>3, <2>4, <2>5, <2>6 DEF VsyncInv
<1> QED
  BY <1>1, <1>2, <1>3

(* The VGA sends a VSYNC.                                                  *)
LEMMA VsyncSent ==
    ASSUME TypeOK, AttachedInv, VsyncInv, RiaVsync
    PROVE  VsyncInv'
<1>1. /\ \A i \in DOMAIN wire : wire[i] # Vsync
      /\ phase' = "open" /\ Emit(Vsync) /\ UNCHANGED <<state, deaths>>
  BY DEF RiaVsync
<1>2. CASE ~vga.attached
  <2>1. UNCHANGED <<wire, trap, fired, debt>>
    BY <1>1, <1>2 DEF Emit
  <2>2. deaths = 0 => trap # "armed"
    BY <1>2 DEF VsyncInv, AttachedInv
  <2> QED
    BY <1>1, <2>1, <2>2, VsyncFrame
<1>3. CASE vga.attached /\ deaths # 0
  <2>1. debt' = 0
    BY <1>1, <1>3 DEF Emit, Owe
  <2> QED
    BY <1>1, <1>3, <2>1 DEF VsyncInv
<1>4. CASE vga.attached /\ deaths = 0
  <2>1. /\ wire' = Append(wire, Vsync)
        /\ wire = <<>> => Edge /\ debt' = debt + (1 - Raised)
        /\ wire # <<>> => NoTrap /\ debt' = debt + (1 - 0)
    BY <1>1, <1>4 DEF Emit, Owe
  <2>2. /\ DOMAIN wire' = 1..(Len(wire) + 1) /\ wire'[Len(wire) + 1] = Vsync
        /\ \A i \in 1..Len(wire) : wire'[i] = wire[i]
        /\ wire' # <<>>
    BY <2>1, ByteFacts, Domains, PutFacts
  <2>3. Vsyncs' = {Len(wire) + 1} /\ Vsyncs = {}
    BY <1>1, <2>2, Domains DEF Vsyncs
  <2>4. ~fired /\ debt = 0 /\ (wire # <<>> => trap # "armed")
    <3>1. wire # <<>> => 1 \in DOMAIN wire
      BY Domains
    <3> QED
      BY <1>1, <1>4, <2>3, <3>1 DEF VsyncInv
  <2>5. CASE wire = <<>> /\ trap = "armed"
    <3>1. trap' = "off" /\ fired' /\ debt' = 0 /\ wire'[1] = Vsync
      BY <2>1, <2>2, <2>4, <2>5 DEF Edge, TrapFires, Raised
    <3> QED
      BY <1>1, <1>4, <2>2, <2>3, <3>1 DEF VsyncInv
  <2>6. CASE trap # "armed"
    <3>1. UNCHANGED <<trap, fired>> /\ debt' = 1
      BY <2>1, <2>4, <2>6 DEF Edge, NoTrap, Raised
    <3> QED
      BY <1>1, <1>4, <2>3, <2>4, <2>6, <3>1 DEF VsyncInv
  <2> QED
    BY <2>4, <2>5, <2>6
<1> QED
  BY <1>2, <1>3, <1>4

(* A byte is received: a VSYNC ends what the trap did, an answer came with *)
(* no VSYNC before it.                                                     *)
LEMMA VsyncReceived ==
    ASSUME TypeOK, VsyncInv, ReceiveVsync \/ ReceiveAnswer
    PROVE  VsyncInv'
<1>1. /\ wire # <<>> /\ wire' = Tail(wire) /\ UNCHANGED <<state, phase, deaths>>
      /\ 1 \in DOMAIN wire /\ Head(wire) = wire[1]
  BY Domains, TakeFacts DEF ReceiveVsync, ReceiveAnswer, Received
<1>2. CASE deaths # 0
  <2>1. debt' = 0
    BY <1>2 DEF VsyncInv, ReceiveVsync, ReceiveAnswer, Owe, TypeOK
  <2> QED
    BY <1>1, <1>2, <2>1 DEF VsyncInv
<1>3. /\ \A i \in DOMAIN wire' : i \in Nat \ {0} /\ i + 1 \in DOMAIN wire /\ wire'[i] = wire[i + 1]
      /\ \A j \in DOMAIN wire : j = 1 \/ (j - 1 \in DOMAIN wire' /\ wire'[j - 1] = wire[j])
  BY <1>1, Domains, TakeFacts
<1>4. CASE deaths = 0 /\ ReceiveVsync
  <2>1. Vsyncs # {} /\ debt = IF fired THEN 0 ELSE 1
    BY <1>1, <1>4 DEF VsyncInv, Vsyncs, ReceiveVsync
  <2>2. trap' = "set" /\ ~fired' /\ debt' = debt + (IF fired THEN 0 ELSE -1)
    BY <1>4 DEF ReceiveVsync, Owe
  <2>3. debt' = 0
    BY <2>1, <2>2
  <2>4. Vsyncs' = {}
    <3>1. \A i, j \in Vsyncs : i = j
      BY <1>4 DEF VsyncInv
    <3>2. 1 \in Vsyncs
      BY <1>1, <1>4 DEF Vsyncs, ReceiveVsync
    <3>3. \A i \in Vsyncs' : i \in Nat \ {0} /\ i + 1 \in Vsyncs
      BY <1>3 DEF Vsyncs
    <3> QED
      BY <3>1, <3>2, <3>3
  <2> QED
    BY <1>1, <1>4, <2>2, <2>3, <2>4 DEF VsyncInv
<1>5. CASE deaths = 0 /\ ReceiveAnswer
  <2>1. wire[1] # Vsync
    BY <1>1, <1>5 DEF ReceiveAnswer
  <2>2. ~fired /\ trap # "armed"
    BY <1>1, <1>5, <2>1 DEF VsyncInv
  <2>3. UNCHANGED <<trap, fired>> /\ debt' = debt
    BY <1>5, <2>2 DEF ReceiveAnswer, Edge, NoTrap, Owe, Raised, TypeOK
  <2>4. /\ \A i \in Vsyncs' : i \in Nat /\ i + 1 \in Vsyncs
        /\ \A j \in Vsyncs : j - 1 \in Vsyncs'
    BY <1>3, <2>1 DEF Vsyncs
  <2>5. (Vsyncs' = {} <=> Vsyncs = {}) /\ \A i, j \in Vsyncs' : i = j
    BY <1>5, <2>4 DEF VsyncInv
  <2> QED
    BY <1>1, <1>5, <2>2, <2>3, <2>5 DEF VsyncInv
<1> QED
  BY <1>2, <1>4, <1>5 DEF TypeOK

LEMMA VsyncTrap ==
    ASSUME TypeOK, VsyncInv, Arm \/ BitFires \/ Disarm
    PROVE  VsyncInv'
<1>1. UNCHANGED <<wire, state, phase, deaths>>
  BY DEF Arm, BitFires, Disarm
<1>2. wire # <<>> => 1 \in DOMAIN wire
  BY Domains
<1>3. Vsyncs' = Vsyncs
  BY <1>1 DEF Vsyncs
<1>4. CASE Arm
  <2>1. /\ trap = "set" /\ state = "connected" /\ \A i \in DOMAIN wire : wire[i] = Vsync
        /\ phase = "locked" \/ wire # <<>>
        /\ trap' = "armed" /\ ~fired' /\ debt' = debt
    BY <1>4 DEF Arm
  <2>2. deaths = 0 => ~fired
    BY <2>1 DEF VsyncInv
  <2> QED
    BY <1>1, <1>2, <1>3, <2>1, <2>2 DEF VsyncInv
<1>5. CASE BitFires
  <2>1. trap = "armed" /\ wire # <<>> /\ trap' = "off" /\ fired' /\ Owe(-1)
    BY <1>5 DEF BitFires, TrapFires
  <2>2. CASE deaths = 0
    <3>1. wire[1] = Vsync /\ ~fired
      BY <2>1, <2>2 DEF VsyncInv
    <3>2. Vsyncs # {}
      BY <1>2, <2>1, <3>1 DEF Vsyncs
    <3>3. debt = 1 /\ debt' = debt - 1
      BY <2>1, <2>2, <3>1, <3>2 DEF VsyncInv, Owe
    <3>4. debt' = 0
      BY <3>3
    <3> QED
      BY <1>1, <1>3, <2>1, <2>2, <3>1, <3>4 DEF VsyncInv
  <2>3. CASE deaths # 0
    BY <1>1, <2>1, <2>3 DEF VsyncInv, Owe
  <2> QED
    BY <2>2, <2>3
<1>6. CASE Disarm
  BY <1>1, <1>3, <1>6 DEF VsyncInv, Disarm
<1> QED
  BY <1>4, <1>5, <1>6

LEMMA VsyncStep ==
    ASSUME TypeOK, CanvasInv, AttachedInv, MineInv, VsyncInv, [Next]_vars
    PROVE  VsyncInv'
<1>1. CASE UNCHANGED <<wire, fired, debt, deaths, trap, state, phase>>
  BY <1>1, VsyncFrame
<1>2. ASSUME NEW r, NEW p, GiveUp(r, p) PROVE VsyncInv'
  <2>1. wire' = StrayAll(wire) /\ UNCHANGED <<fired, debt, deaths, trap, state, phase>>
    BY <1>2 DEF GiveUp
  <2> QED
    BY <2>1, VsyncStray, VsyncFrame
<1>3. CASE PixApiXreg \/ Stop
  <2>1. ASSUME NEW c \in Calls, Setup(c[1], c[2], c[3]) PROVE VsyncInv'
    BY <2>1, <1>1 DEF Setup, Working
  <2>2. CASE Send /\ (RegAt(call.first + left - 1) \in Key \/ left > 1)
    BY <2>2, <1>1 DEF Send, Working
  <2> QED
    BY <1>2, <1>3, <2>1, <2>2, Breaks DEF PixApiXreg
<1>4. CASE VgaTaskLost
  <2>1. /\ state = "connected" /\ ~vga.attached /\ trap' = "off"
        /\ UNCHANGED <<wire, fired, debt, deaths, phase>>
    BY <1>4 DEF VgaTaskLost
  <2>2. deaths # 0
    BY <2>1 DEF AttachedInv
  <2> QED
    BY <2>1, <2>2 DEF VsyncInv
<1>5. CASE RunConnects
  <2>1. state = "lost" /\ UNCHANGED <<wire, fired, debt, deaths, trap, phase>>
    BY <1>5 DEF RunConnects
  <2>2. deaths # 0
    BY <2>1 DEF AttachedInv
  <2> QED
    BY <2>1, <2>2 DEF VsyncInv
<1>6. CASE RiaTask
  <2>1. held # Nothing /\ Emit(held) /\ phase # "locked" /\ UNCHANGED <<state, phase, deaths>>
    BY <1>6 DEF RiaTask
  <2>2. held \in Byte /\ held # Vsync
    <3>1. held \in [is : Answers, mine : BOOLEAN]
      BY <2>1 DEF TypeOK
    <3> QED
      BY <3>1 DEF Byte, Answers, Vsync
  <2> QED
    BY <2>1, <2>2, VsyncEmit
<1>7. CASE RiaVsync
  BY <1>7, VsyncSent
<1>8. CASE TakeCanvas \/ TakeMode
  <2>1. pix # <<>> /\ UNCHANGED <<state, phase, deaths>>
    BY <1>8 DEF TakeCanvas, TakeMode, Take
  <2>2. PICK a \in Answers : Reply(a)
    BY <1>8 DEF TakeCanvas, TakeMode, Answers
  <2>3. Msg \in Message
    BY <2>1, Domains, TakeFacts DEF Msg
  <2>4. Msg.mine \in BOOLEAN
    BY <2>3, Zenon DEF Message
  <2> DEFINE b == [is |-> a, mine |-> Msg.mine]
  <2>5. b \in Byte /\ b # Vsync
    BY <2>4, ByteFacts
  <2>6. RiaSend(b)
    BY <2>2 DEF Reply
  <2> HIDE DEF b
  <2>7. CASE phase = "locked"
    BY <2>1, <2>6, <2>7, <1>1 DEF RiaSend
  <2>8. CASE phase # "locked"
    BY <2>1, <2>5, <2>6, <2>8, VsyncEmit DEF RiaSend
  <2> QED
    BY <2>7, <2>8
<1>9. CASE TakeArgument \/ TakeDisplay
  BY <1>9, <1>1 DEF TakeArgument, TakeDisplay, Take
<1>10. CASE TakeDetach
  <2>1. /\ pix # <<>> /\ Head(pix).reg = "detach"
        /\ UNCHANGED <<wire, fired, debt, deaths, trap, state>>
    BY <1>10 DEF TakeDetach, Msg
  <2>2. ~vga.attached
    <3>1. 1 \in DOMAIN pix /\ Head(pix) = pix[1]
      BY <2>1, Domains, TakeFacts
    <3> QED
      BY <2>1, <3>1 DEF AttachedInv
  <2>3. deaths = 0 => trap # "armed"
    BY <2>2 DEF AttachedInv, VsyncInv
  <2> QED
    BY <2>1, <2>3, VsyncFrame
<1>11. CASE VgaDies
  <2>1. deaths' # 0 /\ debt' = 0
    BY <1>11 DEF VgaDies, TypeOK
  <2> QED
    BY <2>1 DEF VsyncInv
<1>12. CASE LockoutBegins
  BY <1>12, VsyncFrame DEF LockoutBegins
<1>13. CASE LockoutEnds
  BY <1>13, VsyncFrame DEF LockoutEnds
<1>14. CASE ReceiveVsync \/ ReceiveAnswer
  BY <1>14, VsyncReceived
<1>15. CASE Arm \/ BitFires \/ Disarm
  BY <1>15, VsyncTrap
<1>16. CASE UNCHANGED vars \/ Ask \/ ResetAgain \/ VgaTaskReset \/ Run \/ VgaBoots \/ PixDrops
  BY <1>16, <1>1 DEF vars, Ask, ResetAgain, VgaTaskReset, Run, VgaBoots, PixDrops
<1> QED
  BY <1>3, <1>4, <1>5, <1>6, <1>7, <1>8, <1>9, <1>10, <1>11, <1>12, <1>13, <1>14, <1>15, <1>16
     DEF Next, PixTask, Interrupts

----------------------------------------------------------------------------
(* OldFirst and ResetLast when nothing, one more, or one less is in PIX.   *)
LEMMA OldSame ==
    ASSUME NEW p, NEW q, NEW t, NEW u, OldFirst(p, t), DOMAIN q = DOMAIN p,
           \A i \in DOMAIN p : q[i].reg = p[i].reg /\ q[i].new = p[i].new,
           "old" \in u => "old" \in t
    PROVE  OldFirst(q, u)
BY DEF OldFirst, IsOld

LEMMA ResetSame ==
    ASSUME NEW p, NEW q, NEW t, NEW u, ResetLast(p, t), DOMAIN q = DOMAIN p,
           \A i \in DOMAIN p : q[i].reg = p[i].reg, t = {} => u = {}
    PROVE  ResetLast(q, u)
BY DEF ResetLast

LEMMA OldPut ==
    ASSUME NEW p \in Seq(Message), NEW m \in Message, NEW t, OldFirst(p, t), ~IsOld(m)
    PROVE  OldFirst(Append(p, m), t)
<1> DEFINE q == Append(p, m)
<1>1. /\ DOMAIN q = 1..(Len(p) + 1) /\ DOMAIN p = 1..Len(p) /\ Len(p) \in Nat
      /\ \A i \in 1..Len(p) : q[i] = p[i]
      /\ q[Len(p) + 1] = m
  BY PutFacts
<1> HIDE DEF q
<1>2. /\ DOMAIN p \subseteq DOMAIN q
      /\ \A i \in DOMAIN q : (i \in DOMAIN p /\ q[i] = p[i]) \/ (q[i] = m /\ \A k \in DOMAIN p : i > k)
  BY <1>1
<1>3. CASE "old" \notin t /\ \A i \in DOMAIN p : ~IsOld(p[i])
  BY <1>2, <1>3 DEF OldFirst, q
<1>4. CASE \E k \in DOMAIN p :
         /\ p[k].reg = "display"
         /\ \A i \in DOMAIN p : IsOld(p[i]) => i < k
         /\ \A i \in DOMAIN p : p[i].new => i > k
  <2>1. PICK k \in DOMAIN p :
         /\ p[k].reg = "display"
         /\ \A i \in DOMAIN p : IsOld(p[i]) => i < k
         /\ \A i \in DOMAIN p : p[i].new => i > k
    BY <1>4
  <2>2. k \in DOMAIN q /\ q[k].reg = "display"
    BY <1>1, <2>1
  <2>3. /\ \A i \in DOMAIN q : IsOld(q[i]) => i < k
        /\ \A i \in DOMAIN q : q[i].new => i > k
    BY <1>2, <2>1
  <2> QED
    BY <2>2, <2>3 DEF OldFirst, q
<1> QED
  BY <1>3, <1>4 DEF OldFirst

LEMMA ResetPut ==
    ASSUME NEW p \in Seq(Message), NEW m \in Message, NEW t, m.reg \notin Regs,
           m.reg = "display" \/ ResetLast(p, t)
    PROVE  ResetLast(Append(p, m), t)
<1> DEFINE q == Append(p, m)
<1>1. /\ DOMAIN q = 1..(Len(p) + 1) /\ DOMAIN p = 1..Len(p) /\ Len(p) \in Nat
      /\ \A i \in 1..Len(p) : q[i] = p[i]
      /\ q[Len(p) + 1] = m
  BY PutFacts
<1> HIDE DEF q
<1>2. \A i \in DOMAIN q : q[i].reg \in Regs => i \in DOMAIN p /\ q[i] = p[i]
  BY <1>1
<1>3. CASE m.reg = "display"
  <2>1. Len(p) + 1 \in DOMAIN q /\ q[Len(p) + 1].reg = "display"
    BY <1>1, <1>3
  <2>2. \A i \in DOMAIN q : q[i].reg \in Regs => i < Len(p) + 1
    BY <1>1, <1>2
  <2> QED
    BY <2>1, <2>2 DEF ResetLast, q
<1>4. CASE t = {} /\ \A i \in DOMAIN p : p[i].reg \notin Regs
  BY <1>2, <1>4 DEF ResetLast, q
<1>5. CASE \E k \in DOMAIN p :
         /\ p[k].reg = "display"
         /\ \A i \in DOMAIN p : p[i].reg \in Regs => i < k
  BY <1>1, <1>2, <1>5 DEF ResetLast, q
<1> QED
  BY <1>3, <1>4, <1>5 DEF ResetLast

LEMMA OldTake ==
    ASSUME NEW p \in Seq(Message), p # <<>>, NEW t, NEW u, OldFirst(p, t),
           Head(p).reg = "display" => "old" \notin u,
           "old" \in u => "old" \in t \/ IsOld(Head(p))
    PROVE  OldFirst(Tail(p), u)
<1> DEFINE q == Tail(p)
<1>1. /\ DOMAIN q = 1..(Len(p) - 1) /\ DOMAIN p = 1..Len(p) /\ Len(p) \in Nat \ {0}
      /\ \A i \in 1..(Len(p) - 1) : q[i] = p[i + 1]
      /\ Head(p) = p[1]
  BY TakeFacts
<1> HIDE DEF q
<1>2. \A i \in DOMAIN q : i \in Nat /\ i + 1 \in DOMAIN p /\ i + 1 > 1 /\ q[i] = p[i + 1]
  BY <1>1
<1>3. CASE "old" \notin t /\ \A i \in DOMAIN p : ~IsOld(p[i])
  <2>1. 1 \in DOMAIN p
    BY <1>1
  <2> QED
    BY <1>1, <1>2, <1>3, <2>1 DEF OldFirst, q
<1>4. CASE \E k \in DOMAIN p :
         /\ p[k].reg = "display"
         /\ \A i \in DOMAIN p : IsOld(p[i]) => i < k
         /\ \A i \in DOMAIN p : p[i].new => i > k
  <2>1. PICK k \in DOMAIN p :
         /\ p[k].reg = "display"
         /\ \A i \in DOMAIN p : IsOld(p[i]) => i < k
         /\ \A i \in DOMAIN p : p[i].new => i > k
    BY <1>4
  <2>2. CASE k = 1
    <3>1. "old" \notin u /\ \A i \in DOMAIN q : ~IsOld(q[i])
      BY <1>1, <1>2, <2>1, <2>2
    <3> QED
      BY <3>1 DEF OldFirst, q
  <2>3. CASE k # 1
    <3>1. k - 1 \in DOMAIN q /\ q[k - 1].reg = "display"
      BY <1>1, <2>1, <2>3
    <3>2. /\ \A i \in DOMAIN q : IsOld(q[i]) => i < k - 1
          /\ \A i \in DOMAIN q : q[i].new => i > k - 1
      BY <1>1, <1>2, <2>1
    <3> QED
      BY <3>1, <3>2 DEF OldFirst, q
  <2> QED
    BY <2>2, <2>3
<1> QED
  BY <1>3, <1>4 DEF OldFirst

LEMMA ResetTake ==
    ASSUME NEW p \in Seq(Message), p # <<>>, NEW t, NEW u, ResetLast(p, t),
           Head(p).reg = "display" => u = {},
           t = {} /\ Head(p).reg \notin Regs => u = {}
    PROVE  ResetLast(Tail(p), u)
<1> DEFINE q == Tail(p)
<1>1. /\ DOMAIN q = 1..(Len(p) - 1) /\ DOMAIN p = 1..Len(p) /\ Len(p) \in Nat \ {0}
      /\ \A i \in 1..(Len(p) - 1) : q[i] = p[i + 1]
      /\ Head(p) = p[1]
  BY TakeFacts
<1> HIDE DEF q
<1>2. \A i \in DOMAIN q : i \in Nat /\ i + 1 \in DOMAIN p /\ i + 1 > 1 /\ q[i] = p[i + 1]
  BY <1>1
<1>3. CASE t = {} /\ \A i \in DOMAIN p : p[i].reg \notin Regs
  <2>1. 1 \in DOMAIN p
    BY <1>1
  <2> QED
    BY <1>1, <1>2, <1>3, <2>1 DEF ResetLast, q
<1>4. CASE \E k \in DOMAIN p :
         /\ p[k].reg = "display"
         /\ \A i \in DOMAIN p : p[i].reg \in Regs => i < k
  <2>1. PICK k \in DOMAIN p :
         /\ p[k].reg = "display"
         /\ \A i \in DOMAIN p : p[i].reg \in Regs => i < k
    BY <1>4
  <2>2. CASE k = 1
    <3>1. u = {} /\ \A i \in DOMAIN q : q[i].reg \notin Regs
      BY <1>1, <1>2, <2>1, <2>2
    <3> QED
      BY <3>1 DEF ResetLast, q
  <2>3. CASE k # 1
    <3>1. k - 1 \in DOMAIN q /\ q[k - 1].reg = "display"
      BY <1>1, <2>1, <2>3
    <3>2. \A i \in DOMAIN q : q[i].reg \in Regs => i < k - 1
      BY <1>1, <1>2, <2>1
    <3> QED
      BY <3>1, <3>2 DEF ResetLast, q
  <2> QED
    BY <2>2, <2>3
<1> QED
  BY <1>3, <1>4 DEF ResetLast

(* What the VGA holds after it took a message.                             *)
LEMMA TagsTaken ==
    ASSUME TypeOK, PixTask
    PROVE  /\ pix # <<>> /\ pix' = Tail(pix) /\ UNCHANGED <<machine, needsReset>>
           /\ \/ Head(pix).reg \in Regs /\ Tags' \subseteq Tags \cup {Tag}
              \/ Head(pix).reg = "display" /\ Tags' = {}
              \/ Head(pix).reg = "detach" /\ Tags' = Tags
<1>t. vga \in VgaType
  BY DEF TypeOK, VgaType
<1>1. CASE TakeCanvas
  <2>1. Head(pix).reg \in Regs /\ pix # <<>> /\ pix' = Tail(pix) /\ UNCHANGED <<machine, needsReset>>
    BY <1>1 DEF TakeCanvas, Take, Msg, Regs, Key
  <2>2. \/ vga' = [vga EXCEPT !.args = {}]
        \/ \E d \in {{}, {Tag}} : vga' = [vga EXCEPT !.args = {}, !.canvas = Msg.word, !.drawn = d]
    BY <1>1 DEF TakeCanvas
  <2>3. Tags' \subseteq Tags \cup {Tag}
    BY <2>2, <1>t DEF Tags, VgaType
  <2> QED
    BY <2>1, <2>3
<1>2. CASE TakeMode
  <2>1. Head(pix).reg \in Regs /\ pix # <<>> /\ pix' = Tail(pix) /\ UNCHANGED <<machine, needsReset>>
    BY <1>2 DEF TakeMode, Take, Msg, Regs, Key
  <2>2. \/ vga' = [vga EXCEPT !.args = {}]
        \/ vga' = [vga EXCEPT !.args = {}, !.drawn = @ \cup {Tag}]
    BY <1>2 DEF TakeMode
  <2>3. Tags' \subseteq Tags \cup {Tag}
    BY <2>2, <1>t DEF Tags, VgaType
  <2> QED
    BY <2>1, <2>3
<1>3. CASE TakeArgument
  <2>1. Head(pix).reg \in Regs /\ pix # <<>> /\ pix' = Tail(pix) /\ UNCHANGED <<machine, needsReset>>
    BY <1>3 DEF TakeArgument, Take, Msg, Regs, Key
  <2>2. vga' = [vga EXCEPT !.args = @ \cup {Tag}]
    BY <1>3 DEF TakeArgument
  <2>3. Tags' \subseteq Tags \cup {Tag}
    BY <2>2, <1>t DEF Tags, VgaType
  <2> QED
    BY <2>1, <2>3
<1>4. CASE TakeDisplay
  <2>1. Head(pix).reg = "display" /\ pix # <<>> /\ pix' = Tail(pix) /\ UNCHANGED <<machine, needsReset>>
    BY <1>4 DEF TakeDisplay, Take, Msg
  <2>2. Tags' = {}
    BY <1>4, <1>t DEF TakeDisplay, Tags, VgaType
  <2> QED
    BY <2>1, <2>2
<1>5. CASE TakeDetach
  <2>1. Head(pix).reg = "detach" /\ pix # <<>> /\ pix' = Tail(pix) /\ UNCHANGED <<machine, needsReset>>
    BY <1>5 DEF TakeDetach, Msg
  <2>2. Tags' = Tags
    BY <1>5, <1>t DEF TakeDetach, Tags, VgaType
  <2> QED
    BY <2>1, <2>2
<1> QED
  BY <1>1, <1>2, <1>3, <1>4, <1>5 DEF PixTask

(* PIX and what the VGA holds stay as they are, but for strays.            *)
LEMMA InheritFrame ==
    ASSUME InheritInv, DOMAIN pix' = DOMAIN pix,
           \A i \in DOMAIN pix : pix'[i].reg = pix[i].reg /\ pix'[i].new = pix[i].new,
           Tags' = Tags \/ Tags' = {},
           machine' = "down" /\ ~needsReset' => machine = "down" /\ ~needsReset
    PROVE  InheritInv'
<1>1. OldFirst(pix', Tags')
  BY OldSame DEF InheritInv
<1>2. machine' = "down" /\ ~needsReset' => ResetLast(pix', Tags')
  BY ResetSame DEF InheritInv
<1> QED
  BY <1>1, <1>2 DEF InheritInv

(* A program's register is put on PIX.                                     *)
LEMMA InheritPut ==
    ASSUME TypeOK, InheritInv, NEW r \in Regs, NEW w \in Words,
           DOMAIN pix' = DOMAIN Put(r, w),
           \A i \in DOMAIN Put(r, w) :
              pix'[i].reg = Put(r, w)[i].reg /\ pix'[i].new = Put(r, w)[i].new,
           Tags' = Tags, machine' = "up"
    PROVE  InheritInv'
<1> DEFINE m == Register(r, w)
<1>1. m \in Message /\ Put(r, w) = Append(pix, m) /\ m.reg = r /\ m.new = TRUE
  BY RegisterIsMessage
<1> HIDE DEF m
<1>x. pix \in Seq(Message)
  BY DEF TypeOK
<1>2. OldFirst(Put(r, w), Tags)
  BY <1>1, <1>x, OldPut DEF InheritInv, IsOld
<1>3. OldFirst(pix', Tags')
  BY <1>2, OldSame
<1>4. \A i \in DOMAIN pix' : pix'[i].new => pix'[i].reg \in Regs
  BY <1>1, <1>x, PutFacts DEF InheritInv
<1> QED
  BY <1>3, <1>4 DEF InheritInv

(* An order of the RIA is.                                                 *)
LEMMA InheritOrder ==
    ASSUME TypeOK, InheritInv, NEW o \in {"display", "detach"},
           pix' = Append(pix, Order(o)), Tags' = Tags,
           machine' = "down" /\ ~needsReset' =>
              o = "display" \/ (machine = "down" /\ ~needsReset)
    PROVE  InheritInv'
<1> DEFINE m == Order(o)
<1>1. m \in Message /\ m.reg = o /\ m.new = FALSE /\ m.reg \notin Regs
  BY OrderIsMessage DEF Regs, Key
<1> HIDE DEF m
<1>x. pix \in Seq(Message)
  BY DEF TypeOK
<1>2. OldFirst(Append(pix, m), Tags)
  BY <1>1, <1>x, OldPut DEF InheritInv, IsOld
<1>3. machine' = "down" /\ ~needsReset' => ResetLast(Append(pix, m), Tags)
  BY <1>1, <1>x, ResetPut DEF InheritInv
<1>4. \A i \in DOMAIN Append(pix, m) : Append(pix, m)[i].new => Append(pix, m)[i].reg \in Regs
  BY <1>1, <1>x, PutFacts DEF InheritInv
<1>5. pix' = Append(pix, m)
  BY DEF m
<1> QED
  BY <1>2, <1>3, <1>4, <1>5 DEF InheritInv

(* The message at the front of PIX is taken, or nobody takes it.           *)
LEMMA InheritTake ==
    ASSUME TypeOK, InheritInv, pix # <<>>, pix' = Tail(pix),
           Head(pix).reg = "display" => Tags' = {},
           "old" \in Tags' => "old" \in Tags \/ IsOld(Head(pix)),
           Tags = {} /\ Head(pix).reg \notin Regs => Tags' = {},
           UNCHANGED <<machine, needsReset>>
    PROVE  InheritInv'
<1>x. pix \in Seq(Message)
  BY DEF TypeOK
<1>1. OldFirst(pix', Tags')
  BY <1>x, OldTake DEF InheritInv
<1>2. machine' = "down" /\ ~needsReset' => ResetLast(pix', Tags')
  BY <1>x, ResetTake DEF InheritInv
<1>3. \A i \in DOMAIN pix' : pix'[i].new => pix'[i].reg \in Regs
  BY <1>x, TakeFacts DEF InheritInv
<1> QED
  BY <1>1, <1>2, <1>3 DEF InheritInv

(* A program starts: what is left of the last one is old.                  *)
LEMMA InheritRun ==
    ASSUME TypeOK, InheritInv, Run \/ RunConnects
    PROVE  InheritInv'
<1>t. vga \in VgaType /\ pix \in Seq(Message)
  BY DEF TypeOK, VgaType
<1>1. machine' = "up" /\ ResetLast(pix, Tags)
  BY DEF Run, RunConnects, InheritInv
<1>2. Tags = {} => Aged.args = {} /\ Aged.drawn = {}
  BY <1>t DEF Tags, Aged, OldTags, VgaType
<1>3. CASE Run
  <2>1. pix' = Old(pix) /\ vga' = Aged
    BY <1>3 DEF Run
  <2>2. DOMAIN pix' = DOMAIN pix
        /\ \A i \in DOMAIN pix : pix'[i].reg = pix[i].reg /\ pix'[i].new = FALSE
    BY <2>1, <1>t, OldFacts
  <2>3. Tags = {} => Tags' = {}
    BY <1>2, <2>1 DEF Tags
  <2>4. OldFirst(pix', Tags')
    BY <1>1, <2>2, <2>3 DEF ResetLast, OldFirst, IsOld
  <2> QED
    BY <1>1, <2>2, <2>4 DEF InheritInv
<1>4. CASE RunConnects
  <2>1. pix = <<>> /\ Tags = {}
    BY <1>1, <1>4 DEF RunConnects, ResetLast
  <2>2. Tags' = {}
    <3>1. vga' = [Aged EXCEPT !.attached = TRUE] \/ vga' = vga
      BY <1>4 DEF RunConnects
    <3>2. CASE vga' = [Aged EXCEPT !.attached = TRUE]
      <4>1. Aged \in VgaType
        BY <1>t DEF Aged, OldTags, VgaType
      <4>2. vga'.args = Aged.args /\ vga'.drawn = Aged.drawn
        BY <3>2, <4>1 DEF VgaType
      <4> QED
        BY <1>2, <2>1, <4>2 DEF Tags
    <3>3. CASE vga' = vga
      BY <2>1, <3>3 DEF Tags
    <3> QED
      BY <3>1, <3>2, <3>3
  <2>3. \A i \in DOMAIN pix' : pix'[i].reg \notin Regs /\ pix'[i].new = FALSE
    <3>1. pix' = <<>> \/ pix' = <<Order("detach")>>
      BY <1>4, <2>1 DEF RunConnects
    <3>2. Order("detach").reg \notin Regs /\ Order("detach").new = FALSE
      BY OrderIsMessage DEF Regs, Key
    <3> QED
      BY <3>1, <3>2
  <2> QED
    BY <1>1, <2>2, <2>3 DEF InheritInv, OldFirst, IsOld
<1> QED
  BY <1>3, <1>4

LEMMA InheritStep ==
    ASSUME TypeOK, CallInv, CanvasInv, InheritInv, [Next]_vars
    PROVE  InheritInv'
<1>x. pix \in Seq(Message) /\ call.word \in Words
  BY DEF TypeOK
<1>1. CASE UNCHANGED <<pix, vga, machine>> /\ (needsReset' = needsReset \/ needsReset')
  <2>1. Tags' = Tags
    BY <1>1 DEF Tags
  <2> QED
    BY <1>1, <2>1, InheritFrame
<1>2. ASSUME NEW r, GiveUp(r, pix),
             needsReset' \/ (machine' = machine /\ needsReset' = needsReset)
      PROVE  InheritInv'
  <2>1. Tags' = Tags
    BY <1>2 DEF Tags, GiveUp
  <2>2. DOMAIN pix' = DOMAIN pix
        /\ \A i \in DOMAIN pix : pix'[i].reg = pix[i].reg /\ pix'[i].new = pix[i].new
    BY <1>2, <1>x, GiveUpFacts
  <2> QED
    BY <1>2, <2>1, <2>2, InheritFrame
<1>3. CASE Refuse \/ Acked \/ Naked \/ Timeout
  BY <1>3, <1>2 DEF Refuse, Acked, Naked, Timeout, Answer
<1>4. CASE Stop
  BY <1>4, <1>2 DEF Stop
<1>5. ASSUME NEW c \in Calls, Setup(c[1], c[2], c[3])
      PROVE  InheritInv'
  <2>1. c[3] \in Words /\ "canvas" \in Regs
    BY DEF Calls, Regs, Key
  <2>2. machine' = "up" /\ UNCHANGED <<machine, needsReset, vga>> /\ Tags' = Tags
    BY <1>5 DEF Setup, Idle, CallInv, Working, Tags
  <2>3. pix' = pix \/ pix' = Put("canvas", c[3])
    BY <1>5 DEF Setup
  <2> QED
    BY <2>1, <2>2, <2>3, <1>1, InheritPut
<1>6. CASE Send
  <2> DEFINE r == RegAt(call.first + left - 1)
  <2>1. r \in Regs
    BY DEF RegAt, Regs, Key
  <2>2. machine' = "up" /\ Tags' = Tags
    BY <1>6 DEF Send, CallInv, Working, GiveUp, Tags
  <2>3. CASE r \in Key \/ left > 1
    <3>1. pix' = Put(r, call.word)
      BY <1>6, <2>3 DEF Send
    <3> QED
      BY <1>x, <2>1, <2>2, <3>1, InheritPut
  <2>4. CASE ~(r \in Key \/ left > 1)
    <3>1. GiveUp("ok", Put(r, call.word))
      BY <1>6, <2>4 DEF Send
    <3>2. Register(r, call.word) \in Message
          /\ Put(r, call.word) = Append(pix, Register(r, call.word))
      BY <2>1, <1>x, RegisterIsMessage
    <3>3. Put(r, call.word) \in Seq(Message)
      BY <1>x, <3>2, PutFacts
    <3> QED
      BY <1>x, <2>1, <2>2, <3>1, <3>3, GiveUpFacts, InheritPut
  <2> QED
    BY <2>3, <2>4
<1>7. CASE VgaTaskReset \/ VgaTaskLost
  <2>1. Tags' = Tags
    BY <1>7 DEF VgaTaskReset, VgaTaskLost, Tags
  <2>2. CASE VgaTaskReset
    BY <2>1, <2>2, InheritOrder DEF VgaTaskReset
  <2>3. CASE VgaTaskLost
    BY <2>1, <2>3, InheritOrder DEF VgaTaskLost
  <2> QED
    BY <1>7, <2>2, <2>3
<1>8. CASE Run \/ RunConnects
  BY <1>8, InheritRun
<1>9. CASE PixTask
  <2>1. /\ pix # <<>> /\ pix' = Tail(pix) /\ UNCHANGED <<machine, needsReset>>
        /\ \/ Head(pix).reg \in Regs /\ Tags' \subseteq Tags \cup {Tag}
           \/ Head(pix).reg = "display" /\ Tags' = {}
           \/ Head(pix).reg = "detach" /\ Tags' = Tags
    BY <1>9, TagsTaken
  <2>2. Tag = "old" => ~Head(pix).new
    BY DEF Tag, Msg
  <2>3. "display" \notin Regs
    BY DEF Regs, Key
  <2> QED
    BY <2>1, <2>2, <2>3, InheritTake DEF IsOld
<1>10. CASE VgaDies \/ VgaBoots
  <2>1. \A on \in BOOLEAN : Blank(on).args = {} /\ Blank(on).drawn = {}
    BY DEF Blank
  <2>2. Tags' = {} /\ UNCHANGED <<machine, needsReset, pix>>
    BY <1>10, <2>1 DEF VgaDies, VgaBoots, Tags
  <2> QED
    BY <2>2, InheritFrame
<1>11. CASE PixDrops
  <2>1. /\ pix # <<>> /\ pix' = Tail(pix) /\ vga = Blank(FALSE)
        /\ UNCHANGED <<machine, needsReset, vga>>
    BY <1>11 DEF PixDrops, CanvasInv
  <2>b. Blank(FALSE).args = {} /\ Blank(FALSE).drawn = {}
    BY DEF Blank
  <2>2. Tags' = {} /\ Tags = {}
    BY <2>1, <2>b DEF Tags
  <2> QED
    BY <2>1, <2>2, InheritTake
<1>12. CASE UNCHANGED vars \/ Ask \/ ResetAgain \/ RiaTask \/ RiaVsync \/ LockoutBegins \/ LockoutEnds
  BY <1>12, <1>1 DEF vars, Ask, ResetAgain, RiaTask, RiaVsync, LockoutBegins, LockoutEnds
<1>13. CASE Interrupts
  BY <1>13, <1>1 DEF Interrupts, ReceiveVsync, ReceiveAnswer, Arm, BitFires, Disarm
<1> QED
  BY <1>3, <1>4, <1>5, <1>6, <1>7, <1>8, <1>9, <1>10, <1>11, <1>12, <1>13
     DEF Next, PixApiXreg

----------------------------------------------------------------------------
LEMMA InitHolds == Init => IInv
<1> SUFFICES ASSUME Init PROVE IInv
  OBVIOUS
<1>1. /\ machine = "down" /\ busy = FALSE /\ call = NoCall /\ left = 0 /\ api = "running"
      /\ canvas = Console /\ needsReset = TRUE /\ pix = <<>>
      /\ held = Nothing /\ wire = <<>> /\ phase = "unseen" /\ trap = "off" /\ fired = FALSE
      /\ debt = 0 /\ deaths = 0 /\ mirrored = TRUE /\ verdict = Untried /\ muddled = FALSE
      /\ result = "none"
  BY DEF Init
<1>2. PICK on \in BOOLEAN : /\ vga = [Blank(on) EXCEPT !.attached = on]
                            /\ state = IF on THEN "connected" ELSE "notFound"
  BY DEF Init
<1>3. vga.on = on /\ vga.attached = on /\ vga.canvas = Console /\ vga \in VgaType
      /\ vga.args = {} /\ vga.drawn = {}
  BY <1>2 DEF Blank, VgaType
<1>4. TypeOK
  <2>1. call \in [first : 0..2, word : Words] /\ verdict \in [Key -> Answers \cup {"none", "asked"}]
    BY <1>1 DEF NoCall, Words, Untried
  <2>2. pix \in Seq(Message) /\ wire \in Seq(Byte) /\ Len(pix) = 0
    BY <1>1
  <2>3. state \in {"notFound", "connected", "lost"}
    BY <1>2
  <2>4. 0 \in 0..MaxRegs /\ 0 \in -1..WireRoom + 1 /\ 0 \in 0..MaxDeaths /\ 0 <= PixRoom
    OBVIOUS
  <2> QED
    BY <1>1, <1>3, <2>1, <2>2, <2>3, <2>4 DEF TypeOK, VgaType
<1>5. ~vga.on => vga = Blank(FALSE)
  BY <1>2, <1>3 DEF Blank
<1>6. DOMAIN pix = {} /\ DOMAIN wire = {} /\ ~SetUp
  BY <1>1 DEF SetUp
<1>7. CallInv
  BY <1>1, <1>6 DEF CallInv
<1>8. CanvasInv
  BY <1>1, <1>3, <1>5, <1>6 DEF CanvasInv, WillBe
<1>9. AttachedInv
  BY <1>1, <1>2, <1>3, <1>6 DEF AttachedInv
<1>10. MineInv /\ FlightInv /\ VerdictInv
  BY <1>1, <1>6 DEF MineInv, FlightInv, VerdictInv, Nothing
<1>11. InheritInv
  BY <1>3, <1>6 DEF InheritInv, OldFirst, ResetLast, Tags
<1>12. VsyncInv
  BY <1>1, <1>6 DEF VsyncInv, Vsyncs
<1> QED
  BY <1>4, <1>7, <1>8, <1>9, <1>10, <1>11, <1>12 DEF IInv

(* The invariant: all the theorems below rest on it.                       *)
THEOREM Inductive == Spec => []IInv
<1>1. IInv /\ [Next]_vars => IInv'
  <2> SUFFICES ASSUME IInv, [Next]_vars PROVE IInv'
    OBVIOUS
  <2> USE DEF IInv
  <2>1. VsyncInv'
    BY VsyncStep
  <2>2. debt' \in -1..WireRoom + 1
    <3>1. deaths' = deaths \/ VgaDies
      BY StateFacts
    <3>2. deaths' \in Nat
      <4>1. deaths \in Nat
        BY DEF TypeOK
      <4>2. deaths' = deaths \/ deaths' = deaths + 1
        BY <3>1 DEF VgaDies
      <4> QED
        BY <4>1, <4>2
    <3>3. debt' = 0 \/ debt' = 1
      BY <2>1, <3>2 DEF VsyncInv
    <3> QED
      BY <3>3
  <2>3. TypeOK'
    BY <2>2, TypeStep
  <2>4. CallInv'
    BY CallStep
  <2>5. CanvasInv'
    BY CanvasStep
  <2>6. AttachedInv'
    BY AttachedStep
  <2>7. MineInv'
    BY MineStep
  <2>8. FlightInv' /\ VerdictInv'
    BY <2>3, FlightStep
  <2>9. InheritInv'
    BY InheritStep
  <2> QED
    BY <2>1, <2>3, <2>4, <2>5, <2>6, <2>7, <2>8, <2>9
<1> QED
  BY <1>1, InitHolds, PTL DEF Spec

(* Every variable keeps to its type, PIX to its room and the VSYNCs owed   *)
(* to what can be on the wire.                                             *)
THEOREM TypeCorrect == Spec => []TypeOK
<1>1. IInv => TypeOK
  BY DEF IInv
<1> QED
  BY <1>1, Inductive, PTL

(* vga_canvas_current mirrors the canvas the VGA has, or will have when it *)
(* has taken what is in PIX, without ever asking it (vga.c).               *)
THEOREM CanvasIsMirrored == Spec => []CanvasMirrored
<1>1. IInv => CanvasMirrored
  BY DEF IInv, CanvasInv, CanvasMirrored
<1> QED
  BY <1>1, Inductive, PTL

(* A call that waits, and began with nothing on its way, has its answer on *)
(* its way in exactly one place: in PIX, held by the VGA, or on the wire.  *)
THEOREM AnswerIsOnItsWay == Spec => []AnswerOnItsWay
<1>1. IInv => AnswerOnItsWay
  <2> SUFFICES ASSUME IInv, api = "waiting", ~muddled, deaths = 0, state = "connected"
               PROVE  \/ held.mine /\ Mine(pix) = {} /\ Mine(wire) = {}
                      \/ /\ ~held.mine /\ Mine(wire) = {}
                         /\ \E i \in DOMAIN pix : Mine(pix) = {i}
                      \/ /\ ~held.mine /\ Mine(pix) = {}
                         /\ \E i \in DOMAIN wire : Mine(wire) = {i}
    BY DEF AnswerOnItsWay
  <2>1. /\ \A i \in Asked : pix[i].mine
        /\ \A i \in Sent : wire[i].mine
        /\ held # Nothing => held.mine
        /\ \A i, j \in Asked : i = j
        /\ \A i, j \in Sent : i = j
        /\ Asked = {} \/ Sent = {}
        /\ held # Nothing => Asked = {} /\ Sent = {}
        /\ Asked # {} \/ Sent # {} \/ held # Nothing
    BY DEF IInv, FlightInv, SetUp
  <2>2. Mine(pix) = Asked /\ Mine(wire) = Sent
    BY <2>1 DEF IInv, MineInv, Mine, Asked, Sent
  <2>3. held = Nothing => ~held.mine
    BY DEF Nothing
  <2>4. Asked # {} => \E i \in DOMAIN pix : Asked = {i}
    BY <2>1 DEF Asked
  <2>5. Sent # {} => \E i \in DOMAIN wire : Sent = {i}
    BY <2>1 DEF Sent
  <2> QED
    BY <2>1, <2>2, <2>3, <2>4, <2>5
<1> QED
  BY <1>1, Inductive, PTL

(* The first register of a program finds nothing of the program before it  *)
(* on the VGA, whatever that one left in PIX.                              *)
THEOREM NothingIsInherited == Spec => []NothingInherited
<1>1. IInv => NothingInherited
  <2> SUFFICES ASSUME IInv, pix # <<>>, Head(pix).new PROVE "old" \notin Tags
    BY DEF NothingInherited, Tags
  <2>1. 1 \in DOMAIN pix /\ Head(pix) = pix[1] /\ \A k \in DOMAIN pix : k \in Nat \ {0}
    BY Domains, TakeFacts DEF IInv
  <2>2. OldFirst(pix, Tags)
    BY DEF IInv, InheritInv
  <2> QED
    BY <2>1, <2>2 DEF OldFirst
<1> QED
  BY <1>1, Inductive, PTL

(* Every VSYNC the VGA sends is raised once, by the trap or by its byte.   *)
THEOREM VsyncIsRaisedOnce == Spec => []VsyncOnce
<1>1. IInv => VsyncOnce
  <2> SUFFICES ASSUME IInv, deaths = 0 PROVE debt >= 0 /\ (wire = <<>> => debt = 0)
    BY DEF VsyncOnce
  <2>1. debt = IF Vsyncs = {} \/ fired THEN 0 ELSE 1
    BY DEF IInv, VsyncInv
  <2>2. wire = <<>> => Vsyncs = {}
    BY DEF Vsyncs
  <2> QED
    BY <2>1, <2>2
<1> QED
  BY <1>1, Inductive, PTL

(* A call that returns 0 had every key register accepted, and one that     *)
(* returns EINVAL had one refused.                                         *)
THEOREM XregIsHonest == Spec => XregHonest
<1> DEFINE Honest ==
      ~muddled =>
         /\ Returns("ok") => \A k \in Key : verdict[k] \in {"none", "ack"}
         /\ Returns("EINVAL") => \E k \in Key : verdict[k] = "nak"
<1>1. IInv /\ [Next]_vars => [Honest]_vars
  <2> SUFFICES ASSUME IInv, Next, ~muddled, busy, ~busy' PROVE Honest
    BY DEF Returns
  <2>1. CASE PixApiXreg
    <3>1. CASE Refuse \/ Timeout
      BY <3>1 DEF Refuse, Timeout, Answer, GiveUp, Returns
    <3>2. ASSUME NEW c \in Calls, Setup(c[1], c[2], c[3]) PROVE Honest
      BY <3>2 DEF Setup, Working
    <3>3. CASE Send
      <4>1. left > 0 /\ api \in {"running", "ack"} /\ result' # "EINVAL"
        BY <3>3 DEF Send, Working, GiveUp
      <4>2. \A k \in Key : Good(verdict[k])
        BY <4>1 DEF IInv, VerdictInv, SetUp
      <4> QED
        BY <4>1, <4>2 DEF Returns, Good
    <3>4. CASE Acked
      <4>1. api = "ack" /\ result' = "ok"
        BY <3>4 DEF Acked, Answer, GiveUp
      <4>2. \A k \in Key : Good(verdict[k])
        BY <4>1 DEF IInv, VerdictInv, SetUp
      <4> QED
        BY <4>1, <4>2 DEF Returns, Good
    <3>5. CASE Naked
      <4>1. api = "nak" /\ result' = "EINVAL"
        BY <3>5 DEF Naked, Answer, GiveUp
      <4>2. \E k \in Key : verdict[k] = "nak"
        BY <4>1 DEF IInv, VerdictInv, SetUp
      <4> QED
        BY <4>1, <4>2 DEF Returns
    <3> QED
      BY <2>1, <3>1, <3>2, <3>3, <3>4, <3>5 DEF PixApiXreg
  <2>2. CASE Stop
    BY <2>2 DEF Stop, GiveUp, Returns
  <2>3. CASE PixTask
    BY <2>3 DEF PixTask, TakeCanvas, TakeMode, TakeArgument, TakeDisplay, TakeDetach, Take
  <2>4. CASE Ask \/ ResetAgain \/ VgaTaskReset \/ VgaTaskLost \/ Run \/ RunConnects
    BY <2>4 DEF Ask, ResetAgain, VgaTaskReset, VgaTaskLost, Run, RunConnects
  <2>5. CASE RiaTask \/ RiaVsync \/ LockoutBegins \/ LockoutEnds \/ VgaDies \/ VgaBoots \/ PixDrops
    BY <2>5 DEF RiaTask, RiaVsync, LockoutBegins, LockoutEnds, VgaDies, VgaBoots, PixDrops
  <2>6. CASE Interrupts
    BY <2>6 DEF Interrupts, ReceiveVsync, ReceiveAnswer, Arm, BitFires, Disarm
  <2> QED
    BY <2>1, <2>2, <2>3, <2>4, <2>5, <2>6 DEF Next
<1> QED
  BY <1>1, Inductive, PTL DEF Spec, XregHonest

============================================================================
