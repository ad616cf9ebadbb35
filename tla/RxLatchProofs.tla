--------------------------- MODULE RxLatchProofs ---------------------------
(***************************************************************************)
(* Proofs about RxLatch for any number of sources, bytes and reads: no     *)
(* byte vanishes, and each source's bytes are read once and in order until *)
(* core 0 looks at the latch between core 1's last two stores.             *)
(***************************************************************************)
EXTENDS RxLatch, SequenceTheorems, TLAPS

(* Len, which the provers had better not look into.                        *)
Size(q) == Len(q)

Reading == task.who = "read" /\ task.at # "idle"
Offering == task.who = "offer" /\ task.at \notin {"idle", "ready"}

(* Core 1 stands between its load of the slot's byte and its last store.   *)
Moving == act.at \in {"pReg", "pEmpty", "dReg", "dReady", "dEmpty"}

(* The program has read the register and core 1 is to replace its byte.    *)
Spent == act.at \in {"dSlot", "dReg", "dDrop", "dZero"}

(* Core 0.  A program that waits for the OS leaves the registers alone, and *)
(* the byte offered was not taken from the latch unless it was overtaken.  *)
TaskInv ==
    /\ mode = "asks" => act.at = "idle"
    /\ Reading => mode = "asks"
    /\ task.who = "offer" => task.length = 1
    /\ task.who = "read" => task.at # "ready"
    /\ task.at = "ready" \/ Offering => slot = None
    /\ task.s = Any => task.at = "pick"
    /\ task.at \in {"slot", "slotEmpty", "flag", "reg", "flagDrop", "regZero"} =>
          charSrc = task.s
    /\ task.at \in {"flag", "reg", "flagDrop", "regZero"} => slot = None
    /\ task.at \in {"idle", "ready", "pick", "slot", "flag", "reg"} =>
          task.hand = <<>>
    /\ task.at = "slotEmpty" => slot # None /\ task.hand = <<slot>>
    /\ task.at \in {"flagDrop", "regZero"} =>
          Size(task.hand) = 1 /\ reg \in {None, task.hand[1]}
    /\ task.at = "source" => Size(task.hand) <= 1
    /\ task.at = "offer" => task.who = "offer" /\ Size(task.hand) = 1
    /\ task.at = "return" => task.who = "read" /\ Size(task.hand) >= 1

(* Core 1.  What it is moving is in the slot until its copy is in the      *)
(* register, and in the register from then on.                             *)
ActInv ==
    /\ act.ch # None => Moving \/ act.at = "pReady"
    /\ Moving => slot = act.ch /\ slot # None
    /\ act.at \in {"pSlot", "pReg", "pEmpty", "dZero"} => ~flag
    /\ act.at \in {"pSlot", "pReg"} => ~act.flags
    /\ act.at = "pEmpty" => act.flags /\ reg = act.ch
    /\ act.at = "pReady" /\ ~act.flags => ~flag
    /\ act.at = "pReady" /\ act.ch # None =>
          /\ act.flags /\ ~flag /\ reg = act.ch
          /\ task.at \notin {"reg", "flagDrop", "regZero"}
    /\ act.at \in {"dReady", "dEmpty"} => reg = act.ch
    /\ act.at = "dEmpty" => flag
    /\ Spent => reg \in got \cup {None}

Has(q, b) == \E i \in 1..Size(q) : q[i] = b

(* A byte that was not discarded is somewhere.                             *)
Kept(b) ==
    \/ Has(queue[b[1]], b)
    \/ Has(task.hand, b)
    \/ slot = b
    \/ act.ch = b
    \/ (flag \/ task.at \in {"flagDrop", "regZero"}) /\ reg = b
    \/ b \in got

KeptInv ==
    \A s \in Source : \A n \in (cleared[s] + 1)..sent[s] : Kept(<<s, n>>)

(* The invariant that holds overtaken or not.                              *)
AnyInv == TypeOK /\ TaskInv /\ ActInv /\ KeptInv

(* Until core 0 is overtaken slot and register do not hold a byte each, an *)
(* offer finds both empty, and the register holds a byte when it says so.  *)
WindowInv ==
    /\ Offering => ~flag /\ ~(act.at = "pReady" /\ act.flags)
    /\ Offering => task.at \in {"pick", "slot", "flag", "source", "offer"}
    /\ act.at = "pReady" /\ act.flags => slot = None
    /\ act.at = "pReady" /\ act.flags /\ act.ch = None => flag
    /\ slot # None => ~flag \/ act.at = "dEmpty"
    /\ flag => reg # None /\ task.at # "regZero"
    /\ task.at = "reg" => flag
    /\ reg # None =>
          \/ flag
          \/ act.at \in {"pEmpty", "dReady", "dZero"}
          \/ act.at = "pReady" /\ act.flags
          \/ task.at = "regZero"
    /\ Reading /\ task.s = charSrc /\ task.at \in {"source", "return"} =>
          slot = None /\ reg = None

(* A program that saw bit 6 may count on it.                               *)
SawInv ==
    sawReady => flag /\ mode = "polls" /\ act.at \in {"idle", "pFlags", "pReady"}

Fresh(b) == b[2] > cleared[b[1]]

(* What a clear was to discard is gone.                                    *)
FreshInv ==
    /\ \A s \in Source : \A i \in 1..Size(queue[s]) : Fresh(queue[s][i])
    /\ \A i \in 1..Size(task.hand) : Fresh(task.hand[i])
    /\ slot # None => Fresh(slot)
    /\ act.ch # None => Fresh(act.ch)
    /\ flag => Fresh(reg)

(* The bytes of a row, or of a core's hands, are source s's, in order.     *)
Row(q, s) ==
    /\ \A i \in 1..Size(q) : q[i] \in Bytes /\ q[i][1] = s
    /\ \A i \in 1..Size(q) : \A j \in 1..Size(q) : i < j => q[i][2] < q[j][2]

(* A byte arrived before those of q.                                       *)
Before(b, q) == \A i \in 1..Size(q) : b[1] = q[i][1] => b[2] < q[i][2]

(* A byte in the latch: its source is the one core 0 noted, and it comes   *)
(* between what was read and what waits.                                   *)
InLine(b) ==
    /\ b[1] = charSrc
    /\ Before(b, queue[charSrc])
    /\ \A a \in got : a[1] = b[1] => a[2] < b[2]

(* Each source's bytes are in order: those read, the one in the latch,     *)
(* those in hand, those in its row.                                        *)
RowsInv ==
    /\ \A s \in Source : Row(queue[s], s)
    /\ \A s \in Source : \A i \in 1..Size(queue[s]) : queue[s][i][2] <= sent[s]
    /\ Row(task.hand, task.s)
    /\ \A i \in 1..Size(task.hand) :
          Before(task.hand[i], queue[task.s]) /\ task.hand[i][2] <= sent[task.s]

GotInv ==
    \A a \in got :
        a[2] <= sent[a[1]] /\ Before(a, queue[a[1]]) /\ Before(a, task.hand)

LatchInv ==
    /\ slot # None => InLine(slot) /\ slot[2] <= sent[slot[1]]
    /\ reg # None /\ ~Spent => InLine(reg) /\ reg[2] <= sent[reg[1]]

OrderInv == RowsInv /\ GotInv /\ LatchInv

TillOvertaken == ~overtook => WindowInv /\ SawInv /\ FreshInv /\ OrderInv

IInv == AnyInv /\ TillOvertaken
----------------------------------------------------------------------------
LEMMA ByteParts ==
    \A b \in Bytes : b[1] \in Source /\ b[2] \in Nat /\ b = <<b[1], b[2]>>
BY BoundsAssumption, SourcesAssumption DEF Bytes, Source

LEMMA SizeFacts ==
    /\ \A S : \A q \in Seq(S) : Size(q) \in Nat /\ (Size(q) = 0 <=> q = <<>>)
    /\ Size(<<>>) = 0 /\ \A b : Size(<<b>>) = 1
BY EmptySeq DEF Size

(* What ReadSource makes of the bytes in hand and the source's row.        *)
LEMMA TakeFacts ==
    ASSUME NEW h \in Seq(Byte), NEW q \in Seq(Bytes), NEW k \in 0..Size(q)
    PROVE  /\ h \o SubSeq(q, 1, k) \in Seq(Byte)
           /\ Size(h \o SubSeq(q, 1, k)) = Size(h) + k
           /\ \A i \in 1..Size(h) : (h \o SubSeq(q, 1, k))[i] = h[i]
           /\ \A i \in 1..k : (h \o SubSeq(q, 1, k))[Size(h) + i] = q[i]
           /\ SubSeq(q, k + 1, Len(q)) \in Seq(Bytes)
           /\ Size(SubSeq(q, k + 1, Len(q))) = Size(q) - k
           /\ \A i \in 1..(Size(q) - k) : SubSeq(q, k + 1, Len(q))[i] = q[k + i]
<1>1. Len(q) \in Nat /\ k \in Nat /\ k <= Len(q) /\ Len(h) \in Nat
  BY LenProperties DEF Size
<1>2. \A i \in 1..Len(q) : q[i] \in Bytes
  OBVIOUS
<1>3. /\ SubSeq(q, 1, k) \in Seq(Bytes)
      /\ Len(SubSeq(q, 1, k)) = k
      /\ \A i \in 1..k : SubSeq(q, 1, k)[i] = q[i]
  <2>1. \A i \in 1..k : q[i] \in Bytes
    BY <1>1, <1>2
  <2> QED
    BY <2>1, <1>1, SubSeqProperties
<1>4. /\ SubSeq(q, k + 1, Len(q)) \in Seq(Bytes)
      /\ Len(SubSeq(q, k + 1, Len(q))) = Len(q) - k
      /\ \A i \in 1..(Len(q) - k) : SubSeq(q, k + 1, Len(q))[i] = q[k + i]
  <2>1. \A i \in (k + 1)..Len(q) : q[i] \in Bytes
    BY <1>1, <1>2
  <2>2. /\ SubSeq(q, k + 1, Len(q)) \in Seq(Bytes)
        /\ Len(SubSeq(q, k + 1, Len(q))) =
              IF k + 1 <= Len(q) THEN Len(q) - (k + 1) + 1 ELSE 0
        /\ \A i \in 1..(Len(q) - (k + 1) + 1) :
              SubSeq(q, k + 1, Len(q))[i] = q[k + 1 + i - 1]
    <3>1. k + 1 \in Int /\ Len(q) \in Int
      BY <1>1
    <3> QED
      BY ONLY <2>1, <3>1, SubSeqProperties
  <2> QED
    BY <2>2, <1>1
<1>5. SubSeq(q, 1, k) \in Seq(Byte)
  BY <1>3, SeqMonotonic DEF Byte
<1>6. /\ h \o SubSeq(q, 1, k) \in Seq(Byte)
      /\ Len(h \o SubSeq(q, 1, k)) = Len(h) + k
      /\ \A i \in 1..(Len(h) + k) : (h \o SubSeq(q, 1, k))[i] =
            IF i <= Len(h) THEN h[i] ELSE SubSeq(q, 1, k)[i - Len(h)]
  BY <1>3, <1>5, ConcatProperties
<1>7. /\ \A i \in 1..Len(h) : (h \o SubSeq(q, 1, k))[i] = h[i]
      /\ \A i \in 1..k : (h \o SubSeq(q, 1, k))[Len(h) + i] = q[i]
  BY <1>1, <1>3, <1>6
<1> QED
  BY <1>4, <1>6, <1>7 DEF Size

LEMMA RestFacts ==
    ASSUME NEW q \in Seq(Bytes), NEW k \in 0..Size(q),
           NEW u, u = SubSeq(q, k + 1, Len(q))
    PROVE  \A i \in 1..(Size(q) - k) : u[i] = q[k + i]
<1>1. Len(q) \in Nat /\ k \in Nat /\ k <= Len(q)
  BY LenProperties DEF Size
<1>2. \A i \in (k + 1)..Len(q) : q[i] \in Bytes
  BY <1>1
<1>3. k + 1 \in Int /\ Len(q) \in Int
  BY <1>1
<1>4. \A i \in 1..(Len(q) - (k + 1) + 1) : u[i] = q[k + 1 + i - 1]
  BY ONLY <1>2, <1>3, u = SubSeq(q, k + 1, Len(q)), SubSeqProperties
<1>5. \A i \in 1..(Len(q) - k) : u[i] = q[k + i]
  BY ONLY <1>1, <1>4
<1> QED
  BY <1>5 DEF Size

LEMMA PutFacts ==
    ASSUME NEW q \in Seq(Bytes), NEW b \in Bytes
    PROVE  /\ Append(q, b) \in Seq(Bytes)
           /\ Size(Append(q, b)) = Size(q) + 1
           /\ \A i \in 1..Size(q) : Append(q, b)[i] = q[i]
           /\ Append(q, b)[Size(q) + 1] = b
BY AppendProperties DEF Size

LEMMA DropFacts ==
    ASSUME NEW h \in Seq(Byte), Size(h) >= 1
    PROVE  /\ Head(h) = h[1] /\ h[1] \in Byte
           /\ Tail(h) \in Seq(Byte) /\ Size(Tail(h)) = Size(h) - 1
           /\ \A i \in 1..(Size(h) - 1) : Tail(h)[i] = h[i + 1]
<1>1. h # <<>>
  BY SizeFacts
<1> QED
  BY <1>1, HeadTailProperties DEF Size

LEMMA MinFacts ==
    ASSUME NEW m \in Nat, NEW n \in Nat
    PROVE  Min({m, n}) \in {m, n} /\ Min({m, n}) <= m /\ Min({m, n}) <= n
<1>1. \E x \in {m, n} : \A y \in {m, n} : x =< y
  <2>1. CASE m <= n
    BY <2>1
  <2>2. CASE ~(m <= n)
    BY <2>2
  <2> QED
    BY <2>1, <2>2
<1> QED
  BY <1>1 DEF Min

(* What TypeOK says, piece by piece.                                       *)
LEMMA TaskType ==
    ASSUME TypeOK
    PROVE  /\ task.at \in TaskPlaces /\ task.who \in {"offer", "read"}
           /\ task.s \in 1..Any /\ task.length \in 1..MaxRead
           /\ task.hand \in Seq(Byte) /\ Size(task.hand) \in Nat
<1>1. task \in [at : TaskPlaces, who : {"offer", "read"}, s : 1..Any,
                length : 1..MaxRead, hand : Seq(Byte)]
  BY DEF TypeOK
<1> QED
  BY <1>1, SizeFacts

LEMMA TaskRecord ==
    ASSUME TypeOK
    PROVE  task \in [at : TaskPlaces, who : {"offer", "read"}, s : 1..Any,
                     length : 1..MaxRead, hand : Seq(Byte)]
BY DEF TypeOK

LEMMA EmptyHand == ASSUME TypeOK PROVE Size(task.hand) = 0 <=> task.hand = <<>>
BY TaskType, SizeFacts

LEMMA ActType ==
    ASSUME TypeOK
    PROVE  /\ act.at \in ActPlaces /\ act.flags \in BOOLEAN /\ act.ch \in Byte
           /\ act = [at |-> act.at, flags |-> act.flags, ch |-> act.ch]
<1>1. act \in [at : ActPlaces, flags : BOOLEAN, ch : Byte]
  BY DEF TypeOK
<1> QED
  BY <1>1

LEMMA PlacesOfSources ==
    /\ Source \subseteq 1..Any /\ Any \in Nat /\ Any \notin Source
    /\ \A s \in 1..Any : s # Any => s \in Source /\ s + 1 \in 1..Any
BY SourcesAssumption DEF Source, Any

(* A read takes no more of a source's row than it has room for.            *)
LEMMA ReadFacts ==
    ASSUME TypeOK, TaskInv, ReadSource,
           NEW k, k = Min({task.length - Size(task.hand), Size(queue[task.s])})
    PROVE  /\ task.s \in Source /\ k \in 0..Size(queue[task.s])
           /\ Size(task.hand) + k <= task.length
           /\ queue[task.s] \in Seq(Bytes) /\ task.hand \in Seq(Byte)
<1>1. task.s \in Source
  <2>1. task.at = "source"
    BY DEF ReadSource
  <2> QED
    BY <2>1, TaskType, PlacesOfSources DEF TaskInv
<1>2. task.length \in Nat /\ task.length >= 1 /\ Size(task.hand) \in {0, 1}
  <2>1. task.at = "source"
    BY DEF ReadSource
  <2>2. Size(task.hand) <= 1
    BY <2>1 DEF TaskInv
  <2>3. task.length \in 1..MaxRead /\ Size(task.hand) \in Nat
    BY TaskType
  <2> QED
    BY <2>2, <2>3, BoundsAssumption
<1>3. queue[task.s] \in Seq(Bytes) /\ task.hand \in Seq(Byte)
  BY <1>1, TaskType DEF TypeOK
<1>4. task.length - Size(task.hand) \in Nat /\ Size(queue[task.s]) \in Nat
  BY <1>2, <1>3, SizeFacts
<1>5. /\ k \in {task.length - Size(task.hand), Size(queue[task.s])}
      /\ k <= task.length - Size(task.hand) /\ k <= Size(queue[task.s])
  BY <1>4, MinFacts
<1>6. k \in Nat
  BY <1>4, <1>5
<1> QED
  BY <1>1, <1>2, <1>3, <1>4, <1>5, <1>6

(* The whole of ReadSource: what is in hand, what is left of the row, and  *)
(* where the read goes on.                                                 *)
LEMMA Taking ==
    ASSUME TypeOK, TaskInv, ReadSource
    PROVE  \E k \in Nat : \E hand \in Seq(Byte) : \E rest \in Seq(Bytes) :
              /\ task.s \in Source /\ queue[task.s] \in Seq(Bytes) /\ task.at = "source"
              /\ Size(hand) = Size(task.hand) + k /\ Size(hand) <= task.length
              /\ Size(rest) = Size(queue[task.s]) - k
              /\ \A i \in 1..Size(task.hand) : hand[i] = task.hand[i]
              /\ \A i \in 1..k : hand[Size(task.hand) + i] = queue[task.s][i]
              /\ \A i \in 1..Size(rest) : rest[i] = queue[task.s][k + i]
              /\ queue' = [queue EXCEPT ![task.s] = rest]
              /\ UNCHANGED <<history, shared, act, program, charSrc>>
              /\ \/ /\ Size(hand) >= 1
                    /\ task' = [task EXCEPT !.hand = hand, !.at = IF task.who = "read"
                                                         THEN "return" ELSE "offer"]
                 \/ /\ Size(hand) = 0
                    /\ task' = [task EXCEPT !.at = "pick", !.s = task.s + 1]
<1> DEFINE k == Min({task.length - Size(task.hand), Size(queue[task.s])})
           q == queue[task.s]
           hand == task.hand \o SubSeq(q, 1, k)
           rest == SubSeq(q, k + 1, Len(q))
<1>1. k \in 0..Size(q) /\ task.s \in Source /\ q \in Seq(Bytes)
      /\ task.hand \in Seq(Byte) /\ Size(task.hand) + k <= task.length
  BY ReadFacts
<1>2. /\ queue' = [queue EXCEPT ![task.s] = rest] /\ task.at = "source"
      /\ UNCHANGED <<history, shared, act, program, charSrc>>
      /\ \/ /\ hand # <<>>
            /\ task' = [task EXCEPT !.hand = hand, !.at = IF task.who = "read"
                                                         THEN "return" ELSE "offer"]
         \/ /\ hand = <<>>
            /\ task' = [task EXCEPT !.at = "pick", !.s = task.s + 1]
  BY DEF ReadSource, Size
<1> HIDE DEF k, q
<1>3. /\ hand \in Seq(Byte) /\ Size(hand) = Size(task.hand) + k
      /\ \A i \in 1..Size(task.hand) : hand[i] = task.hand[i]
      /\ \A i \in 1..k : hand[Size(task.hand) + i] = q[i]
      /\ rest \in Seq(Bytes) /\ Size(rest) = Size(q) - k
      /\ \A i \in 1..(Size(q) - k) : rest[i] = q[k + i]
  <2>1. hand \in Seq(Byte)
    BY ONLY <1>1, TakeFacts
  <2>2. Size(hand) = Size(task.hand) + k
    BY ONLY <1>1, TakeFacts
  <2>3. \A i \in 1..Size(task.hand) : hand[i] = task.hand[i]
    BY ONLY <1>1, TakeFacts
  <2>4. \A i \in 1..k : hand[Size(task.hand) + i] = q[i]
    BY ONLY <1>1, TakeFacts
  <2>5. rest \in Seq(Bytes)
    BY ONLY <1>1, TakeFacts
  <2>6. Size(rest) = Size(q) - k
    BY ONLY <1>1, TakeFacts
  <2>7. \A i \in 1..(Size(q) - k) : rest[i] = q[k + i]
    <3>1. rest = SubSeq(q, k + 1, Len(q))
      OBVIOUS
    <3> HIDE DEF rest, hand
    <3> QED
      BY ONLY <1>1, <3>1, RestFacts
  <2> QED
    BY <2>1, <2>2, <2>3, <2>4, <2>5, <2>6, <2>7
<1> HIDE DEF hand, rest
<1>4. k \in Nat
  BY <1>1, SizeFacts
<1>5. hand # <<>> => Size(hand) >= 1
  BY <1>3, SizeFacts
<1>6. hand = <<>> => Size(hand) = 0
  BY SizeFacts
<1>7. \A i \in 1..Size(rest) : rest[i] = q[k + i]
  BY <1>3
<1> QED
  BY <1>1, <1>2, <1>3, <1>4, <1>5, <1>6, <1>7 DEF q

LEMMA TypeInit == Init => TypeOK
<1> SUFFICES ASSUME Init PROVE TypeOK
  OBVIOUS
<1>1. NoTask \in [at : TaskPlaces, who : {"offer", "read"}, s : 1..Any,
                  length : 1..MaxRead, hand : Seq(Byte)]
  BY SourcesAssumption, BoundsAssumption DEF NoTask, TaskPlaces, Any
<1>2. NoAct \in [at : ActPlaces, flags : BOOLEAN, ch : Byte]
  BY DEF NoAct, ActPlaces, Byte
<1>3. /\ sent \in [Source -> Nat] /\ cleared \in [Source -> Nat]
      /\ \A s \in Source : cleared[s] <= sent[s] /\ sent[s] <= MaxBytes[s]
  BY BoundsAssumption DEF Init, Source
<1>4. queue \in [Source -> Seq(Bytes)]
  BY DEF Init
<1>5. held \in 1..Any /\ charSrc \in Source
  BY SourcesAssumption DEF Init, Any, Source
<1>6. /\ {slot, reg} \subseteq Byte /\ flag \in BOOLEAN /\ mode \in {"polls", "asks"}
      /\ sawReady \in BOOLEAN /\ passed \in BOOLEAN /\ got \subseteq Bytes
      /\ overtook \in BOOLEAN
  BY DEF Init, Byte
<1> QED
  BY <1>1, <1>2, <1>3, <1>4, <1>5, <1>6 DEF TypeOK, Init

LEMMA InitHolds == Init => IInv
<1> SUFFICES ASSUME Init PROVE IInv
  OBVIOUS
<1>1. TypeOK
  BY TypeInit
<1>2. /\ task.hand = <<>> /\ Size(task.hand) = 0 /\ task.at = "idle" /\ task.who = "offer"
      /\ task.length = 1 /\ task.s = 1 /\ act.at = "idle" /\ act.ch = None
      /\ act.flags = FALSE
  BY SizeFacts DEF Init, NoTask, NoAct
<1>3. TaskInv /\ ActInv /\ WindowInv /\ SawInv
  BY <1>2, SourcesAssumption
     DEF Init, SawInv, TaskInv, ActInv, WindowInv, Reading, Offering, Moving, Spent, Any
<1>4. KeptInv
  BY DEF Init, KeptInv, Source
<1>5. \A s \in Source : Size(queue[s]) = 0
  BY SizeFacts DEF Init
<1>6. FreshInv /\ OrderInv
  BY <1>2, <1>5 DEF Init, FreshInv, OrderInv, RowsInv, GotInv, LatchInv, Row, Before, Source
<1> QED
  BY <1>1, <1>3, <1>4, <1>6 DEF IInv, AnyInv, TillOvertaken
----------------------------------------------------------------------------
(* Types are kept.                                                         *)
UserStep == (\E s \in Source : Arrive(s)) \/ Expire \/ Poll \/ Read \/ Ask
ClearStep == Stop \/ Break

LEMMA StepCases ==
    ASSUME [Next]_vars
    PROVE  UserStep \/ ActLoop \/ Core0 \/ ClearStep \/ UNCHANGED vars
BY DEF Next, UserStep, ClearStep

LEMMA NoActType == NoAct \in [at : ActPlaces, flags : BOOLEAN, ch : Byte]
BY DEF NoAct, ActPlaces, Byte

LEMMA ActTypes ==
    ASSUME TypeOK, ActLoop
    PROVE  act' \in [at : ActPlaces, flags : BOOLEAN, ch : Byte]
<1>1. \A at \in ActPlaces, f \in BOOLEAN, c \in Byte :
         [at |-> at, flags |-> f, ch |-> c] \in [at : ActPlaces, flags : BOOLEAN, ch : Byte]
  OBVIOUS
<1>2. slot \in Byte /\ flag \in BOOLEAN /\ TRUE \in BOOLEAN
  BY DEF TypeOK
<1>3. CASE ActPollFlags
  <2>1. act' = [at |-> IF flag THEN "pReady" ELSE "pSlot", flags |-> flag, ch |-> act.ch]
    BY <1>3, ActType DEF ActPollFlags
  <2> QED
    BY <2>1, <1>2, ActType DEF ActPlaces
<1>4. CASE ActPollSlot \/ ActDataSlot
  BY <1>4, <1>2, ActType DEF ActPollSlot, ActDataSlot, ActPlaces
<1>5. CASE ActPollReg \/ ActPollEmpty \/ ActDataReg \/ ActDataReady \/ ActDataDrop
  BY <1>5, <1>2, ActType
     DEF ActPollReg, ActPollEmpty, ActDataReg, ActDataReady, ActDataDrop, ActPlaces
<1>6. CASE ActPollReady \/ ActDataEmpty \/ ActDataZero
  BY <1>6, NoActType DEF ActPollReady, ActDataEmpty, ActDataZero
<1> QED
  BY <1>3, <1>4, <1>5, <1>6 DEF ActLoop

LEMMA TaskTypes ==
    ASSUME TypeOK, TaskInv, Core0
    PROVE  task' \in [at : TaskPlaces, who : {"offer", "read"}, s : 1..Any,
                      length : 1..MaxRead, hand : Seq(Byte)]
<1> DEFINE T == [at : TaskPlaces, who : {"offer", "read"}, s : 1..Any,
                 length : 1..MaxRead, hand : Seq(Byte)]
<1>1. NoTask \in T
  BY SourcesAssumption, BoundsAssumption DEF NoTask, TaskPlaces, Any
<1>2. slot \in Byte /\ reg \in Byte /\ task \in T
  BY DEF TypeOK
<1>3. CASE TaskLook \/ TaskReady
  BY <1>3, <1>1, <1>2 DEF TaskLook, TaskReady, TaskPlaces
<1>4. CASE \E n \in 1..MaxRead : StdinRead(n)
  BY <1>4, <1>1 DEF StdinRead, TaskPlaces
<1>5. CASE Pick
  <2>1. task.s # Any => task.s + 1 \in 1..Any
    BY TaskType, PlacesOfSources
  <2> QED
    BY <1>5, <1>1, <1>2, <2>1 DEF Pick, TaskPlaces
<1>6. CASE Reclaim
  <2>1. <<slot>> \in Seq(Byte) /\ <<reg>> \in Seq(Byte)
    BY <1>2
  <2> QED
    BY <1>6, <1>2, <2>1
       DEF Reclaim, ReclaimSlot, ReclaimSlotEmpty, ReclaimFlag, ReclaimReg,
           ReclaimFlagDrop, ReclaimRegZero, TaskPlaces
<1>7. CASE ReadSource
  <2>1. PICK hand \in Seq(Byte) :
           /\ task.s \in Source
           /\ \/ task' = [task EXCEPT !.hand = hand, !.at = IF task.who = "read"
                                                      THEN "return" ELSE "offer"]
              \/ task' = [task EXCEPT !.at = "pick", !.s = task.s + 1]
    BY <1>7, Taking
  <2>2. task.s + 1 \in 1..Any
    BY <2>1, PlacesOfSources
  <2> QED
    BY <1>2, <2>1, <2>2 DEF TaskPlaces
<1>8. CASE Offer
  BY <1>8, <1>1 DEF Offer
<1>9. CASE Return
  <2>1. Size(task.hand) >= 1
    BY <1>9 DEF Return, TaskInv
  <2>2. Tail(task.hand) \in Seq(Byte)
    BY <2>1, TaskType, DropFacts
  <2> QED
    BY <1>9, <1>1, <1>2, <2>2 DEF Return
<1> QED
  BY <1>3, <1>4, <1>5, <1>6, <1>7, <1>8, <1>9 DEF Core0
(* What arrives is a byte, and what was discarded had arrived.             *)
LEMMA NewByte ==
    ASSUME TypeOK, NEW s \in Source, Arrive(s)
    PROVE  /\ <<s, sent[s] + 1>> \in Bytes
           /\ sent[s] \in Nat /\ sent' = [sent EXCEPT ![s] = sent[s] + 1]
           /\ queue[s] \in Seq(Bytes)
           /\ queue' = [queue EXCEPT ![s] = Append(queue[s], <<s, sent[s] + 1>>)]
<1>1. sent[s] \in Nat /\ MaxBytes[s] \in Nat /\ sent[s] < MaxBytes[s]
  BY BoundsAssumption DEF TypeOK, Arrive, Source
<1>2. sent[s] + 1 \in 1..MaxBytes[s]
  BY <1>1
<1>3. <<s, sent[s] + 1>> \in Bytes
  BY <1>2 DEF Bytes
<1> QED
  BY <1>1, <1>3 DEF Arrive, TypeOK

LEMMA RowTypes ==
    ASSUME TypeOK, TaskInv, [Next]_vars
    PROVE  /\ sent' \in [Source -> Nat] /\ cleared' \in [Source -> Nat]
           /\ \A s \in Source : cleared'[s] <= sent'[s] /\ sent'[s] <= MaxBytes[s]
           /\ queue' \in [Source -> Seq(Bytes)]
<1> DEFINE Goal ==
              /\ sent' \in [Source -> Nat] /\ cleared' \in [Source -> Nat]
              /\ \A s \in Source : cleared'[s] <= sent'[s] /\ sent'[s] <= MaxBytes[s]
              /\ queue' \in [Source -> Seq(Bytes)]
<1>0. /\ sent \in [Source -> Nat] /\ cleared \in [Source -> Nat]
      /\ \A s \in Source : cleared[s] <= sent[s] /\ sent[s] <= MaxBytes[s]
      /\ queue \in [Source -> Seq(Bytes)]
  BY DEF TypeOK
<1>1. CASE UNCHANGED <<sent, cleared, queue>>
  BY <1>0, <1>1
<1>2. ASSUME NEW s \in Source, Arrive(s) PROVE Goal
  <2>1. sent' \in [Source -> Nat] /\ queue' \in [Source -> Seq(Bytes)] /\ cleared' = cleared
    <3> DEFINE b == <<s, sent[s] + 1>>
    <3>1. b \in Bytes /\ sent[s] + 1 \in Nat /\ queue[s] \in Seq(Bytes)
          /\ sent' = [sent EXCEPT ![s] = sent[s] + 1]
          /\ queue' = [queue EXCEPT ![s] = Append(queue[s], b)]
      BY <1>2, NewByte
    <3> HIDE DEF b
    <3>2. Append(queue[s], b) \in Seq(Bytes)
      BY <3>1, PutFacts
    <3> QED
      BY <1>0, <1>2, <3>1, <3>2 DEF Arrive
  <2>2. sent[s] < MaxBytes[s] /\ sent' = [sent EXCEPT ![s] = sent[s] + 1]
    BY <1>2 DEF Arrive
  <2>3. \A r \in Source : MaxBytes[r] \in Nat
    BY BoundsAssumption DEF Source
  <2>4. \A r \in Source : cleared[r] <= sent'[r] /\ sent'[r] <= MaxBytes[r]
    BY <1>0, <2>2, <2>3
  <2> QED
    BY <2>1, <2>4, <1>0
<1>3. CASE ReadSource
  <2>1. PICK rest \in Seq(Bytes) :
           /\ task.s \in Source /\ queue' = [queue EXCEPT ![task.s] = rest]
           /\ UNCHANGED <<sent, cleared>>
    BY <1>3, Taking DEF history
  <2> QED
    BY <1>0, <2>1
<1>4. CASE ClearStep
  <2>1. cleared' = sent /\ queue' = [s \in Source |-> <<>>] /\ sent' = sent
    BY <1>4 DEF ClearStep, Stop, Break, Discard
  <2> QED
    BY <1>0, <2>1
<1>5. CASE ActLoop
  BY <1>5, <1>1
     DEF ActLoop, ActPollFlags, ActPollSlot, ActPollReg, ActPollEmpty, ActPollReady,
         ActDataSlot, ActDataReg, ActDataReady, ActDataEmpty, ActDataDrop,
         ActDataZero, history
<1>6. CASE Core0
  <2>1. ReadSource \/ UNCHANGED <<sent, cleared, queue>>
    BY <1>6 DEF Core0, TaskLook, TaskReady, StdinRead, Pick, Offer, Return, Reclaim,
       ReclaimSlot, ReclaimSlotEmpty, ReclaimFlag, ReclaimReg, ReclaimFlagDrop,
       ReclaimRegZero, history
  <2> QED
    BY <2>1, <1>1, <1>3
<1>7. CASE UserStep
  <2>1. (\E s \in Source : Arrive(s)) \/ UNCHANGED <<sent, cleared, queue>>
    BY <1>7 DEF UserStep, Expire, Poll, Read, Ask, history
  <2> QED
    BY <2>1, <1>1, <1>2
<1> QED
  BY <1>1, <1>4, <1>5, <1>6, <1>7, StepCases DEF vars

LEMMA OtherTypes ==
    ASSUME TypeOK, TaskInv, [Next]_vars
    PROVE  /\ slot' \in Byte /\ reg' \in Byte /\ flag' \in BOOLEAN
           /\ mode' \in {"polls", "asks"} /\ sawReady' \in BOOLEAN
           /\ held' \in 1..Any /\ passed' \in BOOLEAN /\ charSrc' \in Source
           /\ got' \subseteq Bytes /\ overtook' \in BOOLEAN
<1>0. /\ slot \in Byte /\ reg \in Byte /\ flag \in BOOLEAN /\ act.ch \in Byte
      /\ act.flags \in BOOLEAN /\ None \in Byte
      /\ mode \in {"polls", "asks"} /\ sawReady \in BOOLEAN
      /\ held \in 1..Any /\ passed \in BOOLEAN /\ charSrc \in Source
      /\ got \subseteq Bytes /\ overtook \in BOOLEAN /\ task.s \in 1..Any
      /\ Any \in 1..Any
  BY ActType, TaskType, PlacesOfSources, SourcesAssumption DEF TypeOK, Byte, Any
<1>1. CASE ActLoop
  <2>1. UNCHANGED <<mode, sawReady, got, held, passed, charSrc, overtook>>
    BY <1>1
       DEF ActLoop, ActPollFlags, ActPollSlot, ActPollReg, ActPollEmpty, ActPollReady,
           ActDataSlot, ActDataReg, ActDataReady, ActDataEmpty, ActDataDrop,
           ActDataZero, history, program, picker
  <2>2. slot' \in {slot, None} /\ reg' \in {reg, act.ch, None}
    BY <1>1
       DEF ActLoop, ActPollFlags, ActPollSlot, ActPollReg, ActPollEmpty, ActPollReady,
           ActDataSlot, ActDataReg, ActDataReady, ActDataEmpty, ActDataDrop,
           ActDataZero, shared
  <2>3. flag' = flag \/ flag' = act.flags \/ flag' = TRUE \/ flag' = FALSE
    BY <1>1
       DEF ActLoop, ActPollFlags, ActPollSlot, ActPollReg, ActPollEmpty, ActPollReady,
           ActDataSlot, ActDataReg, ActDataReady, ActDataEmpty, ActDataDrop,
           ActDataZero, shared
  <2>4. flag' \in BOOLEAN
    BY <1>0, <2>3, Zenon
  <2> QED
    BY <1>0, <2>1, <2>2, <2>4
<1>2. CASE UserStep
  BY <1>0, <1>2
     DEF UserStep, Arrive, Expire, Poll, Read, Ask, history, shared, program, picker, Byte
<1>3. CASE ClearStep
  BY <1>0, <1>3 DEF ClearStep, Stop, Break, Discard, Cleared
<1>4. CASE TaskLook \/ TaskReady \/ (\E n \in 1..MaxRead : StdinRead(n)) \/ Pick
  BY <1>0, <1>4
     DEF TaskLook, TaskReady, StdinRead, Pick, Release, history, shared, program, picker
<1>5. CASE Reclaim
  BY <1>0, <1>5
     DEF Reclaim, ReclaimSlot, ReclaimSlotEmpty, ReclaimFlag, ReclaimReg,
         ReclaimFlagDrop, ReclaimRegZero, history, shared, program, picker
<1>6. CASE ReadSource
  BY <1>0, <1>6 DEF ReadSource, history, shared, program, picker
<1>7. CASE Offer \/ Return
  <2>1. Head(task.hand) \in Byte
    <3>1. Size(task.hand) >= 1
      BY <1>7 DEF Offer, Return, TaskInv
    <3> QED
      BY <3>1, TaskType, DropFacts
  <2>2. Offer => task.s \in Source
    BY <1>0, PlacesOfSources DEF Offer, TaskInv
  <2> QED
    BY <1>0, <1>7, <2>1, <2>2 DEF Offer, Return, history, shared, program, picker, Byte
<1>8. CASE UNCHANGED vars
  BY <1>0, <1>8 DEF vars
<1> QED
  BY <1>1, <1>2, <1>3, <1>4, <1>5, <1>6, <1>7, <1>8, StepCases DEF Core0

LEMMA TypeStep == TypeOK /\ TaskInv /\ [Next]_vars => TypeOK'
<1> SUFFICES ASSUME TypeOK, TaskInv, [Next]_vars PROVE TypeOK'
  OBVIOUS
<1> DEFINE A == [at : ActPlaces, flags : BOOLEAN, ch : Byte]
           T == [at : TaskPlaces, who : {"offer", "read"}, s : 1..Any,
                 length : 1..MaxRead, hand : Seq(Byte)]
<1>1. act' \in A
  <2>1. act \in A
    BY DEF TypeOK
  <2>2. act' = act \/ ActLoop \/ Poll \/ Read
    BY StepCases
       DEF UserStep, Arrive, Expire, Ask, Core0, TaskLook, TaskReady, StdinRead, Pick,
           Reclaim, ReclaimSlot, ReclaimSlotEmpty, ReclaimFlag, ReclaimReg,
           ReclaimFlagDrop, ReclaimRegZero, ReadSource, Offer, Return,
           ClearStep, Stop, Break, Discard, vars
  <2>3. Poll \/ Read => act' \in A
    BY NoActType DEF Poll, Read, ActPlaces
  <2> QED
    BY <2>1, <2>2, <2>3, ActTypes
<1>2. task' \in T
  <2>1. task \in T
    BY DEF TypeOK
  <2>2. task' = task \/ Core0
    BY StepCases
       DEF UserStep, Arrive, Expire, Poll, Read, Ask, ActLoop, ActPollFlags,
           ActPollSlot, ActPollReg, ActPollEmpty, ActPollReady, ActDataSlot,
           ActDataReg, ActDataReady, ActDataEmpty, ActDataDrop, ActDataZero,
           ClearStep, Stop, Break, Discard, vars
  <2> QED
    BY <2>1, <2>2, TaskTypes
<1> QED
  BY <1>1, <1>2, RowTypes, OtherTypes DEF TypeOK
----------------------------------------------------------------------------
(* The steps of both cores, field by field.                                *)
ActTo(at) == act'.at = at /\ act'.ch = act.ch /\ (act'.flags <=> act.flags)
ActDone == act'.at = "idle" /\ act'.ch = None /\ ~act'.flags

LEMMA ActMoves ==
    ASSUME TypeOK, ActLoop
    PROVE  /\ UNCHANGED <<history, queue, program, task, picker>>
           /\ \/ /\ act.at = "pFlags" /\ UNCHANGED shared /\ act'.ch = act.ch
                 /\ act'.at = (IF flag THEN "pReady" ELSE "pSlot")
                 /\ (act'.flags <=> flag)
              \/ /\ act.at = "pSlot" /\ UNCHANGED shared /\ act'.ch = slot
                 /\ act'.at = (IF slot # None THEN "pReg" ELSE "pReady")
                 /\ (act'.flags <=> act.flags)
              \/ /\ act.at = "pReg" /\ reg' = act.ch /\ UNCHANGED <<slot, flag>>
                 /\ act'.at = "pEmpty" /\ act'.ch = act.ch /\ act'.flags
              \/ /\ act.at = "pEmpty" /\ slot' = None /\ UNCHANGED <<flag, reg>>
                 /\ ActTo("pReady")
              \/ /\ act.at = "pReady" /\ UNCHANGED <<slot, reg>> /\ ActDone
                 /\ (flag' <=> act.flags)
              \/ /\ act.at = "dSlot" /\ UNCHANGED shared /\ act'.ch = slot
                 /\ act'.at = (IF slot # None THEN "dReg" ELSE "dDrop")
                 /\ (act'.flags <=> act.flags)
              \/ /\ act.at = "dReg" /\ reg' = act.ch /\ UNCHANGED <<slot, flag>>
                 /\ ActTo("dReady")
              \/ /\ act.at = "dReady" /\ flag' /\ UNCHANGED <<slot, reg>>
                 /\ ActTo("dEmpty")
              \/ /\ act.at = "dEmpty" /\ slot' = None /\ UNCHANGED <<flag, reg>>
                 /\ ActDone
              \/ /\ act.at = "dDrop" /\ ~flag' /\ UNCHANGED <<slot, reg>>
                 /\ ActTo("dZero")
              \/ /\ act.at = "dZero" /\ reg' = None /\ UNCHANGED <<slot, flag>>
                 /\ ActDone
<1>0. act \in [at : ActPlaces, flags : BOOLEAN, ch : Byte] /\ flag \in BOOLEAN
  BY DEF TypeOK
<1> USE <1>0 DEF ActTo, ActDone, NoAct
<1>1. ASSUME ActPollFlags \/ ActPollSlot PROVE
      \/ /\ act.at = "pFlags" /\ UNCHANGED shared /\ act'.ch = act.ch
         /\ act'.at = (IF flag THEN "pReady" ELSE "pSlot")
         /\ (act'.flags <=> flag)
      \/ /\ act.at = "pSlot" /\ UNCHANGED shared /\ act'.ch = slot
         /\ act'.at = (IF slot # None THEN "pReg" ELSE "pReady")
         /\ (act'.flags <=> act.flags)
  BY <1>1 DEF ActPollFlags, ActPollSlot
<1>6. ASSUME ActPollReady PROVE flag' <=> act.flags
  BY <1>6, Zenon DEF ActPollReady
<1>7. ASSUME ActPollReady PROVE
      /\ act.at = "pReady" /\ UNCHANGED <<slot, reg>> /\ ActDone
      /\ (flag' <=> act.flags)
  <2>1. act.at = "pReady" /\ UNCHANGED <<slot, reg>> /\ ActDone
    BY <1>7 DEF ActPollReady
  <2> QED
    BY <1>6, <1>7, <2>1, Zenon
<1>2. ASSUME ActPollReg \/ ActPollEmpty PROVE
      \/ /\ act.at = "pReg" /\ reg' = act.ch /\ UNCHANGED <<slot, flag>>
         /\ act'.at = "pEmpty" /\ act'.ch = act.ch /\ act'.flags
      \/ /\ act.at = "pEmpty" /\ slot' = None /\ UNCHANGED <<flag, reg>>
         /\ ActTo("pReady")
  BY <1>2 DEF ActPollReg, ActPollEmpty
<1>3. ASSUME ActDataSlot \/ ActDataReg \/ ActDataReady PROVE
      \/ /\ act.at = "dSlot" /\ UNCHANGED shared /\ act'.ch = slot
         /\ act'.at = (IF slot # None THEN "dReg" ELSE "dDrop")
         /\ (act'.flags <=> act.flags)
      \/ /\ act.at = "dReg" /\ reg' = act.ch /\ UNCHANGED <<slot, flag>>
         /\ ActTo("dReady")
      \/ /\ act.at = "dReady" /\ flag' /\ UNCHANGED <<slot, reg>>
         /\ ActTo("dEmpty")
  BY <1>3 DEF ActDataSlot, ActDataReg, ActDataReady
<1>4. ASSUME ActDataEmpty \/ ActDataDrop \/ ActDataZero PROVE
      \/ /\ act.at = "dEmpty" /\ slot' = None /\ UNCHANGED <<flag, reg>>
         /\ ActDone
      \/ /\ act.at = "dDrop" /\ ~flag' /\ UNCHANGED <<slot, reg>>
         /\ ActTo("dZero")
      \/ /\ act.at = "dZero" /\ reg' = None /\ UNCHANGED <<slot, flag>>
         /\ ActDone
  BY <1>4 DEF ActDataEmpty, ActDataDrop, ActDataZero
<1>5. UNCHANGED <<history, queue, program, task, picker>>
  BY DEF ActLoop, ActPollFlags, ActPollSlot, ActPollReg, ActPollEmpty, ActPollReady,
         ActDataSlot, ActDataReg, ActDataReady, ActDataEmpty, ActDataDrop, ActDataZero
<1> QED
  BY ONLY <1>1, <1>2, <1>3, <1>4, <1>5, <1>7, ActLoop DEF ActLoop

SameRead == task'.who = task.who /\ task'.s = task.s /\ task'.length = task.length
TaskTo(at) == task'.at = at /\ task'.hand = task.hand /\ SameRead
TaskDone ==
    /\ task'.at = "idle" /\ task'.who = "offer" /\ task'.s = 1
    /\ task'.length = 1 /\ task'.hand = <<>>

LEMMA ReclaimMoves ==
    ASSUME TypeOK, Reclaim
    PROVE  /\ UNCHANGED <<history, queue, act, program, picker>>
           /\ \/ /\ task.at = "slot" /\ slot # None /\ UNCHANGED shared
                 /\ task'.at = "slotEmpty" /\ task'.hand = <<slot>> /\ SameRead
              \/ /\ task.at = "slot" /\ slot = None /\ UNCHANGED shared
                 /\ TaskTo("flag")
              \/ /\ task.at = "slotEmpty" /\ slot' = None /\ UNCHANGED <<flag, reg>>
                 /\ TaskTo("source")
              \/ /\ task.at = "flag" /\ UNCHANGED shared
                 /\ TaskTo(IF flag THEN "reg" ELSE "source")
              \/ /\ task.at = "reg" /\ UNCHANGED shared
                 /\ task'.at = "flagDrop" /\ task'.hand = <<reg>> /\ SameRead
              \/ /\ task.at = "flagDrop" /\ ~flag' /\ UNCHANGED <<slot, reg>>
                 /\ TaskTo("regZero")
              \/ /\ task.at = "regZero" /\ reg' = None /\ UNCHANGED <<slot, flag>>
                 /\ TaskTo("source")
<1>0. task \in [at : TaskPlaces, who : {"offer", "read"}, s : 1..Any,
                length : 1..MaxRead, hand : Seq(Byte)]
  BY DEF TypeOK
<1> USE <1>0 DEF TaskTo, SameRead
<1>1. ASSUME ReclaimSlot PROVE
      \/ /\ task.at = "slot" /\ slot # None /\ UNCHANGED shared
         /\ task'.at = "slotEmpty" /\ task'.hand = <<slot>> /\ SameRead
      \/ /\ task.at = "slot" /\ slot = None /\ UNCHANGED shared
         /\ TaskTo("flag")
  BY <1>1 DEF ReclaimSlot
<1>2. ASSUME ReclaimSlotEmpty \/ ReclaimFlag PROVE
      \/ /\ task.at = "slotEmpty" /\ slot' = None /\ UNCHANGED <<flag, reg>>
         /\ TaskTo("source")
      \/ /\ task.at = "flag" /\ UNCHANGED shared
         /\ TaskTo(IF flag THEN "reg" ELSE "source")
  BY <1>2 DEF ReclaimSlotEmpty, ReclaimFlag
<1>3. ASSUME ReclaimReg PROVE
      /\ task.at = "reg" /\ UNCHANGED shared
      /\ task'.at = "flagDrop" /\ task'.hand = <<reg>> /\ SameRead
  BY <1>3 DEF ReclaimReg
<1>4. ASSUME ReclaimFlagDrop \/ ReclaimRegZero PROVE
      \/ /\ task.at = "flagDrop" /\ ~flag' /\ UNCHANGED <<slot, reg>>
         /\ TaskTo("regZero")
      \/ /\ task.at = "regZero" /\ reg' = None /\ UNCHANGED <<slot, flag>>
         /\ TaskTo("source")
  BY <1>4 DEF ReclaimFlagDrop, ReclaimRegZero
<1>5. UNCHANGED <<history, queue, act, program, picker>>
  BY DEF Reclaim, ReclaimSlot, ReclaimSlotEmpty, ReclaimFlag, ReclaimReg,
         ReclaimFlagDrop, ReclaimRegZero
<1> QED
  BY ONLY <1>1, <1>2, <1>3, <1>4, <1>5, Reclaim DEF Reclaim
LEMMA OtherMoves ==
    ASSUME TypeOK, TaskLook \/ TaskReady \/ (\E n \in 1..MaxRead : StdinRead(n)) \/ Pick
    PROVE  /\ UNCHANGED <<queue, shared, act, got, passed, charSrc, sent, cleared>>
           /\ \/ /\ task.at = "idle" /\ slot = None /\ UNCHANGED <<mode, overtook>>
                 /\ task'.at = "ready" /\ task'.who = "offer" /\ task'.s = 1
                 /\ task'.length = 1 /\ task'.hand = <<>>
              \/ /\ task.at = "ready" /\ flag /\ UNCHANGED mode /\ TaskDone
                 /\ (overtook' <=> overtook)
              \/ /\ task.at = "ready" /\ ~flag /\ UNCHANGED mode /\ TaskTo("pick")
                 /\ (overtook' <=> overtook \/ (act.at = "pReady" /\ act.flags))
              \/ /\ task.at = "idle" /\ mode = "asks" /\ UNCHANGED <<mode, overtook>>
                 /\ task'.at = "pick" /\ task'.who = "read" /\ task'.s = 1
                 /\ task'.length \in 1..MaxRead /\ task'.hand = <<>>
              \/ /\ task.at = "pick" /\ task.s = Any /\ TaskDone
                 /\ UNCHANGED overtook
                 /\ mode' = IF task.who = "read" THEN "polls" ELSE mode
              \/ /\ task.at = "pick" /\ task.s # Any /\ UNCHANGED <<mode, overtook>>
                 /\ task'.at = "pick" /\ task'.s = task.s + 1 /\ task'.who = task.who
                 /\ task'.length = task.length /\ task'.hand = task.hand
              \/ /\ task.at = "pick" /\ task.s # Any /\ UNCHANGED <<mode, overtook>>
                 /\ TaskTo(IF charSrc = task.s THEN "slot" ELSE "source")
<1>0. task \in [at : TaskPlaces, who : {"offer", "read"}, s : 1..Any,
                length : 1..MaxRead, hand : Seq(Byte)]
  BY DEF TypeOK
<1> USE <1>0 DEF TaskTo, SameRead, TaskDone, NoTask
<1>1. ASSUME TaskLook PROVE
      /\ task.at = "idle" /\ slot = None /\ UNCHANGED <<mode, overtook>>
      /\ task'.at = "ready" /\ task'.who = "offer" /\ task'.s = 1
      /\ task'.length = 1 /\ task'.hand = <<>>
  BY <1>1 DEF TaskLook, SlotLooksEmpty, history, program
<1>2. ASSUME TaskReady PROVE
      \/ /\ task.at = "ready" /\ flag /\ UNCHANGED mode /\ TaskDone
         /\ (overtook' <=> overtook)
      \/ /\ task.at = "ready" /\ ~flag /\ UNCHANGED mode /\ TaskTo("pick")
         /\ (overtook' <=> overtook \/ (act.at = "pReady" /\ act.flags))
  <2>1. overtook' <=> overtook \/ (~flag /\ act.at = "pReady" /\ act.flags)
    BY <1>2, Zenon DEF TaskReady
  <2> QED
    BY <1>2, <2>1 DEF TaskReady, program
<1>3. ASSUME NEW n \in 1..MaxRead, StdinRead(n) PROVE
      /\ task.at = "idle" /\ mode = "asks" /\ UNCHANGED <<mode, overtook>>
      /\ task'.at = "pick" /\ task'.who = "read" /\ task'.s = 1
      /\ task'.length \in 1..MaxRead /\ task'.hand = <<>>
  BY <1>3 DEF StdinRead, history, program
<1>4. ASSUME Pick PROVE
      \/ /\ task.at = "pick" /\ task.s = Any /\ TaskDone
         /\ UNCHANGED overtook
         /\ mode' = IF task.who = "read" THEN "polls" ELSE mode
      \/ /\ task.at = "pick" /\ task.s # Any /\ UNCHANGED <<mode, overtook>>
         /\ task'.at = "pick" /\ task'.s = task.s + 1 /\ task'.who = task.who
         /\ task'.length = task.length /\ task'.hand = task.hand
      \/ /\ task.at = "pick" /\ task.s # Any /\ UNCHANGED <<mode, overtook>>
         /\ TaskTo(IF charSrc = task.s THEN "slot" ELSE "source")
  BY <1>4 DEF Pick, history
<1>5. UNCHANGED <<queue, shared, act, got, passed, charSrc, sent, cleared>>
  BY DEF TaskLook, TaskReady, StdinRead, Pick, history, program, picker
<1> QED
  BY ONLY <1>1, <1>2, <1>3, <1>4, <1>5,
          TaskLook \/ TaskReady \/ (\E n \in 1..MaxRead : StdinRead(n)) \/ Pick

LEMMA ReadMoves ==
    ASSUME TypeOK, TaskInv, ReadSource
    PROVE  \E k \in Nat : \E hand \in Seq(Byte) : \E rest \in Seq(Bytes) :
              /\ task.s \in Source /\ queue[task.s] \in Seq(Bytes) /\ task.at = "source"
              /\ Size(hand) = Size(task.hand) + k /\ Size(hand) <= task.length
              /\ Size(rest) = Size(queue[task.s]) - k
              /\ \A i \in 1..Size(task.hand) : hand[i] = task.hand[i]
              /\ \A i \in 1..k : hand[Size(task.hand) + i] = queue[task.s][i]
              /\ \A i \in 1..Size(rest) : rest[i] = queue[task.s][k + i]
              /\ queue' = [queue EXCEPT ![task.s] = rest]
              /\ UNCHANGED <<history, shared, act, program, charSrc>>
              /\ \/ /\ Size(hand) >= 1 /\ task'.hand = hand /\ SameRead
                    /\ task'.at = (IF task.who = "read" THEN "return" ELSE "offer")
                 \/ /\ Size(hand) = 0 /\ task'.hand = <<>> /\ task.hand = <<>>
                    /\ task'.at = "pick" /\ task'.s = task.s + 1
                    /\ task'.who = task.who /\ task'.length = task.length
<1>1. PICK k \in Nat, hand \in Seq(Byte), rest \in Seq(Bytes) :
              /\ task.s \in Source /\ queue[task.s] \in Seq(Bytes) /\ task.at = "source"
              /\ Size(hand) = Size(task.hand) + k /\ Size(hand) <= task.length
              /\ Size(rest) = Size(queue[task.s]) - k
              /\ \A i \in 1..Size(task.hand) : hand[i] = task.hand[i]
              /\ \A i \in 1..k : hand[Size(task.hand) + i] = queue[task.s][i]
              /\ \A i \in 1..Size(rest) : rest[i] = queue[task.s][k + i]
              /\ queue' = [queue EXCEPT ![task.s] = rest]
              /\ UNCHANGED <<history, shared, act, program, charSrc>>
              /\ \/ /\ Size(hand) >= 1
                    /\ task' = [task EXCEPT !.hand = hand, !.at = IF task.who = "read"
                                                         THEN "return" ELSE "offer"]
                 \/ /\ Size(hand) = 0
                    /\ task' = [task EXCEPT !.at = "pick", !.s = task.s + 1]
  BY Taking
<1>2. task \in [at : TaskPlaces, who : {"offer", "read"}, s : 1..Any,
                length : 1..MaxRead, hand : Seq(Byte)]
  BY DEF TypeOK
<1>3. Size(hand) = 0 => task.hand = <<>>
  <2>1. Size(task.hand) \in Nat
    BY TaskType
  <2>2. Size(hand) = 0 => Size(task.hand) = 0
    BY <1>1, <2>1
  <2> QED
    BY <2>2, EmptyHand
<1>4. \/ /\ Size(hand) >= 1 /\ task'.hand = hand /\ SameRead
         /\ task'.at = (IF task.who = "read" THEN "return" ELSE "offer")
      \/ /\ Size(hand) = 0 /\ task'.hand = <<>> /\ task.hand = <<>>
         /\ task'.at = "pick" /\ task'.s = task.s + 1
         /\ task'.who = task.who /\ task'.length = task.length
  BY <1>1, <1>2, <1>3 DEF SameRead
<1> QED
  BY <1>1, <1>4

LEMMA GiveMoves ==
    ASSUME TypeOK, TaskInv, Offer \/ Return
    PROVE  /\ UNCHANGED <<queue, flag, reg, act, sent, cleared, overtook>>
           /\ Size(task.hand) >= 1 /\ task.hand[1] \in Byte
           /\ \/ /\ task.at = "offer" /\ slot' = task.hand[1] /\ charSrc' = task.s
                 /\ TaskDone /\ UNCHANGED <<got, mode>>
              \/ /\ task.at = "return" /\ UNCHANGED <<slot, charSrc>>
                 /\ got' = got \cup ({task.hand[1]} \ {None})
                 /\ Size(task.hand) = 1 /\ TaskDone /\ mode' = "polls"
              \/ /\ task.at = "return" /\ UNCHANGED <<slot, charSrc, mode>>
                 /\ got' = got \cup ({task.hand[1]} \ {None})
                 /\ Size(task.hand) >= 2
                 /\ task'.at = "return" /\ task'.hand = Tail(task.hand) /\ SameRead
<1>1. Size(task.hand) >= 1 /\ task.hand \in Seq(Byte) /\ Size(task.hand) \in Nat
  BY TaskType DEF Offer, Return, TaskInv
<1>2. Head(task.hand) = task.hand[1] /\ task.hand[1] \in Byte
  BY <1>1, DropFacts
<1>3. task \in [at : TaskPlaces, who : {"offer", "read"}, s : 1..Any,
                length : 1..MaxRead, hand : Seq(Byte)]
  BY DEF TypeOK
<1>4. ASSUME Offer PROVE
      /\ task.at = "offer" /\ slot' = task.hand[1] /\ charSrc' = task.s
      /\ TaskDone /\ UNCHANGED <<got, mode>>
  BY <1>2, <1>4 DEF Offer, NoTask, TaskDone, program
<1>5. ASSUME Return PROVE
      /\ task.at = "return" /\ UNCHANGED <<slot, charSrc>>
      /\ got' = got \cup ({task.hand[1]} \ {None})
      /\ \/ Size(task.hand) = 1 /\ TaskDone /\ mode' = "polls"
         \/ /\ Size(task.hand) # 1 /\ UNCHANGED mode
            /\ task'.at = "return" /\ task'.hand = Tail(task.hand) /\ SameRead
  BY <1>2, <1>3, <1>5 DEF Return, NoTask, TaskDone, SameRead, Size, shared, picker
<1>6. UNCHANGED <<queue, flag, reg, act, sent, cleared, overtook>>
  BY DEF Offer, Return, history, shared
<1>7. Size(task.hand) # 1 => Size(task.hand) >= 2
  BY <1>1
<1> QED
  BY <1>1, <1>2, <1>4, <1>5, <1>6, <1>7
LEMMA UserMoves ==
    ASSUME TypeOK, UserStep
    PROVE  /\ UNCHANGED <<shared, task, cleared, overtook, held, charSrc>>
           /\ \/ /\ \E s \in Source : Arrive(s)
                 /\ UNCHANGED <<act, mode, got>>
              \/ UNCHANGED <<sent, queue, act, mode, got>>
              \/ /\ mode = "polls" /\ act.at = "idle" /\ UNCHANGED <<sent, queue, mode, got>>
                 /\ act'.at = "pFlags" /\ act'.ch = None /\ ~act'.flags
              \/ /\ mode = "polls" /\ act.at = "idle" /\ UNCHANGED <<sent, queue, mode>>
                 /\ got' = got \cup ({reg} \ {None})
                 /\ act'.at = "dSlot" /\ act'.ch = None /\ ~act'.flags
              \/ /\ mode = "polls" /\ act.at = "idle" /\ mode' = "asks"
                 /\ UNCHANGED <<sent, queue, act, got>>
BY DEF UserStep, Arrive, Expire, Poll, Read, Ask, NoAct, history, shared, program, picker

LEMMA ClearMoves ==
    ASSUME TypeOK, ClearStep
    PROVE  /\ task.at = "idle" /\ act.at = "idle" /\ mode = "polls"
           /\ cleared' = sent /\ queue' = [s \in Source |-> <<>>] /\ slot' = None
           /\ UNCHANGED <<sent, overtook, act, mode, got, task, charSrc>>
           /\ \/ ~flag' /\ reg' = None
              \/ slot # None /\ (flag' <=> flag) /\ reg' = reg
BY DEF ClearStep, Stop, Break, Discard, Cleared

(* The seven kinds of step.                                                *)
LEMMA Steps ==
    ASSUME [Next]_vars
    PROVE  \/ UserStep \/ ActLoop \/ ClearStep
           \/ TaskLook \/ TaskReady \/ (\E n \in 1..MaxRead : StdinRead(n)) \/ Pick
           \/ Reclaim \/ ReadSource \/ Offer \/ Return
           \/ UNCHANGED vars
BY StepCases DEF Core0

----------------------------------------------------------------------------
(* Where the two cores stand.                                              *)
LEMMA TaskStep == TypeOK /\ TaskInv /\ ActInv /\ [Next]_vars => TaskInv'
<1> SUFFICES ASSUME TypeOK, TaskInv, ActInv, [Next]_vars PROVE TaskInv'
  OBVIOUS
<1>0. /\ task.who \in {"offer", "read"} /\ mode \in {"polls", "asks"}
      /\ 1 # Any /\ Size(task.hand) \in Nat /\ Size(<<>>) = 0
      /\ \A b : Size(<<b>>) = 1 /\ <<b>>[1] = b
  BY TaskType, SizeFacts, SourcesAssumption DEF TypeOK, Any
<1> USE DEF TaskInv, Reading, Offering
<1>1. CASE UserStep
  BY <1>1, UserMoves, <1>0 DEF Arrive, shared
<1>2. CASE ActLoop
  <2>1. UNCHANGED <<mode, task, charSrc>> /\ mode = "polls"
        /\ slot' \in {slot, None} /\ (reg' \in {reg, None} \/ slot # None)
    BY <1>0, <1>2, ActMoves DEF program, picker, shared, ActInv, Moving
  <2> QED
    BY <2>1, <1>0
<1>3. CASE TaskLook \/ TaskReady \/ (\E n \in 1..MaxRead : StdinRead(n)) \/ Pick
  BY <1>3, OtherMoves, <1>0 DEF TaskTo, TaskDone, SameRead, shared
<1>4. CASE Reclaim
  <2>1. CASE task.at \in {"slot", "flag"}
    BY <1>4, <2>1, ReclaimMoves, <1>0 DEF TaskTo, SameRead, shared, program, picker
  <2>4. CASE task.at = "slotEmpty"
    <3>1. Size(task.hand) = 1 /\ task.who = "read"
      BY <2>4, <1>0, SizeFacts
    <3> QED
      BY <1>4, <2>4, <3>1, ReclaimMoves, <1>0 DEF TaskTo, SameRead, program, picker
  <2>2. CASE task.at = "reg"
    <3>1. /\ task'.at = "flagDrop" /\ task'.hand = <<reg>> /\ SameRead
          /\ UNCHANGED <<slot, reg, act, mode, charSrc>>
      BY <1>4, <2>2, ReclaimMoves DEF shared, program, picker
    <3>2. Size(task'.hand) = 1 /\ task'.hand[1] = reg
      BY <3>1, SizeFacts
    <3> QED
      BY <2>2, <3>1, <3>2, <1>0 DEF SameRead
  <2>3. CASE task.at \in {"flagDrop", "regZero"}
    BY <1>4, <2>3, ReclaimMoves, <1>0 DEF TaskTo, SameRead, shared, program, picker
  <2> QED
    BY <1>4, <2>1, <2>2, <2>3, <2>4, ReclaimMoves
<1>5. CASE ReadSource
  <2>1. PICK hand \in Seq(Byte) :
              /\ task.s \in Source /\ task.at = "source" /\ Size(hand) <= task.length
              /\ UNCHANGED <<shared, act, program, charSrc>>
              /\ \/ /\ Size(hand) >= 1 /\ task'.hand = hand /\ SameRead
                    /\ task'.at = (IF task.who = "read" THEN "return" ELSE "offer")
                 \/ /\ Size(hand) = 0 /\ task'.hand = <<>> /\ task.hand = <<>>
                    /\ task'.at = "pick" /\ task'.s = task.s + 1
                    /\ task'.who = task.who /\ task'.length = task.length
    BY <1>5, ReadMoves
  <2>2. task.s # Any /\ Size(hand) \in Nat
    BY <2>1, PlacesOfSources, SizeFacts
  <2> QED
    BY <2>1, <2>2, <1>0 DEF SameRead, shared, program
<1>6. CASE Offer \/ Return
  <2>1. Size(task.hand) >= 2 => Size(Tail(task.hand)) >= 1
    BY <1>0, TaskType, DropFacts
  <2> QED
    BY <1>6, GiveMoves, <2>1, <1>0 DEF TaskDone, SameRead
<1>7. CASE ClearStep
  BY <1>7, ClearMoves, <1>0
<1>8. CASE UNCHANGED vars
  BY <1>8 DEF vars
<1> QED
  BY <1>1, <1>2, <1>3, <1>4, <1>5, <1>6, <1>7, <1>8, Steps

LEMMA ActStep == TypeOK /\ TaskInv /\ ActInv /\ [Next]_vars => ActInv'
<1> SUFFICES ASSUME TypeOK, TaskInv, ActInv, [Next]_vars PROVE ActInv'
  OBVIOUS
<1>0. task.who \in {"offer", "read"} /\ mode \in {"polls", "asks"}
  BY TaskType DEF TypeOK
<1> USE DEF ActInv, Moving, Spent
<1>1. CASE UserStep
  BY <1>1, UserMoves, <1>0 DEF shared
<1>2. CASE ActLoop
  BY <1>2, ActMoves, <1>0 DEF ActTo, ActDone, program, shared, TaskInv, Reading, Offering
<1>3. CASE TaskLook \/ TaskReady \/ (\E n \in 1..MaxRead : StdinRead(n)) \/ Pick
  BY <1>3, OtherMoves DEF shared, TaskTo, TaskDone
<1>4. CASE Reclaim
  <2>1. act.at = "idle" \/ task.who = "offer"
    BY <1>0, <1>4, ReclaimMoves DEF TaskInv, Reading
  <2>2. task.who = "offer" => slot = None
    BY <1>4, ReclaimMoves DEF TaskInv, Offering
  <2>3. CASE act.at = "idle"
    BY <1>4, <2>3, ReclaimMoves DEF program, shared
  <2>4. CASE task.who = "offer"
    BY <1>4, <2>2, <2>4, ReclaimMoves DEF TaskTo, program, shared
  <2> QED
    BY <2>1, <2>3, <2>4
<1>5. CASE ReadSource
  <2>1. UNCHANGED <<shared, act, program>> /\ task'.at \in {"return", "offer", "pick"}
    BY <1>5, ReadMoves
  <2> QED
    BY <2>1 DEF shared, program
<1>6. CASE Offer \/ Return
  BY <1>6, <1>0, GiveMoves DEF TaskInv, Reading, Offering, TaskDone
<1>7. CASE ClearStep
  BY <1>7, ClearMoves
<1>8. CASE UNCHANGED vars
  BY <1>8 DEF vars
<1> QED
  BY <1>1, <1>2, <1>3, <1>4, <1>5, <1>6, <1>7, <1>8, Steps
----------------------------------------------------------------------------
(* No byte vanishes.                                                       *)
LEMMA HasOne == \A b : Has(<<b>>, b) /\ ~Has(<<>>, b)
<1>1. \A b : Size(<<b>>) = 1 /\ <<b>>[1] = b
  BY SizeFacts
<1>2. 1 \in 1..1 /\ Size(<<>>) = 0 /\ 1..0 = {}
  BY SizeFacts
<1> QED
  BY <1>1, <1>2 DEF Has

(* A row keeps its bytes when one more arrives.                            *)
LEMMA HasMore ==
    ASSUME TypeOK, NEW s \in Source, Arrive(s), NEW b \in Bytes, Has(queue[b[1]], b)
    PROVE  Has(queue'[b[1]], b)
<1> DEFINE c == <<s, sent[s] + 1>>
           q == queue[s]
           t == Append(q, c)
<1>1. /\ c \in Bytes /\ q \in Seq(Bytes)
      /\ queue' = [queue EXCEPT ![s] = t]
  BY NewByte
<1>2. b[1] \in Source /\ queue \in [Source -> Seq(Bytes)]
  BY ByteParts DEF TypeOK
<1> HIDE DEF c, q
<1>3. Size(t) = Size(q) + 1 /\ Size(q) \in Nat
      /\ \A i \in 1..Size(q) : t[i] = q[i]
  BY <1>1, PutFacts, SizeFacts
<1> HIDE DEF t
<1>4. CASE b[1] # s
  BY <1>1, <1>2, <1>4
<1>5. CASE b[1] = s
  <2>1. queue'[b[1]] = t
    BY <1>1, <1>2, <1>5
  <2>2. PICK i \in 1..Size(q) : q[i] = b
    BY <1>5 DEF Has, q
  <2>3. i \in 1..Size(t) /\ t[i] = b
    BY <1>3, <2>2
  <2> QED
    BY <2>1, <2>3 DEF Has
<1> QED
  BY <1>4, <1>5

(* A read moves bytes from the row into the hand, in both cases whole.     *)
LEMMA HasTaken ==
    ASSUME TypeOK, TaskInv, ReadSource, NEW b \in Bytes,
           Has(queue[b[1]], b) \/ Has(task.hand, b)
    PROVE  Has(queue'[b[1]], b) \/ Has(task'.hand, b)
<1>1. PICK k \in Nat, hand \in Seq(Byte), rest \in Seq(Bytes) :
              /\ task.s \in Source /\ queue[task.s] \in Seq(Bytes) /\ task.at = "source"
              /\ Size(hand) = Size(task.hand) + k /\ Size(hand) <= task.length
              /\ Size(rest) = Size(queue[task.s]) - k
              /\ \A i \in 1..Size(task.hand) : hand[i] = task.hand[i]
              /\ \A i \in 1..k : hand[Size(task.hand) + i] = queue[task.s][i]
              /\ \A i \in 1..Size(rest) : rest[i] = queue[task.s][k + i]
              /\ queue' = [queue EXCEPT ![task.s] = rest]
              /\ UNCHANGED <<history, shared, act, program, charSrc>>
              /\ \/ /\ Size(hand) >= 1 /\ task'.hand = hand /\ SameRead
                    /\ task'.at = (IF task.who = "read" THEN "return" ELSE "offer")
                 \/ /\ Size(hand) = 0 /\ task'.hand = <<>> /\ task.hand = <<>>
                    /\ task'.at = "pick" /\ task'.s = task.s + 1
                    /\ task'.who = task.who /\ task'.length = task.length
  BY ReadMoves
<1>2. /\ queue \in [Source -> Seq(Bytes)] /\ b[1] \in Source
      /\ Size(task.hand) \in Nat /\ Size(queue[task.s]) \in Nat
      /\ Size(hand) \in Nat /\ Size(rest) \in Nat
  BY <1>1, ByteParts, TaskType, SizeFacts DEF TypeOK
<1>3. task'.hand = hand \/ (Size(hand) = 0 /\ k = 0)
  BY <1>1, <1>2
<1>4. CASE Has(task.hand, b)
  <2>1. PICK i \in 1..Size(task.hand) : task.hand[i] = b
    BY <1>4 DEF Has
  <2>2. hand[i] = b /\ i \in 1..Size(hand)
    BY <1>1, <1>2, <2>1
  <2> QED
    BY <1>2, <1>3, <2>2 DEF Has
<1>5. CASE Has(queue[b[1]], b) /\ b[1] # task.s
  BY <1>1, <1>2, <1>5
<1>6. CASE Has(queue[b[1]], b) /\ b[1] = task.s
  <2>1. PICK i \in 1..Size(queue[task.s]) : queue[task.s][i] = b
    BY <1>6 DEF Has
  <2>2. CASE i <= k
    <3>1. i \in 1..k /\ Size(task.hand) + i \in 1..Size(hand)
      BY <1>1, <1>2, <2>1, <2>2
    <3>2. hand[Size(task.hand) + i] = b
      BY <1>1, <2>1, <3>1
    <3> QED
      BY <1>2, <1>3, <3>1, <3>2 DEF Has
  <2>3. CASE i > k
    <3>1. i - k \in 1..Size(rest) /\ k + (i - k) = i
      BY <1>1, <1>2, <2>1, <2>3
    <3>2. rest[i - k] = b
      BY <1>1, <2>1, <3>1
    <3>3. queue'[b[1]] = rest
      BY <1>1, <1>2, <1>6
    <3> QED
      BY <3>1, <3>2, <3>3 DEF Has
  <2> QED
    BY <1>1, <2>1, <2>2, <2>3
<1> QED
  BY <1>4, <1>5, <1>6

LEMMA HasDropped ==
    ASSUME NEW h \in Seq(Byte), Size(h) >= 2, NEW b, Has(h, b), b # h[1]
    PROVE  Has(Tail(h), b)
<1>1. PICK i \in 1..Size(h) : h[i] = b
  BY DEF Has
<1>2. Size(h) \in Nat /\ i # 1
  BY <1>1, SizeFacts
<1>3. i - 1 \in 1..(Size(h) - 1) /\ (i - 1) + 1 = i
  BY <1>1, <1>2
<1> DEFINE t == Tail(h)
<1>4. Size(t) = Size(h) - 1 /\ \A j \in 1..(Size(h) - 1) : t[j] = h[j + 1]
  <2>1. Size(h) >= 1
    BY <1>2
  <2> QED
    BY ONLY <2>1, h \in Seq(Byte), DropFacts, Zenon
<1> HIDE DEF t
<1>5. t[i - 1] = b
  BY <1>1, <1>3, <1>4
<1>6. Has(t, b)
  BY <1>3, <1>4, <1>5 DEF Has
<1> QED
  BY <1>6 DEF t

LEMMA HasSame ==
    ASSUME NEW h \in Seq(Byte), Size(h) = 1, NEW b, Has(h, b)
    PROVE  h[1] = b
<1>1. \A i \in 1..1 : i = 1
  OBVIOUS
<1> QED
  BY <1>1 DEF Has

LEMMA KeptOn ==
    ASSUME TypeOK, TaskInv, ActInv, [Next]_vars, ~ClearStep, NEW b \in Bytes, Kept(b)
    PROVE  Kept(b)'
<1>0. /\ task.who \in {"offer", "read"} /\ mode \in {"polls", "asks"}
      /\ b # None /\ task.hand \in Seq(Byte) /\ ~Has(<<>>, b)
  BY TaskType, HasOne, NoneAssumption DEF TypeOK
<1>1. CASE UserStep
  <2>1. Has(queue[b[1]], b) => Has(queue'[b[1]], b)
    BY <1>1, UserMoves, HasMore
  <2> QED
    BY <1>0, <1>1, <2>1, UserMoves DEF Kept, ActInv, Moving, shared
<1>2. CASE ActLoop
  BY <1>0, <1>2, ActMoves
     DEF Kept, ActInv, Moving, Spent, TaskInv, ActTo, ActDone, history, program, shared
<1>3. CASE TaskLook \/ TaskReady \/ (\E n \in 1..MaxRead : StdinRead(n)) \/ Pick
  BY <1>0, <1>3, OtherMoves DEF Kept, TaskInv, TaskTo, TaskDone, shared
<1>4. CASE Reclaim
  <2>1. Has(<<slot>>, slot) /\ Has(<<reg>>, reg)
    BY HasOne
  <2>2. task.at \in {"flagDrop", "regZero"} /\ reg = b => Has(task.hand, b)
    <3>1. ASSUME task.at \in {"flagDrop", "regZero"}, reg = b
          PROVE  task.hand[1] = b /\ 1 \in 1..Size(task.hand)
      BY <3>1, <1>0 DEF TaskInv
    <3> QED
      BY <3>1 DEF Has
  <2> QED
    BY <1>0, <1>4, <2>1, <2>2, ReclaimMoves
       DEF Kept, TaskInv, TaskTo, history, program, shared
<1>5. CASE ReadSource
  <2>1. UNCHANGED <<slot, flag, reg, act, got>>
        /\ task.at = "source"
    BY <1>5, ReadMoves DEF shared, program
  <2> QED
    BY <1>5, <2>1, HasTaken DEF Kept
<1>6. CASE Offer \/ Return
  <2>1. task.at = "offer" => Size(task.hand) = 1 /\ slot = None
    BY <1>0 DEF TaskInv, Offering, Reading
  <2>2. Size(task.hand) = 1 /\ Has(task.hand, b) => task.hand[1] = b
    BY <1>0, HasSame
  <2>3. Size(task.hand) >= 2 /\ Has(task.hand, b) =>
           b = task.hand[1] \/ Has(Tail(task.hand), b)
    BY <1>0, HasDropped
  <2> QED
    BY <1>0, <1>6, <2>1, <2>2, <2>3, GiveMoves DEF Kept
<1>7. CASE UNCHANGED vars
  BY <1>7 DEF vars, Kept
<1> QED
  BY <1>1, <1>2, <1>3, <1>4, <1>5, <1>6, <1>7, Steps
LEMMA KeptStep == TypeOK /\ TaskInv /\ ActInv /\ KeptInv /\ [Next]_vars => KeptInv'
<1> SUFFICES ASSUME TypeOK, TaskInv, ActInv, KeptInv, [Next]_vars,
                    NEW s \in Source, NEW n \in (cleared'[s] + 1)..sent'[s]
             PROVE  Kept(<<s, n>>)'
  BY DEF KeptInv
<1> DEFINE b == <<s, n>>
<1>0. /\ sent \in [Source -> Nat] /\ cleared \in [Source -> Nat]
      /\ queue \in [Source -> Seq(Bytes)]
      /\ \A r \in Source : cleared[r] <= sent[r] /\ sent[r] <= MaxBytes[r]
      /\ \A r \in Source : MaxBytes[r] \in Nat
  BY BoundsAssumption DEF TypeOK, Source
<1>1. CASE ClearStep
  <2>1. cleared' = sent /\ sent' = sent
    BY <1>1, ClearMoves
  <2> QED
    BY <1>0, <2>1
<1>2. CASE ~ClearStep /\ n \in (cleared[s] + 1)..sent[s]
  <2>1. Kept(b)
    BY <1>2 DEF KeptInv
  <2>2. n \in 1..MaxBytes[s]
    BY <1>0, <1>2
  <2>3. b \in Bytes
    BY <2>2 DEF Bytes
  <2> HIDE DEF b
  <2> QED
    BY <1>2, <2>1, <2>3, KeptOn DEF b
<1>3. CASE ~ClearStep /\ n \notin (cleared[s] + 1)..sent[s]
  <2>1. cleared' = cleared
    BY <1>3, Steps, UserMoves, ActMoves, OtherMoves, ReclaimMoves, ReadMoves, GiveMoves
       DEF history, vars
  <2>2. sent' = sent \/ \E r \in Source : Arrive(r)
    BY <1>3, Steps, UserMoves, ActMoves, OtherMoves, ReclaimMoves, ReadMoves, GiveMoves
       DEF history, vars
  <2>3. PICK r \in Source : Arrive(r)
    BY <1>0, <1>3, <2>1, <2>2
  <2>4. /\ <<r, sent[r] + 1>> \in Bytes /\ sent[r] \in Nat
        /\ sent' = [sent EXCEPT ![r] = sent[r] + 1] /\ queue[r] \in Seq(Bytes)
        /\ queue' = [queue EXCEPT ![r] = Append(queue[r], <<r, sent[r] + 1>>)]
    BY <2>3, NewByte
  <2>5. s = r /\ n = sent[r] + 1
    BY <1>0, <1>3, <2>1, <2>4
  <2> DEFINE t == Append(queue[r], b)
  <2>6. queue'[s] = t /\ b \in Bytes
    BY <1>0, <2>4, <2>5
  <2>7. Size(t) = Size(queue[r]) + 1 /\ t[Size(queue[r]) + 1] = b /\ Size(queue[r]) \in Nat
    <3> HIDE DEF b
    <3> QED
      BY <2>4, <2>6, PutFacts, SizeFacts
  <2> HIDE DEF t
  <2>8. Has(queue'[s], b)
    BY <2>6, <2>7 DEF Has
  <2>9. b[1] = s
    OBVIOUS
  <2> QED
    BY <2>8, <2>9 DEF Kept
<1> QED
  BY <1>1, <1>2, <1>3

LEMMA AnyStep == AnyInv /\ [Next]_vars => AnyInv'
BY TypeStep, TaskStep, ActStep, KeptStep DEF AnyInv

----------------------------------------------------------------------------
(* Until core 0 is overtaken.                                              *)
LEMMA WindowStep ==
    TypeOK /\ TaskInv /\ ActInv /\ WindowInv /\ [Next]_vars /\ ~overtook' => WindowInv'
<1> SUFFICES ASSUME TypeOK, TaskInv, ActInv, WindowInv, [Next]_vars, ~overtook'
             PROVE  WindowInv'
  OBVIOUS
<1>0. /\ task.who \in {"offer", "read"} /\ mode \in {"polls", "asks"}
      /\ task.at \in TaskPlaces /\ act.at \in ActPlaces
      /\ slot # None => slot \in Bytes
  BY TaskType, ActType DEF TypeOK, Byte
<1> USE DEF WindowInv, TaskInv, ActInv, Reading, Offering, Moving, Spent
<1>1. CASE UserStep
  <2>1. reg' = reg /\ slot' = slot /\ (flag' <=> flag) /\ task' = task /\ charSrc' = charSrc
    BY <1>1, UserMoves DEF shared
  <2> QED
    BY <1>0, <1>1, <2>1, UserMoves
<1>2. CASE ActLoop
  <2>1. UNCHANGED <<task, mode, charSrc>>
    BY <1>2, ActMoves DEF program, picker
  <2> QED
    BY <1>0, <1>2, <2>1, ActMoves DEF ActTo, ActDone, shared
<1>3. CASE TaskLook \/ TaskReady \/ (\E n \in 1..MaxRead : StdinRead(n)) \/ Pick
  BY <1>0, <1>3, OtherMoves DEF TaskTo, TaskDone, SameRead, shared
<1>4. CASE Reclaim
  BY <1>0, <1>4, ReclaimMoves DEF TaskTo, SameRead, shared, program, picker
<1>5. CASE ReadSource
  <2>1. /\ task.s \in Source /\ task.at = "source"
        /\ UNCHANGED <<shared, act, program, charSrc>>
        /\ \/ SameRead /\ task'.at = (IF task.who = "read" THEN "return" ELSE "offer")
           \/ /\ task'.at = "pick" /\ task'.s = task.s + 1 /\ task'.who = task.who
    BY <1>5, ReadMoves
  <2> QED
    BY <1>0, <2>1 DEF SameRead, shared, program
<1>6. CASE Offer \/ Return
  BY <1>0, <1>6, GiveMoves DEF TaskDone, SameRead
<1>7. CASE ClearStep
  BY <1>0, <1>7, ClearMoves
<1>8. CASE UNCHANGED vars
  BY <1>8 DEF vars
<1> QED
  BY <1>1, <1>2, <1>3, <1>4, <1>5, <1>6, <1>7, <1>8, Steps
(* A property P of every byte in a row and in hand is one of every byte    *)
(* that a read leaves there.                                               *)
LEMMA FreshRead ==
    ASSUME TypeOK, TaskInv, FreshInv, ReadSource
    PROVE  /\ \A s \in Source : \A i \in 1..Size(queue'[s]) : Fresh(queue'[s][i])
           /\ \A i \in 1..Size(task'.hand) : Fresh(task'.hand[i])
<1>1. PICK k \in Nat, hand \in Seq(Byte), rest \in Seq(Bytes) :
              /\ task.s \in Source /\ queue[task.s] \in Seq(Bytes) /\ task.at = "source"
              /\ Size(hand) = Size(task.hand) + k /\ Size(hand) <= task.length
              /\ Size(rest) = Size(queue[task.s]) - k
              /\ \A i \in 1..Size(task.hand) : hand[i] = task.hand[i]
              /\ \A i \in 1..k : hand[Size(task.hand) + i] = queue[task.s][i]
              /\ \A i \in 1..Size(rest) : rest[i] = queue[task.s][k + i]
              /\ queue' = [queue EXCEPT ![task.s] = rest]
              /\ UNCHANGED <<history, shared, act, program, charSrc>>
              /\ \/ /\ Size(hand) >= 1 /\ task'.hand = hand /\ SameRead
                    /\ task'.at = (IF task.who = "read" THEN "return" ELSE "offer")
                 \/ /\ Size(hand) = 0 /\ task'.hand = <<>> /\ task.hand = <<>>
                    /\ task'.at = "pick" /\ task'.s = task.s + 1
                    /\ task'.who = task.who /\ task'.length = task.length
  BY ReadMoves
<1>2. /\ queue \in [Source -> Seq(Bytes)]
      /\ Size(task.hand) \in Nat /\ Size(queue[task.s]) \in Nat
      /\ Size(hand) \in Nat /\ Size(rest) \in Nat /\ Size(<<>>) = 0
  BY <1>1, TaskType, SizeFacts DEF TypeOK
<1>3. /\ \A s \in Source : \A i \in 1..Size(queue[s]) : Fresh(queue[s][i])
      /\ \A i \in 1..Size(task.hand) : Fresh(task.hand[i])
  BY DEF FreshInv
<1>4. \A i \in 1..k : Fresh(queue[task.s][i])
  <2>1. \A i \in 1..k : i \in 1..Size(queue[task.s])
    BY <1>1, <1>2
  <2> QED
    BY <1>1, <1>3, <2>1
<1>5. \A i \in 1..Size(rest) : Fresh(rest[i])
  <2>1. \A i \in 1..Size(rest) : k + i \in 1..Size(queue[task.s])
    BY <1>1, <1>2
  <2> QED
    BY <1>1, <1>3, <2>1
<1>6. ASSUME NEW i \in 1..Size(hand) PROVE Fresh(hand[i])
  <2>1. CASE i <= Size(task.hand)
    <3>1. i \in 1..Size(task.hand)
      BY <1>2, <2>1
    <3> QED
      BY <1>1, <1>3, <3>1
  <2>2. CASE i > Size(task.hand)
    <3>1. i - Size(task.hand) \in 1..k /\ Size(task.hand) + (i - Size(task.hand)) = i
      BY <1>1, <1>2, <2>2
    <3>2. hand[i] = queue[task.s][i - Size(task.hand)]
      BY <1>1, <3>1
    <3> QED
      BY <1>4, <3>1, <3>2
  <2> QED
    BY <1>2, <2>1, <2>2
<1>7. \A s \in Source : \A i \in 1..Size(queue'[s]) : Fresh(queue'[s][i])
  <2>1. ASSUME NEW s \in Source PROVE \A i \in 1..Size(queue'[s]) : Fresh(queue'[s][i])
    <3>1. CASE s = task.s
      <4>1. queue'[s] = rest
        BY <1>1, <1>2, <3>1
      <4> QED
        BY <1>5, <4>1
    <3>2. CASE s # task.s
      <4>1. queue'[s] = queue[s]
        BY <1>1, <1>2, <3>2
      <4> QED
        BY <1>3, <4>1
    <3> QED
      BY <3>1, <3>2
  <2> QED
    BY <2>1
<1>8. \A i \in 1..Size(task'.hand) : Fresh(task'.hand[i])
  <2>1. CASE task'.hand = hand
    BY <1>6, <2>1
  <2>2. CASE task'.hand = <<>>
    BY <1>2, <2>2
  <2> QED
    BY <1>1, <2>1, <2>2
<1> QED
  BY <1>7, <1>8

LEMMA FreshArrival ==
    ASSUME TypeOK, FreshInv, NEW r \in Source, Arrive(r)
    PROVE  \A s \in Source : \A i \in 1..Size(queue'[s]) : Fresh(queue'[s][i])
<1> DEFINE c == <<r, sent[r] + 1>>
           q == queue[r]
           t == Append(q, c)
<1>1. /\ c \in Bytes /\ q \in Seq(Bytes) /\ queue' = [queue EXCEPT ![r] = t]
      /\ queue \in [Source -> Seq(Bytes)]
  BY NewByte DEF TypeOK
<1>2. Fresh(c)
  <2>1. sent[r] \in Nat /\ cleared[r] \in Nat /\ cleared[r] <= sent[r]
    BY DEF TypeOK
  <2> QED
    BY <2>1 DEF Fresh
<1> HIDE DEF c
<1>3. /\ Size(t) = Size(q) + 1 /\ Size(q) \in Nat /\ t[Size(q) + 1] = c
      /\ \A i \in 1..Size(q) : t[i] = q[i]
  BY <1>1, PutFacts, SizeFacts
<1> HIDE DEF t
<1>4. \A s \in Source : \A i \in 1..Size(queue[s]) : Fresh(queue[s][i])
  BY DEF FreshInv
<1>5. \A i \in 1..Size(t) : Fresh(t[i])
  <2>1. \A i \in 1..Size(t) : i \in 1..Size(q) \/ i = Size(q) + 1
    BY <1>3
  <2>2. \A i \in 1..Size(q) : Fresh(q[i])
    BY <1>4
  <2> HIDE DEF q
  <2> QED
    BY <1>2, <1>3, <2>1, <2>2
<1>6. ASSUME NEW s \in Source PROVE \A i \in 1..Size(queue'[s]) : Fresh(queue'[s][i])
  <2>1. queue'[s] = IF s = r THEN t ELSE queue[s]
    BY <1>1
  <2> QED
    BY <1>4, <1>5, <2>1
<1> QED
  BY <1>6

LEMMA FreshStep ==
    TypeOK /\ TaskInv /\ ActInv /\ WindowInv /\ FreshInv /\ [Next]_vars => FreshInv'
<1> SUFFICES ASSUME TypeOK, TaskInv, ActInv, WindowInv, FreshInv, [Next]_vars
             PROVE  FreshInv'
  OBVIOUS
<1>0. /\ task.hand \in Seq(Byte) /\ Size(<<>>) = 0 /\ Size(task.hand) \in Nat
      /\ mode \in {"polls", "asks"} /\ task.who \in {"offer", "read"}
  BY TaskType, SizeFacts DEF TypeOK
<1>1. CASE UserStep
  <2>1. \A s \in Source : \A i \in 1..Size(queue'[s]) : Fresh(queue'[s][i])
    <3>1. (\E r \in Source : Arrive(r)) \/ queue' = queue
      BY <1>1, UserMoves
    <3> QED
      BY <3>1, FreshArrival DEF FreshInv
  <2>2. UNCHANGED <<shared, task, cleared>>
    BY <1>1, UserMoves
  <2>3. act'.ch = act.ch \/ act'.ch = None
    BY <1>1, UserMoves
  <2> QED
    BY <2>1, <2>2, <2>3 DEF FreshInv, Fresh, shared
<1>2. CASE ActLoop
  <2>1. UNCHANGED <<cleared, queue, task>>
    BY <1>2, ActMoves DEF history
  <2>2. \A b : Fresh(b)' <=> Fresh(b)
    BY <2>1 DEF Fresh
  <2>3. slot' # None => Fresh(slot')
    BY <1>2, ActMoves DEF shared, FreshInv
  <2>4. act'.ch # None => Fresh(act'.ch)
    BY <1>2, ActMoves DEF ActTo, ActDone, FreshInv
  <2>5. flag' => Fresh(reg')
    BY <1>2, ActMoves DEF shared, FreshInv, ActInv, WindowInv, Moving
  <2> QED
    BY <2>1, <2>2, <2>3, <2>4, <2>5 DEF FreshInv, Fresh
<1>3. CASE TaskLook \/ TaskReady \/ (\E n \in 1..MaxRead : StdinRead(n)) \/ Pick
  <2>1. UNCHANGED <<cleared, queue, shared, act>> /\ task'.hand \in {<<>>, task.hand}
    BY <1>3, OtherMoves DEF TaskTo, TaskDone
  <2>2. \A i \in 1..Size(task'.hand) : Fresh(task'.hand[i])
    BY <1>0, <2>1 DEF FreshInv
  <2> QED
    BY <2>1, <2>2 DEF FreshInv, Fresh, shared
<1>4. CASE Reclaim
  <2>1. UNCHANGED <<cleared, queue, act>>
    BY <1>4, ReclaimMoves DEF history
  <2>2. \/ task'.hand = task.hand
        \/ task'.hand = <<slot>> /\ slot # None
        \/ task'.hand = <<reg>> /\ flag
    BY <1>4, ReclaimMoves, <1>0 DEF TaskTo, WindowInv, Offering, TaskInv, Reading
  <2>3. \A i \in 1..Size(task'.hand) : Fresh(task'.hand[i])
    <3>1. \A b : Size(<<b>>) = 1 /\ <<b>>[1] = b
      BY SizeFacts
    <3>2. \A i \in 1..1 : i = 1
      OBVIOUS
    <3> QED
      BY <2>2, <3>1, <3>2 DEF FreshInv
  <2>4. (slot' # None => slot' = slot) /\ (flag' => flag /\ reg' = reg)
    BY <1>4, ReclaimMoves, <1>0 DEF shared, WindowInv, TaskInv
  <2> QED
    BY <2>1, <2>3, <2>4 DEF FreshInv, Fresh
<1>5. CASE ReadSource
  <2>1. UNCHANGED <<cleared, slot, flag, reg, act>>
    BY <1>5, ReadMoves DEF history, shared
  <2> QED
    BY <1>5, <2>1, FreshRead DEF FreshInv, Fresh
<1>6. CASE Offer \/ Return
  <2>1. UNCHANGED <<cleared, queue, flag, reg, act>>
    BY <1>6, GiveMoves
  <2>2. Fresh(task.hand[1])
    <3>1. 1 \in 1..Size(task.hand)
      BY <1>0, <1>6, GiveMoves
    <3> QED
      BY <3>1 DEF FreshInv
  <2>3. \A i \in 1..Size(task'.hand) : Fresh(task'.hand[i])
    <3>1. CASE task'.hand = <<>>
      BY <1>0, <3>1
    <3>2. CASE task'.hand = Tail(task.hand) /\ Size(task.hand) >= 2
      <4> DEFINE t == Tail(task.hand)
      <4>1. Size(t) = Size(task.hand) - 1
            /\ \A i \in 1..(Size(task.hand) - 1) : t[i] = task.hand[i + 1]
        <5>1. Size(task.hand) >= 1
          BY <1>0, <3>2
        <5> QED
          BY ONLY <1>0, <5>1, DropFacts, Zenon
      <4> HIDE DEF t
      <4>2. \A i \in 1..Size(t) : i + 1 \in 1..Size(task.hand) /\ t[i] = task.hand[i + 1]
        BY <1>0, <4>1
      <4>3. \A i \in 1..Size(t) : Fresh(t[i])
        BY <4>2 DEF FreshInv
      <4> QED
        BY <3>2, <4>3 DEF t
    <3> QED
      BY <1>6, GiveMoves, <3>1, <3>2 DEF TaskDone
  <2>4. slot' = slot \/ slot' = task.hand[1]
    BY <1>6, GiveMoves
  <2> QED
    BY <2>1, <2>2, <2>3, <2>4 DEF FreshInv, Fresh
<1>7. CASE ClearStep
  <2>1. /\ queue' = [s \in Source |-> <<>>] /\ slot' = None
        /\ task' = task /\ act' = act /\ task.at = "idle" /\ act.at = "idle"
    BY <1>7, ClearMoves
  <2>2. act.ch = None /\ task.hand = <<>>
    BY <2>1 DEF ActInv, TaskInv, Moving
  <2>3. ~flag'
    BY <1>7, <2>1, ClearMoves DEF WindowInv
  <2>4. \A s \in Source : Size(queue'[s]) = 0
    BY <1>0, <2>1
  <2> QED
    BY <1>0, <2>1, <2>2, <2>3, <2>4 DEF FreshInv
<1>8. CASE UNCHANGED vars
  BY <1>8 DEF vars, FreshInv, Fresh
<1> QED
  BY <1>1, <1>2, <1>3, <1>4, <1>5, <1>6, <1>7, <1>8, Steps
----------------------------------------------------------------------------
(* Each source's bytes in order.                                           *)
LEMMA EmptyRow == ASSUME NEW s PROVE Row(<<>>, s) /\ \A b : Before(b, <<>>)
BY SizeFacts DEF Row, Before

(* The first k bytes of row q join those in hand.                          *)
Taken(h, q, k, hand, rest) ==
    /\ Size(hand) = Size(h) + k /\ Size(rest) = Size(q) - k
    /\ \A i \in 1..Size(h) : hand[i] = h[i]
    /\ \A i \in 1..k : hand[Size(h) + i] = q[i]
    /\ \A i \in 1..Size(rest) : rest[i] = q[k + i]

AllBefore(h, q) == \A i \in 1..Size(h) : Before(h[i], q)
UpTo(q, n) == \A i \in 1..Size(q) : q[i][2] <= n

LEMMA TakenOrder ==
    ASSUME NEW s, NEW n, NEW h \in Seq(Byte), NEW q \in Seq(Bytes), NEW k \in Nat,
           NEW hand \in Seq(Byte), NEW rest \in Seq(Bytes), Taken(h, q, k, hand, rest),
           Row(h, s), Row(q, s), AllBefore(h, q), UpTo(h, n), UpTo(q, n)
    PROVE  /\ Row(hand, s) /\ Row(rest, s) /\ AllBefore(hand, rest)
           /\ UpTo(hand, n) /\ UpTo(rest, n)
           /\ \A b : Before(b, q) => Before(b, rest)
           /\ \A b : Before(b, h) /\ Before(b, q) => Before(b, hand)
<1> USE DEF Taken, AllBefore
<1>0. Size(h) \in Nat /\ Size(q) \in Nat /\ Size(hand) \in Nat /\ Size(rest) \in Nat
  BY SizeFacts
<1>1. \A i \in 1..Size(hand) :
         \/ i \in 1..Size(h) /\ hand[i] = h[i]
         \/ /\ i > Size(h) /\ i - Size(h) \in 1..k /\ i - Size(h) \in 1..Size(q)
            /\ hand[i] = q[i - Size(h)]
  <2> TAKE i \in 1..Size(hand)
  <2>1. CASE i <= Size(h)
    <3>1. i \in 1..Size(h)
      BY <1>0, <2>1
    <3> QED
      BY <3>1
  <2>2. CASE i > Size(h)
    <3>1. i - Size(h) \in 1..k /\ i - Size(h) \in 1..Size(q) /\ Size(h) + (i - Size(h)) = i
      BY <1>0, <2>2
    <3>2. hand[Size(h) + (i - Size(h))] = q[i - Size(h)]
      BY <3>1
    <3> QED
      BY <2>2, <3>1, <3>2
  <2> QED
    BY <1>0, <2>1, <2>2
<1>2. \A i \in 1..Size(rest) : k + i \in 1..Size(q) /\ rest[i] = q[k + i]
  BY <1>0
<1>3. /\ \A i \in 1..Size(h) : h[i] \in Bytes /\ h[i][1] = s
      /\ \A i \in 1..Size(q) : q[i] \in Bytes /\ q[i][1] = s
      /\ \A i, j \in 1..Size(h) : i < j => h[i][2] < h[j][2]
      /\ \A i, j \in 1..Size(q) : i < j => q[i][2] < q[j][2]
      /\ \A i \in 1..Size(h), j \in 1..Size(q) : h[i][2] < q[j][2]
  BY DEF Row, Before
<1>4. ASSUME NEW i \in 1..Size(hand), NEW j \in 1..Size(hand), i < j
      PROVE  hand[i][2] < hand[j][2]
  <2>1. CASE i \in 1..Size(h) /\ hand[i] = h[i] /\ j \in 1..Size(h) /\ hand[j] = h[j]
    BY <1>3, <1>4, <2>1
  <2>2. CASE i \in 1..Size(h) /\ hand[i] = h[i]
             /\ j - Size(h) \in 1..Size(q) /\ hand[j] = q[j - Size(h)]
    BY <1>3, <2>2
  <2>3. CASE /\ i - Size(h) \in 1..Size(q) /\ hand[i] = q[i - Size(h)]
             /\ j - Size(h) \in 1..Size(q) /\ hand[j] = q[j - Size(h)]
    <3>1. i - Size(h) < j - Size(h)
      BY <1>0, <1>4
    <3> QED
      BY <1>3, <2>3, <3>1
  <2>4. ~(j \in 1..Size(h) /\ i > Size(h))
    BY <1>0, <1>4
  <2> QED
    BY <1>1, <2>1, <2>2, <2>3, <2>4
<1>5. Row(hand, s)
  <2>1. \A i \in 1..Size(hand) : hand[i] \in Bytes /\ hand[i][1] = s
    BY <1>1, <1>3
  <2> QED
    BY <1>4, <2>1 DEF Row
<1>6. Row(rest, s)
  <2>1. \A i \in 1..Size(rest) : rest[i] \in Bytes /\ rest[i][1] = s
    BY <1>2, <1>3
  <2>2. ASSUME NEW i \in 1..Size(rest), NEW j \in 1..Size(rest), i < j
        PROVE  rest[i][2] < rest[j][2]
    <3>1. k + i < k + j
      BY <1>0, <2>2
    <3> QED
      BY <1>2, <1>3, <3>1
  <2> QED
    BY <2>1, <2>2 DEF Row
<1>7. ASSUME NEW i \in 1..Size(hand), NEW j \in 1..Size(rest)
      PROVE  hand[i][2] < rest[j][2]
  <2>1. CASE i \in 1..Size(h) /\ hand[i] = h[i]
    BY <1>2, <1>3, <2>1
  <2>2. CASE i - Size(h) \in 1..k /\ i - Size(h) \in 1..Size(q) /\ hand[i] = q[i - Size(h)]
    <3>1. i - Size(h) < k + j
      BY <1>0, <2>2
    <3> QED
      BY <1>2, <1>3, <2>2, <3>1
  <2> QED
    BY <1>1, <2>1, <2>2
<1>8. \A i \in 1..Size(hand) : Before(hand[i], rest)
  BY <1>7 DEF Before
<1>9. \A b : Before(b, q) => Before(b, rest)
  <2> SUFFICES ASSUME NEW b, Before(b, q), NEW i \in 1..Size(rest), b[1] = rest[i][1]
               PROVE  b[2] < rest[i][2]
    BY DEF Before
  <2>1. k + i \in 1..Size(q) /\ rest[i] = q[k + i]
    BY <1>2
  <2> QED
    BY <2>1 DEF Before
<1>10. \A b : Before(b, h) /\ Before(b, q) => Before(b, hand)
  <2> SUFFICES ASSUME NEW b, Before(b, h), Before(b, q),
                      NEW i \in 1..Size(hand), b[1] = hand[i][1]
               PROVE  b[2] < hand[i][2]
    BY DEF Before
  <2>1. CASE i \in 1..Size(h) /\ hand[i] = h[i]
    BY <2>1 DEF Before
  <2>2. CASE i - Size(h) \in 1..Size(q) /\ hand[i] = q[i - Size(h)]
    BY <2>2 DEF Before
  <2> QED
    BY <1>1, <2>1, <2>2
<1>11. UpTo(hand, n) /\ UpTo(rest, n)
  BY <1>1, <1>2 DEF UpTo
<1> QED
  BY <1>5, <1>6, <1>8, <1>9, <1>10, <1>11

LEMMA AppendedOrder ==
    ASSUME NEW q \in Seq(Bytes), NEW c \in Bytes, NEW s, NEW n \in Nat, c[1] = s, c[2] = n + 1,
           Row(q, s), \A i \in 1..Size(q) : q[i][2] <= n
    PROVE  /\ Row(Append(q, c), s)
           /\ \A i \in 1..Size(Append(q, c)) : Append(q, c)[i][2] <= n + 1
           /\ \A b \in Bytes : Before(b, q) /\ b[2] <= n => Before(b, Append(q, c))
<1> DEFINE t == Append(q, c)
<1>1. /\ Size(t) = Size(q) + 1 /\ Size(q) \in Nat /\ t[Size(q) + 1] = c
      /\ \A i \in 1..Size(q) : t[i] = q[i]
  BY PutFacts, SizeFacts
<1> HIDE DEF t
<1>2. \A i \in 1..Size(t) : (i \in 1..Size(q) /\ t[i] = q[i]) \/ (i = Size(q) + 1 /\ t[i] = c)
  BY <1>1
<1>3. /\ \A i \in 1..Size(q) : q[i] \in Bytes /\ q[i][1] = s /\ q[i][2] \in Nat
      /\ \A i, j \in 1..Size(q) : i < j => q[i][2] < q[j][2]
  BY ByteParts DEF Row
<1>4. ASSUME NEW i \in 1..Size(t), NEW j \in 1..Size(t), i < j PROVE t[i][2] < t[j][2]
  <2>1. i \in 1..Size(q) /\ t[i] = q[i]
    BY <1>1, <1>2, <1>4
  <2>2. CASE j \in 1..Size(q) /\ t[j] = q[j]
    BY <1>3, <1>4, <2>1, <2>2
  <2>3. CASE t[j] = c
    BY <1>3, <2>1, <2>3
  <2> QED
    BY <1>2, <2>2, <2>3
<1>5. \A i \in 1..Size(t) : t[i] \in Bytes /\ t[i][1] = s /\ t[i][2] <= n + 1
  BY <1>2, <1>3
<1>6. \A b \in Bytes : Before(b, q) /\ b[2] <= n => Before(b, t)
  BY <1>2, ByteParts DEF Before
<1>7. Row(t, s)
  BY <1>4, <1>5 DEF Row
<1> QED
  BY <1>5, <1>6, <1>7 DEF t

LEMMA DroppedOrder ==
    ASSUME NEW h \in Seq(Byte), Size(h) >= 2, NEW s, Row(h, s)
    PROVE  /\ Row(Tail(h), s) /\ Before(h[1], Tail(h))
           /\ \A b : Before(b, h) => Before(b, Tail(h))
           /\ \A i \in 1..Size(Tail(h)) : i + 1 \in 1..Size(h) /\ Tail(h)[i] = h[i + 1]
<1> DEFINE t == Tail(h)
<1>0. Size(h) \in Nat /\ Size(h) >= 1
  BY SizeFacts
<1>1. Size(t) = Size(h) - 1 /\ \A i \in 1..(Size(h) - 1) : t[i] = h[i + 1]
  BY ONLY <1>0, h \in Seq(Byte), DropFacts, Zenon
<1> HIDE DEF t
<1>2. \A i \in 1..Size(t) : i + 1 \in 1..Size(h) /\ t[i] = h[i + 1] /\ 1 < i + 1
  BY <1>0, <1>1
<1>3. \A i, j \in 1..Size(t) : i < j => i + 1 < j + 1
  BY <1>0, <1>1
<1>4. 1 \in 1..Size(h)
  BY <1>0
<1>5. Row(t, s)
  BY <1>2, <1>3 DEF Row
<1>6. Before(h[1], t)
  BY <1>2, <1>4 DEF Row, Before
<1>7. \A b : Before(b, h) => Before(b, t)
  BY <1>2 DEF Before
<1> QED
  BY <1>2, <1>5, <1>6, <1>7 DEF t

(* What the order of the rows says of a byte in hand.                      *)
LEMMA HandBytes ==
    ASSUME TypeOK, TaskInv, RowsInv
    PROVE  /\ \A i \in 1..Size(task.hand) :
                 /\ task.s \in Source /\ task.hand[i] \in Bytes
                 /\ task.hand[i] # None /\ task.hand[i][1] = task.s
                 /\ task.hand[i][2] <= sent[task.s]
                 /\ Before(task.hand[i], queue[task.s])
           /\ Row(task.hand, task.s)
<1>1. Size(<<>>) = 0 /\ task.s \in 1..Any
  BY SizeFacts, TaskType
<1>2. task.s = Any => task.hand = <<>>
  BY DEF TaskInv
<1>3. ASSUME NEW i \in 1..Size(task.hand) PROVE task.s \in Source
  BY <1>1, <1>2, <1>3, PlacesOfSources
<1> QED
  BY <1>3, NoneAssumption DEF RowsInv, Row

(* A byte that arrives comes after all of its source's.                    *)
LEMMA ArrivedOrder ==
    ASSUME TypeOK, TaskInv, RowsInv, NEW r \in Source, Arrive(r)
    PROVE  /\ \A s \in Source :
                 /\ Row(queue'[s], s)
                 /\ \A i \in 1..Size(queue'[s]) : queue'[s][i][2] <= sent'[s]
                 /\ \A b \in Bytes : Before(b, queue[s]) /\ b[2] <= sent[s]
                       => Before(b, queue'[s]) /\ b[2] <= sent'[s]
           /\ UNCHANGED <<slot, flag, reg, act, mode, got, task, charSrc>>
<1> DEFINE c == <<r, sent[r] + 1>>
           q == queue[r]
           t == Append(q, c)
<1>1. /\ c \in Bytes /\ q \in Seq(Bytes) /\ queue' = [queue EXCEPT ![r] = t]
      /\ queue \in [Source -> Seq(Bytes)] /\ sent \in [Source -> Nat]
      /\ sent' = [sent EXCEPT ![r] = sent[r] + 1]
  BY NewByte DEF TypeOK
<1>2. c[1] = r /\ c[2] = sent[r] + 1 /\ sent[r] \in Nat
  BY <1>1
<1> HIDE DEF c
<1>3. Row(q, r) /\ \A i \in 1..Size(q) : q[i][2] <= sent[r]
  BY DEF RowsInv
<1>4. /\ Row(t, r) /\ \A i \in 1..Size(t) : t[i][2] <= sent[r] + 1
      /\ \A b \in Bytes : Before(b, q) /\ b[2] <= sent[r] => Before(b, t)
  <2> HIDE DEF q
  <2> QED
    BY <1>1, <1>2, <1>3, AppendedOrder
<1>5. \A b \in Bytes : b[2] \in Nat
  BY ByteParts
<1> HIDE DEF t
<1>6. ASSUME NEW s \in Source
      PROVE  /\ Row(queue'[s], s)
             /\ \A i \in 1..Size(queue'[s]) : queue'[s][i][2] <= sent'[s]
             /\ \A b \in Bytes : Before(b, queue[s]) /\ b[2] <= sent[s]
                   => Before(b, queue'[s]) /\ b[2] <= sent'[s]
  <2>1. CASE s = r
    <3>1. queue'[s] = t /\ sent'[s] = sent[r] + 1
      BY <1>1, <2>1
    <3> QED
      BY <1>2, <1>4, <1>5, <2>1, <3>1
  <2>2. CASE s # r
    <3>1. queue'[s] = queue[s] /\ sent'[s] = sent[s]
      BY <1>1, <2>2
    <3> QED
      BY <3>1 DEF RowsInv
  <2> QED
    BY <2>1, <2>2
<1> QED
  BY <1>6 DEF Arrive, shared, program, picker

(* A read leaves rows and hands in order, and what was before them.        *)
LEMMA ReadOrder ==
    ASSUME TypeOK, TaskInv, RowsInv, ReadSource
    PROVE  /\ RowsInv'
           /\ \A s \in Source : \A b : Before(b, queue[s]) => Before(b, queue'[s])
           /\ \A b : Before(b, task.hand) /\ Before(b, queue[task.s])
                        => Before(b, task'.hand)
           /\ \A b : b[1] # task.s => Before(b, task'.hand)
           /\ task.s \in Source
           /\ UNCHANGED <<sent, slot, flag, reg, act, mode, got, charSrc>>
<1>1. PICK k \in Nat, hand \in Seq(Byte), rest \in Seq(Bytes) :
              /\ task.s \in Source /\ queue[task.s] \in Seq(Bytes) /\ task.at = "source"
              /\ Size(hand) = Size(task.hand) + k /\ Size(hand) <= task.length
              /\ Size(rest) = Size(queue[task.s]) - k
              /\ \A i \in 1..Size(task.hand) : hand[i] = task.hand[i]
              /\ \A i \in 1..k : hand[Size(task.hand) + i] = queue[task.s][i]
              /\ \A i \in 1..Size(rest) : rest[i] = queue[task.s][k + i]
              /\ queue' = [queue EXCEPT ![task.s] = rest]
              /\ UNCHANGED <<history, shared, act, program, charSrc>>
              /\ \/ /\ Size(hand) >= 1 /\ task'.hand = hand /\ SameRead
                    /\ task'.at = (IF task.who = "read" THEN "return" ELSE "offer")
                 \/ /\ Size(hand) = 0 /\ task'.hand = <<>> /\ task.hand = <<>>
                    /\ task'.at = "pick" /\ task'.s = task.s + 1
                    /\ task'.who = task.who /\ task'.length = task.length
  BY ReadMoves
<1> DEFINE q == queue[task.s]
           h == task.hand
<1>2. /\ queue \in [Source -> Seq(Bytes)] /\ h \in Seq(Byte)
      /\ Size(<<>>) = 0 /\ sent[task.s] \in Nat
  BY <1>1, TaskType, SizeFacts DEF TypeOK
<1>3. /\ Row(h, task.s) /\ Row(q, task.s) /\ AllBefore(h, q)
      /\ UpTo(h, sent[task.s]) /\ UpTo(q, sent[task.s])
  BY <1>1 DEF RowsInv, AllBefore, UpTo
<1>4. /\ Row(hand, task.s) /\ Row(rest, task.s) /\ AllBefore(hand, rest)
      /\ UpTo(hand, sent[task.s]) /\ UpTo(rest, sent[task.s])
      /\ \A b : Before(b, q) => Before(b, rest)
      /\ \A b : Before(b, h) /\ Before(b, q) => Before(b, hand)
  <2>1. q \in Seq(Bytes) /\ h \in Seq(Byte) /\ Taken(h, q, k, hand, rest)
    BY <1>1, <1>2 DEF Taken
  <2> HIDE DEF q, h
  <2> QED
    BY <1>3, <2>1, TakenOrder
<1>5. /\ \A i \in 1..Size(hand) : hand[i][2] <= sent[task.s]
      /\ \A i \in 1..Size(rest) : rest[i][2] <= sent[task.s]
      /\ \A i \in 1..Size(hand) : Before(hand[i], rest)
  BY <1>4 DEF UpTo, AllBefore
<1>6. UNCHANGED <<sent, slot, flag, reg, act, mode, got, charSrc>>
  BY <1>1 DEF history, shared, program
<1>7. queue'[task.s] = rest /\ \A s \in Source : s # task.s => queue'[s] = queue[s]
  BY <1>1, <1>2
<1>8. /\ \A s \in Source : Row(queue'[s], s)
      /\ \A s \in Source : \A i \in 1..Size(queue'[s]) : queue'[s][i][2] <= sent[s]
      /\ \A s \in Source : \A b : Before(b, queue[s]) => Before(b, queue'[s])
  <2>1. ASSUME NEW s \in Source
        PROVE  /\ Row(queue'[s], s)
               /\ \A i \in 1..Size(queue'[s]) : queue'[s][i][2] <= sent[s]
               /\ \A b : Before(b, queue[s]) => Before(b, queue'[s])
    <3>1. CASE s = task.s
      BY <1>4, <1>5, <1>7, <3>1
    <3>2. CASE s # task.s
      <4>1. queue'[s] = queue[s]
        BY <1>7, <3>2
      <4> QED
        BY <4>1 DEF RowsInv
    <3> QED
      BY <3>1, <3>2
  <2> QED
    BY <2>1
<1>9. (task'.hand = hand /\ task'.s = task.s) \/ task'.hand = <<>>
  BY <1>1 DEF SameRead
<1>10. /\ Row(task'.hand, task'.s)
       /\ \A i \in 1..Size(task'.hand) :
             Before(task'.hand[i], queue'[task'.s]) /\ task'.hand[i][2] <= sent[task'.s]
  <2>1. CASE task'.hand = hand /\ task'.s = task.s
    BY <1>4, <1>5, <1>7, <2>1
  <2>2. CASE task'.hand = <<>>
    BY <1>2, <2>2, EmptyRow
  <2> QED
    BY <1>9, <2>1, <2>2
<1>11. RowsInv'
  BY <1>6, <1>8, <1>10 DEF RowsInv, Row, Before
<1>12. \A b : Before(b, task.hand) /\ Before(b, queue[task.s]) => Before(b, task'.hand)
  BY <1>4, <1>9, EmptyRow
<1>13. \A b : b[1] # task.s => Before(b, task'.hand)
  <2>1. \A b : b[1] # task.s => Before(b, hand)
    BY <1>4 DEF Row, Before
  <2> QED
    BY <2>1, <1>9, EmptyRow
<1> QED
  BY <1>1, <1>6, <1>8, <1>11, <1>12, <1>13

LEMMA RowsStep ==
    TypeOK /\ TaskInv /\ ActInv /\ WindowInv /\ OrderInv /\ [Next]_vars => RowsInv'
<1> SUFFICES ASSUME TypeOK, TaskInv, ActInv, WindowInv, OrderInv, [Next]_vars
             PROVE  RowsInv'
  OBVIOUS
<1>0. RowsInv /\ GotInv /\ LatchInv
  BY DEF OrderInv
<1>1. CASE UserStep
  <2>1. CASE \E r \in Source : Arrive(r)
    <3>1. /\ \A s \in Source :
                /\ Row(queue'[s], s)
                /\ \A i \in 1..Size(queue'[s]) : queue'[s][i][2] <= sent'[s]
                /\ \A b \in Bytes : Before(b, queue[s]) /\ b[2] <= sent[s]
                      => Before(b, queue'[s]) /\ b[2] <= sent'[s]
          /\ task' = task
      BY <1>0, <2>1, ArrivedOrder
    <3>2. \A i \in 1..Size(task.hand) :
             /\ task.s \in Source /\ task.hand[i] \in Bytes
             /\ task.hand[i][2] <= sent[task.s]
             /\ Before(task.hand[i], queue[task.s])
      BY <1>0, HandBytes
    <3> QED
      BY <1>0, <3>1, <3>2 DEF RowsInv, Row, Before
  <2>2. CASE UNCHANGED <<sent, queue>>
    <3>1. task' = task
      BY <1>1, UserMoves
    <3> QED
      BY <1>0, <2>2, <3>1 DEF RowsInv, Row, Before
  <2> QED
    BY <1>1, <2>1, <2>2, UserMoves
<1>2. CASE ActLoop
  <2>1. UNCHANGED <<sent, queue, task>>
    BY <1>2, ActMoves DEF history
  <2> QED
    BY <1>0, <2>1 DEF RowsInv, Row, Before
<1>3. ASSUME UNCHANGED <<sent, queue>>, Row(task'.hand, task'.s),
             \A i \in 1..Size(task'.hand) :
                Before(task'.hand[i], queue[task'.s]) /\ task'.hand[i][2] <= sent[task'.s]
      PROVE  RowsInv'
  BY <1>0, <1>3 DEF RowsInv, Row, Before
<1>4. CASE UNCHANGED <<sent, queue>> /\ task'.hand = <<>>
  <2>1. Size(<<>>) = 0
    BY SizeFacts
  <2> QED
    BY <1>3, <1>4, <2>1, EmptyRow
<1>5. CASE UNCHANGED <<sent, queue>> /\ task'.hand = task.hand /\ task'.s = task.s
  BY <1>0, <1>3, <1>5 DEF RowsInv
<1>6. CASE TaskLook \/ TaskReady \/ (\E n \in 1..MaxRead : StdinRead(n)) \/ Pick
  <2>1. UNCHANGED <<sent, queue>>
    BY <1>6, OtherMoves
  <2>2. task'.hand = <<>> \/ (task'.hand = task.hand /\ task'.s = task.s)
    BY <1>6, OtherMoves DEF TaskTo, TaskDone, SameRead, TaskInv
  <2> QED
    BY <1>4, <1>5, <2>1, <2>2
<1>7. CASE Reclaim
  <2>1. UNCHANGED <<sent, queue>> /\ task'.s = task.s
    BY <1>7, ReclaimMoves DEF history, TaskTo, SameRead
  <2>2. \/ task'.hand = task.hand
        \/ task'.hand = <<slot>> /\ slot # None /\ charSrc = task.s
        \/ task'.hand = <<reg>> /\ reg # None /\ ~Spent /\ charSrc = task.s
    BY <1>7, ReclaimMoves, TaskType
       DEF TaskTo, WindowInv, Offering, TaskInv, Reading, Spent
  <2>3. ASSUME NEW b, b \in {slot, reg}, b # None, InLine(b), b[2] <= sent[b[1]],
               charSrc = task.s, task'.hand = <<b>>
        PROVE  RowsInv'
    <3>1. b \in Bytes /\ b[1] = task.s /\ Before(b, queue[task.s]) /\ b[2] <= sent[task.s]
      BY <2>3 DEF InLine, TypeOK, Byte
    <3>2. Size(<<b>>) = 1 /\ <<b>>[1] = b /\ \A i \in 1..1 : i = 1
      BY SizeFacts
    <3>3. \A i \in 1..Size(task'.hand) : task'.hand[i] = b
      BY <2>3, <3>2
    <3>4. \A i \in 1..Size(task'.hand) : \A j \in 1..Size(task'.hand) : ~(i < j)
      BY <2>3, <3>2
    <3>5. Row(task'.hand, task'.s)
      BY <2>1, <3>1, <3>3, <3>4 DEF Row
    <3> QED
      BY <1>3, <2>1, <3>1, <3>3, <3>5
  <2> QED
    BY <1>0, <1>5, <2>1, <2>2, <2>3 DEF LatchInv
<1>8. CASE ReadSource
  BY <1>0, <1>8, ReadOrder
<1>9. CASE Offer \/ Return
  <2>1. UNCHANGED <<sent, queue>>
    BY <1>9, GiveMoves
  <2>2. CASE task'.hand = <<>>
    BY <1>4, <2>1, <2>2
  <2>3. CASE Size(task.hand) >= 2 /\ task'.hand = Tail(task.hand) /\ SameRead
    <3> DEFINE t == Tail(task.hand)
    <3>1. task.hand \in Seq(Byte) /\ Row(task.hand, task.s)
      BY <1>0, TaskType DEF RowsInv
    <3>2. /\ Row(t, task.s)
          /\ \A i \in 1..Size(t) : i + 1 \in 1..Size(task.hand) /\ t[i] = task.hand[i + 1]
      BY <2>3, <3>1, DroppedOrder
    <3> HIDE DEF t
    <3>3. \A i \in 1..Size(t) : Before(t[i], queue[task.s]) /\ t[i][2] <= sent[task.s]
      BY <1>0, <3>2 DEF RowsInv
    <3>4. task'.hand = t /\ task'.s = task.s
      BY <2>3 DEF t, SameRead
    <3> QED
      BY <1>3, <2>1, <3>2, <3>3, <3>4
  <2> QED
    BY <1>9, <2>2, <2>3, GiveMoves DEF TaskDone
<1>10. CASE ClearStep
  <2>1. /\ queue' = [s \in Source |-> <<>>] /\ sent' = sent /\ task' = task
        /\ task.hand = <<>>
    BY <1>10, ClearMoves DEF TaskInv
  <2>2. Size(<<>>) = 0 /\ \A s \in Source : queue'[s] = <<>>
    BY <2>1, SizeFacts
  <2>3. \A s \in Source : Row(<<>>, s)
    BY EmptyRow
  <2>4. Row(<<>>, task.s)
    BY EmptyRow
  <2> QED
    BY <2>1, <2>2, <2>3, <2>4 DEF RowsInv, Row, Before
<1>11. CASE UNCHANGED vars
  BY <1>0, <1>11 DEF vars, RowsInv, Row, Before
<1> QED
  BY <1>1, <1>2, <1>6, <1>7, <1>8, <1>9, <1>10, <1>11, Steps

LEMMA GotStep ==
    TypeOK /\ TaskInv /\ ActInv /\ WindowInv /\ OrderInv /\ [Next]_vars => GotInv'
<1> SUFFICES ASSUME TypeOK, TaskInv, ActInv, WindowInv, OrderInv, [Next]_vars
             PROVE  GotInv'
  OBVIOUS
<1>0. RowsInv /\ GotInv /\ LatchInv /\ Size(<<>>) = 0
  BY SizeFacts DEF OrderInv
<1>1. \A a \in got : a \in Bytes /\ a[1] \in Source
  BY ByteParts DEF TypeOK
<1>2. \A a : Before(a, <<>>)
  BY EmptyRow
<1>3. ASSUME UNCHANGED <<sent, queue, got>>,
             \A a \in got : Before(a, task'.hand)
      PROVE  GotInv'
  BY <1>0, <1>3 DEF GotInv, Before
<1>4. CASE UNCHANGED <<sent, queue, got>> /\ task'.hand \in {<<>>, task.hand}
  BY <1>0, <1>2, <1>3, <1>4 DEF GotInv
<1>5. CASE UserStep
  <2>0. task' = task
    BY <1>5, UserMoves
  <2>1. CASE \E r \in Source : Arrive(r)
    <3>1. /\ \A s \in Source :
                /\ \A b \in Bytes : Before(b, queue[s]) /\ b[2] <= sent[s]
                      => Before(b, queue'[s]) /\ b[2] <= sent'[s]
          /\ got' = got
      BY <1>0, <2>1, ArrivedOrder
    <3> QED
      BY <1>0, <1>1, <2>0, <3>1 DEF GotInv, Before
  <2>2. CASE UNCHANGED <<sent, queue, got>>
    BY <1>4, <2>0, <2>2
  <2>3. CASE /\ mode = "polls" /\ act.at = "idle" /\ UNCHANGED <<sent, queue>>
             /\ got' = got \cup ({reg} \ {None}) /\ reg # None
    <3>1. InLine(reg) /\ reg[2] <= sent[reg[1]]
      BY <1>0, <2>3 DEF LatchInv, Spent
    <3>2. Before(reg, queue[reg[1]])
      BY <3>1 DEF InLine
    <3>3. task.hand = <<>>
      BY <2>3, TaskType
         DEF TaskInv, WindowInv, Reading, Offering, TaskPlaces
    <3>4. \A a \in got' : a \in got \/ a = reg
      BY <2>3
    <3> QED
      BY <1>0, <1>2, <2>0, <2>3, <3>1, <3>2, <3>3, <3>4 DEF GotInv, Before
  <2> QED
    BY <1>5, <2>1, <2>2, <2>3, UserMoves
<1>6. CASE ActLoop
  <2>1. UNCHANGED <<sent, queue, task, got>>
    BY <1>6, ActMoves DEF history, program
  <2> QED
    BY <1>4, <2>1
<1>7. CASE TaskLook \/ TaskReady \/ (\E n \in 1..MaxRead : StdinRead(n)) \/ Pick
  <2>1. UNCHANGED <<sent, queue, got>>
    BY <1>7, OtherMoves
  <2>2. task'.hand \in {<<>>, task.hand}
    BY <1>7, OtherMoves DEF TaskTo, TaskDone
  <2> QED
    BY <1>4, <2>1, <2>2
<1>8. CASE Reclaim
  <2>1. UNCHANGED <<sent, queue, got>>
    BY <1>8, ReclaimMoves DEF history, program
  <2>2. \/ task'.hand = task.hand
        \/ task'.hand = <<slot>> /\ slot # None
        \/ task'.hand = <<reg>> /\ reg # None /\ ~Spent
    BY <1>8, ReclaimMoves, TaskType
       DEF TaskTo, WindowInv, Offering, TaskInv, Reading, Spent
  <2>3. ASSUME NEW b, InLine(b), task'.hand = <<b>> PROVE GotInv'
    <3>1. Size(<<b>>) = 1 /\ <<b>>[1] = b /\ \A i \in 1..1 : i = 1
      BY SizeFacts
    <3>2. \A i \in 1..Size(task'.hand) : task'.hand[i] = b
      BY <2>3, <3>1
    <3>3. \A a \in got : Before(a, task'.hand)
      BY <2>3, <3>2 DEF InLine, Before
    <3> QED
      BY <1>3, <2>1, <3>3
  <2> QED
    BY <1>0, <1>4, <2>1, <2>2, <2>3 DEF LatchInv
<1>9. CASE ReadSource
  <2>1. /\ \A s \in Source : \A b : Before(b, queue[s]) => Before(b, queue'[s])
        /\ \A b : Before(b, task.hand) /\ Before(b, queue[task.s])
                     => Before(b, task'.hand)
        /\ \A b : b[1] # task.s => Before(b, task'.hand)
        /\ UNCHANGED <<sent, got>>
    BY <1>0, <1>9, ReadOrder
  <2>2. ASSUME NEW a \in got PROVE Before(a, task'.hand) /\ Before(a, queue'[a[1]])
    BY <1>0, <1>1, <2>1 DEF GotInv
  <2> QED
    BY <1>0, <2>1, <2>2 DEF GotInv, Before
<1>10. CASE Offer \/ Return
  <2> DEFINE h == task.hand
             t == Tail(task.hand)
  <2>1. UNCHANGED <<sent, queue>> /\ h \in Seq(Byte) /\ 1 \in 1..Size(h)
    BY <1>10, GiveMoves, TaskType
  <2>2. h[1] \in Bytes /\ h[1] # None /\ h[1][1] = task.s /\ h[1][2] <= sent[task.s]
        /\ Before(h[1], queue[task.s]) /\ Row(h, task.s)
    BY <1>0, <2>1, HandBytes
  <2>3. CASE task'.hand = <<>> /\ got' = got
    BY <1>4, <2>1, <2>3
  <2>4. CASE task'.hand = <<>> /\ got' = got \cup {h[1]}
    BY <1>0, <1>2, <2>1, <2>2, <2>4 DEF GotInv, Before
  <2>5. CASE task'.hand = t /\ got' = got \cup {h[1]} /\ Size(h) >= 2
    <3>1. Before(h[1], t) /\ \A b : Before(b, h) => Before(b, t)
      BY <2>1, <2>2, <2>5, DroppedOrder
    <3> HIDE DEF t, h
    <3>2. \A a \in got : Before(a, h)
      BY <1>0 DEF GotInv, h
    <3>3. \A a \in got' : a \in got \/ a = h[1]
      BY <2>5
    <3> QED
      BY <1>0, <2>1, <2>2, <2>5, <3>1, <3>2, <3>3 DEF GotInv, Before
  <2>6. {h[1]} \ {None} = {h[1]}
    BY <2>2
  <2> HIDE DEF t
  <2> QED
    BY <1>10, <2>3, <2>4, <2>5, <2>6, GiveMoves DEF TaskDone, t
<1>11. CASE ClearStep
  <2>1. /\ queue' = [s \in Source |-> <<>>] /\ UNCHANGED <<sent, got, task>>
    BY <1>11, ClearMoves
  <2>2. \A s \in Source : queue'[s] = <<>>
    BY <2>1
  <2> QED
    BY <1>0, <1>1, <1>2, <2>1, <2>2 DEF GotInv, Before
<1>12. CASE UNCHANGED vars
  BY <1>0, <1>12 DEF vars, GotInv, Before
<1> QED
  BY <1>5, <1>6, <1>7, <1>8, <1>9, <1>10, <1>11, <1>12, Steps

LEMMA LatchStep ==
    TypeOK /\ TaskInv /\ ActInv /\ WindowInv /\ OrderInv /\ [Next]_vars => LatchInv'
<1> SUFFICES ASSUME TypeOK, TaskInv, ActInv, WindowInv, OrderInv, [Next]_vars
             PROVE  LatchInv'
  OBVIOUS
<1>0. RowsInv /\ GotInv /\ LatchInv
  BY DEF OrderInv
<1>1. /\ slot # None => slot \in Bytes /\ slot[1] \in Source
      /\ reg # None => reg \in Bytes /\ reg[1] \in Source
      /\ charSrc \in Source /\ queue \in [Source -> Seq(Bytes)]
  BY ByteParts DEF TypeOK, Byte
<1>2. ASSUME UNCHANGED <<sent, queue, charSrc, got>>,
             slot' # None => slot' = slot,
             reg' # None /\ ~Spent' => reg' = slot \/ (reg' = reg /\ ~Spent)
      PROVE  LatchInv'
  BY <1>0, <1>2 DEF LatchInv, InLine, Before
<1>3. CASE UserStep
  <2>0. UNCHANGED <<slot, reg, charSrc>>
    BY <1>3, UserMoves DEF shared
  <2>1. CASE \E r \in Source : Arrive(r)
    <3>1. /\ \A s \in Source :
                /\ \A b \in Bytes : Before(b, queue[s]) /\ b[2] <= sent[s]
                      => Before(b, queue'[s]) /\ b[2] <= sent'[s]
          /\ UNCHANGED <<act, got>>
      BY <1>0, <2>1, ArrivedOrder
    <3>2. ASSUME NEW b \in Bytes, InLine(b), b[2] <= sent[b[1]]
          PROVE  InLine(b)' /\ b[2] <= sent'[b[1]]
      BY <1>1, <2>0, <3>1, <3>2 DEF InLine, Before
    <3> QED
      BY <1>0, <1>1, <2>0, <3>1, <3>2 DEF LatchInv, InLine, Before, Spent
  <2>2. CASE UNCHANGED <<sent, queue, got>> /\ (Spent => Spent')
    BY <1>2, <2>0, <2>2
  <2>3. CASE /\ UNCHANGED <<sent, queue>> /\ Spent' /\ mode = "polls" /\ act.at = "idle"
             /\ got' = got \cup ({reg} \ {None})
    <3>1. slot # None => reg = None
      BY <2>3, TaskType DEF WindowInv, TaskInv, Reading, Offering, TaskPlaces
    <3>2. slot # None => got' = got
      BY <2>3, <3>1
    <3> QED
      BY <1>0, <2>0, <2>3, <3>2 DEF LatchInv, InLine, Before
  <2> QED
    BY <1>3, <2>1, <2>2, <2>3, UserMoves DEF Spent
<1>4. CASE ActLoop
  <2>1. UNCHANGED <<sent, queue, charSrc, got>>
    BY <1>4, ActMoves DEF history, program, picker
  <2>2. slot' # None => slot' = slot
    BY <1>4, ActMoves DEF shared
  <2>3. reg' # None /\ ~Spent' => reg' = slot \/ (reg' = reg /\ ~Spent)
    BY <1>4, ActMoves, ActType
       DEF shared, Spent, ActInv, Moving, ActTo, ActDone, ActPlaces
  <2> QED
    BY <1>2, <2>1, <2>2, <2>3
<1>5. CASE TaskLook \/ TaskReady \/ (\E n \in 1..MaxRead : StdinRead(n)) \/ Pick
  <2>1. UNCHANGED <<sent, queue, charSrc, got, slot, reg, act>>
    BY <1>5, OtherMoves DEF shared
  <2> QED
    BY <1>2, <2>1 DEF Spent
<1>6. CASE Reclaim
  <2>1. UNCHANGED <<sent, queue, charSrc, got, act>>
    BY <1>6, ReclaimMoves DEF history, program, picker
  <2>2. slot' \in {slot, None} /\ reg' \in {reg, None}
    BY <1>6, ReclaimMoves DEF shared
  <2> QED
    BY <1>2, <2>1, <2>2 DEF Spent
<1>7. CASE ReadSource
  <2>1. /\ \A s \in Source : \A b : Before(b, queue[s]) => Before(b, queue'[s])
        /\ UNCHANGED <<sent, slot, reg, act, got, charSrc>>
    BY <1>0, <1>7, ReadOrder
  <2> QED
    BY <1>0, <1>1, <2>1 DEF LatchInv, InLine, Before, Spent
<1>8. CASE Offer \/ Return
  <2> DEFINE h == task.hand
  <2>1. UNCHANGED <<sent, queue, reg, act>> /\ 1 \in 1..Size(h)
    BY <1>8, GiveMoves, TaskType
  <2>2. h[1] \in Bytes /\ h[1] # None /\ h[1][1] = task.s /\ h[1][2] <= sent[task.s]
        /\ Before(h[1], queue[task.s])
    BY <1>0, <2>1, HandBytes
  <2>3. CASE Offer
    <3>1. slot' = h[1] /\ charSrc' = task.s /\ got' = got
      BY <2>3, GiveMoves DEF Offer, Return
    <3>2. \A a \in got : a[1] = h[1][1] => a[2] < h[1][2]
      BY <1>0, <2>1 DEF GotInv, Before
    <3>3. reg = None \/ Spent
      <4>1. task.at = "offer" /\ task.who = "offer"
        BY <2>3 DEF Offer, TaskInv
      <4> QED
        BY <4>1 DEF WindowInv, ActInv, TaskInv, Offering, Moving, Spent
    <3> HIDE DEF h
    <3> QED
      BY <2>1, <2>2, <3>1, <3>2, <3>3 DEF LatchInv, InLine, Before, Spent
  <2>4. CASE Return
    <3>1. /\ task.at = "return" /\ UNCHANGED <<slot, charSrc>>
          /\ got' = got \cup {h[1]}
      BY <2>2, <2>4, GiveMoves DEF Offer, Return
    <3>2. task.s = charSrc => slot = None /\ reg = None
      BY <3>1 DEF WindowInv, TaskInv, Reading
    <3> HIDE DEF h
    <3>3. \A a \in got' : a \in got \/ a = h[1]
      BY <3>1
    <3> QED
      BY <1>0, <2>1, <2>2, <3>1, <3>2, <3>3 DEF LatchInv, InLine, Before, Spent
  <2> QED
    BY <1>8, <2>3, <2>4
<1>9. CASE ClearStep
  <2>1. slot' = None /\ task.at = "idle" /\ act.at = "idle"
    BY <1>9, ClearMoves
  <2>2. reg' = None
    BY <1>9, <2>1, ClearMoves DEF WindowInv
  <2> QED
    BY <2>1, <2>2 DEF LatchInv
<1>10. CASE UNCHANGED vars
  BY <1>0, <1>10 DEF vars, LatchInv, InLine, Before, Spent
<1> QED
  BY <1>3, <1>4, <1>5, <1>6, <1>7, <1>8, <1>9, <1>10, Steps

LEMMA SawStep ==
    TypeOK /\ TaskInv /\ ActInv /\ WindowInv /\ SawInv /\ [Next]_vars => SawInv'
<1> SUFFICES ASSUME TypeOK, TaskInv, ActInv, WindowInv, SawInv, [Next]_vars, sawReady'
             PROVE  flag' /\ mode' = "polls" /\ act'.at \in {"idle", "pFlags", "pReady"}
  BY DEF SawInv
<1>1. CASE UserStep
  <2>1. CASE Poll
    <3>1. flag
      BY <2>1, Zenon DEF Poll
    <3> QED
      BY <2>1, <3>1, UserMoves DEF Poll, NoAct, shared, ActPlaces
  <2>2. CASE (\E s \in Source : Arrive(s)) \/ Expire
    <3>1. UNCHANGED <<flag, mode, act, sawReady>>
      BY <2>2 DEF Arrive, Expire, shared, program
    <3> QED
      BY <3>1 DEF SawInv
  <2>3. ~(Read \/ Ask)
    BY DEF Read, Ask
  <2> QED
    BY <1>1, <2>1, <2>2, <2>3 DEF UserStep
<1>2. CASE ActLoop
  <2>1. UNCHANGED <<mode, sawReady>>
    BY <1>2, ActMoves DEF program
  <2> QED
    BY <1>2, <2>1, ActMoves DEF SawInv, ActInv, ActDone, shared
<1>3. CASE TaskLook \/ TaskReady \/ (\E n \in 1..MaxRead : StdinRead(n)) \/ Pick
  <2>1. sawReady
    BY <1>3 DEF TaskLook, TaskReady, StdinRead, Pick, program
  <2> QED
    BY <1>3, <2>1, OtherMoves DEF SawInv, shared
<1>4. CASE Reclaim
  <2>1. UNCHANGED <<mode, act, sawReady>>
    BY <1>4, ReclaimMoves DEF program
  <2> QED
    BY <1>4, <2>1, ReclaimMoves, TaskType
       DEF SawInv, WindowInv, TaskInv, Offering, Reading, shared
<1>5. CASE ReadSource
  <2>1. UNCHANGED <<flag, mode, act, sawReady>>
    BY <1>5, ReadMoves DEF shared, program
  <2> QED
    BY <2>1 DEF SawInv
<1>6. CASE Offer \/ Return
  <2>1. sawReady
    BY <1>6 DEF Offer, Return, program
  <2> QED
    BY <1>6, <2>1, GiveMoves DEF SawInv
<1>7. ~ClearStep
  BY DEF ClearStep, Stop, Break, Discard
<1>8. CASE UNCHANGED vars
  BY <1>8 DEF vars, SawInv
<1> QED
  BY <1>1, <1>2, <1>3, <1>4, <1>5, <1>6, <1>7, <1>8, Steps
----------------------------------------------------------------------------
(* Once overtaken, always overtaken.                                       *)
LEMMA Overtaken == TypeOK /\ TaskInv /\ [Next]_vars /\ overtook => overtook'
<1> SUFFICES ASSUME TypeOK, TaskInv, [Next]_vars, overtook PROVE overtook'
  OBVIOUS
<1>1. CASE UserStep \/ ClearStep
  BY <1>1, UserMoves, ClearMoves
<1>2. CASE ActLoop \/ Reclaim
  BY <1>2, ActMoves, ReclaimMoves DEF history
<1>3. CASE TaskLook \/ TaskReady \/ (\E n \in 1..MaxRead : StdinRead(n)) \/ Pick
  BY <1>3, OtherMoves
<1>4. CASE ReadSource
  BY <1>4, ReadMoves DEF history
<1>5. CASE Offer \/ Return
  BY <1>5, GiveMoves
<1>6. CASE UNCHANGED vars
  BY <1>6 DEF vars
<1> QED
  BY <1>1, <1>2, <1>3, <1>4, <1>5, <1>6, Steps

LEMMA InductiveStep == IInv /\ [Next]_vars => IInv'
<1> SUFFICES ASSUME IInv, [Next]_vars PROVE IInv'
  OBVIOUS
<1>1. AnyInv /\ TypeOK /\ TaskInv /\ ActInv
  BY DEF IInv, AnyInv
<1>2. AnyInv'
  BY <1>1, AnyStep
<1>3. ASSUME ~overtook'
      PROVE  WindowInv' /\ SawInv' /\ FreshInv' /\ RowsInv' /\ GotInv' /\ LatchInv'
  <2>1. WindowInv /\ SawInv /\ FreshInv /\ OrderInv
    BY <1>1, <1>3, Overtaken DEF IInv, TillOvertaken
  <2> QED
    BY <1>1, <1>3, <2>1, WindowStep, SawStep, FreshStep, RowsStep, GotStep, LatchStep
<1> QED
  BY <1>2, <1>3 DEF IInv, TillOvertaken, OrderInv

(* The invariant holds, of whatever sources there are.                     *)
THEOREM Inductive == Spec => []IInv
BY InitHolds, InductiveStep, PTL DEF Spec

(* Every variable keeps its type: the bytes in the rows, in the latch and  *)
(* in the cores' hands are bytes that may arrive.                          *)
THEOREM TypeCorrect == Spec => []TypeOK
<1>1. IInv => TypeOK
  BY DEF IInv, AnyInv
<1> QED
  BY <1>1, Inductive, PTL

LEMMA RowSet == ASSUME NEW S, NEW q \in Seq(S), NEW b, Has(q, b) PROVE b \in SetOf(q)
<1>1. DOMAIN q = 1..Size(q)
  BY DEF Size
<1> QED
  BY <1>1 DEF Has, SetOf

(* However the cores interleave (com_task, com_rx_read and                 *)
(* ria_uart_rx_reclaim on core 0, act_loop on core 1, neither locked       *)
(* against the other) no byte that arrived is lost unless a clear was to   *)
(* discard it; and until core 0 looks in core 1's window what a clear was  *)
(* to discard is gone from the latch.                                      *)
THEOREM NothingIsLost == Spec => []KeptTillCleared
<1>1. IInv => KeptTillCleared
  <2> SUFFICES ASSUME IInv PROVE KeptTillCleared
    OBVIOUS
  <2>1. /\ queue \in [Source -> Seq(Bytes)] /\ task.hand \in Seq(Byte)
        /\ KeptInv
    BY TaskType DEF IInv, AnyInv, TypeOK
  <2>2. ASSUME NEW r \in Source, NEW n \in (cleared[r] + 1)..sent[r]
        PROVE  <<r, n>> \in Underway \cup got
    <3> DEFINE b == <<r, n>>
    <3>1. Kept(b) /\ b[1] = r /\ queue[r] \in Seq(Bytes)
      BY <2>1 DEF KeptInv
    <3> HIDE DEF b
    <3>2. Has(queue[r], b) => b \in UNION {SetOf(queue[s]) : s \in Source}
      <4>1. Has(queue[r], b) => b \in SetOf(queue[r])
        BY <3>1, RowSet
      <4> QED
        BY <4>1
    <3>3. Has(task.hand, b) => b \in SetOf(task.hand)
      BY <2>1, RowSet
    <3>4. b \in Underway \cup got
      <4> DEFINE rows == UNION {SetOf(queue[s]) : s \in Source}
                 hand == SetOf(task.hand)
                 inReg == flag \/ task.at \in {"flagDrop", "regZero"}
      <4>1. Underway = rows \cup hand \cup {slot, act.ch}
                            \cup (IF inReg THEN {reg} ELSE {})
        BY DEF Underway
      <4>2. \/ b \in rows \/ b \in hand \/ slot = b \/ act.ch = b
            \/ (inReg /\ reg = b) \/ b \in got
        BY <3>1, <3>2, <3>3 DEF Kept
      <4> HIDE DEF rows, hand, inReg
      <4> QED
        BY <4>1, <4>2
    <3> QED
      BY <3>4 DEF b
  <2>3. ~overtook => \A b \in {slot} \cup (IF flag THEN {reg} ELSE {}) :
                        b # None => b[2] > cleared[b[1]]
    BY DEF IInv, TillOvertaken, FreshInv, Fresh
  <2> QED
    BY <2>2, <2>3 DEF KeptTillCleared
<1> QED
  BY <1>1, Inductive, PTL

(* What a read of the register, or the OS call, hands the program.         *)
LEMMA ReadsNewest ==
    ASSUME IInv, ~overtook, Read
    PROVE  NewBytesAreNewest /\ reg \notin got /\ (sawReady => reg # None)
<1>1. /\ TypeOK /\ TaskInv /\ ActInv /\ WindowInv /\ SawInv /\ LatchInv
      /\ act.at = "idle" /\ mode = "polls" /\ got' = got \cup ({reg} \ {None})
      /\ got \subseteq Bytes
  BY DEF IInv, AnyInv, TillOvertaken, OrderInv, TypeOK, Read
<1>2. reg # None => \A a \in got : a[1] = reg[1] => a[2] < reg[2]
  BY <1>1 DEF LatchInv, Spent, InLine
<1>3. reg # None => reg \in Bytes /\ reg[2] \in Nat
  BY <1>1, ByteParts DEF TypeOK, Byte
<1>4. reg \notin got
  <2>1. CASE reg = None
    BY <1>1, <2>1, NoneAssumption
  <2>2. CASE reg # None
    <3>1. ~(reg[2] < reg[2])
      BY <1>3, <2>2
    <3> QED
      BY <1>2, <2>2, <3>1
  <2> QED
    BY <2>1, <2>2
<1>5. NewBytesAreNewest
  BY <1>1, <1>2 DEF NewBytesAreNewest
<1>6. sawReady => reg # None
  BY <1>1 DEF SawInv, WindowInv
<1> QED
  BY <1>4, <1>5, <1>6

LEMMA ReturnsNewest ==
    ASSUME IInv, ~overtook, Return
    PROVE  NewBytesAreNewest /\ Head(task.hand) \in Bytes \ got
<1>1. /\ TypeOK /\ TaskInv /\ RowsInv /\ GotInv /\ 1 \in 1..Size(task.hand)
      /\ Head(task.hand) = task.hand[1]
      /\ got' = got \cup ({Head(task.hand)} \ {None})
  <2>1. TypeOK /\ TaskInv /\ RowsInv /\ GotInv
    BY DEF IInv, AnyInv, TillOvertaken, OrderInv
  <2>2. Size(task.hand) >= 1
    BY <2>1, GiveMoves
  <2>3. Head(task.hand) = task.hand[1]
    BY <2>1, <2>2, TaskType, DropFacts
  <2>4. 1 \in 1..Size(task.hand)
    BY <2>1, <2>2, TaskType
  <2> QED
    BY <2>1, <2>3, <2>4 DEF Return
<1> DEFINE b == task.hand[1]
<1>2. b \in Bytes /\ b # None /\ b[2] \in Nat
  BY <1>1, HandBytes, ByteParts
<1>3. \A a \in got : a[1] = b[1] => a[2] < b[2]
  BY <1>1 DEF GotInv, Before
<1> HIDE DEF b
<1>4. ~(b[2] < b[2])
  BY <1>2
<1>5. b \notin got
  BY <1>3, <1>4
<1>6. got' = got \cup {b} /\ Head(task.hand) = b
  BY <1>1, <1>2 DEF b
<1> QED
  BY <1>2, <1>3, <1>5, <1>6 DEF NewBytesAreNewest

(* Nothing else makes the program's bytes more.                            *)
LEMMA OnlyReadsGet ==
    ASSUME TypeOK, TaskInv, [Next]_vars PROVE Read \/ Return \/ got' = got
<1>1. CASE UserStep
  BY <1>1 DEF UserStep, Arrive, Expire, Poll, Ask, program
<1>2. CASE ActLoop
  BY <1>2, ActMoves DEF program
<1>3. CASE TaskLook \/ TaskReady \/ (\E n \in 1..MaxRead : StdinRead(n)) \/ Pick
  BY <1>3, OtherMoves
<1>4. CASE Reclaim
  BY <1>4, ReclaimMoves DEF program
<1>5. CASE ReadSource
  BY <1>5, ReadMoves DEF program
<1>6. CASE Offer
  BY <1>6 DEF Offer, program
<1>7. CASE ClearStep
  BY <1>7, ClearMoves
<1>8. CASE UNCHANGED vars
  BY <1>8 DEF vars
<1> QED
  BY <1>1, <1>2, <1>3, <1>4, <1>5, <1>6, <1>7, <1>8, Steps

(* Until core 0 looks in core 1's window the program, reading $FFE2 or     *)
(* asking the OS as it likes, gets each source's bytes once and in the     *)
(* order they arrived, and is never told of a byte that is not there.      *)
THEOREM OnceInOrder == Spec => OnceInOrderTillOvertaken
<1> DEFINE A == overtook \/
                  /\ NewBytesAreNewest
                  /\ Read => reg \notin got /\ (sawReady => reg # None)
                  /\ Return => Head(task.hand) \in Bytes \ got
<1>1. IInv /\ [Next]_vars => [A]_vars
  <2> SUFFICES ASSUME IInv, [Next]_vars, ~overtook PROVE A
    OBVIOUS
  <2>1. Read \/ Return \/ got' = got
    BY OnlyReadsGet DEF IInv, AnyInv
  <2>2. got' = got => NewBytesAreNewest
    BY DEF NewBytesAreNewest
  <2> QED
    BY <2>1, <2>2, ReadsNewest, ReturnsNewest
<1>2. Spec => [][A]_vars
  BY <1>1, Inductive, PTL DEF Spec
<1> QED
  BY <1>2 DEF OnceInOrderTillOvertaken

============================================================================
