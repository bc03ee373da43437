--------------------------- MODULE HostDevProofs ---------------------------
(***************************************************************************)
(* Proofs about the module ax_pcie_host_dev: its rings (MsgRing), and what *)
(* walks its device map (AxHostDev, with the network driver AxNetDevice).  *)
(***************************************************************************)
EXTENDS MsgRing, AxNetDevice, AxDevMapProofs, SequenceTheorems, TLAPS

-----------------------------------------------------------------------------
(***************************************************************************)
(* MsgRing, for every size of the ring, every header size up to the        *)
(* alignment and any senders, ports and payload sizes: the pointers stay   *)
(* sane and aligned, unread messages stay whole, and the ring implements   *)
(* MsgChannel.                                                             *)
(*                                                                         *)
(* The invariant RingInv adds three things to the properties: what a       *)
(* sender has done by each of its steps, which messages lie between the    *)
(* pointers (they follow each other without a gap), and which of them the  *)
(* receiver is at.                                                         *)
(***************************************************************************)

-----------------------------------------------------------------------------
(* Division with remainder.                                                *)

\* The defining equation of \div and %.
LEMMA ModDef ==
  ASSUME NEW a \in Int, NEW m \in Nat \ {0}
  PROVE  /\ a % m \in 0 .. m - 1
         /\ a \div m \in Int
         /\ a = m * (a \div m) + (a % m)
BY Z3

\* The remainder is unique.
LEMMA ModUnique ==
  ASSUME NEW m \in Nat \ {0}, NEW q \in Int, NEW r \in 0 .. m - 1
  PROVE  (m * q + r) % m = r
BY Z3

\* Adding a multiple of m does not change the remainder.
LEMMA ModSum ==
  ASSUME NEW m \in Nat \ {0}, NEW a \in Int, NEW b \in Int, a % m = 0
  PROVE  (a + b) % m = b % m
<1> DEFINE qa == a \div m
           qb == b \div m
           r == b % m
<1>1. qa \in Int /\ qb \in Int /\ r \in 0 .. m - 1 /\ a = m * qa /\ b = m * qb + r
  BY ModDef
<1> HIDE DEF qa, qb, r
<1>2. m * (qa + qb) = m * qa + m * qb
  BY <1>1
<1>3. a + b = m * (qa + qb) + r
  BY <1>1, <1>2
<1>4. (m * (qa + qb) + r) % m = r
  BY <1>1, ModUnique
<1> QED
  BY <1>3, <1>4 DEF r

\* Two numbers with the same remainder are at least m apart.
LEMMA ModApart ==
  ASSUME NEW m \in Nat \ {0}, NEW a \in Int, NEW b \in Int, a % m = b % m, a < b
  PROVE  b >= a + m
<1> DEFINE qa == a \div m
           qb == b \div m
           r == b % m
<1>1. qa \in Int /\ qb \in Int /\ r \in 0 .. m - 1 /\ a = m * qa + r /\ b = m * qb + r
  BY ModDef
<1> HIDE DEF qa, qb, r
<1>2. b - a = m * (qb - qa)
  BY <1>1
<1>3. CASE qb - qa <= 0
  <2>1. m * (qb - qa) <= 0
    BY <1>1, <1>3, Z3
  <2> QED
    BY <2>1, <1>2
<1>4. CASE qb - qa >= 1
  <2>1. m * (qb - qa) >= m
    BY <1>1, <1>4, Z3
  <2> QED
    BY <2>1, <1>2
<1> QED
  BY <1>1, <1>3, <1>4

-----------------------------------------------------------------------------
(* Pointer arithmetic.                                                     *)

\* Step is an aligned distance that leaves room behind the message.
LEMMA StepFacts ==
  ASSUME NEW size \in Nat
  PROVE  /\ Step(size) \in Nat
         /\ Step(size) > HeadSize + size
         /\ Step(size) % MemAlign = 0
<1> DEFINE x == size + HeadSize
           q == x \div MemAlign
           r == x % MemAlign
<1>1. x \in Nat /\ x \in Int /\ MemAlign \in Nat \ {0}
  BY MsgRingAssumption
<1>2. q \in Int /\ r \in 0 .. MemAlign - 1 /\ x = MemAlign * q + r
  BY <1>1, ModDef, Zenon
<1>3. Step(size) = x + 2 * MemAlign - r
  BY DEF Step
<1> HIDE DEF q, r
<1>4. Step(size) \in Nat /\ Step(size) > x
  BY <1>1, <1>2, <1>3
<1>5. Step(size) = MemAlign * (q + 2) + 0
  <2>1. MemAlign * (q + 2) = MemAlign * q + 2 * MemAlign
    BY <1>1, <1>2
  <2>2. MemAlign * q \in Int
    BY <1>1, <1>2
  <2> QED
    BY <1>1, <1>2, <1>3, <2>1, <2>2
<1>6. (MemAlign * (q + 2) + 0) % MemAlign = 0
  BY <1>1, <1>2, ModUnique
<1> QED
  BY <1>4, <1>5, <1>6, MsgRingAssumption

\* An aligned pointer leaves room for a header before the end of the ring.
LEMMA AlignedNoSkip ==
  ASSUME NEW p \in Nat, p % MemAlign = 0
  PROVE  ~Skips(p)
<1> DEFINE off == p % FifoSize
           q == p \div FifoSize
           rest == FifoSize - off
<1>1. /\ off \in 0 .. FifoSize - 1 /\ q \in Int /\ p = FifoSize * q + off
      /\ FifoSize \in Nat \ {0} /\ MemAlign \in Nat \ {0}
  BY ModDef, MsgRingAssumption
<1> HIDE DEF off, q
<1>2. (FifoSize * q) % MemAlign = 0
  <2> DEFINE k == FifoSize \div MemAlign
  <2>1. k \in Int /\ FifoSize = MemAlign * k
    BY <1>1, ModDef, MsgRingAssumption
  <2> HIDE DEF k
  <2>2. FifoSize * q = MemAlign * (k * q) + 0
    BY <1>1, <2>1, Z3
  <2>3. k * q \in Int
    BY <1>1, <2>1
  <2> QED
    BY <2>2, <2>3, <1>1, ModUnique
<1>3. off % MemAlign = 0
  <2>1. (FifoSize * q + off) % MemAlign = off % MemAlign
    <3>1. FifoSize * q \in Int /\ off \in Int
      BY <1>1
    <3> QED
      BY <1>1, <1>2, <3>1, ModSum, Zenon
  <2> QED
    BY <2>1, <1>1
<1>4. rest >= MemAlign
  <2>1. off % MemAlign = FifoSize % MemAlign /\ off \in Int /\ FifoSize \in Int /\ off < FifoSize
    BY <1>1, <1>3, MsgRingAssumption
  <2>2. FifoSize >= off + MemAlign
    BY <1>1, <2>1, ModApart, Zenon
  <2> QED
    BY <2>1, <2>2, <1>1
<1> QED
  BY <1>1, <1>4, MsgRingAssumption DEF Skips, off

\* So an aligned pointer moves by Step and stays aligned.
LEMMA AlignedAdvance ==
  ASSUME NEW p \in Nat, NEW size \in Nat, p % MemAlign = 0
  PROVE  /\ Advanced(p, size) = p + Step(size)
         /\ Advanced(p, size) \in Nat
         /\ Advanced(p, size) % MemAlign = 0
<1>1. ~Skips(p)
  BY AlignedNoSkip
<1>2. Step(size) \in Nat /\ Step(size) % MemAlign = 0
  BY StepFacts
<1>3. Advanced(p, size) = p + Step(size)
  BY <1>1, <1>2 DEF Advanced
<1>4. (p + Step(size)) % MemAlign = 0
  <2>1. MemAlign \in Nat \ {0} /\ p \in Int /\ Step(size) \in Int
    BY <1>2, MsgRingAssumption
  <2> QED
    BY <1>2, <2>1, ModSum, Zenon
<1> QED
  BY <1>2, <1>3, <1>4

\* The cell that holds byte i of a message at p is the one of position p + i.
LEMMA ByteAtPosition ==
  ASSUME NEW p \in Nat, p % MemAlign = 0, NEW c \in Cells
  PROVE  /\ ByteAt(p, c) \in 0 .. FifoSize - 1
         /\ (p + ByteAt(p, c)) % FifoSize = c
<1> DEFINE i == (c - p) % FifoSize
           q == (c - p) \div FifoSize
<1>1. FifoSize \in Nat \ {0} /\ c \in 0 .. FifoSize - 1
  BY MsgRingAssumption DEF Cells
<1>2. i \in 0 .. FifoSize - 1 /\ q \in Int /\ c - p = FifoSize * q + i
  <2>1. c - p \in Int
    BY <1>1
  <2> QED
    BY <1>1, <2>1, ModDef, Zenon
<1>3. ByteAt(p, c) = i
  BY AlignedNoSkip DEF ByteAt
<1> HIDE DEF i, q
<1>4. p + i = FifoSize * (-q) + c
  BY <1>1, <1>2
<1>5. (FifoSize * (-q) + c) % FifoSize = c
  <2>1. -q \in Int
    BY <1>2
  <2> QED
    BY <1>1, <2>1, ModUnique, Zenon
<1> QED
  BY <1>2, <1>3, <1>4, <1>5

-----------------------------------------------------------------------------
(* The invariant.                                                          *)

\* Where message n begins, or will begin if it is the next one.
Pos(n) == IF n <= Len(sent) THEN begin[n] ELSE wp

\* The messages follow each other without a gap and end where wp points.
ChainInv ==
  /\ Len(begin) = Len(sent)
  /\ wp % MemAlign = 0
  /\ \A n \in 1 .. Len(sent) :
       /\ begin[n] % MemAlign = 0
       /\ begin[n] + Step(sent[n].size) = Pos(n + 1)
       /\ begin[n] + Step(sent[n].size) <= wp

\* Only the holder of the lock is under way, and what it has done so far.
SenderInv ==
  \A s \in Senders :
    /\ spc[s] # "idle" => lock = s /\ cur[s] \in Message /\ Len(sent) < MaxMsgs
    /\ spc[s] \in {"body", "head"} => Fits(cur[s].size)
    /\ spc[s] = "body" =>
         Holds(sIn, Len(sent) + 1, HeadSize, HeadSize + cur[s].size - 1)
    /\ spc[s] = "head" =>
         Holds(sIn, Len(sent) + 1, 0, HeadSize + cur[s].size - 1)

\* Which message the receiver is at.
ReceiverInv ==
  /\ rp % MemAlign = 0 /\ rOut % MemAlign = 0
  /\ rpc # "advance" => rp = Pos(taken + 1)
  /\ rpc = "advance" =>
       taken >= 1 /\ rp = begin[taken] /\ rLen = sent[taken].size
  /\ rpc \in {"head", "notify", "advance"} => rOut = rp
  /\ rpc \in {"head", "notify"} => taken < Len(sent)
  /\ rpc = "notify" => rMsg = taken + 1 /\ rLen = sent[rMsg].size

RingInv ==
  TypeOK /\ PointersSane /\ UnreadWhole /\ ChainInv /\ SenderInv /\ ReceiverInv

LEMMA InitRingInv == Init => RingInv
<1> SUFFICES ASSUME Init PROVE RingInv
  OBVIOUS
<1> USE MsgRingAssumption DEF Init
<1>1. 0 % MemAlign = 0
  <2>1. (MemAlign * 0 + 0) % MemAlign = 0
    BY ModUnique
  <2> QED
    BY <2>1
<1>2. TypeOK
  <2>1. Len(sent) = 0 /\ sent \in Seq(Message) /\ begin \in Seq(Nat) /\ Len(begin) = 0
    OBVIOUS
  <2>2. delivered \in [Ports -> Seq(Nat)]
    OBVIOUS
  <2> QED
    BY <2>1, <2>2 DEF TypeOK
<1>3. PointersSane
  BY DEF PointersSane
<1>4. UnreadWhole
  BY DEF UnreadWhole
<1>5. ChainInv
  BY <1>1 DEF ChainInv
<1>6. SenderInv
  BY DEF SenderInv
<1>7. ReceiverInv
  BY <1>1 DEF ReceiverInv, Pos
<1> QED
  BY <1>2, <1>3, <1>4, <1>5, <1>6, <1>7 DEF RingInv

\* Steps that touch neither the ring nor the history of what was sent.
LEMMA LoadKeeps ==
  ASSUME RingInv, NEW s \in Senders, NEW m \in Message, Load(s, m)
  PROVE  RingInv'
<1> USE DEF Load, LoadPointers, SendStep, RingInv, ringVars, recvVars
<1>1. TypeOK'
  BY DEF TypeOK
<1>2. PointersSane'
  BY DEF PointersSane, TypeOK
<1>3. UnreadWhole'
  BY DEF UnreadWhole, Holds
<1>4. ChainInv'
  BY DEF ChainInv, Pos
<1>5. SenderInv'
  <2> SUFFICES ASSUME NEW t \in Senders
               PROVE  /\ spc'[t] # "idle" => lock' = t /\ cur'[t] \in Message /\ Len(sent') < MaxMsgs
                      /\ spc'[t] \notin {"body", "head"}
    BY DEF SenderInv
  <2>1. spc[t] = "idle"
    BY MsgRingAssumption DEF SenderInv
  <2> QED
    BY <2>1 DEF TypeOK
<1>6. ReceiverInv'
  BY DEF ReceiverInv, Pos
<1> QED
  BY <1>1, <1>2, <1>3, <1>4, <1>5, <1>6

LEMMA NoRoomKeeps ==
  ASSUME RingInv, NEW s \in Senders, NoRoom(s)
  PROVE  RingInv'
<1> USE DEF NoRoom, SendStep, RingInv, ringVars, recvVars
<1>1. TypeOK'
  BY DEF TypeOK
<1>2. PointersSane'
  BY DEF PointersSane
<1>3. UnreadWhole'
  BY DEF UnreadWhole, Holds
<1>4. ChainInv'
  BY DEF ChainInv, Pos
<1>5. SenderInv'
  <2> SUFFICES ASSUME NEW t \in Senders PROVE spc'[t] = "idle"
    BY DEF SenderInv
  <2> QED
    BY DEF SenderInv, TypeOK
<1>6. ReceiverInv'
  BY DEF ReceiverInv, Pos
<1> QED
  BY <1>1, <1>2, <1>3, <1>4, <1>5, <1>6

\* What the holder of the lock writes does not touch unread bytes: the two
\* positions would have to be a whole ring apart, and there is no room for it.
LEMMA WriteSafe ==
  ASSUME RingInv, NEW s \in Senders, spc[s] # "idle", Fits(cur[s].size),
         NEW hi \in Int, hi <= HeadSize + cur[s].size - 1,
         NEW n \in 1 .. Len(sent), begin[n] >= rp,
         NEW c \in Cells, ByteAt(begin[n], c) \in 0 .. HeadSize + sent[n].size - 1
  PROVE  ByteAt(sIn, c) \notin 0 .. hi
<1> SUFFICES ASSUME ByteAt(sIn, c) \in 0 .. hi PROVE FALSE
  OBVIOUS
<1> DEFINE i == ByteAt(begin[n], c)
           j == ByteAt(sIn, c)
           new == cur[s].size
           old == sent[n].size
<1>1. lock = s /\ new \in Nat /\ old \in Nat /\ begin[n] \in Nat /\ sIn \in Nat /\ sIn = wp
  <2>1. cur[s] \in Message /\ lock = s
    BY DEF RingInv, SenderInv
  <2>2. sent[n] \in Message
    BY DEF RingInv, TypeOK
  <2>3. begin \in Seq(Nat) /\ Len(begin) = Len(sent)
    BY DEF RingInv, TypeOK, ChainInv
  <2>4. begin[n] \in Nat
    BY <2>3
  <2>5. sIn \in Nat /\ sIn = wp
    BY DEF RingInv, TypeOK, PointersSane
  <2> QED
    BY <2>1, <2>2, <2>4, <2>5, MsgRingAssumption DEF Message
<1>2. /\ begin[n] % MemAlign = 0 /\ sIn % MemAlign = 0
      /\ begin[n] + Step(old) <= sIn
      /\ Step(new) <= FifoSize - (sIn - sOut)
      /\ sOut <= rp /\ sOut \in Nat /\ rp \in Nat
  BY <1>1, MsgRingAssumption DEF RingInv, ChainInv, PointersSane, Fits, TypeOK
<1>3. /\ Step(old) \in Nat /\ Step(old) > HeadSize + old
      /\ Step(new) \in Nat /\ Step(new) > HeadSize + new
  BY <1>1, StepFacts
<1>4. /\ i \in 0 .. FifoSize - 1 /\ (begin[n] + i) % FifoSize = c
      /\ j \in 0 .. FifoSize - 1 /\ (sIn + j) % FifoSize = c
  BY <1>1, <1>2, ByteAtPosition
<1> HIDE DEF i, j, new, old
<1>5. i <= HeadSize + old - 1 /\ j <= hi /\ hi <= HeadSize + new - 1
  BY DEF i, j, old, new
<1> DEFINE a == begin[n]
           so == Step(old)
           sn == Step(new)
<1>b. HeadSize \in Nat /\ FifoSize \in Nat
  BY MsgRingAssumption
<1>a. /\ a \in Nat /\ so \in Nat /\ sn \in Nat /\ a + so <= sIn /\ so > HeadSize + old
      /\ sn > HeadSize + new /\ sn <= FifoSize - (sIn - sOut) /\ a >= rp
  BY <1>1, <1>2, <1>3
<1> HIDE DEF a, so, sn
<1>c. i \in Nat /\ j \in Nat /\ sIn \in Nat /\ old \in Nat
  BY <1>1, <1>b, <1>4
<1>6. a + i < sIn + j
  <2>1. i < so
    BY <1>a, <1>b, <1>c, <1>5
  <2> QED BY <1>a, <1>c, <2>1
<1>7. sIn + j >= a + i + FifoSize
  <2>1. FifoSize \in Nat \ {0}
    BY MsgRingAssumption
  <2>2. a + i \in Int /\ sIn + j \in Int
    BY <1>a, <1>c
  <2>3. (a + i) % FifoSize = (sIn + j) % FifoSize
    BY <1>4 DEF a
  <2> QED
    BY <1>6, <2>1, <2>2, <2>3, ModApart, Zenon
<1> QED
  BY <1>1, <1>2, <1>a, <1>b, <1>4, <1>5, <1>7

LEMMA WriteBodyKeeps ==
  ASSUME RingInv, NEW s \in Senders, WriteBody(s)
  PROVE  RingInv'
<1> DEFINE hi == HeadSize + cur[s].size - 1
<1>1. /\ SendStep(s, "loaded", "body") /\ Fits(cur[s].size)
      /\ Write(sIn, Len(sent) + 1, HeadSize, hi)
      /\ UNCHANGED <<wp, rp, recvVars, lock, cur, sIn, sOut, sent, begin, handlers>>
  BY DEF WriteBody
<1>2. cur[s].size \in Nat /\ lock = s /\ cur[s] \in Message /\ Len(sent) < MaxMsgs
  BY <1>1, MsgRingAssumption DEF RingInv, SenderInv, SendStep, Message
<1>3. hi \in Int /\ HeadSize \in Nat \ {0}
  BY <1>2, MsgRingAssumption
<1>4. UnreadWhole'
  <2> SUFFICES ASSUME NEW n \in 1 .. Len(sent), begin[n] >= rp, NEW c \in Cells,
                      ByteAt(begin[n], c) \in 0 .. HeadSize + sent[n].size - 1
               PROVE  mem'[c] = <<n, ByteAt(begin[n], c)>>
    BY <1>1 DEF UnreadWhole, Holds
  <2>1. mem[c] = <<n, ByteAt(begin[n], c)>>
    BY DEF RingInv, UnreadWhole, Holds
  <2>2. ByteAt(sIn, c) \notin 0 .. hi
    BY <1>1, <1>3, WriteSafe DEF SendStep
  <2>3. ByteAt(sIn, c) \notin HeadSize .. hi
    BY <1>3, <2>2
  <2> QED
    BY <1>1, <2>1, <2>3 DEF Write
<1>5. Holds(sIn, Len(sent) + 1, HeadSize, hi)'
  BY <1>1 DEF Write, Holds
<1>6. TypeOK'
  <2>1. mem' \in [Cells -> Nat \X Nat]
    <3> SUFFICES ASSUME NEW c \in Cells PROVE mem'[c] \in Nat \X Nat
      BY <1>1 DEF Write
    <3>1. CASE ByteAt(sIn, c) \in HeadSize .. hi
      BY <1>1, <1>3, <3>1 DEF Write, RingInv, TypeOK
    <3>2. CASE ByteAt(sIn, c) \notin HeadSize .. hi
      BY <1>1, <3>2 DEF Write, RingInv, TypeOK
    <3> QED
      BY <3>1, <3>2
  <2> QED
    BY <1>1, <2>1 DEF RingInv, TypeOK, SendStep, recvVars
<1>7. PointersSane'
  BY <1>1 DEF RingInv, PointersSane
<1>8. ChainInv'
  BY <1>1 DEF RingInv, ChainInv, Pos
<1>9. SenderInv'
  <2> SUFFICES ASSUME NEW t \in Senders
               PROVE  /\ spc'[t] # "idle" => lock = t /\ cur[t] \in Message /\ Len(sent) < MaxMsgs
                      /\ spc'[t] \in {"body", "head"} => Fits(cur[t].size)
                      /\ spc'[t] = "body" =>
                           Holds(sIn, Len(sent) + 1, HeadSize, HeadSize + cur[t].size - 1)'
                      /\ spc'[t] # "head"
    BY <1>1 DEF SenderInv, Fits
  <2>1. CASE t = s
    BY <1>1, <1>2, <1>5, <2>1 DEF RingInv, TypeOK, SendStep
  <2>2. CASE t # s
    BY <1>1, <1>2, <2>2 DEF RingInv, TypeOK, SenderInv, SendStep
  <2> QED
    BY <2>1, <2>2
<1>10. ReceiverInv'
  BY <1>1 DEF RingInv, ReceiverInv, Pos, recvVars
<1> QED
  BY <1>4, <1>6, <1>7, <1>8, <1>9, <1>10 DEF RingInv

LEMMA WriteHeadKeeps ==
  ASSUME RingInv, NEW s \in Senders, WriteHead(s)
  PROVE  RingInv'
<1> DEFINE hi == HeadSize + cur[s].size - 1
<1>1. /\ SendStep(s, "body", "head")
      /\ Write(sIn, Len(sent) + 1, 0, HeadSize - 1)
      /\ UNCHANGED <<wp, rp, recvVars, lock, cur, sIn, sOut, sent, begin, handlers>>
  BY DEF WriteHead
<1>2. /\ cur[s].size \in Nat /\ lock = s /\ cur[s] \in Message /\ Len(sent) < MaxMsgs
      /\ Fits(cur[s].size) /\ Holds(sIn, Len(sent) + 1, HeadSize, hi)
  BY <1>1, MsgRingAssumption DEF RingInv, SenderInv, SendStep, Message
<1>3. hi \in Int /\ HeadSize \in Nat \ {0} /\ HeadSize - 1 \in Int /\ HeadSize - 1 <= hi
  BY <1>2, MsgRingAssumption
<1>4. UnreadWhole'
  <2> SUFFICES ASSUME NEW n \in 1 .. Len(sent), begin[n] >= rp, NEW c \in Cells,
                      ByteAt(begin[n], c) \in 0 .. HeadSize + sent[n].size - 1
               PROVE  mem'[c] = <<n, ByteAt(begin[n], c)>>
    BY <1>1 DEF UnreadWhole, Holds
  <2>1. mem[c] = <<n, ByteAt(begin[n], c)>>
    BY DEF RingInv, UnreadWhole, Holds
  <2>2. ByteAt(sIn, c) \notin 0 .. HeadSize - 1
    BY <1>1, <1>2, <1>3, WriteSafe DEF SendStep
  <2> QED
    BY <1>1, <2>1, <2>2 DEF Write
<1>5. Holds(sIn, Len(sent) + 1, 0, hi)'
  <2> SUFFICES ASSUME NEW c \in Cells, ByteAt(sIn, c) \in 0 .. hi
               PROVE  mem'[c] = <<Len(sent) + 1, ByteAt(sIn, c)>>
    BY <1>1 DEF Holds
  <2>1. CASE ByteAt(sIn, c) \in 0 .. HeadSize - 1
    BY <1>1, <2>1 DEF Write
  <2>2. CASE ByteAt(sIn, c) \notin 0 .. HeadSize - 1
    <3>1. ByteAt(sIn, c) \in HeadSize .. hi
      BY <1>3, <2>2
    <3> QED
      BY <1>1, <1>2, <2>2, <3>1 DEF Write, Holds
  <2> QED
    BY <2>1, <2>2
<1>6. TypeOK'
  <2>1. mem' \in [Cells -> Nat \X Nat]
    <3> SUFFICES ASSUME NEW c \in Cells PROVE mem'[c] \in Nat \X Nat
      BY <1>1 DEF Write
    <3>1. CASE ByteAt(sIn, c) \in 0 .. HeadSize - 1
      BY <1>1, <1>3, <3>1 DEF Write, RingInv, TypeOK
    <3>2. CASE ByteAt(sIn, c) \notin 0 .. HeadSize - 1
      BY <1>1, <3>2 DEF Write, RingInv, TypeOK
    <3> QED
      BY <3>1, <3>2
  <2> QED
    BY <1>1, <2>1 DEF RingInv, TypeOK, SendStep, recvVars
<1>7. PointersSane'
  BY <1>1 DEF RingInv, PointersSane
<1>8. ChainInv'
  BY <1>1 DEF RingInv, ChainInv, Pos
<1>9. SenderInv'
  <2> SUFFICES ASSUME NEW t \in Senders
               PROVE  /\ spc'[t] # "idle" => lock = t /\ cur[t] \in Message /\ Len(sent) < MaxMsgs
                      /\ spc'[t] \in {"body", "head"} => Fits(cur[t].size)
                      /\ spc'[t] # "body"
                      /\ spc'[t] = "head" =>
                           Holds(sIn, Len(sent) + 1, 0, HeadSize + cur[t].size - 1)'
    BY <1>1 DEF SenderInv, Fits
  <2>1. CASE t = s
    BY <1>1, <1>2, <1>5, <2>1 DEF RingInv, TypeOK, SendStep
  <2>2. CASE t # s
    BY <1>1, <1>2, <2>2 DEF RingInv, TypeOK, SenderInv, SendStep
  <2> QED
    BY <2>1, <2>2
<1>10. ReceiverInv'
  BY <1>1 DEF RingInv, ReceiverInv, Pos, recvVars
<1> QED
  BY <1>4, <1>6, <1>7, <1>8, <1>9, <1>10 DEF RingInv

LEMMA PublishKeeps ==
  ASSUME RingInv, NEW s \in Senders, Publish(s)
  PROVE  RingInv'
<1> DEFINE m == cur[s]
           N == Len(sent) + 1
<1>1. /\ SendStep(s, "head", "idle")
      /\ sIn' = Advanced(sIn, m.size) /\ wp' = sIn'
      /\ sent' = Append(sent, m) /\ begin' = Append(begin, sIn)
      /\ lock' = Nil /\ cur' = [cur EXCEPT ![s] = Nil]
      /\ UNCHANGED <<rp, mem, recvVars, sOut, handlers>>
  BY DEF Publish, StorePointer
<1>2. /\ m \in Message /\ m.size \in Nat /\ lock = s /\ Fits(m.size)
      /\ Holds(sIn, N, 0, HeadSize + m.size - 1)
  BY <1>1, MsgRingAssumption DEF RingInv, SenderInv, SendStep, Message
<1>3. /\ sent \in Seq(Message) /\ begin \in Seq(Nat) /\ Len(begin) = Len(sent)
      /\ sIn \in Nat /\ sIn = wp /\ wp % MemAlign = 0
  BY DEF RingInv, TypeOK, ChainInv, PointersSane
<1>4. /\ wp' = wp + Step(m.size) /\ wp' \in Nat /\ wp' % MemAlign = 0
      /\ Step(m.size) \in Nat /\ sIn' = wp'
  BY <1>1, <1>2, <1>3, AlignedAdvance, StepFacts
<1>5. /\ Len(sent') = N /\ Len(begin') = N /\ sent'[N] = m /\ begin'[N] = wp
      /\ sent' \in Seq(Message) /\ begin' \in Seq(Nat)
      /\ \A n \in 1 .. Len(sent) : sent'[n] = sent[n] /\ begin'[n] = begin[n]
  BY <1>1, <1>2, <1>3
<1>6. 1 .. Len(sent') = (1 .. Len(sent)) \cup {N} /\ Len(sent) \in Nat
  BY <1>3, <1>5
<1>7. TypeOK'
  <2>1. taken \in 0 .. Len(sent') /\ rMsg \in 0 .. Len(sent')
    BY <1>5, <1>6 DEF RingInv, TypeOK
  <2> QED
    BY <1>1, <1>4, <1>5, <2>1 DEF RingInv, TypeOK, SendStep, recvVars
<1>8. PointersSane'
  <2>1. /\ rp <= wp /\ sOut <= rp /\ Step(m.size) <= FifoSize - (sIn - sOut)
        /\ rp \in Nat /\ sOut \in Nat /\ FifoSize \in Nat
    BY <1>2, MsgRingAssumption DEF RingInv, PointersSane, Fits, TypeOK
  <2>2. rp <= wp' /\ wp' - rp <= FifoSize
    BY <1>3, <1>4, <2>1
  <2> QED
    BY <1>1, <1>4, <2>2 DEF PointersSane
<1>9. UnreadWhole'
  <2> SUFFICES ASSUME NEW n \in 1 .. Len(sent'), begin'[n] >= rp
               PROVE  Holds(begin'[n], n, 0, HeadSize + sent'[n].size - 1)
    BY <1>1 DEF UnreadWhole, Holds
  <2>1. CASE n = N
    BY <1>2, <1>3, <1>5, <2>1
  <2>2. CASE n \in 1 .. Len(sent)
    BY <1>5, <2>2 DEF RingInv, UnreadWhole
  <2> QED
    BY <1>6, <2>1, <2>2
<1>10. \A n \in 1 .. N : Pos(n)' = Pos(n)
  BY <1>3, <1>5, <1>6 DEF Pos
<1>11. ChainInv'
  <2> SUFFICES ASSUME NEW n \in 1 .. Len(sent')
               PROVE  /\ begin'[n] % MemAlign = 0
                      /\ begin'[n] + Step(sent'[n].size) = Pos(n + 1)'
                      /\ begin'[n] + Step(sent'[n].size) <= wp'
    BY <1>4, <1>5 DEF ChainInv
  <2>1. CASE n = N
    <3>1. Pos(n + 1)' = wp'
      BY <1>5, <1>6, <2>1 DEF Pos
    <3> QED
      BY <1>3, <1>4, <1>5, <2>1, <3>1
  <2>2. CASE n \in 1 .. Len(sent)
    <3>1. Pos(n + 1)' = Pos(n + 1)
      BY <1>6, <1>10, <2>2
    <3>2. /\ begin[n] % MemAlign = 0 /\ begin[n] + Step(sent[n].size) = Pos(n + 1)
          /\ begin[n] + Step(sent[n].size) <= wp
      BY <2>2 DEF RingInv, ChainInv
    <3>3. begin[n] + Step(sent[n].size) \in Nat
      <4>1. sent[n] \in Message /\ begin[n] \in Nat
        BY <1>3, <2>2
      <4>2. sent[n].size \in Nat
        BY <4>1, MsgRingAssumption DEF Message
      <4>3. Step(sent[n].size) \in Nat
        BY <4>2, StepFacts
      <4> QED
        BY <4>1, <4>3
    <3>4. begin[n] + Step(sent[n].size) <= wp'
      BY <1>3, <1>4, <3>2, <3>3
    <3> QED
      BY <1>5, <2>2, <3>1, <3>2, <3>4
  <2> QED
    BY <1>6, <2>1, <2>2
<1>12. SenderInv'
  <2> SUFFICES ASSUME NEW t \in Senders PROVE spc'[t] = "idle"
    BY DEF SenderInv
  <2> QED
    BY <1>1, <1>2 DEF RingInv, SenderInv, TypeOK, SendStep
<1>13. ReceiverInv'
  <2>1. taken \in 0 .. Len(sent)
    BY DEF RingInv, TypeOK
  <2>2. Pos(taken + 1)' = Pos(taken + 1)
    <3>1. taken' = taken /\ taken + 1 \in 1 .. N
      BY <1>1, <1>6, <2>1 DEF recvVars
    <3> QED
      BY <1>3, <1>5, <1>6, <3>1 DEF Pos
  <2>3. taken >= 1 => begin'[taken] = begin[taken] /\ sent'[taken] = sent[taken]
    BY <1>5, <1>6, <2>1
  <2>4. rpc = "notify" => sent'[rMsg] = sent[rMsg]
    BY <1>5, <1>6, <2>1 DEF RingInv, ReceiverInv
  <2>5. rpc \in {"head", "notify"} => taken < Len(sent')
    BY <1>5, <1>6, <2>1 DEF RingInv, ReceiverInv
  <2> QED
    BY <1>1, <2>2, <2>3, <2>4, <2>5 DEF RingInv, ReceiverInv, recvVars
<1> QED
  BY <1>7, <1>8, <1>9, <1>11, <1>12, <1>13 DEF RingInv

\* Steps of the receiver leave the sending side alone.
LEMMA SenderFrame ==
  ASSUME RingInv, UNCHANGED <<wp, mem, sendVars>>
  PROVE  SenderInv' /\ ChainInv' /\ \A n \in Nat : Pos(n)' = Pos(n)
BY DEF RingInv, SenderInv, ChainInv, Pos, sendVars, Fits, Holds

LEMMA CheckKeeps ==
  ASSUME RingInv, Interrupt \/ Check \/ NotifyFails
  PROVE  RingInv'
<1>1. UNCHANGED <<ringVars, sendVars, rMsg, rLen, taken, delivered, handlers>>
  BY DEF Interrupt, Check, NotifyFails
<1>2. SenderInv' /\ ChainInv' /\ \A n \in Nat : Pos(n)' = Pos(n)
  BY <1>1, SenderFrame DEF ringVars
<1>3. /\ rpc' \in {"idle", "check", "head"}
      /\ \/ rOut' = rOut
         \/ rOut' = rp
      /\ rIn' \in {rIn, wp}
      /\ rpc' = "head" => rp # wp /\ rOut' = rp
      /\ rpc # "advance"
  BY DEF Interrupt, Check, NotifyFails, RecvStep
<1>4. TypeOK'
  BY <1>1, <1>3 DEF RingInv, TypeOK, ringVars, sendVars
<1>5. PointersSane' /\ UnreadWhole'
  BY <1>1 DEF RingInv, PointersSane, UnreadWhole, Holds, ringVars, sendVars
<1>6. ReceiverInv'
  <2>1. taken \in 0 .. Len(sent) /\ Len(sent) \in Nat
    BY DEF RingInv, TypeOK
  <2>2. Pos(taken + 1)' = Pos(taken + 1)
    BY <1>1, <1>2, <2>1
  <2>3. rp # wp => taken < Len(sent)
    BY <1>3, <2>1 DEF RingInv, ReceiverInv, Pos
  <2> QED
    BY <1>1, <1>3, <2>2, <2>3 DEF RingInv, ReceiverInv, ringVars, sendVars
<1> QED
  BY <1>2, <1>4, <1>5, <1>6 DEF RingInv

LEMMA SentType ==
  ASSUME RingInv, NEW n \in 1 .. Len(sent)
  PROVE  sent[n] \in Message /\ sent[n].size \in Nat /\ sent[n].port \in Ports
<1>1. sent \in Seq(Message)
  BY DEF RingInv, TypeOK
<1>2. sent[n] \in Message
  BY <1>1
<1> QED
  BY <1>2, MsgRingAssumption DEF Message

\* The message the receiver is about to read is whole.
LEMMA NextWhole ==
  ASSUME RingInv, rpc \in {"head", "notify"}
  PROVE  /\ taken + 1 \in 1 .. Len(sent)
         /\ Holds(rOut, taken + 1, 0, HeadSize + sent[taken + 1].size - 1)
<1>1. taken \in 0 .. Len(sent) /\ Len(sent) \in Nat /\ rp \in Nat
  BY DEF RingInv, TypeOK
<1>2. taken + 1 \in 1 .. Len(sent)
  BY <1>1 DEF RingInv, ReceiverInv
<1>3. begin[taken + 1] = rp /\ rOut = rp
  BY <1>2 DEF RingInv, ReceiverInv, Pos
<1> QED
  BY <1>1, <1>2, <1>3 DEF RingInv, UnreadWhole

\* So only the header of that message can be found there.
LEMMA HeadIsNext ==
  ASSUME RingInv, rpc = "head", NEW n \in 1 .. Len(sent), Holds(rOut, n, 0, HeadSize - 1)
  PROVE  n = taken + 1
<1> DEFINE c == rOut % FifoSize
           q == rOut \div FifoSize
<1>1. rOut \in Nat /\ rOut \in Int /\ rOut % MemAlign = 0 /\ FifoSize \in Nat \ {0}
  BY MsgRingAssumption DEF RingInv, TypeOK, ReceiverInv
<1>2. c \in 0 .. FifoSize - 1 /\ q \in Int /\ rOut = FifoSize * q + c
  BY <1>1, ModDef, Zenon
<1>3. c \in Cells
  BY <1>2 DEF Cells
<1>4. ByteAt(rOut, c) = (c - rOut) % FifoSize
  BY <1>1, AlignedNoSkip DEF ByteAt
<1> HIDE DEF c, q
<1>5. c - rOut = FifoSize * (-q) + 0
  BY <1>1, <1>2
<1>6. (FifoSize * (-q) + 0) % FifoSize = 0
  <2>1. -q \in Int /\ 0 \in 0 .. FifoSize - 1
    BY <1>1, <1>2
  <2> QED
    BY <1>1, <2>1, ModUnique, Zenon
<1>7. ByteAt(rOut, c) = 0
  BY <1>4, <1>5, <1>6
<1>8. taken + 1 \in 1 .. Len(sent) /\ Holds(rOut, taken + 1, 0, HeadSize + sent[taken + 1].size - 1)
  BY NextWhole
<1>9. sent[taken + 1].size \in Nat
  BY <1>8, SentType
<1>10. 0 \in 0 .. HeadSize - 1 /\ 0 \in 0 .. HeadSize + sent[taken + 1].size - 1
  BY <1>9, MsgRingAssumption
<1>11. mem[c] = <<n, 0>> /\ mem[c] = <<taken + 1, 0>>
  BY <1>3, <1>7, <1>8, <1>10 DEF Holds
<1> QED
  BY <1>11

LEMMA ReadHeadKeeps ==
  ASSUME RingInv, NEW n \in 1 .. Len(sent), ReadHead(n) \/ Discard(n)
  PROVE  RingInv'
<1>1. /\ UNCHANGED <<ringVars, sendVars, rIn, rOut, delivered, handlers>>
      /\ rpc = "head" /\ Holds(rOut, n, 0, HeadSize - 1)
      /\ rMsg' = n /\ rLen' = sent[n].size
      /\ \/ rpc' = "notify" /\ taken' = taken
         \/ rpc' = "advance" /\ taken' = taken + 1
  BY DEF ReadHead, Discard, RecvStep
<1>2. n = taken + 1 /\ taken \in 0 .. Len(sent) /\ Len(sent) \in Nat
  BY <1>1, HeadIsNext DEF RingInv, TypeOK
<1>3. SenderInv' /\ ChainInv' /\ \A k \in Nat : Pos(k)' = Pos(k)
  BY <1>1, SenderFrame DEF ringVars
<1>4. rp = begin[n] /\ rOut = rp
  BY <1>1, <1>2 DEF RingInv, ReceiverInv, Pos
<1>5. TypeOK'
  <2>1. rLen' \in Nat
    BY <1>1, SentType
  <2>2. taken' \in 0 .. Len(sent) /\ rMsg' \in 0 .. Len(sent)
    BY <1>1, <1>2
  <2> QED
    BY <1>1, <2>1, <2>2 DEF RingInv, TypeOK, ringVars, sendVars
<1>6. PointersSane' /\ UnreadWhole'
  BY <1>1 DEF RingInv, PointersSane, UnreadWhole, Holds, ringVars, sendVars
<1>7. ReceiverInv'
  <2>1. CASE rpc' = "notify" /\ taken' = taken
    <3>1. Pos(taken + 1)' = rp'
      BY <1>1, <1>2, <1>4, <2>1 DEF Pos, ringVars, sendVars
    <3> QED
      BY <1>1, <1>2, <1>4, <2>1, <3>1 DEF RingInv, ReceiverInv, ringVars, sendVars
  <2>2. CASE rpc' = "advance" /\ taken' = taken + 1
    BY <1>1, <1>2, <1>4, <2>2 DEF RingInv, ReceiverInv, ringVars, sendVars
  <2> QED
    BY <1>1, <2>1, <2>2
<1> QED
  BY <1>3, <1>5, <1>6, <1>7 DEF RingInv

LEMMA NotifyKeeps ==
  ASSUME RingInv, Notify
  PROVE  RingInv'
<1>1. /\ UNCHANGED <<ringVars, sendVars, rIn, rOut, rMsg, rLen, handlers>>
      /\ rpc = "notify" /\ rpc' = "advance" /\ taken' = taken + 1
  BY DEF Notify, RecvStep
<1>2. /\ taken + 1 \in 1 .. Len(sent) /\ rMsg = taken + 1 /\ rLen = sent[rMsg].size
      /\ taken \in 0 .. Len(sent)
  BY <1>1, NextWhole DEF RingInv, ReceiverInv, TypeOK
<1>3. SenderInv' /\ ChainInv'
  BY <1>1, SenderFrame DEF ringVars
<1>4. TypeOK'
  <2>1. delivered' \in [Ports -> Seq(Nat)]
    <3>1. PICK x \in {rMsg, 0} :
            delivered' = [delivered EXCEPT ![sent[rMsg].port] = Append(@, x)]
      BY DEF Notify
    <3>2. x \in Nat /\ delivered \in [Ports -> Seq(Nat)]
      BY <1>2 DEF RingInv, TypeOK
    <3>3. \A d \in Seq(Nat) : Append(d, x) \in Seq(Nat)
      BY <3>2
    <3> QED
      BY <3>1, <3>2, <3>3
  <2>2. taken' \in 0 .. Len(sent)
    BY <1>1, <1>2
  <2> QED
    BY <1>1, <2>1, <2>2 DEF RingInv, TypeOK, ringVars, sendVars
<1>5. PointersSane' /\ UnreadWhole'
  BY <1>1 DEF RingInv, PointersSane, UnreadWhole, Holds, ringVars, sendVars
<1>6. ReceiverInv'
  <2>1. rp = begin[taken + 1]
    BY <1>1, <1>2 DEF RingInv, ReceiverInv, Pos
  <2> QED
    BY <1>1, <1>2, <2>1 DEF RingInv, ReceiverInv, ringVars, sendVars
<1> QED
  BY <1>3, <1>4, <1>5, <1>6 DEF RingInv

LEMMA AdvanceKeeps ==
  ASSUME RingInv, Advance
  PROVE  RingInv'
<1>1. /\ UNCHANGED <<wp, mem, sendVars, rIn, rMsg, rLen, taken, delivered, handlers>>
      /\ rpc = "advance" /\ rpc' = "check"
      /\ rOut' = Advanced(rOut, rLen) /\ rp' = rOut'
  BY DEF Advance, RecvStep
<1>2. /\ taken \in 1 .. Len(sent) /\ Len(sent) \in Nat /\ rLen = sent[taken].size
      /\ rOut = begin[taken] /\ rp = rOut /\ rOut \in Nat /\ rLen \in Nat
      /\ rOut % MemAlign = 0
  BY <1>1 DEF RingInv, ReceiverInv, TypeOK
<1>3. rp' = rOut + Step(rLen) /\ rp' \in Nat /\ rp' % MemAlign = 0 /\ Step(rLen) \in Nat
  BY <1>1, <1>2, AlignedAdvance, StepFacts
<1>4. rp' = Pos(taken + 1) /\ rp' <= wp
  BY <1>2, <1>3 DEF RingInv, ChainInv
<1>5. SenderInv' /\ ChainInv' /\ \A k \in Nat : Pos(k)' = Pos(k)
  BY <1>1, SenderFrame
<1>6. TypeOK'
  BY <1>1, <1>3 DEF RingInv, TypeOK, sendVars
<1>7. PointersSane'
  <2>1. rp <= rp'
    BY <1>2, <1>3
  <2>2. /\ wp \in Nat /\ wp - rp <= FifoSize /\ sOut \in Nat /\ rp \in Nat /\ FifoSize \in Nat
        /\ lock # Nil => sOut <= rp
    BY MsgRingAssumption DEF RingInv, TypeOK, PointersSane
  <2>3. wp - rp' <= FifoSize /\ (lock # Nil => sOut <= rp')
    BY <1>3, <2>1, <2>2
  <2> QED
    BY <1>1, <1>4, <2>3 DEF RingInv, PointersSane, sendVars
<1>8. UnreadWhole'
  <2> SUFFICES ASSUME NEW n \in 1 .. Len(sent), begin[n] >= rp'
               PROVE  Holds(begin[n], n, 0, HeadSize + sent[n].size - 1)
    BY <1>1 DEF UnreadWhole, Holds, sendVars
  <2>1. begin \in Seq(Nat) /\ Len(begin) = Len(sent)
    BY DEF RingInv, TypeOK, ChainInv
  <2>2. begin[n] >= rp
    <3>1. begin[n] \in Nat
      BY <2>1
    <3> QED
      BY <1>2, <1>3, <3>1
  <2> QED
    BY <2>2 DEF RingInv, UnreadWhole
<1>9. ReceiverInv'
  <2>1. (rp = Pos(taken + 1))'
    BY <1>1, <1>4 DEF Pos, sendVars
  <2> QED
    BY <1>1, <1>3, <2>1 DEF ReceiverInv
<1> QED
  BY <1>5, <1>6, <1>7, <1>8, <1>9 DEF RingInv

LEMMA OpenOrCloseKeeps ==
  ASSUME RingInv, NEW p \in Ports, OpenOrClose(p)
  PROVE  RingInv'
<1>1. UNCHANGED <<ringVars, sendVars, recvVars>> /\ handlers' \subseteq handlers \cup {p}
  BY DEF OpenOrClose
<1>2. TypeOK'
  BY <1>1 DEF RingInv, TypeOK, ringVars, sendVars, recvVars
<1>3. SenderInv' /\ ChainInv'
  BY <1>1, SenderFrame DEF ringVars
<1>4. PointersSane' /\ UnreadWhole'
  BY <1>1 DEF RingInv, PointersSane, UnreadWhole, Holds, ringVars, sendVars
<1>5. ReceiverInv'
  BY <1>1 DEF RingInv, ReceiverInv, Pos, ringVars, sendVars, recvVars
<1> QED
  BY <1>2, <1>3, <1>4, <1>5 DEF RingInv

LEMMA NextRingInv ==
  ASSUME RingInv, [Next]_vars
  PROVE  RingInv'
<1>1. ASSUME NEW s \in Senders, NEW m \in Message, Load(s, m) PROVE RingInv'
  BY <1>1, LoadKeeps
<1>2. ASSUME NEW s \in Senders, NoRoom(s) PROVE RingInv'
  BY <1>2, NoRoomKeeps
<1>3. ASSUME NEW s \in Senders, WriteBody(s) PROVE RingInv'
  BY <1>3, WriteBodyKeeps
<1>4. ASSUME NEW s \in Senders, WriteHead(s) PROVE RingInv'
  BY <1>4, WriteHeadKeeps
<1>5. ASSUME NEW s \in Senders, Publish(s) PROVE RingInv'
  BY <1>5, PublishKeeps
<1>6. ASSUME Interrupt \/ Check \/ NotifyFails PROVE RingInv'
  BY <1>6, CheckKeeps
<1>7. ASSUME NEW n \in 1 .. Len(sent), ReadHead(n) \/ Discard(n) PROVE RingInv'
  BY <1>7, ReadHeadKeeps
<1>8. ASSUME NEW p \in Ports, OpenOrClose(p) PROVE RingInv'
  BY <1>8, OpenOrCloseKeeps
<1>9. ASSUME UNCHANGED vars PROVE RingInv'
  <2>1. UNCHANGED <<ringVars, sendVars, recvVars, handlers>>
    BY <1>9 DEF vars
  <2>2. SenderInv' /\ ChainInv'
    BY <2>1, SenderFrame DEF ringVars
  <2> QED
    BY <2>1, <2>2 DEF RingInv, TypeOK, PointersSane, UnreadWhole, Holds, ReceiverInv,
                      Pos, ringVars, sendVars, recvVars
<1> QED
  BY <1>1, <1>2, <1>3, <1>4, <1>5, <1>6, <1>7, <1>8, <1>9, NotifyKeeps, AdvanceKeeps DEF Next

LEMMA RingInvariant == Spec => []RingInv
<1>1. Init => RingInv
  BY InitRingInv
<1>2. RingInv /\ [Next]_vars => RingInv'
  BY NextRingInv
<1> QED
  BY <1>1, <1>2, PTL DEF Spec

-----------------------------------------------------------------------------
(* The theorems.                                                           *)

\* The variables have their types.
THEOREM RingTypeCorrect == Spec => []TypeOK
<1>1. RingInv => TypeOK
  BY DEF RingInv
<1> QED
  BY <1>1, RingInvariant, PTL

\* For any ring whose size is a multiple of the alignment: the unread bytes
\* always fit into it, and no header runs over its end.
THEOREM RingPointers == Spec => [](PointersSane /\ HeadNeverSplit)
<1>1. RingInv => PointersSane /\ HeadNeverSplit
  BY AlignedNoSkip DEF RingInv, TypeOK, PointersSane, ChainInv, ReceiverInv, HeadNeverSplit
<1> QED
  BY <1>1, RingInvariant, PTL

\* Messages of any size: what has been published and not read is whole at all
\* times, and the receiver finds the header it looks for.
THEOREM RingKeepsUnread == Spec => [](UnreadWhole /\ HeadFound)
<1>1. RingInv => HeadFound
  <2> SUFFICES ASSUME RingInv, rpc = "head" PROVE Holds(rOut, taken + 1, 0, HeadSize - 1)
    BY DEF HeadFound
  <2>1. /\ taken + 1 \in 1 .. Len(sent)
        /\ Holds(rOut, taken + 1, 0, HeadSize + sent[taken + 1].size - 1)
    BY NextWhole
  <2>2. sent[taken + 1].size \in Nat
    BY <2>1, SentType
  <2>3. 0 .. HeadSize - 1 \subseteq 0 .. HeadSize + sent[taken + 1].size - 1
    BY <2>2, MsgRingAssumption
  <2> QED
    BY <2>1, <2>3 DEF Holds
<1>2. RingInv => UnreadWhole
  BY DEF RingInv
<1> QED
  BY <1>1, <1>2, RingInvariant, PTL

-----------------------------------------------------------------------------
(* The refinement.                                                         *)

Entry == [id : Nat, port : Ports]

\* Waiting, for any history.
WaitingOf(seq, t) ==
  [i \in 1 .. Len(seq) - t |-> [id |-> t + i, port |-> seq[t + i].port]]

LEMMA WaitingFacts ==
  ASSUME NEW seq \in Seq(Message), NEW t \in 0 .. Len(seq)
  PROVE  /\ WaitingOf(seq, t) \in Seq(Entry)
         /\ Len(WaitingOf(seq, t)) = Len(seq) - t
         /\ \A i \in 1 .. Len(seq) - t :
              WaitingOf(seq, t)[i] = [id |-> t + i, port |-> seq[t + i].port]
<1> DEFINE k == Len(seq) - t
           w == WaitingOf(seq, t)
<1>1. t \in Nat /\ Len(seq) \in Nat /\ k \in Nat
  OBVIOUS
<1>2. ASSUME NEW i \in 1 .. k
      PROVE  [id |-> t + i, port |-> seq[t + i].port] \in Entry
  <2>1. t + i \in 1 .. Len(seq)
    BY <1>1
  <2>2. seq[t + i] \in Message
    BY <2>1
  <2> QED
    BY <1>1, <2>1, <2>2 DEF Entry, Message
<1>3. w \in [1 .. k -> Entry]
  BY <1>2 DEF WaitingOf
<1>4. \A i \in 1 .. k : w[i] = [id |-> t + i, port |-> seq[t + i].port]
  BY DEF WaitingOf
<1> HIDE DEF k, w
<1>5. w \in Seq(Entry)
  BY <1>1, <1>3, SeqDef
<1>6. Len(w) = k
  <2>1. DOMAIN w = 1 .. k
    BY <1>3
  <2> QED
    BY <1>1, <1>5, <2>1, LenProperties
<1> QED
  BY <1>4, <1>5, <1>6 DEF k, w

\* The steps the channel does not see.
LEMMA Invisible ==
  ASSUME UNCHANGED <<sent, taken, delivered, handlers>>
  PROVE  UNCHANGED Channel!vars
BY DEF Channel!vars, Waiting

LEMMA PublishSends ==
  ASSUME RingInv, RingInv', NEW s \in Senders, Publish(s)
  PROVE  Channel!Next
<1> DEFINE e == [id |-> Len(sent) + 1, port |-> cur[s].port]
           k == Len(sent) - taken
<1>1. /\ sent' = Append(sent, cur[s]) /\ UNCHANGED <<taken, delivered, handlers>>
  BY DEF Publish, StorePointer, recvVars
<1>2. /\ cur[s] \in Message /\ Len(sent) < MaxMsgs /\ sent \in Seq(Message)
      /\ taken \in 0 .. Len(sent) /\ Len(sent) \in Nat
  <2>1. spc[s] = "head"
    BY DEF Publish, SendStep
  <2>2. cur[s] \in Message /\ Len(sent) < MaxMsgs
    BY <2>1 DEF RingInv, SenderInv
  <2>3. sent \in Seq(Message) /\ taken \in 0 .. Len(sent)
    BY DEF RingInv, TypeOK
  <2> QED
    BY <2>2, <2>3
<1>3. /\ Len(sent') = Len(sent) + 1 /\ sent'[Len(sent) + 1] = cur[s]
      /\ \A n \in 1 .. Len(sent) : sent'[n] = sent[n]
  BY <1>1, <1>2
<1>4. e \in Entry /\ k \in Nat /\ Len(sent') - taken' = k + 1
  <2>1. cur[s].port \in Ports
    BY <1>2 DEF Message
  <2> QED
    BY <1>1, <1>2, <1>3, <2>1 DEF Entry
<1>5. /\ Waiting \in Seq(Entry) /\ Len(Waiting) = k
      /\ \A i \in 1 .. k : Waiting[i] = [id |-> taken + i, port |-> sent[taken + i].port]
  <2>1. Waiting = WaitingOf(sent, taken)
    BY DEF Waiting, WaitingOf
  <2> QED
    BY <1>2, <2>1, WaitingFacts
<1>6. /\ Waiting' \in Seq(Entry) /\ Len(Waiting') = k + 1
      /\ \A i \in 1 .. k + 1 : Waiting'[i] = [id |-> taken + i, port |-> sent'[taken + i].port]
  <2>1. Waiting' = WaitingOf(sent', taken)
    BY <1>1 DEF Waiting, WaitingOf
  <2>2. sent' \in Seq(Message) /\ taken \in 0 .. Len(sent')
    BY <1>1, <1>2, <1>3
  <2>3. Len(sent') - taken = k + 1
    BY <1>1, <1>4
  <2> QED
    BY <2>1, <2>2, <2>3, WaitingFacts
<1>7. /\ Append(Waiting, e) \in Seq(Entry) /\ Len(Append(Waiting, e)) = k + 1
      /\ \A i \in 1 .. k : Append(Waiting, e)[i] = Waiting[i]
      /\ Append(Waiting, e)[k + 1] = e
  BY <1>4, <1>5
<1>8. ASSUME NEW i \in 1 .. k + 1 PROVE Waiting'[i] = Append(Waiting, e)[i]
  <2>1. CASE i = k + 1
    <3>1. taken + i = Len(sent) + 1
      BY <1>2, <2>1
    <3> QED
      BY <1>3, <1>6, <1>7, <2>1, <3>1
  <2>2. CASE i \in 1 .. k
    <3>1. taken + i \in 1 .. Len(sent)
      BY <1>2, <2>2
    <3> QED
      BY <1>3, <1>5, <1>6, <1>7, <2>2, <3>1
  <2>3. i = k + 1 \/ i \in 1 .. k
    BY <1>2
  <2> QED
    BY <2>1, <2>2, <2>3
<1> HIDE DEF k
<1>9. Waiting' = Append(Waiting, e)
  BY <1>6, <1>7, <1>8, SeqEqual
<1>10. cur[s].port \in Ports
  BY <1>2 DEF Message
<1>11. Channel!Send(cur[s].port)
  BY <1>1, <1>2, <1>3, <1>9 DEF Channel!Send
<1> QED
  BY <1>10, <1>11 DEF Channel!Next

\* When the receiver is through with a message, it is the channel's first.
LEMMA TakenIsHead ==
  ASSUME RingInv, rpc \in {"head", "notify"}, sent' = sent, taken' = taken + 1
  PROVE  /\ Waiting # <<>>
         /\ Head(Waiting) = [id |-> taken + 1, port |-> sent[taken + 1].port]
         /\ Waiting' = Tail(Waiting)
<1> DEFINE k == Len(sent) - taken
<1>1. /\ sent \in Seq(Message) /\ taken \in 0 .. Len(sent) /\ Len(sent) \in Nat
      /\ taken + 1 \in 1 .. Len(sent)
  BY NextWhole DEF RingInv, TypeOK
<1>2. k \in Nat \ {0}
  BY <1>1
<1>3. /\ Waiting \in Seq(Entry) /\ Len(Waiting) = k
      /\ \A i \in 1 .. k : Waiting[i] = [id |-> taken + i, port |-> sent[taken + i].port]
  <2>1. Waiting = WaitingOf(sent, taken)
    BY DEF Waiting, WaitingOf
  <2> QED
    BY <1>1, <2>1, WaitingFacts
<1>4. /\ Waiting' \in Seq(Entry) /\ Len(Waiting') = k - 1
      /\ \A i \in 1 .. k - 1 :
           Waiting'[i] = [id |-> (taken + 1) + i, port |-> sent[(taken + 1) + i].port]
  <2>1. Waiting' = WaitingOf(sent, taken + 1)
    BY DEF Waiting, WaitingOf
  <2>2. taken + 1 \in 0 .. Len(sent) /\ Len(sent) - (taken + 1) = k - 1
    BY <1>1
  <2> QED
    BY <1>1, <2>1, <2>2, WaitingFacts
<1> HIDE DEF k
<1>5. Waiting # <<>> /\ Head(Waiting) = Waiting[1]
  BY <1>2, <1>3
<1>6. /\ Tail(Waiting) \in Seq(Entry) /\ Len(Tail(Waiting)) = k - 1
      /\ \A i \in 1 .. k - 1 : Tail(Waiting)[i] = Waiting[i + 1]
  BY <1>2, <1>3, <1>5, HeadTailProperties
<1>7. ASSUME NEW i \in 1 .. k - 1 PROVE Waiting'[i] = Tail(Waiting)[i]
  <2>1. i + 1 \in 1 .. k /\ (taken + 1) + i = taken + (i + 1)
    BY <1>1, <1>2
  <2> QED
    BY <1>3, <1>4, <1>6, <2>1
<1>8. Waiting' = Tail(Waiting)
  BY <1>4, <1>6, <1>7, SeqEqual
<1>9. 1 \in 1 .. k
  BY <1>2
<1> QED
  BY <1>3, <1>5, <1>8, <1>9

LEMMA NotifyDelivers ==
  ASSUME RingInv, Notify
  PROVE  Channel!Next
<1>1. /\ UNCHANGED <<sent, handlers>> /\ taken' = taken + 1 /\ rpc = "notify"
      /\ delivered' = [delivered EXCEPT ![sent[rMsg].port] =
                         Append(@, IF Holds(rOut, rMsg, HeadSize, HeadSize + rLen - 1)
                                   THEN rMsg ELSE 0)]
  BY DEF Notify, RecvStep, sendVars
<1>2. rMsg = taken + 1 /\ rLen = sent[rMsg].size
  BY <1>1 DEF RingInv, ReceiverInv
<1>3. /\ taken + 1 \in 1 .. Len(sent)
      /\ Holds(rOut, taken + 1, 0, HeadSize + sent[taken + 1].size - 1)
  BY <1>1, NextWhole
<1>4. Holds(rOut, rMsg, HeadSize, HeadSize + rLen - 1)
  <2>1. HeadSize .. HeadSize + rLen - 1 \subseteq 0 .. HeadSize + rLen - 1
    BY <1>2, <1>3, SentType, MsgRingAssumption
  <2> QED
    BY <1>2, <1>3, <2>1 DEF Holds
<1>5. /\ Waiting # <<>> /\ Waiting' = Tail(Waiting)
      /\ Head(Waiting) = [id |-> taken + 1, port |-> sent[taken + 1].port]
  BY <1>1, TakenIsHead
<1>6. delivered' = [delivered EXCEPT ![Head(Waiting).port] = Append(@, Head(Waiting).id)]
  <2>1. delivered' = [delivered EXCEPT ![sent[rMsg].port] = Append(@, rMsg)]
    BY <1>1, <1>4, Zenon
  <2>2. Head(Waiting).port = sent[rMsg].port /\ Head(Waiting).id = rMsg
    BY <1>2, <1>5
  <2> QED
    BY <2>1, <2>2, Zenon
<1>7. Channel!Deliver
  BY <1>1, <1>5, <1>6 DEF Channel!Deliver
<1> QED
  BY <1>7 DEF Channel!Next

LEMMA DiscardThrowsAway ==
  ASSUME RingInv, NEW n \in 1 .. Len(sent), Discard(n)
  PROVE  Channel!Next
<1>1. /\ UNCHANGED <<sent, delivered, handlers>> /\ taken' = taken + 1 /\ rpc = "head"
      /\ Holds(rOut, n, 0, HeadSize - 1) /\ sent[n].port \notin handlers
  BY DEF Discard, RecvStep, sendVars
<1>2. n = taken + 1
  BY <1>1, HeadIsNext
<1>3. /\ Waiting # <<>> /\ Waiting' = Tail(Waiting)
      /\ Head(Waiting) = [id |-> taken + 1, port |-> sent[taken + 1].port]
  BY <1>1, TakenIsHead
<1>4. Channel!ThrowAway
  BY <1>1, <1>2, <1>3 DEF Channel!ThrowAway
<1> QED
  BY <1>4 DEF Channel!Next

LEMMA NextRefines ==
  ASSUME RingInv, RingInv', [Next]_vars
  PROVE  [Channel!Next]_Channel!vars
<1>1. ASSUME UNCHANGED <<sent, taken, delivered, handlers>> PROVE UNCHANGED Channel!vars
  BY <1>1, Invisible
<1>2. ASSUME NEW s \in Senders, NEW m \in Message, Load(s, m) PROVE UNCHANGED Channel!vars
  BY <1>1, <1>2 DEF Load, LoadPointers, recvVars
<1>3. ASSUME NEW s \in Senders, NoRoom(s) \/ WriteBody(s) \/ WriteHead(s)
      PROVE  UNCHANGED Channel!vars
  BY <1>1, <1>3 DEF NoRoom, WriteBody, WriteHead, recvVars
<1>4. ASSUME NEW s \in Senders, Publish(s) PROVE Channel!Next
  BY <1>4, PublishSends
<1>5. ASSUME Interrupt \/ Check \/ NotifyFails \/ Advance PROVE UNCHANGED Channel!vars
  BY <1>1, <1>5 DEF Interrupt, Check, NotifyFails, Advance, sendVars
<1>6. ASSUME NEW n \in 1 .. Len(sent), ReadHead(n) PROVE UNCHANGED Channel!vars
  BY <1>1, <1>6 DEF ReadHead, sendVars
<1>7. ASSUME NEW n \in 1 .. Len(sent), Discard(n) PROVE Channel!Next
  BY <1>7, DiscardThrowsAway
<1>8. ASSUME NEW p \in Ports, OpenOrClose(p) PROVE Channel!Next
  <2>1. handlers' \in SUBSET Ports /\ UNCHANGED <<sent, taken, delivered>>
    BY <1>8 DEF OpenOrClose, sendVars, recvVars, RingInv, TypeOK
  <2>2. Channel!OpenOrClose
    BY <2>1 DEF Channel!OpenOrClose, Waiting
  <2> QED
    BY <2>2 DEF Channel!Next
<1>9. ASSUME UNCHANGED vars PROVE UNCHANGED Channel!vars
  BY <1>1, <1>9 DEF vars, sendVars, recvVars
<1> QED
  BY <1>2, <1>3, <1>4, <1>5, <1>6, <1>7, <1>8, <1>9, NotifyDelivers DEF Next

\* The ring implements the channel: every accepted message reaches its port
\* once, whole and in order, for every ring and any sizes of messages.
THEOREM RingImplementsChannel == Spec => ImplementsChannel
<1>1. Init => Channel!Init
  <2> SUFFICES ASSUME Init PROVE Channel!Init
    OBVIOUS
  <2>1. Len(sent) = 0 /\ taken = 0 /\ delivered = [p \in Ports |-> <<>>] /\ handlers = {}
    BY DEF Init
  <2>2. Waiting = <<>>
    <3>1. 1 .. Len(sent) - taken = {}
      BY <2>1
    <3> QED
      BY <3>1 DEF Waiting
  <2> QED
    BY <2>1, <2>2 DEF Channel!Init
<1>2. RingInv /\ RingInv' /\ [Next]_vars => [Channel!Next]_Channel!vars
  BY NextRefines
<1> QED
  BY <1>1, <1>2, RingInvariant, PTL DEF Spec, ImplementsChannel, Channel!Spec
-----------------------------------------------------------------------------
(***************************************************************************)
(* The clients of the device map (AxHostDev, AxNetDevice), for any number  *)
(* of cards, callers, probes, calls and failures.  What breaks breaks for  *)
(* a cause because of what holds without it.  For the network driver: what *)
(* an interface says of itself, with the causes that excuse it (Right);    *)
(* and, with no card unplugged, which places of the map init and exit have *)
(* served (InPlace, Whole).  For the calls: a call holds on to records     *)
(* that are there, to bound cards if none was unplugged, and its step says *)
(* what it has found (CallInv); rings are as their records say (RingsInv); *)
(* and nobody calls a module that is not up (ModuleInv).                   *)
(***************************************************************************)

\* Every entry of the map, counted or not, is a record that is there.
EntryHeld == \A i \in Slots : map[i] # None => "record" \in has[map[i]]

Plugged == "unplugged" \notin cause

-----------------------------------------------------------------------------
(* The network driver *)

Memories == {"none", "live", "old"}
Interfaces ==
  [registered : BOOLEAN, priv : {"null", "live", "old"}, irq : BOOLEAN, mem : Memories,
   up : BOOLEAN, checked : BOOLEAN, napi : BOOLEAN, lock : {"free", "kept"},
   asked : BOOLEAN, told : Memories, answer : BOOLEAN, knows : Memories]
NetPcs == {"out", "init", "irq", "mem", "up", "exit", "free"}
NetType ==
  /\ net \in [Cards -> Interfaces]
  /\ npc \in [pc : NetPcs, i : Nat, card : Cards \cup {None}]

\* An interface, whatever has happened.
Consistent(r, why) ==
  /\ r.up \/ r.napi \/ r.priv = "live" => r.registered
  /\ r.checked \/ r.napi => r.mem # "none"
  /\ r.napi => r.checked
  /\ r.up /\ r.checked => r.napi
  /\ r.lock = "kept" => "refused" \in why
  /\ r.mem = "old" => "exit" \in why

\* Nobody but an interface waits for an answer, and who answers was told of the memory.
Agreed(r) ==
  /\ ~r.registered => ~r.asked /\ ~r.answer
  /\ r.asked => r.told \in {"none", r.mem}
  /\ r.answer \/ r.checked => r.knows = r.mem /\ r.mem # "none"

\* Who waits for an answer is up.
Opening(r) ==
  /\ r.asked \/ r.answer => r.up /\ ~r.checked /\ ~(r.asked /\ r.answer)
  /\ r.napi => r.up

Right(r, why) ==
  /\ Consistent(r, why)
  /\ why \cap {"early", "stale"} = {} => Agreed(r)
  /\ "halfopen" \notin why => Opening(r)

\* The card of the step.
Current ==
  /\ npc.pc \in {"irq", "mem", "free"} => n0 \in Cards /\ net[n0].registered
  /\ npc.pc \in {"irq", "mem"} => net[n0].mem = "none"
  /\ npc.pc = "free" => net[n0].mem # "live"

\* The place in the map whose card has its interface: init has reached it, and
\* exit has not.
Served(i) ==
  CASE npc.pc = "out" -> FALSE
    [] npc.pc = "init" -> i < npc.i
    [] npc.pc \in {"irq", "mem"} -> i <= npc.i
    [] npc.pc = "up" -> TRUE
    [] OTHER -> i >= npc.i

InPlace ==
  /\ core.pc = "idle"
  /\ npc.pc \in {"irq", "mem", "free"} => npc.i < number /\ map[npc.i] = n0
  /\ \A d \in Cards : net[d].registered => net[d].priv = "live" /\ bound[d] = "bound"
  /\ \A i \in 0..(number - 1) : net[map[i]].registered => Served(i)

Whole ==
  /\ \A d \in Cards : net[d].irq \/ net[d].mem = "live" => net[d].registered
  /\ \A d \in Cards : net[d].priv = "old" => bound[d] = "bound"
  /\ \A i \in 0..(number - 1) : net[map[i]].priv = "old" => ~Served(i)

NetInv ==
  /\ NetType /\ Current /\ module.pc = "up"
  /\ \A d \in Cards : Right(net[d], cause)
  /\ Plugged => InPlace
  /\ cause \cap {"unplugged", "initfailed"} = {} => Whole

-----------------------------------------------------------------------------
(* The module and the calls *)

CallPcs == {"idle", "walk", "use", "end", "hook", "call", "ring", "count", "shake", "divide"}
Kinds == {"ids", "show", "p2p", "send", "recv", "connect", "unload"}
CallRecords ==
  [pc : CallPcs, kind : Kinds, round : {0, 1}, target : Cards \cup {None}, i : Nat,
   entry : Cards \cup {None}, dev : Cards \cup {None}, last : 0..MaxDev, timed : BOOLEAN, time : Nat]
FileNames == {Files[n] : n \in 1..Len(Files)}
ModulePcs == {"out", "filled", "made", "up", "undo"}
RestType ==
  /\ module \in [pc : ModulePcs, n : 0..Len(Files)]
  /\ files \in [made : SUBSET FileNames, ready : SUBSET FileNames]
  /\ hook \in BOOLEAN /\ level \in BOOLEAN /\ total \in Nat
  /\ fifo \in [Cards -> {"none", "live", "freed", "stale"}] /\ linked \subseteq Cards
  /\ call \in [Callers -> CallRecords]

ModuleInv ==
  /\ module.pc = "made" => module.n > 0
  /\ files.made \subseteq files.ready \cup (IF module.pc = "made" THEN {Files[module.n]} ELSE {})
  /\ module.pc \in {"out", "undo"} => files.made = {}
  /\ module.pc = "out" => core.pc = "idle" /\ \A d \in Cards : bound[d] = "no"
  /\ core.pc # "idle" => module.pc = "undo" \/ ~Plugged
  /\ ~Up => \A c \in Callers : call[c] = NoWalk
  /\ number > P2PMax => "many" \in cause

RingsInv ==
  \A d \in Cards :
    /\ d \in linked => fifo[d] \in {"live", "freed"} /\ "record" \in has[d]
    /\ fifo[d] = "freed" => "userexit" \in cause
    /\ fifo[d] = "stale" => module.pc \in {"out", "undo"} \/ ~Plugged

\* What a call says of itself.
Shape(r) ==
  /\ r.pc = "idle" => r = NoWalk
  /\ r.pc \in {"hook", "call"} => r.kind = "show"
  /\ r.pc \in {"ring", "count"} => r.kind \in {"send", "recv", "connect"}
  /\ r.pc = "end" => r.kind \in {"send", "recv", "connect"}
  /\ r.pc = "shake" => r.kind = "connect"
  /\ r.kind = "connect" => r.round = 0
  /\ r.pc = "divide" => r.kind = "send"
  /\ r.kind \in {"send", "recv", "connect"} => r.target \in Cards
  /\ r.pc = "walk" => r.entry = None
  /\ r.pc = "end" => r.entry \in {r.target, None}
  /\ r.pc = "use" /\ r.kind = "p2p" /\ r.round = 1 => r.i < r.last
  /\ r.dev \in {r.target, None}

Caused(r) ==
  /\ r.kind \in {"send", "recv"} => fifo[r.target] # "none" \/ "unconnected" \in cause
  /\ r.kind = "unload" => "userexit" \in cause
  /\ r.pc = "call" => hook \/ "userexit" \in cause
  /\ r.pc = "divide" /\ 0 \in {r.time, total} => cause \cap {"overlap", "instant", "policy"} # {}
  /\ r.last > P2PMax => "many" \in cause
  /\ r.kind = "connect" /\ r.pc \in {"count", "shake"} /\ r.dev # None =>
       fifo[r.target] \in {"live", "freed"}

Held(r) ==
  /\ r.entry # None => "record" \in has[r.entry]
  /\ r.dev # None => "record" \in has[r.dev]

Steady(r) ==
  /\ r.last <= number
  /\ r.pc \in {"use", "end"} => r.entry # None /\ bound[r.entry] = "bound"
  /\ r.pc \in {"ring", "shake"} \/ (r.pc = "count" /\ r.kind = "connect") =>
       r.dev # None /\ bound[r.dev] = "bound"

CallInv(r) == Shape(r) /\ Caused(r) /\ Held(r) /\ (Plugged => Steady(r))

RestInv == RestType /\ ModuleInv /\ RingsInv /\ \A c \in Callers : CallInv(call[c])

-----------------------------------------------------------------------------
ClientsInv ==
  /\ MapInv /\ EntryHeld /\ clients \in Clients
  /\ clients = "net" => NetInv
  /\ clients = "rest" => RestInv /\ NetInit

-----------------------------------------------------------------------------
(* The map *)

\* With no remove under way, the entries that count are the bound cards.
LEMMA Settled ==
  ASSUME MapInv, core.pc = "idle"
  PROVE  /\ \A i \in 0..(number - 1) : i \in Slots /\ map[i] \in Cards /\ bound[map[i]] = "bound"
         /\ \A i, j \in 0..(number - 1) : map[i] = map[j] => i = j
         /\ \A d \in Cards : bound[d] = "bound" => \E i \in 0..(number - 1) : map[i] = d
         /\ \A d \in Cards : bound[d] = "bound" => has[d] = All
         /\ \A d \in Cards : bound[d] # "bound" => has[d] \subseteq Bars
<1>1. Count = number /\ \A d \in Cards : (Present(d) <=> bound[d] = "bound") /\ ~Leaving(d)
  BY DEF Count, Present, Closing, Leaving
<1>2. number \in 0..MaxDev
  BY DEF MapInv, MapType
<1>3. \A i \in 0..(number - 1) : i \in Slots
  BY <1>2, MapAssumption DEF Slots
<1>4. \A i \in 0..(number - 1) : map[i] \in Cards /\ bound[map[i]] = "bound"
  BY <1>1 DEF MapInv, Entries, Entered
<1>5. \A i, j \in 0..(number - 1) : map[i] = map[j] => i = j
  BY <1>1 DEF MapInv, Entries, Once
<1>6. \A d \in Cards : bound[d] = "bound" => \E i \in 0..(number - 1) : map[i] = d
  BY <1>1 DEF MapInv, Entries, Listed
<1>7. \A d \in Cards : IF bound[d] = "bound" THEN has[d] = All ELSE has[d] \subseteq Bars
  BY <1>1 DEF MapInv, Holdings
<1> QED BY <1>3, <1>4, <1>5, <1>6, <1>7

LEMMA StepParts ==
  /\ All = {"enabled", "regions", "vectors", "record", "bar0", "bar1", "bar4", "shm"}
  /\ \A n \in 1..Len(Steps) : LeftBy(n) \subseteq Bars
<1>1. Len(Steps) = 8
  BY DEF Steps
<1>2. All = {"enabled", "regions", "vectors", "record", "bar0", "bar1", "bar4", "shm"}
  BY <1>1 DEF All, Steps
<1>3. \A n \in 1..Len(Steps) : LeftBy(n) \subseteq Bars
  BY DEF LeftBy
<1> QED BY <1>2, <1>3

LEMMA EntryHeldStep ==
  ASSUME MapInv, EntryHeld, [MapNext]_mapVars
  PROVE  EntryHeld'
<1> USE DEF MapInv, MapType
<1>1. CASE UNCHANGED mapVars
  BY <1>1 DEF mapVars, EntryHeld
<1>2. CASE Releases
  <2>1. c0 \in Cards
    BY <1>2 DEF Releases, CoreAt, CoreRight
  <2>2. \A d \in Cards : "record" \in has[d] => "record" \in has'[d]
    BY <1>2, <2>1 DEF Releases
  <2>3. map' = map
    BY <1>2 DEF Releases
  <2> QED BY <2>2, <2>3 DEF EntryHeld, Slots
<1>3. CASE MovesLast
  <2>1. number - 1 \in Slots
    BY <1>3, MapAssumption DEF MovesLast, Slots, CoreAt, CoreRight
  <2>2. has' = has
    BY <1>3 DEF MovesLast
  <2>3. \A i \in Slots : map'[i] \in {map[i], map[number - 1]}
    BY <1>3 DEF MovesLast
  <2> QED BY <2>1, <2>2, <2>3 DEF EntryHeld
<1>4. CASE ClearsLast
  <2>1. c0 \in Cards /\ core.pc = "clear" /\ number \in Nat \ {0} /\ Count = number - 1
    BY <1>4 DEF ClearsLast, CoreAt, CoreRight, Count, Closing
  <2>2. number - 1 \in Slots
    BY <2>1, MapAssumption DEF Slots
  <2>3. map' = [map EXCEPT ![number - 1] = None]
    BY <1>4 DEF ClearsLast
  <2>4. ASSUME NEW i \in Slots, map'[i] # None
        PROVE  "record" \in has'[map'[i]]
    <3>1. i # number - 1 /\ map'[i] = map[i] /\ map[i] # None
      BY <2>2, <2>3, <2>4
    <3>2. i < number - 1
      <4>1. i >= Count => i = Count \/ map[i] = None
        BY <2>1, <3>1 DEF Entries, Empty, Slots
      <4> QED BY <4>1, <3>1, <2>1 DEF Slots
    <3>3. i \in 0..(Count - 1)
      BY <3>2, <2>1 DEF Slots
    <3>4. map[i] \in Cards /\ map[i] # c0
      BY <3>3, <2>1 DEF Entries, Entered, Present, Closing
    <3>5. has'[map[i]] = has[map[i]]
      BY <1>4, <3>4 DEF ClearsLast
    <3> QED BY <3>1, <3>5 DEF EntryHeld
  <2> QED BY <2>4 DEF EntryHeld
<1>5. CASE Uncounts
  BY <1>5 DEF Uncounts, EntryHeld
<1>6. ASSUME NEW d \in Cards, RemoveBegins(d)
      PROVE  EntryHeld'
  BY <1>6 DEF RemoveBegins, EntryHeld
<1>7. ASSUME NEW d \in Cards, ProbeCard(d)
      PROVE  EntryHeld'
  <2>1. CASE ProbeFails(d)
    BY <2>1 DEF ProbeFails, EntryHeld, Slots
  <2>2. CASE ProbeRefused(d)
    BY <2>2 DEF ProbeRefused, mapVars, EntryHeld
  <2>3. CASE ProbeBinds(d)
    <3>1. /\ map' = [map EXCEPT ![number] = d] /\ has' = [has EXCEPT ![d] = All]
      BY <2>3 DEF ProbeBinds
    <3>2. \A e \in Cards : "record" \in has[e] => "record" \in has'[e]
      BY <3>1, AllHoldsRecord
    <3>3. "record" \in has'[d]
      BY <3>1, AllHoldsRecord
    <3>4. \A i \in Slots : map'[i] \in {map[i], d}
      BY <3>1
    <3> QED BY <3>2, <3>3, <3>4 DEF EntryHeld
  <2> QED BY <1>7, <2>1, <2>2, <2>3 DEF ProbeCard
<1> QED BY <1>1, <1>2, <1>3, <1>4, <1>5, <1>6, <1>7 DEF MapNext, RemoveStep

LEMMA NetIsMap ==
  ASSUME NetNext
  PROVE  [MapNext]_mapVars
<1>1. CASE NetModule
  BY <1>1 DEF NetModule, NetLoads, InitOne, RequestsIrq, AllocShmem, NetInitEnds, NetExits, ExitOne,
     ExitUnregisters, NetExitEnds, NetOnly, NetBreaks, Breaks, InitGivesUp, Closes, Raises, Mails, Unsent
<1>2. CASE Unplugs
  BY <1>2 DEF Unplugs, RemoveGoesOn, MapNext
<1>3. ASSUME NEW d \in Cards, Probe(d) \/ Remove(d)
      PROVE  MapNext
  BY <1>3 DEF Probe, Remove, MapNext, ProbeCard
<1>4. ASSUME NEW d \in Cards, IfUp(d) \/ IfDown(d) \/ Carries(d) \/ CardTakesUp(d) \/ NetIrq(d)
      PROVE  UNCHANGED mapVars
  <2>1. CASE IfUp(d)
    BY <2>1 DEF IfUp, Tells, Opens, NetOnly, NetBreaks, Breaks, Raises, Mails, Unsent
  <2>2. CASE IfDown(d) \/ Carries(d) \/ CardTakesUp(d)
    BY <2>2 DEF IfDown, Carries, CardTakesUp, Closes, NetOnly, NetBreaks, Breaks, Raises, Mails, Unsent
  <2>3. CASE NetIrq(d)
    BY <2>3 DEF NetIrq, Opens, NetOnly, NetBreaks, Breaks, Raises, Mails, Unsent
  <2> QED BY <1>4, <2>1, <2>2, <2>3
<1> QED BY <1>1, <1>2, <1>3, <1>4 DEF NetNext

LEMMA CallsLeaveMap ==
  ASSUME NEW c \in Callers, Calling(c)
  PROVE  UNCHANGED mapVars
<1>1. CASE GetsIds(c) \/ ReadsProc(c) \/ P2pIoctl(c) \/ UserUnloads(c)
  BY <1>1 DEF GetsIds, ReadsProc, P2pIoctl, UserUnloads, Begins
<1>2. ASSUME NEW d \in Cards, MsgSend(c, d) \/ CheckRemote(c, d) \/ RecvBegins(c, d)
      PROVE  UNCHANGED mapVars
  BY <1>2 DEF MsgSend, CheckRemote, RecvBegins, Begins
<1>3. CASE Loads(c) \/ Uses(c) \/ Hooks(c) \/ CallsHook(c) \/ EndsRound(c) \/ FindsBus(c)
  BY <1>3 DEF Loads, Uses, Hooks, CallsHook, EndsRound, FindsBus, OnlyCall, Breaks
<1>4. CASE P2pRefuses(c) \/ EndsFind(c) \/ EndsUnload(c) \/ UsesRing(c)
  BY <1>4 DEF P2pRefuses, EndsFind, EndsUnload, UsesRing, OnlyCall, Breaks
<1>5. CASE Connects(c) \/ RingFails(c) \/ Clears(c) \/ Shakes(c) \/ Counts(c) \/ Divides(c)
  BY <1>5 DEF Connects, RingFails, Clears, Shakes, Counts, Divides, OnlyCall, Breaks
<1> QED BY <1>1, <1>2, <1>3, <1>4, <1>5 DEF Calling

LEMMA HostIsMap ==
  ASSUME HostNext
  PROVE  [MapNext]_mapVars
<1>1. CASE HostLoads \/ CreatesFile \/ FillsItem \/ HostExits
  BY <1>1 DEF HostLoads, CreatesFile, FillsItem, HostExits
<1>2. CASE Unregisters
  BY <1>2 DEF Unregisters, MapNext
<1>3. CASE UserLoads \/ SetsPolicy \/ OpensUnready
  BY <1>3 DEF UserLoads, SetsPolicy, OpensUnready
<1>4. CASE RemoveGoesOn
  BY <1>4 DEF RemoveGoesOn, MapNext
<1>5. ASSUME NEW d \in Cards, Probe(d) \/ Remove(d)
      PROVE  MapNext
  BY <1>5 DEF Probe, Remove, MapNext, ProbeCard
<1>6. ASSUME NEW c \in Callers, Calling(c)
      PROVE  UNCHANGED mapVars
  BY <1>6, CallsLeaveMap
<1> QED BY <1>1, <1>2, <1>3, <1>4, <1>5, <1>6 DEF HostNext, Host

LEMMA ClientsNextIsMap ==
  ASSUME ClientsNext
  PROVE  [MapNext]_mapVars
BY NetIsMap, HostIsMap DEF ClientsNext

-----------------------------------------------------------------------------
(* What may happen to an interface *)

LEMMA InterfaceTypes ==
  ASSUME NEW r \in Interfaces
  PROVE  /\ \A b \in BOOLEAN : /\ [r EXCEPT !.up = b] \in Interfaces
                               /\ [r EXCEPT !.napi = b] \in Interfaces
         /\ [r EXCEPT !.lock = "kept"] \in Interfaces
         /\ [r EXCEPT !.asked = TRUE, !.told = r.mem] \in Interfaces
         /\ [r EXCEPT !.answer = FALSE, !.checked = TRUE] \in Interfaces
         /\ Closed(r) \in Interfaces
         /\ Unregistered(r) \in Interfaces
         /\ [Unregistered(r) EXCEPT !.irq = FALSE] \in Interfaces
BY DEF Interfaces, Closed, Unregistered

\* Causes only add up.
LEMMA RightStays ==
  ASSUME NEW r \in Interfaces, NEW why, NEW more, Right(r, why), why \subseteq more
  PROVE  Right(r, more)
BY DEF Right, Consistent

\* A card that refuses a mailbox.
LEMMA RightKept ==
  ASSUME NEW r \in Interfaces, NEW why, Right(r, why), "refused" \in why
  PROVE  Right([r EXCEPT !.lock = "kept"], why)
BY DEF Interfaces, Right, Consistent, Agreed, Opening

\* The interface is opened before the card has answered: it is told ...
LEMMA RightTold ==
  ASSUME NEW r \in Interfaces, NEW why, Right(r, why), r.registered, ~r.up, ~r.checked
  PROVE  /\ Right([[r EXCEPT !.asked = TRUE, !.told = r.mem] EXCEPT !.up = TRUE], why)
         /\ Right([r EXCEPT !.asked = TRUE, !.told = r.mem], why \cup {"halfopen"})
BY DEF Interfaces, Right, Consistent, Agreed, Opening

\* ... or after.
LEMMA RightOpened ==
  ASSUME NEW r \in Interfaces, NEW why, Right(r, why), r.registered, r.checked, r.mem = "live"
  PROVE  Right([[r EXCEPT !.up = TRUE] EXCEPT !.napi = TRUE], why)
BY DEF Interfaces, Right, Consistent, Agreed, Opening

LEMMA RightAnswered ==
  ASSUME NEW r \in Interfaces, NEW why, Right(r, why), r.registered, r.answer, ~r.checked,
         r.mem = "live"
  PROVE  Right([[r EXCEPT !.answer = FALSE, !.checked = TRUE] EXCEPT !.napi = TRUE], why)
BY DEF Interfaces, Right, Consistent, Agreed, Opening

LEMMA RightClosed ==
  ASSUME NEW r \in Interfaces, NEW why, Right(r, why), r.napi
  PROVE  Right(Closed(r), why)
BY DEF Interfaces, Right, Consistent, Agreed, Opening, Closed

LEMMA RightTaken ==
  ASSUME NEW r \in Interfaces, NEW why, Right(r, why), r.asked
  PROVE  LET s == [r EXCEPT !.asked = FALSE, !.answer = TRUE, !.knows = r.told] IN
         /\ s \in Interfaces
         /\ r.told # "none" => Right(s, why)
         /\ Right(s, why \cup {"early"})
<1>1. [r EXCEPT !.asked = FALSE, !.answer = TRUE, !.knows = r.told] \in Interfaces
  BY DEF Interfaces
<1>2. r.told # "none" => Right([r EXCEPT !.asked = FALSE, !.answer = TRUE, !.knows = r.told], why)
  BY DEF Interfaces, Right, Consistent, Agreed, Opening
<1>3. Right([r EXCEPT !.asked = FALSE, !.answer = TRUE, !.knows = r.told], why \cup {"early"})
  BY DEF Interfaces, Right, Consistent, Agreed, Opening
<1> QED BY <1>1, <1>2, <1>3

\* A new interface keeps what the card and the kernel have.
LEMMA RightNew ==
  ASSUME NEW r \in Interfaces, NEW why, Right(r, why), ~r.registered
  PROVE  LET s == [NoNet EXCEPT !.registered = TRUE, !.priv = "live", !.irq = r.irq,
                     !.asked = r.asked, !.told = r.told, !.answer = r.answer, !.knows = r.knows] IN
         s \in Interfaces /\ Right(s, why)
BY DEF Interfaces, NoNet, Memories, Right, Consistent, Agreed, Opening

LEMMA RightNotMade ==
  ASSUME NEW r \in Interfaces, NEW why, Right(r, why), NEW p \in {"null", "old"}
  PROVE  [r EXCEPT !.priv = p] \in Interfaces /\ Right([r EXCEPT !.priv = p], why)
BY DEF Interfaces, Right, Consistent, Agreed, Opening

\* Who waited for an answer is unregistered: the answer will be to an earlier load.
LEMMA RightUnregistered ==
  ASSUME NEW r \in Interfaces, NEW why, Right(r, why), r.up => r.napi,
         r.asked \/ r.answer => "stale" \in why
  PROVE  /\ Right(Unregistered(r), why)
         /\ Right([Unregistered(r) EXCEPT !.irq = FALSE], why)
BY DEF Interfaces, Right, Consistent, Agreed, Opening, Unregistered

LEMMA RightGranted ==
  ASSUME NEW r \in Interfaces, NEW why, Right(r, why)
  PROVE  LET s == [r EXCEPT !.irq = TRUE, !.lock = "free"] IN s \in Interfaces /\ Right(s, why)
BY DEF Interfaces, Right, Consistent, Agreed, Opening

LEMMA RightLent ==
  ASSUME NEW r \in Interfaces, NEW why, Right(r, why), r.mem = "none"
  PROVE  LET s == [r EXCEPT !.mem = "live"] IN s \in Interfaces /\ Right(s, why)
BY DEF Interfaces, Memories, Right, Consistent, Agreed, Opening

LEMMA RightFreed ==
  ASSUME NEW r \in Interfaces, NEW why, Right(r, why)
  PROVE  LET s == [r EXCEPT !.mem = Freed(@), !.told = Freed(@), !.knows = Freed(@)] IN
         s \in Interfaces /\ Right(s, why \cup {"exit"})
<1> DEFINE s == [r EXCEPT !.mem = Freed(@), !.told = Freed(@), !.knows = Freed(@)]
<1>1. s = [r EXCEPT !.mem = Freed(r.mem), !.told = Freed(r.told), !.knows = Freed(r.knows)]
  BY DEF Interfaces
<1>2. \A m \in Memories : Freed(m) \in Memories /\ (Freed(m) = "none" <=> m = "none")
  BY DEF Memories, Freed
<1>3. s \in Interfaces
  BY <1>1, <1>2 DEF Interfaces
<1>4. /\ s.mem = Freed(r.mem) /\ s.told = Freed(r.told) /\ s.knows = Freed(r.knows)
      /\ s.up = r.up /\ s.napi = r.napi /\ s.priv = r.priv /\ s.registered = r.registered
      /\ s.checked = r.checked /\ s.lock = r.lock /\ s.asked = r.asked /\ s.answer = r.answer
  BY <1>1 DEF Interfaces
<1>5. Consistent(s, why \cup {"exit"})
  BY <1>2, <1>4 DEF Right, Consistent, Interfaces
<1>6. why \cap {"early", "stale"} = {} => Agreed(s)
  BY <1>2, <1>4 DEF Right, Agreed, Interfaces
<1>7. "halfopen" \notin why => Opening(s)
  BY <1>4 DEF Right, Opening
<1>8. Right(s, why \cup {"exit"})
  <2> HIDE DEF s
  <2> QED BY <1>5, <1>6, <1>7 DEF Right
<1> QED BY <1>3, <1>8

LEMMA RightUnplugged ==
  ASSUME NEW r \in Interfaces, NEW why, Right(r, why), NEW b \in BOOLEAN,
         NEW p \in {r.priv, "null"}
  PROVE  LET s == [r EXCEPT !.irq = b, !.priv = p] IN s \in Interfaces /\ Right(s, why)
BY DEF Interfaces, Right, Consistent, Agreed, Opening

-----------------------------------------------------------------------------
(* The steps of users, card and interrupt *)

\* A use of what is not there changes nothing else, and has its cause.
Justified(how) ==
  \/ cause \cap NetCauses[how] # {}
  \/ how = "hang" /\ \E d \in Cards : net[d].up /\ ~net[d].checked
Stopped ==
  UNCHANGED <<clients, mapVars, hostVars, call, cause, used, netVars>> /\ Justified(bad')

\* What is sent to the card, or not; the mailbox lock may be kept.
Sends(d, after, npc1, why) ==
  /\ npc' = npc1 /\ NetOnly /\ cause \cup why \subseteq cause'
  /\ \/ net' = [net EXCEPT ![d] = after]
     \/ net' = [net EXCEPT ![d] = [after EXCEPT !.lock = "kept"]] /\ "refused" \in cause'

LEMMA BreakIsJustified ==
  /\ \A how : NetBreaks(how) /\ Justified(how) => Stopped
  /\ ~Plugged => Justified("freed") /\ Justified("null") /\ Justified("twice") /\ Justified("code")
  /\ "initfailed" \in cause => Justified("freed")
  /\ "refused" \in cause => Justified("spin")
  /\ "exit" \in cause => Justified("memory")
  /\ "halfopen" \in cause => Justified("bug")
  /\ cause \cap {"early", "stale"} # {} => Justified("null")
<1>1. \A how : NetBreaks(how) /\ Justified(how) => Stopped
  BY DEF NetBreaks, Breaks, Stopped
<1> QED BY <1>1 DEF Justified, NetCauses, Plugged

LEMMA RegisteredReachable ==
  ASSUME MapInv, NetInv, Plugged, NEW d \in Cards, net[d].registered
  PROVE  Reachable(d)
<1>1. core.pc = "idle" /\ net[d].priv = "live" /\ bound[d] = "bound"
  BY DEF NetInv, InPlace
<1>2. has[d] = All
  BY <1>1, Settled
<1> QED BY <1>1, <1>2, StepParts DEF Reachable, Bars

LEMMA MailsEffect ==
  ASSUME MapInv, NetInv, NEW d \in Cards, net[d].registered,
         NEW after, NEW npc1, NEW why, Mails(d, after, npc1, why)
  PROVE  Stopped \/ Sends(d, after, npc1, why)
<1>1. CASE ~Reachable(d)
  <2>1. ~Plugged
    BY <1>1, RegisteredReachable
  <2>2. NetBreaks("freed")
    BY <1>1 DEF Mails
  <2> QED BY <2>1, <2>2, BreakIsJustified
<1>2. CASE Unsent(d, after, npc1, why)
  BY <1>2 DEF Unsent, Sends
<1>3. CASE net[d].lock = "kept" /\ NetBreaks("spin")
  <2>1. "refused" \in cause
    BY <1>3 DEF NetInv, Right, Consistent
  <2> QED BY <1>3, <2>1, BreakIsJustified
<1>4. CASE /\ cause' = cause \cup why \cup {"refused"}
           /\ net' = [net EXCEPT ![d] = [after EXCEPT !.lock = "kept"]] /\ npc' = npc1
           /\ NetOnly
  BY <1>4 DEF Sends
<1> QED BY <1>1, <1>2, <1>3, <1>4 DEF Mails

LEMMA RaisesEffect ==
  ASSUME MapInv, NetInv, NEW d \in Cards, net[d].registered,
         NEW after, NEW npc1, NEW why, Raises(d, after, npc1, why)
  PROVE  Stopped \/ Sends(d, after, npc1, why)
<1>1. CASE Unsent(d, after, npc1, why)
  BY <1>1 DEF Unsent, Sends
<1>2. CASE Mails(d, after, npc1, why)
  BY <1>2, MailsEffect
<1> QED BY <1>1, <1>2 DEF Raises

\* One interface changes, as it may.
LEMMA OneChanges ==
  ASSUME NetInv, NEW d \in Cards, NEW after \in Interfaces, NEW npc1, NEW why,
         Right(after, cause \cup why), Sends(d, after, npc1, why)
  PROVE  \E b \in {after, [after EXCEPT !.lock = "kept"]} :
           /\ b \in Interfaces /\ net' = [net EXCEPT ![d] = b] /\ net' \in [Cards -> Interfaces]
           /\ \A e \in Cards : Right(net'[e], cause')
<1>1. PICK b \in {after, [after EXCEPT !.lock = "kept"]} :
        net' = [net EXCEPT ![d] = b] /\ (b = after \/ "refused" \in cause')
  BY DEF Sends
<1>2. cause \subseteq cause' /\ cause \cup why \subseteq cause'
  BY DEF Sends
<1>3. Right(after, cause')
  BY <1>2, RightStays
<1>4. b \in Interfaces
  BY <1>1, InterfaceTypes
<1>5. Right(b, cause')
  BY <1>1, <1>3, RightKept
<1>6. net \in [Cards -> Interfaces]
  BY DEF NetInv, NetType
<1>7. net' \in [Cards -> Interfaces]
  BY <1>1, <1>4, <1>6
<1>8. ASSUME NEW e \in Cards PROVE Right(net'[e], cause')
  <2>1. CASE e = d
    BY <2>1, <1>1, <1>5, <1>6
  <2>2. CASE e # d
    <3>1. net'[e] = net[e] /\ net[e] \in Interfaces /\ Right(net[e], cause)
      BY <2>2, <1>1, <1>6 DEF NetInv
    <3> QED BY <3>1, <1>2, RightStays
  <2> QED BY <2>1, <2>2
<1> QED BY <1>1, <1>4, <1>7, <1>8

\* What the module's init and exit go by.
SameFace(r, s) ==
  s.registered = r.registered /\ s.priv = r.priv /\ s.irq = r.irq /\ s.mem = r.mem

LEMMA FaceKept ==
  ASSUME MapInv, NetInv, net' \in [Cards -> Interfaces], \A e \in Cards : Right(net'[e], cause'),
         \A e \in Cards : SameFace(net[e], net'[e]),
         npc' = npc, UNCHANGED mapVars, module' = module, cause \subseteq cause'
  PROVE  NetInv'
<1> USE DEF NetInv
<1>1. NetType'
  BY DEF NetType
<1>2. Current' /\ module'.pc = "up"
  BY DEF Current, NetType, SameFace, n0
<1>3. ASSUME Plugged' PROVE InPlace'
  <2>1. Plugged
    BY <1>3 DEF Plugged
  <2>2. \A i \in 0..(number - 1) : map[i] \in Cards
    BY <2>1, Settled DEF InPlace
  <2>3. \A i \in 0..(number - 1) : Served(i)' <=> Served(i)
    BY DEF Served
  <2> QED BY <2>1, <2>2, <2>3 DEF InPlace, SameFace, mapVars, n0
<1>4. ASSUME (cause \cap {"unplugged", "initfailed"} = {})' PROVE Whole'
  <2>1. cause \cap {"unplugged", "initfailed"} = {} /\ Plugged
    BY <1>4 DEF Plugged
  <2>2. \A i \in 0..(number - 1) : map[i] \in Cards
    BY <2>1, Settled DEF InPlace
  <2>3. \A i \in 0..(number - 1) : Served(i)' <=> Served(i)
    BY DEF Served
  <2> QED BY <2>1, <2>2, <2>3 DEF Whole, SameFace, mapVars
<1> QED BY <1>1, <1>2, <1>3, <1>4

LEMMA TouchedStep ==
  ASSUME MapInv, NetInv, NEW d \in Cards, NEW after \in Interfaces, NEW why,
         Right(after, cause \cup why), SameFace(net[d], after), Sends(d, after, npc, why)
  PROVE  NetInv' /\ Quiet
<1>1. PICK b \in {after, [after EXCEPT !.lock = "kept"]} :
           /\ b \in Interfaces /\ net' = [net EXCEPT ![d] = b] /\ net' \in [Cards -> Interfaces]
           /\ \A e \in Cards : Right(net'[e], cause')
  BY OneChanges
<1>2. SameFace(net[d], b)
  BY <1>1 DEF SameFace, Interfaces
<1>3. net \in [Cards -> Interfaces]
  BY DEF NetInv, NetType
<1>4. ASSUME NEW e \in Cards PROVE SameFace(net[e], net'[e])
  BY <1>1, <1>2, <1>3 DEF SameFace
<1>5. npc' = npc /\ UNCHANGED mapVars /\ module' = module /\ cause \subseteq cause' /\ Quiet
  BY DEF Sends, NetOnly, hostVars
<1> QED BY <1>1, <1>4, <1>5, FaceKept

LEMMA OpensStep ==
  ASSUME MapInv, NetInv, NEW d \in Cards, net[d].registered, NEW after \in Interfaces,
         Opens(d, after), SameFace(net[d], after),
         after.mem = "live" => Right([after EXCEPT !.napi = TRUE], cause),
         after.mem = "none" => Justified("null"),
         after.napi => Justified("bug")
  PROVE  Stopped \/ (NetInv' /\ Quiet)
<1>1. Right(net[d], cause)
  BY DEF NetInv
<1>2. after.mem \in Memories /\ after.mem = net[d].mem
  BY DEF Interfaces, SameFace
<1>3. CASE after.mem = "none"
  BY <1>3, BreakIsJustified DEF Opens, SetsUp
<1>4. CASE after.mem = "old"
  <2>1. Justified("memory")
    BY <1>1, <1>2, <1>4, BreakIsJustified DEF Right, Consistent
  <2>2. NetBreaks("memory")
    BY <1>4 DEF Opens, SetsUp
  <2> QED BY <2>1, <2>2, BreakIsJustified
<1>5. CASE after.mem = "live"
  <2>1. SetsUp(after) = "no"
    BY <1>5 DEF SetsUp
  <2>2. CASE after.napi
    BY <2>1, <2>2, BreakIsJustified DEF Opens
  <2>3. CASE ~after.napi
    <3> DEFINE open == [after EXCEPT !.napi = TRUE]
    <3>1. Raises(d, open, npc, {})
      BY <2>1, <2>3 DEF Opens
    <3>2. open \in Interfaces /\ SameFace(net[d], open)
      BY DEF Interfaces, SameFace
    <3>3. Right(open, cause \cup {})
      BY <1>5
    <3> HIDE DEF open
    <3>4. Stopped \/ Sends(d, open, npc, {})
      BY <3>1, RaisesEffect
    <3> QED BY <3>2, <3>3, <3>4, TouchedStep
  <2> QED BY <2>2, <2>3
<1> QED BY <1>2, <1>3, <1>4, <1>5 DEF Memories

\* A module that is not loaded has no interfaces.
LEMMA OutMeansNone ==
  ASSUME MapInv, NetInv, Plugged, npc.pc = "out", NEW d \in Cards
  PROVE  ~net[d].registered
<1> SUFFICES ASSUME net[d].registered PROVE FALSE
  OBVIOUS
<1>1. core.pc = "idle" /\ bound[d] = "bound"
  BY DEF NetInv, InPlace
<1>2. PICK i \in 0..(number - 1) : map[i] = d
  BY <1>1, Settled
<1> QED BY <1>2 DEF NetInv, InPlace, Served

LEMMA TellsStep ==
  ASSUME MapInv, NetInv, NEW d \in Cards, net[d].registered, ~net[d].up, ~net[d].checked, Tells(d)
  PROVE  Stopped \/ (NetInv' /\ Quiet)
<1> DEFINE r == net[d]
           told == [r EXCEPT !.asked = TRUE, !.told = r.mem]
           up == [told EXCEPT !.up = TRUE]
<1>1. r \in Interfaces /\ Right(r, cause)
  BY DEF NetInv, NetType
<1>2. told \in Interfaces /\ up \in Interfaces
  BY <1>1, InterfaceTypes
<1>3. Right(up, cause \cup {}) /\ Right(told, cause \cup {"halfopen"})
  BY <1>1, RightTold
<1>4. SameFace(r, told) /\ SameFace(r, up)
  BY <1>1 DEF SameFace, Interfaces
<1>5. Mails(d, up, npc, {}) \/ Sends(d, told, npc, {"halfopen"})
  BY DEF Tells, Sends, Because
<1> HIDE DEF told, up
<1>6. CASE Mails(d, up, npc, {})
  BY <1>2, <1>3, <1>4, <1>6, MailsEffect, TouchedStep
<1>7. CASE Sends(d, told, npc, {"halfopen"})
  BY <1>2, <1>3, <1>4, <1>7, TouchedStep
<1> QED BY <1>5, <1>6, <1>7

LEMMA IfUpStep ==
  ASSUME MapInv, NetInv, NEW d \in Cards, IfUp(d)
  PROVE  Stopped \/ (NetInv' /\ Quiet)
<1> DEFINE up == [net[d] EXCEPT !.up = TRUE]
<1>1. net[d] \in Interfaces /\ Right(net[d], cause) /\ net[d].registered /\ ~net[d].up
  BY DEF NetInv, NetType, IfUp
<1>2. CASE npc.pc = "out"
  <2>1. ~Plugged
    BY <1>1, <1>2, OutMeansNone
  <2> QED BY <1>2, <2>1, BreakIsJustified DEF IfUp
<1>3. CASE npc.pc # "out" /\ ~net[d].checked
  BY <1>1, <1>3, TellsStep DEF IfUp
<1>4. CASE npc.pc # "out" /\ net[d].checked
  <2>1. Opens(d, up)
    BY <1>4 DEF IfUp
  <2>2. up \in Interfaces
    BY <1>1, InterfaceTypes
  <2>3. up.mem = net[d].mem /\ up.napi = net[d].napi /\ SameFace(net[d], up)
    BY <1>1 DEF Interfaces, SameFace
  <2>4. up.mem = "live" => Right([up EXCEPT !.napi = TRUE], cause)
    BY <1>1, <1>4, <2>3, RightOpened
  <2>5. up.mem # "none"
    BY <1>1, <1>4, <2>3 DEF Right, Consistent
  <2>6. up.napi => Justified("bug")
    BY <1>1, <2>3, BreakIsJustified DEF Right, Opening
  <2> HIDE DEF up
  <2> QED BY <1>1, <2>1, <2>2, <2>3, <2>4, <2>5, <2>6, OpensStep
<1> QED BY <1>2, <1>3, <1>4

\* A close: it waits for ever only for a card that has not answered.
LEMMA ClosesEffect ==
  ASSUME MapInv, NetInv, NEW d \in Cards, net[d].registered, net[d].up,
         NEW after, NEW npc1, NEW why, Closes(d, after, npc1, why)
  PROVE  Stopped \/ (net[d].napi /\ Sends(d, after, npc1, why))
<1>1. Right(net[d], cause) /\ net[d] \in Interfaces
  BY DEF NetInv, NetType
<1>2. CASE ~net[d].napi
  <2>1. Justified("hang")
    BY <1>1, <1>2 DEF Justified, Right, Consistent
  <2> QED BY <1>2, <2>1, BreakIsJustified DEF Closes
<1>3. CASE net[d].napi /\ net[d].mem # "live" /\ NetBreaks("memory")
  <2>1. Justified("memory")
    BY <1>1, <1>3, BreakIsJustified DEF Right, Consistent, Interfaces, Memories
  <2> QED BY <1>3, <2>1, BreakIsJustified
<1>4. CASE net[d].napi /\ Raises(d, after, npc1, why)
  BY <1>4, RaisesEffect
<1> QED BY <1>2, <1>3, <1>4 DEF Closes

LEMMA IfDownStep ==
  ASSUME MapInv, NetInv, NEW d \in Cards, IfDown(d)
  PROVE  Stopped \/ (NetInv' /\ Quiet)
<1> DEFINE down == Closed(net[d])
<1>1. net[d] \in Interfaces /\ Right(net[d], cause) /\ net[d].registered /\ net[d].up
  BY DEF NetInv, NetType, IfDown
<1>2. CASE npc.pc = "out"
  <2>1. ~Plugged
    BY <1>1, <1>2, OutMeansNone
  <2> QED BY <1>2, <2>1, BreakIsJustified DEF IfDown
<1>3. CASE npc.pc # "out"
  <2>1. Closes(d, down, npc, {})
    BY <1>3 DEF IfDown
  <2>2. down \in Interfaces /\ SameFace(net[d], down)
    <3>1. down \in Interfaces
      BY <1>1, InterfaceTypes
    <3>2. SameFace(net[d], down)
      BY <1>1 DEF Closed, SameFace, Interfaces
    <3> QED BY <3>1, <3>2
  <2>3. net[d].napi => Right(down, cause \cup {})
    BY <1>1, RightClosed
  <2> HIDE DEF down
  <2> QED BY <1>1, <2>1, <2>2, <2>3, ClosesEffect, TouchedStep
<1> QED BY <1>2, <1>3

LEMMA CarriesStep ==
  ASSUME MapInv, NetInv, NEW d \in Cards, Carries(d)
  PROVE  Stopped \/ (NetInv' /\ Quiet)
<1>1. /\ net[d] \in Interfaces /\ Right(net[d], cause)
      /\ net[d].registered /\ net[d].up /\ net[d].checked
  BY DEF NetInv, NetType, Carries
<1>2. CASE npc.pc = "out"
  <2>1. ~Plugged
    BY <1>1, <1>2, OutMeansNone
  <2> QED BY <1>2, <2>1, BreakIsJustified DEF Carries
<1>3. CASE npc.pc # "out" /\ net[d].mem # "live"
  <2>1. Justified("memory")
    BY <1>1, <1>3, BreakIsJustified DEF Right, Consistent, Interfaces, Memories
  <2> QED BY <1>3, <2>1, BreakIsJustified DEF Carries
<1>4. CASE npc.pc # "out" /\ net[d].mem = "live"
  <2>1. Raises(d, net[d], npc, {})
    BY <1>4 DEF Carries
  <2>2. SameFace(net[d], net[d]) /\ Right(net[d], cause \cup {})
    BY <1>1 DEF SameFace
  <2> QED BY <1>1, <2>1, <2>2, RaisesEffect, TouchedStep
<1> QED BY <1>2, <1>3, <1>4

LEMMA CardTakesUpStep ==
  ASSUME MapInv, NetInv, NEW d \in Cards, CardTakesUp(d)
  PROVE  NetInv' /\ Quiet
<1> DEFINE accepted == [net[d] EXCEPT !.asked = FALSE, !.answer = TRUE, !.knows = net[d].told]
           why == IF net[d].told = "none" THEN {"early"} ELSE {}
<1>1. net[d] \in Interfaces /\ Right(net[d], cause) /\ net[d].asked
  BY DEF NetInv, NetType, CardTakesUp
<1>2. accepted \in Interfaces /\ Right(accepted, cause \cup why)
  BY <1>1, RightTaken
<1>3. SameFace(net[d], accepted)
  BY <1>1 DEF SameFace, Interfaces
<1>4. net' = [net EXCEPT ![d] = accepted]
  BY <1>1 DEF CardTakesUp, NetInv, NetType
<1>5. cause' = cause \cup why /\ npc' = npc /\ NetOnly
  BY DEF CardTakesUp
<1>6. Sends(d, accepted, npc, why)
  BY <1>4, <1>5 DEF Sends
<1> HIDE DEF accepted, why
<1> QED BY <1>2, <1>3, <1>6, TouchedStep

LEMMA NetIrqStep ==
  ASSUME MapInv, NetInv, NEW d \in Cards, NetIrq(d)
  PROVE  Stopped \/ (NetInv' /\ Quiet)
<1> DEFINE step1 == [net[d] EXCEPT !.answer = FALSE, !.checked = TRUE]
<1>1. net[d] \in Interfaces /\ Right(net[d], cause) /\ net[d].irq
  BY DEF NetInv, NetType, NetIrq
<1>2. CASE ~net[d].registered
  <2>1. Justified("freed")
    BY <1>1, <1>2, BreakIsJustified DEF NetInv, Whole, Plugged
  <2> QED BY <1>2, <2>1, BreakIsJustified DEF NetIrq
<1>3. CASE net[d].registered /\ npc.pc = "out"
  <2>1. ~Plugged
    BY <1>3, OutMeansNone
  <2> QED BY <1>3, <2>1, BreakIsJustified DEF NetIrq
<1>4. CASE net[d].registered /\ npc.pc # "out" /\ ~net[d].checked
  <2>1. CASE ~Reachable(d)
    <3>1. ~Plugged
      BY <1>4, <2>1, RegisteredReachable
    <3> QED BY <1>4, <2>1, <3>1, BreakIsJustified DEF NetIrq
  <2>2. CASE net[d].answer /\ Opens(d, step1)
    <3>1. step1 \in Interfaces
      BY <1>1, InterfaceTypes
    <3>2. step1.mem = net[d].mem /\ step1.napi = net[d].napi /\ SameFace(net[d], step1)
      BY <1>1 DEF Interfaces, SameFace
    <3>3. step1.mem = "live" => Right([step1 EXCEPT !.napi = TRUE], cause)
      BY <1>1, <1>4, <2>2, <3>2, RightAnswered
    <3>4. step1.mem = "none" => Justified("null")
      BY <1>1, <2>2, <3>2, BreakIsJustified DEF Right, Agreed
    <3>5. ~step1.napi
      BY <1>1, <1>4, <3>2 DEF Right, Consistent
    <3> HIDE DEF step1
    <3> QED BY <1>4, <2>2, <3>1, <3>2, <3>3, <3>4, <3>5, OpensStep
  <2> QED BY <1>4, <2>1, <2>2 DEF NetIrq, Answered, Step1
<1>5. CASE net[d].registered /\ npc.pc # "out" /\ net[d].checked
  <2>1. net[d].mem # "live" /\ NetBreaks("memory")
    BY <1>5 DEF NetIrq
  <2>2. Justified("memory")
    BY <1>1, <1>5, <2>1, BreakIsJustified DEF Right, Consistent, Interfaces, Memories
  <2> QED BY <2>1, <2>2, BreakIsJustified
<1> QED BY <1>2, <1>3, <1>4, <1>5

-----------------------------------------------------------------------------
(* The steps of the module *)

\* Where the module's loops are, with nothing else changed.
LEMMA LoopSteps ==
  ASSUME MapInv, NetInv, NetLoads \/ NetInitEnds \/ NetExits \/ NetExitEnds
  PROVE  NetInv' /\ Quiet
<1> USE DEF NetInv
<1>1. UNCHANGED <<net, cause, mapVars, module>> /\ Quiet
  BY DEF NetLoads, NetInitEnds, NetExits, NetExitEnds, NetOnly, hostVars
<1>2. /\ npc' \in [pc : NetPcs, i : Nat, card : Cards \cup {None}]
      /\ npc'.pc \in {"out", "init", "up", "exit"}
  BY DEF NetLoads, NetInitEnds, NetExits, NetExitEnds, NetGoes, NetType, NetPcs
<1>3. NetType' /\ Current' /\ module'.pc = "up" /\ \A d \in Cards : Right(net'[d], cause')
  BY <1>1, <1>2 DEF NetType, Current
<1>4. ASSUME Plugged, NEW i \in 0..(number - 1), net[map[i]].registered
      PROVE  Served(i)'
  <2>1. map[i] \in Cards /\ npc.pc # "out" /\ Served(i)
    BY <1>4, Settled, OutMeansNone DEF InPlace
  <2>2. CASE NetLoads
    BY <2>1, <2>2 DEF NetLoads
  <2>3. CASE NetInitEnds
    BY <2>3 DEF NetInitEnds, NetGoes, NetType, Served
  <2>4. CASE NetExits
    BY <2>4 DEF NetExits, Served
  <2>5. CASE NetExitEnds
    BY <2>1, <2>5, <1>4 DEF NetExitEnds, NetType, Served, MapInv, MapType
  <2> QED BY <2>2, <2>3, <2>4, <2>5
<1>5. ASSUME Whole, NEW i \in 0..(number - 1), net[map[i]].priv = "old"
      PROVE  ~Served(i)'
  <2>1. ~Served(i) /\ i \in Nat /\ number \in Nat /\ npc.i \in Nat /\ i < number
    BY <1>5 DEF Whole, MapInv, MapType, NetType
  <2>2. CASE NetLoads
    BY <2>2 DEF NetLoads, Served
  <2>3. CASE NetInitEnds
    BY <2>1, <2>3 DEF NetInitEnds, Served
  <2>4. CASE NetExits
    BY <2>1, <2>4 DEF NetExits, Served
  <2>5. CASE NetExitEnds
    BY <2>5 DEF NetExitEnds, NetGoes, NetType, Served
  <2> QED BY <2>2, <2>3, <2>4, <2>5
<1>6. Plugged' => InPlace'
  BY <1>1, <1>2, <1>4 DEF InPlace, Plugged, mapVars, n0
<1>7. (cause \cap {"unplugged", "initfailed"} = {} => Whole)'
  BY <1>1, <1>5 DEF Whole, mapVars
<1> QED BY <1>1, <1>3, <1>6, <1>7

\* The records in the map, as the module's loops see them.
LEMMA SettledPlaces ==
  ASSUME MapInv, NetInv, Plugged
  PROVE  /\ core.pc = "idle" /\ number \in Nat /\ npc.i \in Nat
         /\ \A i \in 0..(number - 1) : map[i] \in Cards /\ bound[map[i]] = "bound"
         /\ \A i, j \in 0..(number - 1) : map[i] = map[j] => i = j
<1>1. core.pc = "idle" /\ number \in Nat /\ npc.i \in Nat
  BY DEF NetInv, InPlace, NetType, MapInv, MapType
<1> QED BY <1>1, Settled

\* A step of a loop that changes one interface.
LEMMA LoopChanges ==
  ASSUME MapInv, NetInv, NEW d \in Cards, NEW b \in Interfaces, net' = [net EXCEPT ![d] = b],
         Right(b, cause'), cause \subseteq cause', UNCHANGED mapVars, module' = module,
         npc' \in [pc : NetPcs, i : Nat, card : Cards \cup {None}], Current',
         Plugged /\ Plugged' /\ InPlace => InPlace',
         Plugged /\ InPlace /\ Whole /\ (cause \cap {"unplugged", "initfailed"} = {})' => Whole'
  PROVE  NetInv'
<1> USE DEF NetInv
<1>1. net \in [Cards -> Interfaces]
  BY DEF NetType
<1>2. NetType'
  BY <1>1 DEF NetType
<1>3. ASSUME NEW e \in Cards PROVE Right(net'[e], cause')
  <2>1. CASE e = d
    BY <2>1, <1>1
  <2>2. CASE e # d
    <3>1. net'[e] = net[e] /\ net[e] \in Interfaces /\ Right(net[e], cause)
      BY <2>2, <1>1
    <3> QED BY <3>1, RightStays
  <2> QED BY <2>1, <2>2
<1>4. Plugged' => Plugged
  BY DEF Plugged
<1>5. (cause \cap {"unplugged", "initfailed"} = {})'
        => cause \cap {"unplugged", "initfailed"} = {} /\ Plugged
  BY DEF Plugged
<1> QED BY <1>2, <1>3, <1>4, <1>5

LEMMA InitMakes ==
  ASSUME MapInv, NetInv, npc.pc = "init", npc.i < number, NEW d \in Cards, map[npc.i] = d,
         ~net[d].registered,
         npc' = [npc EXCEPT !.pc = "irq", !.card = d],
         net' = [net EXCEPT ![d] =
                        [NoNet EXCEPT !.registered = TRUE, !.priv = "live", !.irq = net[d].irq,
                           !.asked = net[d].asked, !.told = net[d].told,
                           !.answer = net[d].answer, !.knows = net[d].knows]],
         UNCHANGED <<cause, used>>, NetOnly
  PROVE  NetInv' /\ Quiet
<1> DEFINE b == [NoNet EXCEPT !.registered = TRUE, !.priv = "live", !.irq = net[d].irq,
                           !.asked = net[d].asked, !.told = net[d].told,
                           !.answer = net[d].answer, !.knows = net[d].knows]
<1>1. net \in [Cards -> Interfaces] /\ net[d] \in Interfaces /\ Right(net[d], cause)
  BY DEF NetInv, NetType
<1>2. b \in Interfaces /\ Right(b, cause)
  BY <1>1, RightNew
<1>3. b.registered /\ b.priv = "live" /\ b.mem = "none"
  BY DEF NoNet
<1>4. net' = [net EXCEPT ![d] = b]
  OBVIOUS
<1> HIDE DEF b
<1>5. npc'.pc = "irq" /\ npc'.i = npc.i /\ npc'.card = d /\ npc.i \in Nat
  BY DEF NetInv, NetType
<1>6. npc' \in [pc : NetPcs, i : Nat, card : Cards \cup {None}]
  BY DEF NetInv, NetType, NetPcs
<1>7. Current'
  <2>1. net'[d] = b
    BY <1>1, <1>4
  <2> QED BY <2>1, <1>3, <1>5 DEF Current, n0
<1>8. UNCHANGED <<mapVars, module>> /\ Quiet
  BY DEF NetOnly, hostVars
<1>9. ASSUME Plugged, InPlace PROVE InPlace'
  <2>1. npc.i \in 0..(number - 1) /\ bound[d] = "bound"
    BY <1>5, <1>9, SettledPlaces
  <2>2. ASSUME NEW i \in 0..(number - 1), net'[map[i]].registered PROVE Served(i)'
    <3>1. CASE i = npc.i
      BY <3>1, <1>5 DEF Served
    <3>2. CASE i # npc.i
      <4>1. map[i] # d /\ map[i] \in Cards
        BY <3>2, <2>1, <1>9, SettledPlaces
      <4>2. net[map[i]].registered
        BY <4>1, <2>2, <1>1, <1>4
      <4> QED BY <4>2, <1>5, <1>9 DEF InPlace, Served
    <3> QED BY <3>1, <3>2
  <2> QED BY <1>1, <1>3, <1>4, <1>5, <1>8, <1>9, <2>1, <2>2 DEF InPlace, mapVars, n0
<1>10. ASSUME Plugged, InPlace, Whole PROVE Whole'
  <2>1. npc.i \in 0..(number - 1) /\ bound[d] = "bound"
    BY <1>5, <1>10, SettledPlaces
  <2>2. ASSUME NEW i \in 0..(number - 1), net'[map[i]].priv = "old" PROVE ~Served(i)'
    <3>1. map[i] \in Cards
      BY <1>10, SettledPlaces
    <3>2. map[i] # d /\ net[map[i]].priv = "old"
      BY <3>1, <2>2, <1>1, <1>3, <1>4
    <3>3. i # npc.i
      BY <3>2
    <3>4. ~Served(i)
      BY <1>10, <3>2 DEF Whole
    <3> QED BY <3>3, <3>4, <1>5 DEF Served
  <2> QED BY <1>1, <1>3, <1>4, <1>8, <1>10, <2>2 DEF Whole, mapVars
<1> QED BY <1>2, <1>4, <1>6, <1>7, <1>8, <1>9, <1>10, LoopChanges

\* What is told to the next card, and where its interface may be left.
NextPlace == [npc EXCEPT !.pc = IF npc.pc = "free" THEN "exit" ELSE "init",
                         !.i = @ + 1, !.card = None]

LEMMA NextPlaceIs ==
  ASSUME NetType
  PROVE  /\ NextPlace \in [pc : NetPcs, i : Nat, card : Cards \cup {None}]
         /\ NextPlace.pc = (IF npc.pc = "free" THEN "exit" ELSE "init")
         /\ NextPlace.i = npc.i + 1 /\ npc.i \in Nat
<1>1. npc.i \in Nat /\ npc.i + 1 \in Nat
  BY DEF NetType
<1>2. PICK j \in Nat : j = npc.i + 1
  BY <1>1
<1>3. NextPlace = [npc EXCEPT !.pc = IF npc.pc = "free" THEN "exit" ELSE "init",
                              !.i = j, !.card = None]
  BY <1>2 DEF NextPlace, NetType
<1> QED BY <1>1, <1>2, <1>3 DEF NetType, NetPcs

LEMMA InitFailsOne ==
  ASSUME MapInv, NetInv, npc.pc = "init", npc.i < number, NEW d \in Cards, map[npc.i] = d,
         ~net[d].registered, NetNextCard, Because("initfailed"),
         NEW left \in {"null", "old"}, net' = [net EXCEPT ![d].priv = left], NetOnly
  PROVE  NetInv' /\ Quiet
<1> DEFINE b == [net[d] EXCEPT !.priv = left]
<1>1. net \in [Cards -> Interfaces] /\ net[d] \in Interfaces /\ Right(net[d], cause)
  BY DEF NetInv, NetType
<1>2. b \in Interfaces /\ Right(b, cause) /\ b.registered = net[d].registered
  BY <1>1, RightNotMade DEF Interfaces
<1>3. net' = [net EXCEPT ![d] = b]
  BY <1>1
<1> HIDE DEF b
<1>4. npc' = NextPlace
  BY DEF NetNextCard, NextPlace
<1>5. npc' \in [pc : NetPcs, i : Nat, card : Cards \cup {None}] /\ npc'.pc = "init"
      /\ npc'.i = npc.i + 1 /\ npc.i \in Nat
  BY <1>4, NextPlaceIs DEF NetInv
<1>6. UNCHANGED <<mapVars, module>> /\ Quiet /\ cause \subseteq cause' /\ "initfailed" \in cause'
  BY DEF NetOnly, hostVars, Because
<1>7. Current' /\ Right(b, cause')
  BY <1>2, <1>5, <1>6, RightStays DEF Current
<1>8. ASSUME Plugged, InPlace PROVE InPlace'
  <2>1. ASSUME NEW i \in 0..(number - 1), net'[map[i]].registered PROVE Served(i)'
    <3>1. map[i] \in Cards
      BY <1>8, SettledPlaces
    <3>2. net[map[i]].registered /\ map[i] # d
      BY <3>1, <2>1, <1>1, <1>2, <1>3
    <3>3. Served(i) /\ i # npc.i
      BY <3>2, <1>8 DEF InPlace
    <3> QED BY <3>3, <1>5 DEF Served
  <2>2. \A e \in Cards : net'[e].registered => e # d /\ net'[e] = net[e]
    BY <1>1, <1>2, <1>3
  <2> QED BY <2>1, <2>2, <1>5, <1>6, <1>8 DEF InPlace, mapVars
<1> QED BY <1>2, <1>3, <1>5, <1>6, <1>7, <1>8, LoopChanges

LEMMA InitOneStep ==
  ASSUME MapInv, NetInv, InitOne
  PROVE  Stopped \/ (NetInv' /\ Quiet)
<1> DEFINE d == map[npc.i]
<1>1. npc.pc = "init" /\ npc.i < number /\ npc.i \in Nat /\ number \in 0..MaxDev
  BY DEF InitOne, NetInv, NetType, MapInv, MapType
<1>2. d \in Cards \cup {None}
  <2>1. npc.i \in Slots
    BY <1>1, MapAssumption DEF Slots
  <2> QED BY <2>1 DEF MapInv, MapType
<1>3. CASE d = None
  <2>1. ~Plugged
    BY <1>1, <1>3, SettledPlaces, MapAssumption
  <2>2. npc' = NextPlace /\ UNCHANGED <<net, cause, mapVars, module>> /\ Quiet
    BY <1>3 DEF InitOne, NetNextCard, NextPlace, NetOnly, hostVars
  <2>3. NetType' /\ npc'.pc = "init"
    BY <2>2, <1>1, NextPlaceIs DEF NetInv, NetType
  <2> QED BY <2>1, <2>2, <2>3 DEF NetInv, Current, Plugged
<1>4. CASE d # None /\ net[d].registered
  <2>1. ~Plugged
    BY <1>1, <1>2, <1>4, SettledPlaces DEF NetInv, InPlace, Served
  <2> QED BY <1>4, <2>1, BreakIsJustified DEF InitOne
<1>5. CASE d # None /\ ~net[d].registered
  BY <1>1, <1>2, <1>5, InitMakes, InitFailsOne DEF InitOne
<1> QED BY <1>2, <1>3, <1>4, <1>5

\* The interface of the step's card goes, and the loop goes on: with the next
\* card of init, which has failed for this one, or of exit.
LEMMA UnregistersOne ==
  ASSUME MapInv, NetInv, npc.pc \in {"irq", "mem", "free"}, net[n0].up => net[n0].napi,
         NEW after \in {Unregistered(net[n0]), [Unregistered(net[n0]) EXCEPT !.irq = FALSE]},
         NEW why, Unanswered(n0) \subseteq why, Sends(n0, after, NextPlace, why),
         npc.pc # "free" => "initfailed" \in why,
         npc.pc = "free" => ~after.irq /\ net[n0].mem # "live"
  PROVE  NetInv' /\ Quiet
<1>1. n0 \in Cards /\ net \in [Cards -> Interfaces] /\ net[n0] \in Interfaces /\ Right(net[n0], cause)
  BY DEF NetInv, NetType, Current
<1>2. after \in Interfaces
  BY <1>1, InterfaceTypes
<1>3. ~after.registered /\ after.priv = "old" /\ after.mem = net[n0].mem
  BY <1>1 DEF Unregistered, Interfaces
<1>4. Right(after, cause \cup why)
  <2>1. net[n0].asked \/ net[n0].answer => "stale" \in cause \cup why
    BY DEF Unanswered
  <2>2. Right(net[n0], cause \cup why)
    BY <1>1, RightStays
  <2> QED BY <1>1, <2>1, <2>2, RightUnregistered
<1>5. PICK b \in {after, [after EXCEPT !.lock = "kept"]} :
           /\ b \in Interfaces /\ net' = [net EXCEPT ![n0] = b] /\ net' \in [Cards -> Interfaces]
           /\ \A e \in Cards : Right(net'[e], cause')
  BY <1>1, <1>2, <1>4, OneChanges
<1>6. ~b.registered /\ b.priv = "old" /\ b.mem = net[n0].mem /\ b.irq = after.irq
  BY <1>2, <1>3, <1>5 DEF Interfaces
<1>7. /\ npc' = NextPlace /\ UNCHANGED <<mapVars, module>> /\ Quiet
      /\ cause \subseteq cause' /\ why \subseteq cause'
  BY DEF Sends, NetOnly, hostVars
<1>8. /\ npc' \in [pc : NetPcs, i : Nat, card : Cards \cup {None}]
      /\ npc'.pc = (IF npc.pc = "free" THEN "exit" ELSE "init")
      /\ npc'.i = npc.i + 1 /\ npc.i \in Nat
  BY <1>7, NextPlaceIs DEF NetInv
<1>9. Current'
  BY <1>8 DEF Current
<1>10. net'[n0] = b /\ Right(b, cause') /\ \A e \in Cards : e # n0 => net'[e] = net[e]
  <2>1. net'[n0] = b /\ \A e \in Cards : e # n0 => net'[e] = net[e]
    BY <1>1, <1>5
  <2>2. Right(net'[n0], cause')
    BY <1>1, <1>5
  <2> QED BY <2>1, <2>2
<1>11. ASSUME Plugged, InPlace PROVE InPlace'
  <2>1. ASSUME NEW i \in 0..(number - 1), net'[map[i]].registered PROVE Served(i)'
    <3>1. map[i] \in Cards /\ map[i] # n0
      BY <2>1, <1>6, <1>10, <1>11, SettledPlaces
    <3>2. Served(i) /\ i # npc.i
      BY <2>1, <3>1, <1>10, <1>11 DEF InPlace
    <3> QED BY <3>2, <1>8 DEF Served
  <2>2. \A e \in Cards : net'[e].registered => net'[e] = net[e]
    BY <1>6, <1>10
  <2> QED BY <2>1, <2>2, <1>7, <1>8, <1>11 DEF InPlace, mapVars
<1>12. ASSUME Plugged, InPlace, Whole, (cause \cap {"unplugged", "initfailed"} = {})' PROVE Whole'
  <2>1. npc.pc = "free" /\ ~b.irq /\ b.mem # "live"
    BY <1>6, <1>7, <1>12
  <2>2. \A e \in Cards : net'[e].irq \/ net'[e].mem = "live" => net'[e].registered
    BY <2>1, <1>10, <1>12 DEF Whole
  <2>3. npc.i \in 0..(number - 1) /\ map[npc.i] = n0 /\ bound[n0] = "bound"
    BY <2>1, <1>8, <1>12, SettledPlaces DEF InPlace
  <2>4. \A e \in Cards : net'[e].priv = "old" => bound[e] = "bound"
    BY <2>3, <1>10, <1>12 DEF Whole
  <2>5. ASSUME NEW i \in 0..(number - 1), net'[map[i]].priv = "old" PROVE ~Served(i)'
    <3>1. map[i] \in Cards
      BY <1>12, SettledPlaces
    <3>2. CASE map[i] = n0
      <4>1. i = npc.i
        BY <2>3, <3>2, <1>12, SettledPlaces
      <4> QED BY <4>1, <2>1, <1>8 DEF Served
    <3>3. CASE map[i] # n0
      <4>1. ~Served(i)
        BY <3>1, <3>3, <2>5, <1>10, <1>12 DEF Whole
      <4> QED BY <4>1, <2>1, <1>8 DEF Served
    <3> QED BY <3>2, <3>3
  <2> QED BY <2>2, <2>4, <2>5, <1>7 DEF Whole, mapVars
<1> QED BY <1>1, <1>5, <1>7, <1>8, <1>9, <1>10, <1>11, <1>12, LoopChanges

LEMMA InitGivesUpStep ==
  ASSUME MapInv, NetInv, npc.pc \in {"irq", "mem"}, InitGivesUp
  PROVE  Stopped \/ (NetInv' /\ Quiet)
<1>1. n0 \in Cards /\ net[n0].mem = "none" /\ Right(net[n0], cause)
  BY DEF NetInv, Current
<1>2. CASE net[n0].up
  <2>1. Justified("hang")
    BY <1>1, <1>2 DEF Justified, Right, Consistent
  <2> QED BY <1>2, <2>1, BreakIsJustified DEF InitGivesUp
<1>3. CASE ~net[n0].up
  <2> DEFINE after == Unregistered(net[n0])
             why == {"initfailed"} \cup Unanswered(n0)
  <2>1. net' = [net EXCEPT ![n0] = after]
    BY <1>1, <1>3 DEF InitGivesUp, NetInv, NetType
  <2>2. npc' = NextPlace /\ NetOnly /\ cause' = cause \cup why
    BY <1>3 DEF InitGivesUp, NetNextCard, NextPlace
  <2>3. Sends(n0, after, NextPlace, why)
    BY <2>1, <2>2 DEF Sends
  <2> QED BY <1>3, <2>3, UnregistersOne
<1> QED BY <1>2, <1>3

LEMMA RequestsIrqStep ==
  ASSUME MapInv, NetInv, RequestsIrq
  PROVE  Stopped \/ (NetInv' /\ Quiet)
<1> DEFINE b == [net[n0] EXCEPT !.irq = TRUE, !.lock = "free"]
<1>1. /\ npc.pc = "irq" /\ n0 \in Cards /\ net \in [Cards -> Interfaces] /\ net[n0] \in Interfaces
      /\ net[n0].registered /\ net[n0].mem = "none" /\ Right(net[n0], cause)
  BY DEF RequestsIrq, NetInv, Current, NetType
<1>2. CASE "record" \notin has[n0]
  <2>1. ~Plugged
    BY <1>1, <1>2, RegisteredReachable DEF Reachable
  <2> QED BY <1>2, <2>1, BreakIsJustified DEF RequestsIrq
<1>3. CASE InitGivesUp
  BY <1>1, <1>3, InitGivesUpStep
<1>4. CASE /\ NetGoes("mem") /\ net' = [net EXCEPT ![n0].irq = TRUE, ![n0].lock = "free"]
           /\ UNCHANGED <<cause, used>> /\ NetOnly
  <2>1. net' = [net EXCEPT ![n0] = b]
    BY <1>1, <1>4
  <2>2. b \in Interfaces /\ Right(b, cause)
    BY <1>1, RightGranted
  <2>3. b.registered = net[n0].registered /\ b.mem = "none" /\ b.priv = net[n0].priv
    BY <1>1 DEF Interfaces
  <2> HIDE DEF b
  <2>4. npc'.pc = "mem" /\ npc'.i = npc.i /\ npc'.card = n0
    BY <1>4 DEF NetGoes, NetInv, NetType, n0
  <2>5. npc' \in [pc : NetPcs, i : Nat, card : Cards \cup {None}]
    BY <1>4 DEF NetGoes, NetInv, NetType, NetPcs
  <2>6. UNCHANGED <<mapVars, module>> /\ Quiet
    BY <1>4 DEF NetOnly, hostVars
  <2>7. net'[n0] = b /\ \A e \in Cards : e # n0 => net'[e] = net[e]
    BY <1>1, <2>1
  <2>8. Current'
    BY <1>1, <2>3, <2>4, <2>7 DEF Current, n0
  <2>9. \A i : Served(i)' <=> Served(i)
    BY <1>1, <2>4 DEF Served
  <2>10. \A e \in Cards : net'[e].registered = net[e].registered /\ net'[e].priv = net[e].priv
    BY <1>1, <2>3, <2>7
  <2>11. ASSUME Plugged, InPlace PROVE InPlace'
    <3>1. \A i \in 0..(number - 1) : map[i] \in Cards
      BY <2>11, SettledPlaces
    <3> QED BY <2>11, <3>1, <1>1, <2>4, <2>6, <2>9, <2>10 DEF InPlace, mapVars, n0
  <2>12. ASSUME Plugged, InPlace, Whole PROVE Whole'
    <3>1. \A i \in 0..(number - 1) : map[i] \in Cards
      BY <2>12, SettledPlaces
    <3>2. \A e \in Cards : net'[e].irq \/ net'[e].mem = "live" => net'[e].registered
      BY <2>12, <1>1, <2>3, <2>7 DEF Whole
    <3> QED BY <2>12, <3>1, <3>2, <2>6, <2>9, <2>10 DEF Whole, mapVars
  <2> QED BY <1>1, <1>4, <2>1, <2>2, <2>5, <2>6, <2>8, <2>11, <2>12, LoopChanges
<1> QED BY <1>2, <1>3, <1>4 DEF RequestsIrq

LEMMA AllocShmemStep ==
  ASSUME MapInv, NetInv, AllocShmem
  PROVE  Stopped \/ (NetInv' /\ Quiet)
<1> DEFINE b == [net[n0] EXCEPT !.mem = "live"]
<1>1. /\ npc.pc = "mem" /\ n0 \in Cards /\ net \in [Cards -> Interfaces] /\ net[n0] \in Interfaces
      /\ net[n0].registered /\ net[n0].mem = "none" /\ Right(net[n0], cause)
  BY DEF AllocShmem, NetInv, Current, NetType
<1>2. CASE InitGivesUp
  BY <1>1, <1>2, InitGivesUpStep
<1>3. CASE /\ net' = [net EXCEPT ![n0].mem = "live"] /\ NetNextCard
           /\ UNCHANGED <<cause, used>> /\ NetOnly
  <2>1. net' = [net EXCEPT ![n0] = b]
    BY <1>1, <1>3
  <2>2. b \in Interfaces /\ Right(b, cause)
    BY <1>1, RightLent
  <2>3. b.registered = net[n0].registered /\ b.priv = net[n0].priv
    BY <1>1 DEF Interfaces
  <2> HIDE DEF b
  <2>4. npc' = NextPlace
    BY <1>3 DEF NetNextCard, NextPlace
  <2>5. /\ npc' \in [pc : NetPcs, i : Nat, card : Cards \cup {None}]
        /\ npc'.pc = "init" /\ npc'.i = npc.i + 1 /\ npc.i \in Nat
    BY <1>1, <2>4, NextPlaceIs DEF NetInv
  <2>6. UNCHANGED <<mapVars, module>> /\ Quiet
    BY <1>3 DEF NetOnly, hostVars
  <2>7. net'[n0] = b /\ \A e \in Cards : e # n0 => net'[e] = net[e]
    BY <1>1, <2>1
  <2>8. Current'
    BY <2>5 DEF Current
  <2>9. \A i \in 0..(number - 1) : Served(i)' <=> Served(i)
    BY <1>1, <2>5 DEF Served
  <2>10. \A e \in Cards : net'[e].registered = net[e].registered /\ net'[e].priv = net[e].priv
    BY <1>1, <2>3, <2>7
  <2>11. ASSUME Plugged, InPlace PROVE InPlace'
    <3>1. \A i \in 0..(number - 1) : map[i] \in Cards
      BY <2>11, SettledPlaces
    <3> QED BY <2>11, <3>1, <2>5, <2>6, <2>9, <2>10 DEF InPlace, mapVars
  <2>12. ASSUME Plugged, InPlace, Whole PROVE Whole'
    <3>1. \A i \in 0..(number - 1) : map[i] \in Cards
      BY <2>12, SettledPlaces
    <3>2. \A e \in Cards : net'[e].irq \/ net'[e].mem = "live" => net'[e].registered
      BY <2>12, <1>1, <2>3, <2>7 DEF Whole
    <3> QED BY <2>12, <3>1, <3>2, <2>6, <2>9, <2>10 DEF Whole, mapVars
  <2> QED BY <1>1, <1>3, <2>1, <2>2, <2>5, <2>6, <2>8, <2>11, <2>12, LoopChanges
<1> QED BY <1>1, <1>2, <1>3 DEF AllocShmem

LEMMA ExitOneStep ==
  ASSUME MapInv, NetInv, ExitOne
  PROVE  Stopped \/ (NetInv' /\ Quiet)
<1> DEFINE d == map[npc.i]
<1>1. npc.pc = "exit" /\ npc.i < number /\ npc.i \in Nat /\ number \in 0..MaxDev
  BY DEF ExitOne, NetInv, NetType, MapInv, MapType
<1>2. d \in Cards \cup {None}
  <2>1. npc.i \in Slots
    BY <1>1, MapAssumption DEF Slots
  <2> QED BY <2>1 DEF MapInv, MapType
<1>3. net \in [Cards -> Interfaces] /\ (d \in Cards => net[d] \in Interfaces /\ Right(net[d], cause))
  BY DEF NetInv, NetType
<1>4. CASE d = None
  <2>1. ~Plugged
    BY <1>1, <1>4, SettledPlaces, MapAssumption
  <2> QED BY <1>4, <2>1, BreakIsJustified DEF ExitOne
<1>5. CASE d # None /\ net[d].priv = "old"
  <2>1. Justified("freed")
    <3>1. CASE ~Plugged BY <3>1, BreakIsJustified
    <3>2. CASE "initfailed" \in cause BY <3>2, BreakIsJustified
    <3>3. CASE Plugged /\ "initfailed" \notin cause
      <4>1. ~Served(npc.i)
        BY <1>1, <1>5, <3>3 DEF NetInv, Whole, Plugged
      <4> QED BY <4>1, <1>1 DEF Served
    <3> QED BY <3>1, <3>2, <3>3
  <2> QED BY <1>5, <2>1, BreakIsJustified DEF ExitOne
<1>6. CASE d # None /\ net[d].priv = "null"
  <2>1. UNCHANGED <<net, cause, mapVars, module>> /\ Quiet /\ npc' = [npc EXCEPT !.i = @ + 1]
    BY <1>6 DEF ExitOne, NetOnly, hostVars
  <2>2. PICK j \in Nat : j = npc.i + 1
    BY <1>1
  <2>3. npc' = [npc EXCEPT !.i = j]
    BY <2>1, <2>2 DEF NetInv, NetType
  <2>4. npc'.pc = "exit" /\ npc'.i = j /\ npc' \in [pc : NetPcs, i : Nat, card : Cards \cup {None}]
    BY <1>1, <2>3 DEF NetInv, NetType
  <2>5. NetType' /\ Current' /\ module'.pc = "up" /\ \A e \in Cards : Right(net'[e], cause')
    BY <2>1, <2>4 DEF NetInv, NetType, Current
  <2>6. ASSUME Plugged, InPlace PROVE InPlace'
    <3>1. ~net[d].registered
      BY <1>2, <1>6, <2>6 DEF InPlace
    <3>2. ASSUME NEW i \in 0..(number - 1), net[map[i]].registered PROVE Served(i)'
      <4>1. i # npc.i /\ Served(i)
        BY <3>1, <3>2, <2>6 DEF InPlace
      <4> QED BY <4>1, <1>1, <2>2, <2>4 DEF Served
    <3> QED BY <3>2, <2>1, <2>4, <2>6 DEF InPlace, mapVars
  <2>7. ASSUME Whole PROVE Whole'
    <3>1. ASSUME NEW i \in 0..(number - 1), net[map[i]].priv = "old" PROVE ~Served(i)'
      <4>1. ~Served(i)
        BY <3>1, <2>7 DEF Whole
      <4> QED BY <4>1, <1>1, <2>2, <2>4 DEF Served
    <3> QED BY <3>1, <2>1, <2>7 DEF Whole, mapVars
  <2> QED BY <2>1, <2>5, <2>6, <2>7 DEF NetInv, Plugged
<1>7. CASE d # None /\ net[d].priv = "live"
  <2> DEFINE b == [net[d] EXCEPT !.mem = Freed(@), !.told = Freed(@), !.knows = Freed(@)]
  <2>1. npc' = [npc EXCEPT !.pc = "free", !.card = d] /\ UNCHANGED <<mapVars, module>> /\ Quiet
    BY <1>7 DEF ExitOne, NetOnly, hostVars
  <2>2. net' = [net EXCEPT ![d] = b] /\ cause' = cause \cup {"exit"}
    <3>1. FreesMemory(d)
      BY <1>7 DEF ExitOne
    <3>2. d \in Cards /\ net \in [Cards -> Interfaces]
      BY <1>2, <1>3, <1>7
    <3> HIDE DEF d
    <3>3. cause' = cause \cup {"exit"}
      BY <3>1 DEF FreesMemory, Because
    <3>4. net' = [net EXCEPT ![d] = b]
      BY <3>1, <3>2 DEF FreesMemory
    <3> QED BY <3>3, <3>4
  <2>3. b \in Interfaces /\ Right(b, cause')
    BY <1>2, <1>3, <1>7, <2>2, RightFreed
  <2>4. /\ b.registered = net[d].registered /\ b.priv = net[d].priv /\ b.irq = net[d].irq
        /\ b.registered
    <3>1. net[d].registered /\ net[d] \in Interfaces
      BY <1>2, <1>3, <1>7 DEF Right, Consistent
    <3> QED BY <3>1 DEF Interfaces
  <2> HIDE DEF b
  <2>5. npc'.pc = "free" /\ npc'.i = npc.i /\ npc'.card = d
        /\ npc' \in [pc : NetPcs, i : Nat, card : Cards \cup {None}]
    BY <1>2, <2>1 DEF NetInv, NetType, NetPcs
  <2>6. net'[d] = b /\ \A e \in Cards : e # d => net'[e] = net[e]
    BY <1>2, <1>3, <1>7, <2>2
  <2>7. Current'
    <3>1. b.mem # "live"
      BY <1>2, <1>3, <1>7 DEF b, Interfaces, Freed
    <3> QED BY <1>2, <1>7, <2>4, <2>5, <2>6, <3>1 DEF Current, n0
  <2>8. \A i : Served(i)' <=> Served(i)
    BY <1>1, <2>5 DEF Served
  <2>9. \A e \in Cards : /\ net'[e].registered = net[e].registered /\ net'[e].priv = net[e].priv
                         /\ net'[e].irq = net[e].irq
    BY <2>4, <2>6
  <2>10. ASSUME Plugged, InPlace PROVE InPlace'
    <3>1. \A i \in 0..(number - 1) : map[i] \in Cards
      BY <2>10, SettledPlaces
    <3> QED BY <2>10, <3>1, <1>1, <2>1, <2>5, <2>8, <2>9 DEF InPlace, mapVars, n0
  <2>11. ASSUME Plugged, InPlace, Whole PROVE Whole'
    <3>1. \A i \in 0..(number - 1) : map[i] \in Cards
      BY <2>11, SettledPlaces
    <3>2. \A e \in Cards : net'[e].irq \/ net'[e].mem = "live" => net'[e].registered
      BY <2>11, <2>4, <2>6, <2>9 DEF Whole
    <3> QED BY <2>11, <3>1, <3>2, <2>1, <2>8, <2>9 DEF Whole, mapVars
  <2>12. d \in Cards /\ cause \subseteq cause'
    BY <1>2, <1>7, <2>2
  <2> HIDE DEF d
  <2> QED BY <2>1, <2>2, <2>3, <2>5, <2>7, <2>10, <2>11, <2>12, LoopChanges
<1>8. d # None => net[d].priv \in {"null", "old", "live"}
  BY <1>2, <1>3 DEF Interfaces
<1> QED BY <1>4, <1>5, <1>6, <1>7, <1>8

\* What exit has freed is not used by the close.
LEMMA ExitUnregistersStep ==
  ASSUME MapInv, NetInv, ExitUnregisters
  PROVE  Stopped \/ (NetInv' /\ Quiet)
<1> DEFINE after == [Unregistered(net[n0]) EXCEPT !.irq = FALSE]
           why == Unanswered(n0)
<1>1. /\ npc.pc = "free" /\ n0 \in Cards /\ net[n0].registered /\ net[n0] \in Interfaces
      /\ net[n0].mem # "live"
  BY DEF ExitUnregisters, NetInv, Current, NetType
<1>2. NextPlace = [pc |-> "exit", i |-> npc.i + 1, card |-> None]
  <2>1. npc.i \in Nat /\ npc.i + 1 \in Nat
    BY DEF NetInv, NetType
  <2>2. PICK j \in Nat : j = npc.i + 1
    BY <2>1
  <2>3. NextPlace = [npc EXCEPT !.pc = "exit", !.i = j, !.card = None]
    BY <1>1, <2>2 DEF NextPlace, NetInv, NetType
  <2>4. NextPlace = [pc |-> "exit", i |-> j, card |-> None]
    BY <2>3 DEF NetInv, NetType
  <2> QED BY <2>2, <2>4
<1>3. ~after.irq
  BY <1>1 DEF Unregistered, Interfaces
<1>4. CASE net[n0].up
  <2>1. Closes(n0, after, NextPlace, why)
    BY <1>2, <1>4 DEF ExitUnregisters
  <2>2. Stopped \/ (net[n0].napi /\ Sends(n0, after, NextPlace, why))
    <3> HIDE DEF after, why
    <3> QED BY <1>1, <1>4, <2>1, ClosesEffect
  <2> QED BY <1>1, <1>3, <2>2, UnregistersOne
<1>5. CASE ~net[n0].up
  <2>1. net' = [net EXCEPT ![n0] = after] /\ cause' = cause \cup why /\ NetOnly
    BY <1>5 DEF ExitUnregisters
  <2>2. npc' = NextPlace
    BY <1>5 DEF ExitUnregisters, NetNextCard, NextPlace
  <2>3. Sends(n0, after, NextPlace, why)
    BY <2>1, <2>2 DEF Sends
  <2> QED BY <1>1, <1>3, <1>5, <2>3, UnregistersOne
<1> QED BY <1>4, <1>5

LEMMA NetProbeStep ==
  ASSUME MapInv, NetInv, NEW d \in Cards, Probe(d) \/ Remove(d), UNCHANGED netVars
  PROVE  NetInv' /\ Quiet
<1> USE DEF NetInv
<1>1. npc' = npc /\ net' = net /\ module' = module /\ cause \subseteq cause' /\ Quiet
  BY DEF Probe, Remove, netVars, hostVars
<1>2. /\ NetType' /\ Current' /\ module'.pc = "up"
      /\ \A e \in Cards : Right(net'[e], cause')
  BY <1>1, RightStays DEF NetType, Current, n0
<1>3. bound \in [Cards -> {"no", "bound", "hollow"}] /\ number \in 0..MaxDev
      /\ map \in [Slots -> Cards \cup {None}]
  BY DEF MapInv, MapType
<1>4. ASSUME Plugged' PROVE InPlace' /\ (Whole => Whole')
  <2>1. Plugged /\ InPlace
    BY <1>1, <1>4 DEF Plugged
  <2>2. /\ core.pc = "idle" /\ number \in Nat /\ npc.i \in Nat
        /\ \A i \in 0..(number - 1) : map[i] \in Cards /\ bound[map[i]] = "bound"
    BY <2>1, SettledPlaces
  <2>3. \A i : Served(i)' <=> Served(i)
    BY <1>1 DEF Served
  <2>4. CASE ProbeRefused(d)
    BY <1>1, <2>1, <2>2, <2>3, <2>4 DEF ProbeRefused, InPlace, Whole, mapVars, n0
  <2>5. CASE /\ UNCHANGED <<map, number, core>>
             /\ \A e \in Cards : bound[e] = "bound" => bound'[e] = "bound"
    BY <1>1, <2>1, <2>2, <2>3, <2>5 DEF InPlace, Whole, n0
  <2>6. CASE ProbeBinds(d)
    <3>1. /\ bound[d] = "no" /\ number < MaxDev /\ core' = core
          /\ map' = [map EXCEPT ![number] = d] /\ number' = number + 1
          /\ bound' = [bound EXCEPT ![d] = "bound"]
      BY <2>6, <1>3, MapAssumption DEF ProbeBinds, Full
    <3>2. number \in Slots
      BY <3>1, <1>3, MapAssumption DEF Slots
    <3>3. map'[number] = d /\ \A i \in 0..(number - 1) : map'[i] = map[i]
      <4>1. \A i \in 0..(number - 1) : i \in Slots /\ i # number
        BY <1>3, MapAssumption DEF Slots
      <4> QED BY <4>1, <3>1, <3>2, <1>3
    <3>4. \A i \in 0..(number' - 1) : i = number \/ i \in 0..(number - 1)
      BY <3>1, <1>3
    <3>5. \A e \in Cards : bound[e] = "bound" => bound'[e] = "bound"
      BY <3>1, <1>3
    <3>6. ~net[d].registered
      BY <3>1, <2>1 DEF InPlace
    <3>7. InPlace'
      <4>1. core'.pc = "idle"
        BY <3>1, <2>2
      <4>2. npc'.pc \in {"irq", "mem", "free"} => npc'.i < number' /\ map'[npc'.i] = n0'
        BY <1>1, <2>1, <2>2, <3>1, <3>3 DEF InPlace, n0
      <4>3. \A e \in Cards : net'[e].registered => net'[e].priv = "live" /\ bound'[e] = "bound"
        BY <1>1, <2>1, <3>5 DEF InPlace
      <4>4. ASSUME NEW i \in 0..(number' - 1), net'[map'[i]].registered PROVE Served(i)'
        <5>1. i \in 0..(number - 1) /\ map'[i] = map[i]
          BY <4>4, <1>1, <3>3, <3>4, <3>6
        <5> QED BY <5>1, <4>4, <1>1, <2>1, <2>3 DEF InPlace
      <4> QED BY <4>1, <4>2, <4>3, <4>4 DEF InPlace
    <3>8. ASSUME Whole PROVE Whole'
      <4>1. net[d].priv # "old"
        BY <3>1, <3>8 DEF Whole
      <4>2. ASSUME NEW i \in 0..(number' - 1), net'[map'[i]].priv = "old" PROVE ~Served(i)'
        <5>1. i \in 0..(number - 1) /\ map'[i] = map[i]
          BY <4>1, <4>2, <1>1, <3>3, <3>4
        <5> QED BY <5>1, <4>2, <1>1, <2>3, <3>8 DEF Whole
      <4> QED BY <4>2, <1>1, <3>5, <3>8 DEF Whole
    <3> QED BY <3>7, <3>8
  <2>7. CASE ProbeFails(d)
    BY <2>5, <2>7, <1>3 DEF ProbeFails
  <2>8. CASE Remove(d)
    <3>1. bound[d] # "bound"
      BY <2>8, <1>4 DEF Remove, Plugged
    <3>2. bound[d] = "hollow"
      BY <2>8, <3>1, <1>3 DEF Remove, RemoveBegins
    <3> QED BY <2>5, <2>8, <3>2, <1>3 DEF Remove, RemoveBegins
  <2> QED BY <2>4, <2>6, <2>7, <2>8 DEF Probe
<1>5. (cause \cap {"unplugged", "initfailed"} = {})'
        => Plugged' /\ cause \cap {"unplugged", "initfailed"} = {}
  BY <1>1 DEF Plugged
<1> QED BY <1>1, <1>2, <1>4, <1>5

LEMMA UnplugsStep ==
  ASSUME MapInv, NetInv, Unplugs
  PROVE  NetInv' /\ Quiet
<1> USE DEF NetInv
<1>1. npc' = npc /\ module' = module /\ cause' = cause /\ Quiet
  BY DEF Unplugs, RemoveGoesOn
<1>2. core.pc # "idle"
  BY DEF Unplugs, RemoveGoesOn, RemoveStep, Releases, MovesLast, ClearsLast, Uncounts, CoreAt
<1>3. ~Plugged
  BY <1>2 DEF InPlace
<1>4. ASSUME NEW e \in Cards
      PROVE  /\ net'[e] \in Interfaces /\ Right(net'[e], cause)
             /\ net'[e].registered = net[e].registered /\ net'[e].mem = net[e].mem
  <2>1. net[e] \in Interfaces /\ Right(net[e], cause)
    BY DEF NetType
  <2>2. PICK b, p : /\ b = (net[e].irq /\ ~(bound[e] = "bound" /\ bound'[e] = "no"))
                    /\ p = IF "record" \in has'[e] THEN net[e].priv ELSE "null"
    OBVIOUS
  <2>3. net'[e] = [net[e] EXCEPT !.irq = b, !.priv = p]
    BY <2>2 DEF Unplugs
  <2>4. b \in BOOLEAN /\ p \in {net[e].priv, "null"}
    BY <2>1, <2>2 DEF Interfaces
  <2>5. net'[e] \in Interfaces /\ Right(net'[e], cause)
    <3>1. /\ [net[e] EXCEPT !.irq = b, !.priv = p] \in Interfaces
          /\ Right([net[e] EXCEPT !.irq = b, !.priv = p], cause)
      BY <2>1, <2>4, RightUnplugged
    <3> QED BY <2>3, <3>1
  <2>6. net'[e].registered = net[e].registered /\ net'[e].mem = net[e].mem
    BY <2>1, <2>3 DEF Interfaces
  <2> QED BY <2>5, <2>6
<1>5. net' \in [Cards -> Interfaces]
  <2>1. net' = [e \in Cards |-> net'[e]]
    BY DEF Unplugs
  <2> QED BY <2>1, <1>4
<1>6. NetType' /\ Current'
  BY <1>1, <1>4, <1>5 DEF NetType, Current, n0
<1> QED BY <1>1, <1>3, <1>4, <1>6 DEF Plugged

LEMMA NetStep ==
  ASSUME MapInv, NetInv, NetNext
  PROVE  Stopped \/ (NetInv' /\ Quiet)
<1>1. CASE NetModule
  BY <1>1, LoopSteps, InitOneStep, RequestsIrqStep, AllocShmemStep, ExitOneStep, ExitUnregistersStep
     DEF NetModule
<1>2. CASE Unplugs
  BY <1>2, UnplugsStep
<1>3. ASSUME NEW d \in Cards,
             \/ (Probe(d) \/ Remove(d)) /\ UNCHANGED netVars
             \/ IfUp(d) \/ IfDown(d) \/ Carries(d) \/ CardTakesUp(d) \/ NetIrq(d)
      PROVE  Stopped \/ (NetInv' /\ Quiet)
  BY <1>3, NetProbeStep, IfUpStep, IfDownStep, CarriesStep, CardTakesUpStep, NetIrqStep
<1> QED BY <1>1, <1>2, <1>3 DEF NetNext

-----------------------------------------------------------------------------
(* Calls: one changes, the others stay right *)

LEMMA FilesAre == Len(Files) = 5 /\ FileNames = {Files[n] : n \in 1..5}
BY DEF Files, FileNames

LEMMA NoWalkRight ==
  ASSUME MapInv
  PROVE  NoWalk \in CallRecords /\ CallInv(NoWalk)
<1>1. NoWalk \in CallRecords
  BY MapAssumption DEF NoWalk, CallRecords, CallPcs, Kinds
<1>2. Shape(NoWalk) /\ Held(NoWalk)
  BY DEF NoWalk, Shape, Held
<1>3. Caused(NoWalk)
  BY HostAssumption DEF NoWalk, Caused
<1>4. Steady(NoWalk)
  BY DEF NoWalk, Steady, MapInv, MapType
<1> QED BY <1>1, <1>2, <1>3, <1>4 DEF CallInv

\* What happens around a call, short of a record that goes.
Around(r) ==
  /\ cause \subseteq cause'
  /\ \A d \in Cards : /\ fifo[d] # "none" => fifo'[d] # "none"
                      /\ fifo[d] \in {"live", "freed"} => fifo'[d] \in {"live", "freed"}
                      /\ "record" \in has[d] => "record" \in has'[d]
  /\ hook => hook' \/ "userexit" \in cause'
  /\ r.pc = "divide" /\ total' = 0 /\ total # 0 =>
       cause' \cap {"overlap", "instant", "policy"} # {}
  /\ Plugged' => /\ number <= number'
                 /\ \A d \in Cards : bound[d] = "bound" => bound'[d] = "bound"

LEMMA CallStays ==
  ASSUME MapInv, MapInv', NEW r \in CallRecords, CallInv(r), Around(r)
  PROVE  CallInv(r)'
<1>0. /\ r.target \in Cards \cup {None} /\ r.entry \in Cards \cup {None}
      /\ r.dev \in Cards \cup {None} /\ r.last \in Nat /\ number \in Nat /\ number' \in Nat
  <2>1. r.last \in 0..MaxDev
    BY DEF CallRecords
  <2>2. r.last \in Nat
    BY <2>1, MapAssumption
  <2> QED BY <2>2 DEF CallRecords, MapInv, MapType
<1>1. Shape(r)'
  BY DEF CallInv, Shape
<1>2. Caused(r)'
  <2> USE DEF CallInv, Shape
  <2>1. r.kind \in {"send", "recv"} => fifo'[r.target] # "none" \/ "unconnected" \in cause'
    BY DEF Caused, Around
  <2>2. r.kind = "unload" => "userexit" \in cause'
    BY DEF Caused, Around
  <2>3. r.pc = "call" => hook' \/ "userexit" \in cause'
    BY DEF Caused, Around
  <2>4. r.pc = "divide" /\ 0 \in {r.time, total'} => cause' \cap {"overlap", "instant", "policy"} # {}
    BY DEF Caused, Around
  <2>5. r.last > P2PMax => "many" \in cause'
    BY DEF Caused, Around
  <2>6. r.kind = "connect" /\ r.pc \in {"count", "shake"} /\ r.dev # None =>
          fifo'[r.target] \in {"live", "freed"}
    BY DEF Caused, Around
  <2> QED BY <2>1, <2>2, <2>3, <2>4, <2>5, <2>6 DEF Caused
<1>3. Held(r)'
  BY <1>0 DEF CallInv, Held, Around
<1>4. ASSUME Plugged' PROVE Steady(r)'
  <2>1. Plugged
    BY <1>4 DEF Plugged, Around
  <2>2. Steady(r)
    BY <2>1 DEF CallInv
  <2>3. r.last <= number'
    BY <1>0, <1>4, <2>2 DEF Steady, Around
  <2> QED BY <1>0, <1>4, <2>2, <2>3 DEF Steady, Around
<1> QED BY <1>1, <1>2, <1>3, <1>4 DEF CallInv

\* A step of one call.
LEMMA OneCall ==
  ASSUME MapInv, MapInv', RestInv, NEW c \in Callers, NEW r \in CallRecords,
         call' = [call EXCEPT ![c] = r], CallInv(r)',
         \A e \in Callers : e # c => Around(call[e]),
         UNCHANGED <<mapVars, module, files>>, Up, cause \subseteq cause',
         hook' \in BOOLEAN, level' = level, total' \in Nat, linked' \subseteq Cards,
         fifo' \in [Cards -> {"none", "live", "freed", "stale"}], RingsInv'
  PROVE  RestInv'
<1> USE DEF RestInv
<1>1. call \in [Callers -> CallRecords]
  BY DEF RestType
<1>2. RestType'
  BY <1>1 DEF RestType
<1>3. ModuleInv'
  BY DEF ModuleInv, Up, Plugged, mapVars
<1>4. ASSUME NEW e \in Callers PROVE CallInv(call[e])'
  <2>1. CASE e = c
    <3>1. call'[e] = r
      BY <2>1, <1>1
    <3> QED BY <3>1 DEF CallInv, Shape, Caused, Held, Steady
  <2>2. CASE e # c
    <3>1. PICK s \in CallRecords : s = call[e]
      BY <1>1
    <3>2. call'[e] = s
      BY <2>2, <3>1, <1>1
    <3>3. CallInv(s) /\ Around(s)
      BY <2>2, <3>1
    <3>4. CallInv(s)'
      BY <3>3, CallStays
    <3> QED BY <3>2, <3>4 DEF CallInv, Shape, Caused, Held, Steady
  <2> QED BY <2>1, <2>2
<1> QED BY <1>2, <1>3, <1>4

LEMMA NothingAround ==
  ASSUME MapInv, UNCHANGED <<mapVars, hook, fifo, total>>, cause \subseteq cause', NEW r
  PROVE  Around(r)
<1>1. number \in Nat /\ number' = number /\ has' = has /\ bound' = bound
  BY DEF MapInv, MapType, mapVars
<1> QED BY <1>1 DEF Around

\* Nothing but the call changes.
LEMMA OnlyOneCall ==
  ASSUME MapInv, RestInv, NEW c \in Callers, NEW r \in CallRecords,
         call' = [call EXCEPT ![c] = r], CallInv(r)', Up,
         UNCHANGED <<mapVars, hostVars>>, cause \subseteq cause'
  PROVE  RestInv'
<1>1. UNCHANGED <<module, files, hook, level, total, fifo, linked>>
  BY DEF hostVars
<1>2. \A e \in Callers : Around(call[e])
  BY <1>1, NothingAround
<1>3. MapInv'
  BY MapStepInv
<1>4. RingsInv'
  BY <1>1 DEF RestInv, RingsInv, Plugged, mapVars
<1>5. /\ hook' \in BOOLEAN /\ total' \in Nat /\ linked' \subseteq Cards
      /\ fifo' \in [Cards -> {"none", "live", "freed", "stale"}]
  BY <1>1 DEF RestInv, RestType
<1> QED BY <1>1, <1>2, <1>3, <1>4, <1>5, OneCall

LEMMA CallingIsUp ==
  ASSUME RestInv, NEW c \in Callers, call[c].pc # "idle"
  PROVE  Up
BY DEF RestInv, ModuleInv, NoWalk

LEMMA UpIsSettled ==
  ASSUME MapInv, RestInv, Up, Plugged
  PROVE  core.pc = "idle"
BY DEF RestInv, ModuleInv, Up

-----------------------------------------------------------------------------
(* The steps of a call *)

\* A use of what is not there changes nothing else, and has its cause.
Halted ==
  /\ UNCHANGED <<clients, mapVars, hostVars, call>> /\ cause \subseteq cause'
  /\ cause' \cap CallCauses[bad'] # {}

LEMMA HaltIsCaused ==
  /\ ~Plugged /\ (Breaks("null") \/ Breaks("freed")) => Halted
  /\ "unconnected" \in cause /\ Breaks("noring") => Halted
  /\ "userexit" \in cause /\ (Breaks("ring") \/ Breaks("call")) => Halted
  /\ "many" \in cause /\ Breaks("stack") => Halted
  /\ cause \cap {"overlap", "instant", "policy"} # {} /\ Breaks("divide") => Halted
BY DEF Breaks, Halted, CallCauses, Plugged

LEMMA CallAlone ==
  ASSUME MapInv, RestInv, NEW c \in Callers, NEW r \in CallRecords,
         call' = [call EXCEPT ![c] = r], CallInv(r), Up,
         UNCHANGED <<mapVars, hostVars>>, cause \subseteq cause'
  PROVE  RestInv'
<1>1. Around(r)
  BY NothingAround DEF hostVars
<1>2. CallInv(r)'
  BY <1>1, CallStays, MapStepInv
<1> QED BY <1>2, OnlyOneCall

LEMMA DoneStep ==
  ASSUME MapInv, RestInv, NEW c \in Callers, Up, Done(c), OnlyCall
  PROVE  RestInv' /\ Quiet
<1>1. NoWalk \in CallRecords /\ CallInv(NoWalk)
  BY NoWalkRight
<1> QED BY <1>1, CallAlone DEF Done, OnlyCall

\* A record of a call with some of its fields changed.
LEMMA CallTypes ==
  ASSUME NEW s \in CallRecords, NEW pc \in CallPcs
  PROVE  /\ [s EXCEPT !.pc = pc] \in CallRecords
         /\ \A d \in Cards \cup {None} :
              [s EXCEPT !.pc = pc, !.entry = None, !.dev = d] \in CallRecords
         /\ \A d \in Cards : [s EXCEPT !.pc = pc, !.entry = d] \in CallRecords
         /\ \A t \in Nat : [s EXCEPT !.pc = pc, !.time = t] \in CallRecords
         /\ \A n \in {0, 1}, m \in 0..MaxDev :
              [s EXCEPT !.pc = pc, !.round = n, !.i = 0, !.entry = None, !.last = m] \in CallRecords
         /\ \A d \in Cards \cup {None}, i \in Nat :
              [s EXCEPT !.pc = pc, !.entry = d, !.i = i] \in CallRecords
BY DEF CallRecords

LEMMA WalksStep ==
  ASSUME MapInv, RestInv, NEW c \in Callers, Up, call[c].pc # "idle", NEW n \in {0, 1},
         n = 1 => call[c].kind # "connect", Walks(c, n), OnlyCall
  PROVE  RestInv' /\ Quiet
<1>1. PICK s \in CallRecords : s = call[c]
  BY DEF RestInv, RestType
<1>2. CallInv(s) /\ number \in 0..MaxDev /\ 0 \in 0..MaxDev
  BY <1>1, MapAssumption DEF RestInv, MapInv, MapType
<1>3. PICK m \in 0..MaxDev : m = IF s.kind = "p2p" THEN number ELSE 0
  BY <1>2
<1>4. PICK r : r = [s EXCEPT !.pc = "walk", !.round = n, !.i = 0, !.entry = None, !.last = m]
  OBVIOUS
<1>5. r \in CallRecords
  BY <1>4, CallTypes DEF CallPcs
<1>6. call' = [call EXCEPT ![c] = r]
  BY <1>1, <1>3, <1>4 DEF Walks, RestInv, RestType
<1>7. /\ r.pc = "walk" /\ r.kind = s.kind /\ r.target = s.target /\ r.dev = s.dev
      /\ r.entry = None /\ r.last = m /\ m \in Nat /\ r.round = n
  BY <1>4, MapAssumption DEF CallRecords
<1>8. Shape(r)
  BY <1>1, <1>2, <1>7 DEF CallInv, Shape
<1>9. Caused(r)
  <2>1. m > P2PMax => "many" \in cause
    BY <1>2, <1>3, HostAssumption DEF RestInv, ModuleInv
  <2> QED BY <1>2, <1>7, <2>1 DEF CallInv, Caused
<1>10. Held(r)
  BY <1>2, <1>7 DEF CallInv, Held
<1>11. Steady(r)
  BY <1>2, <1>3, <1>7 DEF Steady
<1>12. CallInv(r)
  BY <1>8, <1>9, <1>10, <1>11 DEF CallInv
<1> QED BY <1>5, <1>6, <1>12, CallAlone DEF OnlyCall

LEMMA BeginsStep ==
  ASSUME MapInv, RestInv, NEW c \in Callers, NEW kind \in Kinds, NEW d \in Cards \cup {None},
         NEW pc \in {"walk", "hook"}, Begins(c, kind, d, pc), cause \subseteq cause',
         pc = "hook" => kind = "show",
         kind \in {"send", "recv", "connect"} => d \in Cards,
         kind \in {"send", "recv"} => fifo[d] # "none" \/ "unconnected" \in cause',
         kind = "unload" => "userexit" \in cause'
  PROVE  RestInv' /\ Quiet
<1>1. PICK b \in BOOLEAN : b = (level /\ kind = "send")
  BY DEF RestInv, RestType
<1>2. PICK r : r = [NoWalk EXCEPT !.pc = pc, !.kind = kind, !.target = d, !.timed = b]
  OBVIOUS
<1>3. r \in CallRecords
  <2>1. NoWalk \in CallRecords
    BY NoWalkRight
  <2> QED BY <1>1, <1>2, <2>1 DEF CallRecords, CallPcs
<1>4. call' = [call EXCEPT ![c] = r] /\ Up /\ UNCHANGED <<mapVars, hostVars>> /\ Quiet
  BY <1>1, <1>2 DEF Begins
<1>5. /\ r.pc = pc /\ r.kind = kind /\ r.target = d /\ r.entry = None /\ r.dev = None /\ r.last = 0
      /\ r.round = 0
  BY <1>2 DEF NoWalk
<1>6. Shape(r)'
  BY <1>5 DEF Shape
<1>7. Caused(r)'
  BY <1>4, <1>5, HostAssumption DEF Caused, hostVars
<1>8. Held(r)'
  BY <1>5 DEF Held
<1>9. Steady(r)'
  BY <1>4, <1>5 DEF Steady, MapInv, MapType, mapVars
<1>10. CallInv(r)'
  BY <1>6, <1>7, <1>8, <1>9 DEF CallInv
<1> QED BY <1>3, <1>4, <1>10, OnlyOneCall

LEMMA CallsBegin ==
  ASSUME MapInv, RestInv, NEW c \in Callers,
         \/ GetsIds(c) \/ ReadsProc(c) \/ P2pIoctl(c) \/ UserUnloads(c)
         \/ \E d \in Cards : MsgSend(c, d) \/ CheckRemote(c, d)
  PROVE  RestInv' /\ Quiet
<1>1. CASE GetsIds(c)
  BY <1>1, BeginsStep DEF GetsIds, Kinds
<1>2. CASE ReadsProc(c)
  BY <1>2, BeginsStep DEF ReadsProc, Kinds
<1>3. CASE P2pIoctl(c)
  BY <1>3, BeginsStep DEF P2pIoctl, Kinds
<1>4. CASE UserUnloads(c)
  BY <1>4, BeginsStep DEF UserUnloads, Kinds
<1>5. ASSUME NEW d \in Cards, MsgSend(c, d)
      PROVE  RestInv' /\ Quiet
  <2>1. d \in linked => fifo[d] # "none"
    BY DEF RestInv, RingsInv
  <2>2. /\ Begins(c, "send", d, "walk") /\ cause \subseteq cause'
        /\ fifo[d] # "none" \/ "unconnected" \in cause'
    BY <1>5, <2>1 DEF MsgSend
  <2> QED BY <2>2, BeginsStep DEF Kinds
<1>6. ASSUME NEW d \in Cards, CheckRemote(c, d)
      PROVE  RestInv' /\ Quiet
  BY <1>6, BeginsStep DEF CheckRemote, Kinds
<1> QED BY <1>1, <1>2, <1>3, <1>4, <1>5, <1>6

LEMMA RecvBeginsStep ==
  ASSUME MapInv, RestInv, NEW c \in Callers, NEW d \in Cards, RecvBegins(c, d)
  PROVE  RestInv' /\ Quiet
<1>1. PICK r : r = [NoWalk EXCEPT !.pc = "ring", !.kind = "recv", !.target = d, !.dev = d]
  OBVIOUS
<1>2. r \in CallRecords
  <2>1. NoWalk \in CallRecords
    BY NoWalkRight
  <2> QED BY <1>1, <2>1 DEF CallRecords, CallPcs, Kinds
<1>3. /\ call' = [call EXCEPT ![c] = r] /\ Up /\ UNCHANGED <<mapVars, hostVars, cause>> /\ Quiet
      /\ d \in linked /\ "vectors" \in has[d]
  BY <1>1 DEF RecvBegins
<1>4. /\ r.pc = "ring" /\ r.kind = "recv" /\ r.target = d /\ r.entry = None /\ r.dev = d
      /\ r.last = 0
  BY <1>1 DEF NoWalk
<1>5. fifo[d] # "none" /\ "record" \in has[d]
  BY <1>3 DEF RestInv, RingsInv
<1>6. Shape(r) /\ Held(r)
  BY <1>4, <1>5, MapAssumption DEF Shape, Held
<1>7. Caused(r)
  BY <1>4, <1>5, HostAssumption DEF Caused
<1>8. Plugged => Steady(r)
  <2>1. ASSUME Plugged PROVE bound[d] = "bound"
    <3>1. core.pc = "idle"
      BY <1>3, <2>1, UpIsSettled
    <3> QED BY <3>1, <1>3, Settled DEF Bars
  <2> QED BY <2>1, <1>4, MapAssumption DEF Steady, MapInv, MapType
<1> QED BY <1>2, <1>3, <1>6, <1>7, <1>8, CallAlone DEF CallInv

LEMMA LimitIsInMap ==
  ASSUME MapInv, RestInv, NEW s \in CallRecords, s.i < Limit(s)
  PROVE  s.i \in Slots
<1>1. Limit(s) \in 0..MaxDev /\ s.i \in Nat
  BY DEF Limit, CallRecords, MapInv, MapType
<1> QED BY <1>1, MapAssumption DEF Slots

LEMMA LoadsStep ==
  ASSUME MapInv, EntryHeld, RestInv, NEW c \in Callers, Loads(c)
  PROVE  Halted \/ (RestInv' /\ Quiet)
<1>1. PICK s \in CallRecords : s = call[c]
  BY DEF RestInv, RestType
<1>2. /\ s.pc = "walk" /\ s.i < Limit(s) /\ CallInv(s) /\ Up /\ s.i \in Slots
  BY <1>1, LimitIsInMap, CallingIsUp DEF Loads, At, RestInv
<1>3. Plugged => s.i \in 0..(number - 1)
  <2>1. ASSUME Plugged PROVE Limit(s) <= number
    BY <1>2, <2>1 DEF Limit, CallInv, Steady, MapInv, MapType
  <2> QED BY <1>2, <2>1 DEF Limit, CallRecords, MapInv, MapType, CallInv, Steady
<1>4. CASE map[s.i] = None
  <2>1. ~Plugged
    BY <1>2, <1>3, <1>4, UpIsSettled, Settled, MapAssumption
  <2> QED BY <1>1, <1>4, <2>1, HaltIsCaused DEF Loads
<1>5. CASE map[s.i] # None
  <2>1. PICK e \in Cards : e = map[s.i]
    BY <1>2, <1>5 DEF MapInv, MapType
  <2>2. PICK r : r = [s EXCEPT !.pc = "use", !.entry = e]
    OBVIOUS
  <2>3. r \in CallRecords
    BY <2>2, CallTypes DEF CallPcs
  <2>4. /\ r.pc = "use" /\ r.kind = s.kind /\ r.target = s.target /\ r.dev = s.dev /\ r.i = s.i
        /\ r.round = s.round /\ r.entry = e /\ r.last = s.last
    BY <2>2 DEF CallRecords
  <2>5. call' = [call EXCEPT ![c] = r] /\ UNCHANGED <<mapVars, hostVars, cause>> /\ Quiet
    BY <1>1, <1>5, <2>1, <2>2 DEF Loads, OnlyCall, RestInv, RestType
  <2>6. Shape(r)
    BY <1>2, <2>4 DEF CallInv, Shape, Limit
  <2>7. Caused(r)
    BY <1>2, <2>4 DEF CallInv, Caused
  <2>8. Held(r)
    BY <1>2, <1>5, <2>1, <2>4 DEF CallInv, Held, EntryHeld
  <2>9. ASSUME Plugged PROVE Steady(r)
    <3>1. e # None /\ bound[e] = "bound"
      BY <1>2, <1>3, <2>1, <2>9, UpIsSettled, Settled, MapAssumption
    <3> QED BY <1>2, <2>4, <2>9, <3>1 DEF CallInv, Steady
  <2> QED BY <1>2, <2>3, <2>5, <2>6, <2>7, <2>8, <2>9, CallAlone DEF CallInv
<1> QED BY <1>4, <1>5

LEMMA UsesStep ==
  ASSUME MapInv, RestInv, NEW c \in Callers, Uses(c)
  PROVE  Halted \/ (RestInv' /\ Quiet)
<1>1. PICK s \in CallRecords : s = call[c]
  BY DEF RestInv, RestType
<1>2. s.pc = "use" /\ CallInv(s) /\ Up
  BY <1>1, CallingIsUp DEF Uses, At, RestInv
<1>3. CASE s.entry = None \/ LooksAtGone(s)
  <2>1. ASSUME Plugged PROVE FALSE
    <3>1. s.entry \in Cards /\ bound[s.entry] = "bound"
      BY <1>2, <2>1 DEF CallInv, Steady, CallRecords
    <3>2. has[s.entry] = All
      BY <1>2, <2>1, <3>1, UpIsSettled, Settled
    <3> QED BY <1>3, <3>1, <3>2, StepParts, MapAssumption DEF LooksAtGone
  <2> QED BY <1>1, <1>3, <2>1, HaltIsCaused DEF Uses
<1>4. CASE s.entry # None /\ ~LooksAtGone(s) /\ Overflows(s)
  <2>1. "many" \in cause
    <3>1. s.i < s.last /\ s.i >= P2PMax /\ s.i \in Nat /\ s.last \in 0..MaxDev /\ P2PMax \in Nat
      BY <1>2, <1>4, HostAssumption DEF CallInv, Shape, Overflows, CallRecords
    <3>2. s.last \in Nat
      BY <3>1, MapAssumption
    <3> QED BY <1>2, <3>1, <3>2 DEF CallInv, Caused
  <2>2. Breaks("stack")
    <3>1. ~FreedTwice(s)
      BY <1>4 DEF Overflows, FreedTwice
    <3> QED BY <1>1, <1>4, <3>1 DEF Uses
  <2> QED BY <2>1, <2>2, HaltIsCaused
<1>5. CASE s.entry # None /\ ~LooksAtGone(s) /\ ~Overflows(s) /\ FreedTwice(s)
  BY <1>1, <1>2, <1>5, HaltIsCaused DEF Uses, FreedTwice, CallInv, Caused
<1>6. CASE s.entry # None /\ ~LooksAtGone(s) /\ ~Overflows(s) /\ ~FreedTwice(s)
  <2>1. PICK e \in Cards \cup {None}, j \in Nat, pc \in CallPcs :
          /\ e = (IF Found(s) THEN s.entry ELSE None) /\ j = s.i + 1
          /\ pc = IF Found(s) THEN "end" ELSE "walk"
    BY DEF CallRecords, CallPcs
  <2>2. PICK r : r = [s EXCEPT !.pc = pc, !.entry = e, !.i = j]
    OBVIOUS
  <2>3. r \in CallRecords
    BY <2>2, CallTypes
  <2>4. /\ r.pc = pc /\ r.kind = s.kind /\ r.target = s.target /\ r.dev = s.dev
        /\ r.round = s.round /\ r.entry = e /\ r.last = s.last
    BY <2>2 DEF CallRecords
  <2>5. call' = [call EXCEPT ![c] = r]
    BY <1>1, <1>6, <2>1, <2>2 DEF Uses, RestInv, RestType
  <2>6. /\ UNCHANGED <<mapVars, module, files, hook, level, total, linked, cause>> /\ Quiet
        /\ fifo' = IF FreesRing(s) THEN [fifo EXCEPT ![s.entry] = "freed"] ELSE fifo
    BY <1>1, <1>6 DEF Uses
  <2>7. Shape(r)
    BY <1>2, <2>1, <2>4 DEF CallInv, Shape, Found, Targeted
  <2>8. Caused(r)
    BY <1>2, <2>1, <2>4 DEF CallInv, Caused, Found
  <2>9. Held(r)
    BY <1>2, <2>1, <2>4 DEF CallInv, Held
  <2>10. ASSUME Plugged PROVE Steady(r)
    BY <1>2, <2>1, <2>4, <2>10 DEF CallInv, Steady, Found
  <2>11. CallInv(r)
    BY <2>7, <2>8, <2>9, <2>10 DEF CallInv
  <2>12. /\ fifo' \in [Cards -> {"none", "live", "freed", "stale"}]
         /\ \A d \in Cards : fifo'[d] = fifo[d]
              \/ (fifo'[d] = "freed" /\ fifo[d] # "none" /\ "userexit" \in cause)
    BY <1>2, <2>6 DEF RestInv, RestType, FreesRing, CallInv, Caused
  <2>13. /\ hook' \in BOOLEAN /\ total' \in Nat /\ linked' \subseteq Cards
    BY <2>6 DEF RestInv, RestType
  <2>14. RingsInv'
    BY <2>6, <2>12 DEF RestInv, RingsInv, Plugged, mapVars
  <2>15. \A q : Around(q)
    <3>1. number \in Nat /\ number' = number /\ has' = has /\ bound' = bound
      BY <2>6 DEF MapInv, MapType, mapVars
    <3> QED BY <3>1, <2>6, <2>12 DEF Around
  <2>16. MapInv'
    BY <2>6, MapStepInv
  <2>17. CallInv(r)'
    BY <2>3, <2>11, <2>15, <2>16, CallStays
  <2> QED BY <1>2, <2>3, <2>5, <2>6, <2>12, <2>13, <2>14, <2>15, <2>16, <2>17, OneCall
<1> QED BY <1>3, <1>4, <1>5, <1>6

LEMMA HooksStep ==
  ASSUME MapInv, RestInv, NEW c \in Callers, Hooks(c)
  PROVE  RestInv' /\ Quiet
<1>1. PICK s \in CallRecords : s = call[c]
  BY DEF RestInv, RestType
<1>2. s.pc = "hook" /\ CallInv(s) /\ Up /\ OnlyCall /\ s.kind = "show"
  BY <1>1, CallingIsUp DEF Hooks, At, RestInv, CallInv, Shape
<1>3. CASE hook
  <2>1. PICK r : r = [s EXCEPT !.pc = "call"]
    OBVIOUS
  <2>2. r \in CallRecords
    BY <2>1, CallTypes DEF CallPcs
  <2>3. /\ r.pc = "call" /\ r.kind = s.kind /\ r.target = s.target /\ r.dev = s.dev
        /\ r.entry = s.entry /\ r.last = s.last
    BY <2>1 DEF CallRecords
  <2>4. call' = [call EXCEPT ![c] = r]
    BY <1>1, <1>3, <2>1 DEF Hooks, Goes, RestInv, RestType
  <2>5. CallInv(r)
    BY <1>2, <1>3, <2>3 DEF CallInv, Shape, Caused, Held, Steady
  <2> QED BY <1>2, <2>2, <2>4, <2>5, CallAlone DEF OnlyCall
<1>4. CASE ~hook
  BY <1>1, <1>2, <1>4, WalksStep DEF Hooks
<1> QED BY <1>3, <1>4

LEMMA CallsHookStep ==
  ASSUME MapInv, RestInv, NEW c \in Callers, CallsHook(c)
  PROVE  Halted \/ (RestInv' /\ Quiet)
<1>1. call[c].pc = "call" /\ CallInv(call[c]) /\ Up
  BY CallingIsUp DEF CallsHook, At, RestInv
<1>2. CASE Walks(c, 0) /\ OnlyCall
  BY <1>1, <1>2, WalksStep
<1>3. CASE ~hook /\ Breaks("call")
  BY <1>1, <1>3, HaltIsCaused DEF CallInv, Caused
<1> QED BY <1>2, <1>3 DEF CallsHook

LEMMA EndsStep ==
  ASSUME MapInv, RestInv, NEW c \in Callers, EndsRound(c) \/ FindsBus(c) \/ P2pRefuses(c)
  PROVE  RestInv' /\ Quiet
<1>1. call[c].pc # "idle" /\ OnlyCall
  BY DEF EndsRound, FindsBus, P2pRefuses, AtEnd, At
<1>2. Up
  BY <1>1, CallingIsUp
<1>3. (call[c].kind # "connect" /\ Walks(c, 1)) \/ Done(c)
  BY DEF EndsRound, FindsBus, P2pRefuses
<1> QED BY <1>1, <1>2, <1>3, WalksStep, DoneStep

LEMMA EndsFindStep ==
  ASSUME MapInv, RestInv, NEW c \in Callers, EndsFind(c)
  PROVE  RestInv' /\ Quiet
<1>1. PICK s \in CallRecords : s = call[c]
  BY DEF RestInv, RestType
<1>2. s.pc \in {"end", "walk"} /\ Targeted(s) /\ CallInv(s) /\ OnlyCall
  BY <1>1 DEF EndsFind, AtEnd, At, RestInv
<1>3. Up
  BY <1>1, <1>2, CallingIsUp
<1>4. CASE s.round = 0 /\ s.entry = None
  BY <1>1, <1>2, <1>3, <1>4, DoneStep DEF EndsFind
<1>5. CASE ~(s.round = 0 /\ s.entry = None)
  <2>1. PICK d \in Cards \cup {None} : d = IF s.round = 0 THEN s.entry ELSE s.dev
    BY DEF CallRecords
  <2>2. PICK pc \in CallPcs : pc = IF s.round = 0 THEN "ring" ELSE "count"
    BY DEF CallPcs
  <2>3. PICK r : r = [s EXCEPT !.pc = pc, !.entry = None, !.dev = d]
    OBVIOUS
  <2>4. r \in CallRecords
    BY <2>3, CallTypes
  <2>5. /\ r.pc = pc /\ r.kind = s.kind /\ r.target = s.target /\ r.dev = d
        /\ r.entry = None /\ r.last = s.last
    BY <2>3 DEF CallRecords
  <2>6. call' = [call EXCEPT ![c] = r]
    BY <1>1, <1>5, <2>1, <2>2, <2>3 DEF EndsFind, RestInv, RestType
  <2>7. r.round = s.round /\ s.round \in {0, 1}
    BY <2>3 DEF CallRecords
  <2>8. Shape(r)
    BY <1>2, <1>5, <2>1, <2>2, <2>5, <2>7 DEF CallInv, Shape, Targeted
  <2>9. Caused(r)
    BY <1>2, <2>1, <2>2, <2>5, <2>7 DEF CallInv, Caused, Shape
  <2>10. Held(r)
    BY <1>2, <2>1, <2>5 DEF CallInv, Held
  <2>11. ASSUME Plugged PROVE Steady(r)
    BY <1>2, <1>5, <2>1, <2>2, <2>5, <2>7, <2>11 DEF CallInv, Shape, Steady
  <2>12. CallInv(r)
    BY <2>8, <2>9, <2>10, <2>11 DEF CallInv
  <2> QED BY <1>2, <1>3, <2>4, <2>6, <2>12, CallAlone DEF OnlyCall
<1> QED BY <1>4, <1>5

LEMMA EndsUnloadStep ==
  ASSUME MapInv, RestInv, NEW c \in Callers, EndsUnload(c)
  PROVE  RestInv' /\ Quiet
<1>1. /\ call[c].pc # "idle" /\ call[c].kind = "unload" /\ CallInv(call[c]) /\ Done(c) /\ hook' = FALSE
      /\ UNCHANGED <<mapVars, module, files, level, total, fifo, linked, cause>> /\ Quiet
  BY DEF EndsUnload, AtEnd, At, RestInv
<1>2. Up /\ "userexit" \in cause
  BY <1>1, CallingIsUp DEF CallInv, Caused
<1>3. \A q : Around(q)
  <2>1. number \in Nat /\ number' = number /\ has' = has /\ bound' = bound
    BY <1>1 DEF MapInv, MapType, mapVars
  <2> QED BY <2>1, <1>1, <1>2 DEF Around
<1>4. MapInv'
  BY <1>1, MapStepInv
<1>5. NoWalk \in CallRecords /\ CallInv(NoWalk)'
  BY <1>3, <1>4, NoWalkRight, CallStays
<1>6. RingsInv'
  BY <1>1 DEF RestInv, RingsInv, Plugged, mapVars
<1>7. /\ total' \in Nat /\ linked' \subseteq Cards
      /\ fifo' \in [Cards -> {"none", "live", "freed", "stale"}]
  BY <1>1 DEF RestInv, RestType
<1> QED BY <1>1, <1>2, <1>3, <1>4, <1>5, <1>6, <1>7, OneCall DEF Done

LEMMA UsesRingStep ==
  ASSUME MapInv, RestInv, NEW c \in Callers, UsesRing(c)
  PROVE  Halted \/ (RestInv' /\ Quiet)
<1>1. PICK s \in CallRecords : s = call[c]
  BY DEF RestInv, RestType
<1>2. s.pc = "ring" /\ s.kind \in {"send", "recv"} /\ CallInv(s) /\ Up
  BY <1>1, CallingIsUp DEF UsesRing, At, RestInv
<1>3. s.target \in Cards /\ s.dev \in {s.target, None}
  BY <1>2 DEF CallInv, Shape
<1>4. CASE s.dev = None \/ "shm" \notin has[s.target] \/ fifo[s.target] = "stale"
  <2>1. ASSUME Plugged PROVE FALSE
    <3>1. s.dev = s.target /\ bound[s.target] = "bound"
      BY <1>2, <1>3, <2>1 DEF CallInv, Steady
    <3>2. has[s.target] = All
      BY <1>2, <1>3, <2>1, <3>1, UpIsSettled, Settled
    <3>3. fifo[s.target] # "stale"
      BY <1>2, <1>3, <2>1 DEF RestInv, RingsInv, Up
    <3> QED BY <1>3, <1>4, <3>1, <3>2, <3>3, StepParts, MapAssumption
  <2>2. fifo[s.target] = "none" => "unconnected" \in cause
    BY <1>2 DEF CallInv, Caused
  <2>3. fifo[s.target] = "freed" => "userexit" \in cause
    BY <1>3 DEF RestInv, RingsInv
  <2>4. \/ Breaks("freed")
        \/ fifo[s.target] = "none" /\ Breaks("noring")
        \/ fifo[s.target] = "freed" /\ Breaks("ring")
    BY <1>1, <1>4 DEF UsesRing
  <2> QED BY <2>1, <2>2, <2>3, <2>4, HaltIsCaused
<1>5. CASE ~(s.dev = None \/ "shm" \notin has[s.target] \/ fifo[s.target] = "stale")
  <2>1. CASE fifo[s.target] = "none"
    <3>1. Breaks("noring")
      BY <1>1, <1>5, <2>1 DEF UsesRing
    <3> QED BY <1>2, <2>1, <3>1, HaltIsCaused DEF CallInv, Caused
  <2>2. CASE fifo[s.target] = "freed"
    <3>1. Breaks("ring")
      BY <1>1, <1>5, <2>2 DEF UsesRing
    <3> QED BY <1>3, <2>2, <3>1, HaltIsCaused DEF RestInv, RingsInv
  <2>3. CASE fifo[s.target] \notin {"none", "freed"}
    <3>1. OnlyCall /\ (Walks(c, 1) \/ Done(c))
      BY <1>1, <1>5, <2>3 DEF UsesRing
    <3> QED BY <1>1, <1>2, <3>1, WalksStep, DoneStep
  <2> QED BY <2>1, <2>2, <2>3
<1> QED BY <1>4, <1>5

LEMMA RingFailsStep ==
  ASSUME NEW c \in Callers, RingFails(c)
  PROVE  Halted
BY DEF RingFails, Halted, CallCauses

LEMMA ConnectsStep ==
  ASSUME MapInv, RestInv, NEW c \in Callers, Connects(c)
  PROVE  Halted \/ (RestInv' /\ Quiet)
<1>1. PICK s \in CallRecords : s = call[c]
  BY DEF RestInv, RestType
<1>2. s.pc = "ring" /\ s.kind = "connect" /\ CallInv(s) /\ Up
  BY <1>1, CallingIsUp DEF Connects, At, RestInv
<1>3. s.target \in Cards /\ s.dev \in {s.target, None}
  BY <1>2 DEF CallInv, Shape
<1>4. CASE ~Usable(s.target) \/ s.dev = None
  <2>1. ASSUME Plugged PROVE FALSE
    <3>1. s.dev = s.target /\ bound[s.target] = "bound"
      BY <1>2, <1>3, <2>1 DEF CallInv, Steady
    <3>2. has[s.target] = All
      BY <1>2, <1>3, <2>1, <3>1, UpIsSettled, Settled
    <3> QED BY <1>3, <1>4, <3>1, <3>2, StepParts, MapAssumption DEF Usable, Bars
  <2>2. Breaks("freed")
    BY <1>1, <1>4 DEF Connects
  <2> QED BY <2>1, <2>2, HaltIsCaused
<1>5. CASE Usable(s.target) /\ s.dev # None /\ InitRing(s.target) = "freed"
  <2>1. "userexit" \in cause
    BY <1>3, <1>5 DEF InitRing, RestInv, RingsInv
  <2>2. Breaks("ring")
    BY <1>1, <1>5 DEF Connects
  <2> QED BY <2>1, <2>2, HaltIsCaused
<1>6. CASE Usable(s.target) /\ s.dev # None /\ InitRing(s.target) # "freed"
  <2>1. CASE Done(c) /\ OnlyCall
    BY <1>2, <2>1, DoneStep
  <2>2. CASE ~(Done(c) /\ OnlyCall)
    <3>1. PICK pc \in CallPcs : pc = IF level THEN "count" ELSE "shake"
      BY DEF CallPcs
    <3>2. PICK r : r = [s EXCEPT !.pc = pc]
      OBVIOUS
    <3>3. r \in CallRecords
      BY <3>2, CallTypes
    <3>4. /\ r.pc = pc /\ r.kind = s.kind /\ r.target = s.target /\ r.dev = s.dev
          /\ r.entry = s.entry /\ r.last = s.last /\ r.round = s.round
      BY <3>2 DEF CallRecords
    <3>5. /\ fifo' = [fifo EXCEPT ![s.target] = InitRing(s.target)]
          /\ Goes(c, pc)
          /\ UNCHANGED <<mapVars, module, files, hook, level, total, linked, cause>> /\ Quiet
      BY <1>1, <1>6, <2>2, <3>1 DEF Connects
    <3>6. call' = [call EXCEPT ![c] = r]
      BY <1>1, <3>2, <3>5 DEF Goes, RestInv, RestType
    <3>7. /\ fifo' \in [Cards -> {"none", "live", "freed", "stale"}]
          /\ \A d \in Cards : fifo'[d] = fifo[d] \/ (fifo'[d] = "live" /\ d \notin linked)
          /\ fifo'[s.target] \in {"live", "freed"}
      BY <1>3, <3>5 DEF RestInv, RestType, InitRing, RingsInv
    <3>8. RingsInv'
      BY <3>5, <3>7 DEF RestInv, RingsInv, Plugged, mapVars
    <3>9. \A q : Around(q)
      <4>1. number \in Nat /\ number' = number /\ has' = has /\ bound' = bound
        BY <3>5 DEF MapInv, MapType, mapVars
      <4> QED BY <4>1, <3>5, <3>7 DEF Around
    <3>10. MapInv'
      BY <3>5, MapStepInv
    <3>11. Shape(r)'
      BY <1>2, <3>1, <3>4 DEF CallInv, Shape
    <3>12. Caused(r)'
      BY <1>2, <3>1, <3>4, <3>5, <3>7 DEF CallInv, Caused
    <3>13. Held(r)'
      BY <1>2, <3>4, <3>5 DEF CallInv, Held, mapVars
    <3>14. ASSUME Plugged' PROVE Steady(r)'
      BY <1>2, <3>1, <3>4, <3>5, <3>14 DEF CallInv, Steady, Plugged, mapVars
    <3>15. CallInv(r)'
      BY <3>11, <3>12, <3>13, <3>14 DEF CallInv
    <3>16. hook' \in BOOLEAN /\ total' \in Nat /\ linked' \subseteq Cards
      BY <3>5 DEF RestInv, RestType
    <3> QED BY <1>2, <3>3, <3>5, <3>6, <3>7, <3>8, <3>9, <3>10, <3>15, <3>16, OneCall
  <2> QED BY <2>1, <2>2
<1> QED BY <1>4, <1>5, <1>6

LEMMA ClearsStep ==
  ASSUME MapInv, RestInv, NEW c \in Callers, Clears(c)
  PROVE  RestInv' /\ Quiet
<1>1. PICK s \in CallRecords : s = call[c]
  BY DEF RestInv, RestType
<1>2. s.pc = "count" /\ s.kind = "connect" /\ CallInv(s) /\ Up
  BY <1>1, CallingIsUp DEF Clears, At, RestInv
<1>3. PICK r : r = [s EXCEPT !.pc = "shake"]
  OBVIOUS
<1>4. r \in CallRecords
  BY <1>3, CallTypes DEF CallPcs
<1>5. /\ r.pc = "shake" /\ r.kind = s.kind /\ r.target = s.target /\ r.dev = s.dev
      /\ r.entry = s.entry /\ r.last = s.last /\ r.round = s.round
  BY <1>3 DEF CallRecords
<1>6. /\ total' = 0 /\ Goes(c, "shake") /\ cause \subseteq cause'
      /\ UNCHANGED <<mapVars, module, files, hook, level, fifo, linked>> /\ Quiet
  BY DEF Clears
<1>7. call' = [call EXCEPT ![c] = r]
  BY <1>1, <1>3, <1>6 DEF Goes, RestInv, RestType
<1>8. ASSUME NEW e \in Callers PROVE Around(call[e])
  <2>1. number \in Nat /\ number' = number /\ has' = has /\ bound' = bound
    BY <1>6 DEF MapInv, MapType, mapVars
  <2>2. call[e].pc = "divide" => "overlap" \in cause'
    BY DEF Clears, RestInv, CallInv, Shape
  <2> QED BY <2>1, <2>2, <1>6 DEF Around
<1>9. CallInv(r)'
  <2>1. Shape(r)'
    BY <1>2, <1>5 DEF CallInv, Shape
  <2>2. Caused(r)'
    BY <1>2, <1>5, <1>6 DEF CallInv, Caused
  <2>3. Held(r)'
    BY <1>2, <1>5, <1>6 DEF CallInv, Held, mapVars
  <2>4. ASSUME Plugged' PROVE Steady(r)'
    BY <1>2, <1>5, <1>6, <2>4 DEF CallInv, Steady, Plugged, mapVars
  <2> QED BY <2>1, <2>2, <2>3, <2>4 DEF CallInv
<1>10. RingsInv'
  BY <1>6 DEF RestInv, RingsInv, Plugged, mapVars
<1>11. /\ hook' \in BOOLEAN /\ linked' \subseteq Cards /\ total' \in Nat
       /\ fifo' \in [Cards -> {"none", "live", "freed", "stale"}]
  BY <1>6 DEF RestInv, RestType
<1>12. MapInv'
  BY <1>6, MapStepInv
<1> QED BY <1>2, <1>4, <1>6, <1>7, <1>8, <1>9, <1>10, <1>11, <1>12, OneCall

LEMMA ShakesStep ==
  ASSUME MapInv, RestInv, NEW c \in Callers, Shakes(c)
  PROVE  Halted \/ (RestInv' /\ Quiet)
<1>1. PICK s \in CallRecords : s = call[c]
  BY DEF RestInv, RestType
<1>2. s.pc = "shake" /\ s.kind = "connect" /\ CallInv(s) /\ Up
  BY <1>1, CallingIsUp DEF Shakes, At, RestInv, CallInv, Shape
<1>3. CASE s.dev = None
  <2>1. ~Plugged
    BY <1>2, <1>3 DEF CallInv, Steady
  <2> QED BY <1>1, <1>3, <2>1, HaltIsCaused DEF Shakes
<1>4. CASE s.dev # None
  <2>1. s.dev = s.target /\ s.target \in Cards
    BY <1>2, <1>4 DEF CallInv, Shape
  <2>2. fifo[s.target] \in {"live", "freed"} /\ "record" \in has[s.target]
    BY <1>2, <1>4, <2>1 DEF CallInv, Caused, Held
  <2>3. /\ Done(c) /\ linked' \in {linked, linked \cup {s.target}}
        /\ UNCHANGED <<mapVars, module, files, hook, level, total, fifo, cause>> /\ Quiet
    BY <1>1, <1>4 DEF Shakes
  <2>4. RingsInv'
    BY <2>2, <2>3 DEF RestInv, RingsInv, Plugged, mapVars
  <2>5. \A q : Around(q)
    <3>1. number \in Nat /\ number' = number /\ has' = has /\ bound' = bound
      BY <2>3 DEF MapInv, MapType, mapVars
    <3> QED BY <3>1, <2>3 DEF Around
  <2>6. MapInv'
    BY <2>3, MapStepInv
  <2>7. NoWalk \in CallRecords /\ CallInv(NoWalk)'
    BY <2>5, <2>6, NoWalkRight, CallStays
  <2>8. /\ hook' \in BOOLEAN /\ linked' \subseteq Cards /\ total' \in Nat
        /\ fifo' \in [Cards -> {"none", "live", "freed", "stale"}]
    BY <2>1, <2>3 DEF RestInv, RestType
  <2> QED BY <1>2, <2>3, <2>4, <2>5, <2>6, <2>7, <2>8, OneCall DEF Done
<1> QED BY <1>3, <1>4

LEMMA CountsStep ==
  ASSUME MapInv, RestInv, NEW c \in Callers, Counts(c)
  PROVE  RestInv' /\ Quiet
<1>1. PICK s \in CallRecords : s = call[c]
  BY DEF RestInv, RestType
<1>2. s.pc = "count" /\ s.kind \in {"send", "recv"} /\ CallInv(s) /\ Up
  BY <1>1, CallingIsUp DEF Counts, At, RestInv
<1>3. CASE s.kind = "recv"
  BY <1>1, <1>2, <1>3, DoneStep DEF Counts
<1>4. CASE s.kind = "send"
  <2>1. PICK t \in Totals(s) :
          /\ call' = [call EXCEPT ![c].pc = "divide", ![c].time = t]
          /\ total' = t
          /\ cause' = IF t > 0 THEN cause
                      ELSE cause \cup {IF s.timed THEN "instant" ELSE "policy"}
          /\ UNCHANGED <<mapVars, module, files, hook, level, fifo, linked>> /\ Quiet
    BY <1>1, <1>4 DEF Counts
  <2>2. t \in Nat
    BY DEF Totals, RestInv, RestType
  <2>3. PICK r : r = [s EXCEPT !.pc = "divide", !.time = t]
    OBVIOUS
  <2>4. r \in CallRecords
    BY <2>2, <2>3, CallTypes DEF CallPcs
  <2>5. /\ r.pc = "divide" /\ r.kind = s.kind /\ r.target = s.target /\ r.dev = s.dev
        /\ r.entry = s.entry /\ r.last = s.last /\ r.round = s.round /\ r.time = t
    BY <2>3 DEF CallRecords
  <2>6. call' = [call EXCEPT ![c] = r]
    BY <1>1, <2>1, <2>3 DEF RestInv, RestType
  <2>7. cause \subseteq cause' /\ (t = 0 => cause' \cap {"overlap", "instant", "policy"} # {})
    BY <2>1
  <2>8. \A q : Around(q)
    <3>1. number \in Nat /\ number' = number /\ has' = has /\ bound' = bound
      BY <2>1 DEF MapInv, MapType, mapVars
    <3> QED BY <3>1, <2>1, <2>7 DEF Around
  <2>9. Shape(r)'
    BY <1>2, <1>4, <2>5 DEF CallInv, Shape
  <2>10. Caused(r)'
    <3>1. 0 \in {r.time, total'} => t = 0
      BY <2>1, <2>5
    <3>2. fifo' = fifo
      BY <2>1
    <3> QED BY <1>2, <1>4, <2>5, <2>7, <3>1, <3>2 DEF CallInv, Caused
  <2>11. Held(r)'
    BY <1>2, <2>1, <2>5 DEF CallInv, Held, mapVars
  <2>12. ASSUME Plugged' PROVE Steady(r)'
    BY <1>2, <2>1, <2>5, <2>7, <2>12 DEF CallInv, Steady, Plugged, mapVars
  <2>13. CallInv(r)'
    BY <2>9, <2>10, <2>11, <2>12 DEF CallInv
  <2>14. RingsInv'
    BY <2>1, <2>7 DEF RestInv, RingsInv, Plugged, mapVars
  <2>15. /\ hook' \in BOOLEAN /\ linked' \subseteq Cards /\ total' \in Nat
         /\ fifo' \in [Cards -> {"none", "live", "freed", "stale"}]
    BY <2>1, <2>2 DEF RestInv, RestType
  <2>16. MapInv'
    BY <2>1, MapStepInv
  <2> QED BY <1>2, <2>1, <2>4, <2>6, <2>7, <2>8, <2>13, <2>14, <2>15, <2>16, OneCall
<1> QED BY <1>2, <1>3, <1>4

LEMMA DividesStep ==
  ASSUME MapInv, RestInv, NEW c \in Callers, Divides(c)
  PROVE  Halted \/ (RestInv' /\ Quiet)
<1>1. call[c].pc = "divide" /\ CallInv(call[c]) /\ Up
  BY CallingIsUp DEF Divides, At, RestInv
<1>2. CASE 0 \in {call[c].time, total} /\ Breaks("divide")
  BY <1>1, <1>2, HaltIsCaused DEF CallInv, Caused
<1>3. CASE Done(c) /\ OnlyCall
  BY <1>1, <1>3, DoneStep
<1> QED BY <1>2, <1>3 DEF Divides

LEMMA CallingStep ==
  ASSUME MapInv, EntryHeld, RestInv, NEW c \in Callers, Calling(c)
  PROVE  Halted \/ (RestInv' /\ Quiet)
<1>1. CASE \/ GetsIds(c) \/ ReadsProc(c) \/ P2pIoctl(c) \/ UserUnloads(c)
           \/ \E d \in Cards : MsgSend(c, d) \/ CheckRemote(c, d)
  BY <1>1, CallsBegin
<1>2. CASE \E d \in Cards : RecvBegins(c, d)
  BY <1>2, RecvBeginsStep
<1>3. CASE Loads(c) \/ Uses(c) \/ Hooks(c) \/ CallsHook(c)
  BY <1>3, LoadsStep, UsesStep, HooksStep, CallsHookStep
<1>4. CASE EndsRound(c) \/ FindsBus(c) \/ P2pRefuses(c) \/ EndsFind(c) \/ EndsUnload(c)
  BY <1>4, EndsStep, EndsFindStep, EndsUnloadStep
<1>5. CASE UsesRing(c) \/ Connects(c) \/ RingFails(c) \/ Clears(c)
  BY <1>5, UsesRingStep, ConnectsStep, RingFailsStep, ClearsStep
<1>6. CASE Shakes(c) \/ Counts(c) \/ Divides(c)
  BY <1>6, ShakesStep, CountsStep, DividesStep
<1> QED BY <1>1, <1>2, <1>3, <1>4, <1>5, <1>6 DEF Calling

-----------------------------------------------------------------------------
(* The module, and cards that come and go *)

LEMMA CallsStay ==
  ASSUME MapInv, MapInv', RestInv, call' = call, \A c \in Callers : Around(call[c])
  PROVE  \A c \in Callers : CallInv(call[c])'
<1>1. SUFFICES ASSUME NEW c \in Callers PROVE CallInv(call[c])'
  OBVIOUS
<1>2. PICK s \in CallRecords : s = call[c]
  BY DEF RestInv, RestType
<1>3. CallInv(s) /\ Around(s)
  BY <1>2 DEF RestInv
<1>4. CallInv(s)'
  BY <1>3, CallStays
<1> QED BY <1>2, <1>4 DEF CallInv, Shape, Caused, Held, Steady

LEMMA NobodyCalls ==
  ASSUME MapInv', \A c \in Callers : call'[c] = NoWalk
  PROVE  \A c \in Callers : CallInv(call[c])'
<1>1. SUFFICES ASSUME NEW c \in Callers PROVE CallInv(call[c])'
  OBVIOUS
<1>2. call'[c] = NoWalk
  OBVIOUS
<1>3. Shape(call[c])' /\ Held(call[c])'
  BY <1>2 DEF NoWalk, Shape, Held
<1>4. Caused(call[c])'
  BY <1>2, HostAssumption DEF NoWalk, Caused
<1>5. Steady(call[c])'
  BY <1>2 DEF NoWalk, Steady, MapInv, MapType
<1> QED BY <1>3, <1>4, <1>5 DEF CallInv

LEMMA MapKept ==
  ASSUME MapInv, UNCHANGED mapVars
  PROVE  MapInv'
BY MapStepInv

LEMMA HostLoadsStep ==
  ASSUME MapInv, RestInv, HostLoads
  PROVE  RestInv' /\ Quiet
<1> USE DEF RestInv
<1>1. /\ module.pc = "out" /\ fifo' = [d \in Cards |-> "none"]
      /\ UNCHANGED <<mapVars, files, linked, call, cause>> /\ Quiet
      /\ module' = [pc |-> "filled", n |-> 0] \/ module' = [pc |-> "undo", n |-> 0]
      /\ hook' \in BOOLEAN /\ level' \in BOOLEAN /\ (total' = 0 \/ total' = total)
  BY DEF HostLoads, ProcInit, ModuleGoes, RestType
<1>2. core.pc = "idle" /\ \A d \in Cards : bound[d] = "no"
  BY <1>1 DEF ModuleInv
<1>3. linked = {}
  <2>1. \A d \in Cards : has[d] \subseteq Bars
    BY <1>2, Settled
  <2>2. \A d \in Cards : "record" \notin has[d]
    BY <2>1 DEF Bars
  <2> QED BY <2>2 DEF RingsInv, RestType
<1>4. RingsInv'
  BY <1>1, <1>3 DEF RingsInv
<1>5. RestType'
  <2>1. module' \in [pc : ModulePcs, n : 0..Len(Files)]
    BY <1>1, FilesAre DEF ModulePcs
  <2>2. hook' \in BOOLEAN /\ level' \in BOOLEAN /\ total' \in Nat
    BY <1>1 DEF RestType
  <2>3. fifo' \in [Cards -> {"none", "live", "freed", "stale"}]
    BY <1>1
  <2> QED BY <1>1, <2>1, <2>2, <2>3 DEF RestType
<1>6. ModuleInv'
  BY <1>1, <1>2 DEF ModuleInv, Up, Plugged, mapVars
<1>7. \A c \in Callers : call'[c] = NoWalk
  BY <1>1 DEF ModuleInv, Up
<1> QED BY <1>1, <1>4, <1>5, <1>6, <1>7, MapKept, NobodyCalls

LEMMA CreatesFileStep ==
  ASSUME MapInv, RestInv, CreatesFile
  PROVE  RestInv' /\ Quiet
<1> USE DEF RestInv
<1>1. /\ module.pc = "filled" /\ module.n \in Nat /\ module.n < 5
      /\ UNCHANGED <<mapVars, hook, level, total, fifo, linked, call, cause>> /\ Quiet
  BY FilesAre DEF CreatesFile, RestType
<1>2. PICK k \in 1..5 : k = module.n + 1
  BY <1>1
<1>3. /\ files' \in {files, [files EXCEPT !.made = @ \cup {Files[k]}]}
      /\ \/ module' = [pc |-> "made", n |-> k]
         \/ module' = [pc |-> "up", n |-> 2] /\ files' = files
  BY <1>2 DEF CreatesFile, ModuleGoes
<1>4. files' \in [made : SUBSET FileNames, ready : SUBSET FileNames]
  <2>1. Files[k] \in FileNames
    BY <1>2, FilesAre
  <2> QED BY <1>3, <2>1 DEF RestType
<1>5. RestType'
  BY <1>1, <1>2, <1>3, <1>4, FilesAre DEF RestType, ModulePcs
<1>6. RingsInv'
  BY <1>1 DEF RingsInv, Plugged, mapVars
<1>7. files.made \subseteq files.ready
  BY <1>1 DEF ModuleInv
<1>8. ModuleInv'
  <2>1. files'.made \subseteq files'.ready \cup
          (IF module'.pc = "made" THEN {Files[module'.n]} ELSE {})
    BY <1>3, <1>7 DEF RestType
  <2>2. module'.pc \in {"made", "up"} /\ (module'.pc = "made" => module'.n > 0)
    BY <1>2, <1>3
  <2>3. core.pc = "idle" \/ ~Plugged
    BY <1>1 DEF ModuleInv
  <2>4. \A c \in Callers : call[c] = NoWalk
    BY <1>1 DEF ModuleInv, Up
  <2> QED BY <1>1, <2>1, <2>2, <2>3, <2>4 DEF ModuleInv, Up, Plugged, mapVars
<1>9. \A c \in Callers : call'[c] = NoWalk
  BY <1>1 DEF ModuleInv, Up
<1> QED BY <1>1, <1>5, <1>6, <1>8, <1>9, MapKept, NobodyCalls

LEMMA FillsItemStep ==
  ASSUME MapInv, RestInv, FillsItem
  PROVE  RestInv' /\ Quiet
<1> USE DEF RestInv
<1>1. /\ module.pc = "made" /\ module.n \in 1..5
      /\ UNCHANGED <<mapVars, hook, level, total, fifo, linked, call, cause>> /\ Quiet
  BY FilesAre DEF FillsItem, RestType, ModuleInv
<1>2. PICK k \in 1..5 : k = module.n
  BY <1>1
<1>3. /\ files' = [files EXCEPT !.ready = @ \cup {Files[k]}]
      /\ module' \in [pc : {"filled", "up"}, n : {k}]
  BY <1>2 DEF FillsItem, ModuleGoes
<1>4. files' \in [made : SUBSET FileNames, ready : SUBSET FileNames]
  <2>1. Files[k] \in FileNames
    BY <1>2, FilesAre
  <2> QED BY <1>3, <2>1 DEF RestType
<1>5. RestType'
  BY <1>1, <1>2, <1>3, <1>4, FilesAre DEF RestType, ModulePcs
<1>6. RingsInv'
  BY <1>1 DEF RingsInv, Plugged, mapVars
<1>7. ModuleInv'
  <2>1. files.made \subseteq files.ready \cup {Files[k]}
    BY <1>1, <1>2 DEF ModuleInv
  <2>2. files'.made \subseteq files'.ready
    BY <1>3, <2>1 DEF RestType
  <2>3. core.pc = "idle" \/ ~Plugged
    BY <1>1 DEF ModuleInv
  <2>4. \A c \in Callers : call[c] = NoWalk
    BY <1>1 DEF ModuleInv, Up
  <2> QED BY <1>1, <1>3, <2>2, <2>3, <2>4 DEF ModuleInv, Up, Plugged, mapVars
<1>8. \A c \in Callers : call'[c] = NoWalk
  BY <1>1 DEF ModuleInv, Up
<1> QED BY <1>1, <1>5, <1>6, <1>7, <1>8, MapKept, NobodyCalls

LEMMA HostExitsStep ==
  ASSUME MapInv, RestInv, HostExits
  PROVE  RestInv' /\ Quiet
<1> USE DEF RestInv
<1>1. /\ files' = [made |-> {}, ready |-> {}] /\ module' = [pc |-> "undo", n |-> 0]
      /\ UNCHANGED <<mapVars, hook, level, total, fifo, linked, call, cause>> /\ Quiet
      /\ \A c \in Callers : call'[c] = NoWalk
  BY DEF HostExits, RemovesFiles, ModuleGoes
<1>2. RestType'
  BY <1>1, FilesAre DEF RestType, ModulePcs
<1>3. RingsInv'
  BY <1>1 DEF RingsInv, Plugged, mapVars
<1>4. ModuleInv'
  BY <1>1 DEF ModuleInv, Up, Plugged, mapVars
<1> QED BY <1>1, <1>2, <1>3, <1>4, MapKept, NobodyCalls

LEMMA UnregistersStep ==
  ASSUME MapInv, RestInv, Unregisters
  PROVE  RestInv' /\ Quiet
<1> USE DEF RestInv
<1>1. /\ module.pc = "undo" /\ files.made = {}
      /\ UNCHANGED <<files, hook, level, total, fifo, linked, call, cause>> /\ Quiet
      /\ \A c \in Callers : call'[c] = NoWalk
  BY DEF Unregisters, ModuleInv, Up
<1>2. CASE \E d \in Cards : bound[d] # "no"
  <2>1. PICK d \in Cards : RemoveBegins(d)
    BY <1>2 DEF Unregisters
  <2>2. UNCHANGED <<map, number, has, module>>
    BY <1>2, <2>1 DEF Unregisters, RemoveBegins
  <2>3. RestType'
    BY <1>1, <2>2 DEF RestType
  <2>4. RingsInv'
    BY <1>1, <2>2 DEF RingsInv, Plugged
  <2>5. ModuleInv'
    BY <1>1, <2>2 DEF ModuleInv, Up, Plugged
  <2>6. MapInv'
    BY <2>1, MapStepInv DEF MapNext
  <2> QED BY <1>1, <2>3, <2>4, <2>5, <2>6, NobodyCalls
<1>3. CASE ~\E d \in Cards : bound[d] # "no"
  <2>1. core.pc = "idle" /\ module' = [pc |-> "out", n |-> 0] /\ UNCHANGED mapVars
    BY <1>3 DEF Unregisters, CoreAt, ModuleGoes
  <2>2. RestType'
    BY <1>1, <2>1, FilesAre DEF RestType, ModulePcs
  <2>3. RingsInv'
    BY <1>1, <2>1 DEF RingsInv, Plugged, mapVars
  <2>4. ModuleInv'
    BY <1>1, <1>3, <2>1 DEF ModuleInv, Up, Plugged, mapVars
  <2> QED BY <1>1, <2>1, <2>2, <2>3, <2>4, MapKept, NobodyCalls
<1> QED BY <1>2, <1>3

LEMMA UserLoadsStep ==
  ASSUME MapInv, RestInv, UserLoads \/ SetsPolicy
  PROVE  RestInv' /\ Quiet
<1> USE DEF RestInv
<1>1. /\ UNCHANGED <<mapVars, module, files, total, fifo, linked, call, cause>> /\ Quiet
      /\ hook' \in BOOLEAN /\ level' \in BOOLEAN /\ (hook => hook')
  BY DEF UserLoads, SetsPolicy, RestType
<1>2. RestType'
  BY <1>1 DEF RestType
<1>3. ModuleInv' /\ RingsInv'
  BY <1>1 DEF ModuleInv, RingsInv, Up, Plugged, mapVars
<1>4. \A q : Around(q)
  <2>1. number \in Nat /\ number' = number /\ has' = has /\ bound' = bound
    BY <1>1 DEF MapInv, MapType, mapVars
  <2> QED BY <2>1, <1>1 DEF Around
<1> QED BY <1>1, <1>2, <1>3, <1>4, MapKept, CallsStay

LEMMA OpensUnreadyStep ==
  ASSUME RestInv, OpensUnready
  PROVE  Halted
<1>1. ~Up
  BY DEF OpensUnready, RestInv, ModuleInv, Up
<1> QED BY <1>1 DEF OpensUnready, Halted, CallCauses

LEMMA ProbeStep ==
  ASSUME MapInv, RestInv, NEW d \in Cards, Probe(d)
  PROVE  RestInv' /\ Quiet
<1> USE DEF RestInv
<1>1. /\ ProbeCard(d) /\ module.pc # "out" /\ UNCHANGED <<hostVars, call>> /\ Quiet
      /\ cause' = IF number' > P2PMax THEN cause \cup {"many"} ELSE cause
  BY DEF Probe, ProbeCard, Registered
<1>2. MapInv'
  BY <1>1, MapStepInv DEF MapNext
<1>3. /\ number \in Nat /\ number' \in Nat /\ number <= number' /\ core' = core
      /\ \A e \in Cards : bound[e] = "bound" => bound'[e] = "bound"
      /\ \A e \in Cards : "record" \in has[e] => "record" \in has'[e]
  <2> USE DEF MapInv, MapType
  <2>1. CASE ProbeFails(d)
    BY <2>1 DEF ProbeFails
  <2>2. CASE ProbeRefused(d)
    BY <2>2 DEF ProbeRefused, mapVars
  <2>3. CASE ProbeBinds(d)
    BY <2>3, AllHoldsRecord DEF ProbeBinds
  <2> QED BY <1>1, <2>1, <2>2, <2>3 DEF ProbeCard
<1>4. cause \subseteq cause' /\ Plugged' = Plugged
  BY <1>1 DEF Plugged
<1>5. RestType'
  BY <1>1 DEF RestType, hostVars
<1>6. RingsInv'
  BY <1>1, <1>3, <1>4 DEF RingsInv, hostVars
<1>7. ModuleInv'
  <2>1. number' > P2PMax => "many" \in cause'
    BY <1>1
  <2> QED BY <1>1, <1>3, <1>4, <2>1 DEF ModuleInv, Up, hostVars
<1>8. \A q : Around(q)
  BY <1>1, <1>3, <1>4 DEF Around, hostVars
<1> QED BY <1>1, <1>2, <1>5, <1>6, <1>7, <1>8, CallsStay

LEMMA RemoveCardStep ==
  ASSUME MapInv, RestInv, NEW d \in Cards, Remove(d)
  PROVE  RestInv' /\ Quiet
<1> USE DEF RestInv
<1>1. /\ RemoveBegins(d) /\ module.pc # "out" /\ UNCHANGED <<hostVars, call>> /\ Quiet
      /\ cause' = IF bound[d] = "bound" THEN cause \cup {"unplugged"} ELSE cause
  BY DEF Remove, Registered
<1>2. MapInv'
  BY <1>1, MapStepInv DEF MapNext
<1>3. number' = number /\ has' = has /\ number \in Nat
  BY <1>1 DEF RemoveBegins, MapInv, MapType
<1>4. /\ cause \subseteq cause' /\ (Plugged' => Plugged)
      /\ Plugged' => core' = core /\ \A e \in Cards : bound[e] = "bound" => bound'[e] = "bound"
  <2>1. cause \subseteq cause'
    BY <1>1
  <2>2. ASSUME Plugged' PROVE bound[d] = "hollow"
    BY <1>1, <2>2 DEF Plugged, RemoveBegins, MapInv, MapType
  <2>3. Plugged' => core' = core /\ \A e \in Cards : bound[e] = "bound" => bound'[e] = "bound"
    BY <1>1, <2>2 DEF RemoveBegins, MapInv, MapType
  <2> QED BY <2>1, <2>3 DEF Plugged
<1>5. RestType'
  BY <1>1 DEF RestType, hostVars
<1>6. RingsInv'
  BY <1>1, <1>3, <1>4 DEF RingsInv, hostVars
<1>7. ModuleInv'
  BY <1>1, <1>3, <1>4 DEF ModuleInv, Up, hostVars
<1>8. \A q : Around(q)
  BY <1>1, <1>3, <1>4 DEF Around, hostVars
<1> QED BY <1>1, <1>2, <1>5, <1>6, <1>7, <1>8, CallsStay

LEMMA RemoveFalls ==
  ASSUME MapInv, RemoveStep
  PROVE  core.pc # "idle" /\ number \in Nat /\ number' \in Nat /\ number' <= number
<1> USE DEF MapInv, MapType, CoreRight
<1>1. core.pc # "idle" /\ number \in Nat
  BY DEF RemoveStep, Releases, MovesLast, ClearsLast, Uncounts, CoreAt
<1>2. number' \in {number, number - 1} /\ number > 0
  BY <1>1 DEF RemoveStep, Releases, MovesLast, ClearsLast, Uncounts
<1> QED BY <1>1, <1>2

LEMMA SameCall ==
  ASSUME NEW s \in CallRecords
  PROVE  [s EXCEPT !.entry = s.entry, !.dev = s.dev] = s
BY DEF CallRecords

\* Of a call that knows a record which goes, the pointers are dead.
LEMMA RemoveGoesOnStep ==
  ASSUME MapInv, RestInv, RemoveGoesOn
  PROVE  RestInv' /\ Quiet
<1> DEFINE freed == {d \in Cards : "record" \in has[d] /\ "record" \notin has'[d]}
           Kept(d) == IF d \in freed THEN None ELSE d
<1>1. /\ RemoveStep /\ UNCHANGED <<module, files, hook, level, total, cause>> /\ Quiet
      /\ linked' = linked \ freed
      /\ fifo' = [d \in Cards |-> IF d \in freed /\ fifo[d] = "live" THEN "stale" ELSE fifo[d]]
  BY DEF RemoveGoesOn
<1>2. call' = [c \in Callers |-> [call[c] EXCEPT !.entry = Kept(call[c].entry),
                                                !.dev = Kept(call[c].dev)]]
  BY DEF RemoveGoesOn
<1>3. MapInv' /\ Plugged' = Plugged
  BY <1>1, MapStepInv DEF MapNext, Plugged
<1>4. core.pc # "idle" /\ number \in Nat /\ number' \in Nat /\ number' <= number
  BY <1>1, RemoveFalls
<1>5. module.pc = "undo" \/ ~Plugged
  BY <1>4 DEF RestInv, ModuleInv
<1>6. module.pc # "out"
  BY <1>4 DEF RestInv, ModuleInv
<1>7. /\ \A d \in Cards : d \in freed => "record" \in has[d]
      /\ \A d \in Cards : "record" \in has[d] /\ d \notin freed => "record" \in has'[d]
      /\ \A d \in Cards \cup {None} : Kept(d) \in {d, None} /\ (Kept(d) # None => d \notin freed)
      /\ Kept(None) = None
  BY MapAssumption
<1>8. /\ fifo' \in [Cards -> {"none", "live", "freed", "stale"}]
      /\ \A d \in Cards : fifo'[d] = fifo[d] \/ (d \in freed /\ fifo[d] = "live" /\ fifo'[d] = "stale")
  BY <1>1 DEF RestInv, RestType
<1> HIDE DEF freed, Kept
<1>9. RingsInv'
  BY <1>1, <1>3, <1>5, <1>7, <1>8 DEF RestInv, RingsInv
<1>10. ASSUME NEW c \in Callers
       PROVE  call'[c] \in CallRecords /\ CallInv(call[c])' /\ (call[c] = NoWalk => call'[c] = NoWalk)
  <2>1. PICK s \in CallRecords : s = call[c]
    BY DEF RestInv, RestType
  <2>2. CallInv(s)
    BY <2>1 DEF RestInv
  <2>3. PICK e, d : e = Kept(s.entry) /\ d = Kept(s.dev)
    OBVIOUS
  <2>4. s.entry \in Cards \cup {None} /\ s.dev \in Cards \cup {None}
    BY DEF CallRecords
  <2>5. /\ e \in {s.entry, None} /\ (e # None => s.entry \notin freed)
        /\ d \in {s.dev, None} /\ (d # None => s.dev \notin freed)
    BY <1>7, <2>3, <2>4
  <2>6. PICK r : r = [s EXCEPT !.entry = e, !.dev = d]
    OBVIOUS
  <2>7. call'[c] = r
    BY <1>2, <2>1, <2>3, <2>6
  <2>8. r \in CallRecords
    BY <2>4, <2>5, <2>6 DEF CallRecords
  <2>9. /\ r.entry = e /\ r.dev = d /\ r.pc = s.pc /\ r.kind = s.kind /\ r.round = s.round
        /\ r.target = s.target /\ r.i = s.i /\ r.last = s.last /\ r.time = s.time
    BY <2>6 DEF CallRecords
  <2>10. s = NoWalk => r = NoWalk
    <3>1. ASSUME s = NoWalk PROVE e = None /\ d = None
      BY <2>5, <3>1 DEF NoWalk
    <3>2. s = NoWalk => s.entry = None /\ s.dev = None
      BY DEF NoWalk
    <3> QED BY <2>6, <3>1, <3>2, SameCall
  <2>11. Shape(r)'
    <3>1. Shape(s)
      BY <2>2 DEF CallInv
    <3> QED BY <2>5, <2>9, <2>10, <3>1 DEF Shape
  <2>12. Caused(r)'
    <3>1. Caused(s) /\ Shape(s)
      BY <2>2 DEF CallInv
    <3>2. s.kind \in {"send", "recv"} => fifo'[s.target] # "none" \/ "unconnected" \in cause
      BY <1>8, <3>1 DEF Caused, Shape
    <3>3. s.kind = "connect" /\ s.pc \in {"count", "shake"} /\ d # None =>
            fifo'[s.target] \in {"live", "freed"}
      BY <1>8, <2>5, <3>1 DEF Caused, Shape
    <3> QED BY <1>1, <2>9, <3>1, <3>2, <3>3 DEF Caused
  <2>13. Held(r)'
    BY <1>7, <2>2, <2>4, <2>5, <2>9 DEF CallInv, Held
  <2>14. ASSUME Plugged PROVE Steady(r)'
    <3>1. s = NoWalk
      BY <1>5, <2>1, <2>14 DEF RestInv, ModuleInv, Up
    <3> QED BY <1>4, <2>10, <3>1 DEF Steady, NoWalk
  <2>15. CallInv(r)'
    BY <1>3, <2>11, <2>12, <2>13, <2>14 DEF CallInv
  <2> QED BY <2>1, <2>7, <2>8, <2>10, <2>15 DEF CallInv, Shape, Caused, Held, Steady
<1>11. RestType'
  <2>1. call' \in [Callers -> CallRecords]
    <3>1. call' = [c \in Callers |-> call'[c]]
      BY <1>2
    <3> QED BY <3>1, <1>10
  <2> QED BY <1>1, <1>8, <2>1 DEF RestInv, RestType
<1>12. ModuleInv'
  <2>1. number' > P2PMax => "many" \in cause'
    BY <1>1, <1>4, HostAssumption DEF RestInv, ModuleInv
  <2>2. ~Up' => \A c \in Callers : call'[c] = NoWalk
    BY <1>1, <1>10 DEF RestInv, ModuleInv, Up
  <2> QED BY <1>1, <1>3, <1>5, <1>6, <2>1, <2>2 DEF RestInv, ModuleInv
<1> QED BY <1>1, <1>9, <1>10, <1>11, <1>12 DEF RestInv

LEMMA RestStep ==
  ASSUME MapInv, EntryHeld, RestInv, HostNext
  PROVE  Halted \/ (RestInv' /\ Quiet)
<1>1. CASE Host
  BY <1>1, HostLoadsStep, CreatesFileStep, FillsItemStep, HostExitsStep, UnregistersStep DEF Host
<1>2. CASE UserLoads \/ SetsPolicy
  BY <1>2, UserLoadsStep
<1>3. CASE OpensUnready
  BY <1>3, OpensUnreadyStep
<1>4. CASE RemoveGoesOn
  BY <1>4, RemoveGoesOnStep
<1>5. ASSUME NEW d \in Cards, Probe(d) \/ Remove(d)
      PROVE  RestInv' /\ Quiet
  BY <1>5, ProbeStep, RemoveCardStep
<1>6. ASSUME NEW c \in Callers, Calling(c)
      PROVE  Halted \/ (RestInv' /\ Quiet)
  BY <1>6, CallingStep
<1> QED BY <1>1, <1>2, <1>3, <1>4, <1>5, <1>6 DEF HostNext

-----------------------------------------------------------------------------
(* The theorems *)

\* What has broken so far, if anything has, had its cause.
ClientsSafe == ClientsInv /\ CallsForCause /\ NetForCause

\* Both clients begin so.
LEMMA ClientsInitSafe == ClientsInit => ClientsSafe
<1> SUFFICES ASSUME ClientsInit PROVE ClientsSafe
  OBVIOUS
<1> USE DEF ClientsInit, HostInit
<1>1. MapInv
  BY MapInitInv
<1>2. EntryHeld /\ clients \in Clients
  BY DEF MapInit, EntryHeld
<1>3. CallsForCause /\ NetForCause
  BY DEF CallsForCause, NetForCause
<1>4. ASSUME clients = "net" PROVE NetInv
  <2>1. npc = [pc |-> "out", i |-> 0, card |-> None] /\ net = [d \in Cards |-> NoNet]
    BY DEF NetInit
  <2>2. NoNet \in Interfaces
    BY DEF NoNet, Interfaces, Memories
  <2>3. NetType
    BY <2>1, <2>2 DEF NetType, NetPcs
  <2>4. Current /\ module.pc = "up"
    BY <1>4, <2>1 DEF Current
  <2>5. \A d \in Cards : Right(net[d], cause)
    BY <2>1 DEF NoNet, Right, Consistent, Agreed, Opening
  <2>6. /\ core.pc = "idle" /\ number = 0 /\ \A d \in Cards : bound[d] = "no"
        /\ \A d \in Cards : ~net[d].registered /\ net[d].priv = "null" /\ ~net[d].irq
                            /\ net[d].mem = "none"
    BY <2>1 DEF MapInit, NoCall, NoNet
  <2>7. 0..(number - 1) = {}
    BY <2>6
  <2>8. InPlace /\ Whole
    BY <2>1, <2>6, <2>7 DEF InPlace, Whole
  <2> QED BY <2>3, <2>4, <2>5, <2>8 DEF NetInv
<1>5. ASSUME clients = "rest" PROVE RestInv
  <2>1. /\ module = [pc |-> "out", n |-> 0] /\ files = [made |-> {}, ready |-> {}]
        /\ core.pc = "idle" /\ number = 0 /\ \A d \in Cards : bound[d] = "no"
    BY <1>5 DEF MapInit, NoCall
  <2>2. NoWalk \in CallRecords /\ CallInv(NoWalk)
    BY <1>1, NoWalkRight
  <2>3. RestType
    <3>1. module \in [pc : ModulePcs, n : 0..Len(Files)]
      BY <2>1, FilesAre DEF ModulePcs
    <3>2. files \in [made : SUBSET FileNames, ready : SUBSET FileNames]
      BY <2>1
    <3> QED BY <3>1, <3>2, <2>2 DEF RestType
  <2>4. ModuleInv /\ RingsInv
    BY <2>1, HostAssumption DEF ModuleInv, RingsInv
  <2>5. \A c \in Callers : CallInv(call[c])
    BY <2>2
  <2> QED BY <2>3, <2>4, <2>5 DEF RestInv
<1> QED BY <1>1, <1>2, <1>3, <1>4, <1>5 DEF ClientsSafe, ClientsInv

\* Whatever breaks stops, and leaves all as it was.
LEMMA StoppedKeeps ==
  ASSUME NetInv, Stopped
  PROVE  NetInv'
BY DEF Stopped, NetInv, NetType, Current, Right, Consistent, Agreed, Opening, Plugged, InPlace,
   Whole, Served, netVars, mapVars, hostVars, n0

LEMMA HaltedKeeps ==
  ASSUME MapInv, RestInv, Halted
  PROVE  RestInv'
<1>1. UNCHANGED <<mapVars, module, files, hook, level, total, fifo, linked, call>> /\ cause \subseteq cause'
  BY DEF Halted, hostVars
<1>2. \A q : Around(q)
  BY <1>1, NothingAround
<1>3. \A c \in Callers : CallInv(call[c])'
  BY <1>1, <1>2, MapKept, CallsStay
<1>4. RestType' /\ ModuleInv' /\ RingsInv'
  BY <1>1 DEF RestInv, RestType, ModuleInv, RingsInv, Up, Plugged, mapVars
<1> QED BY <1>3, <1>4 DEF RestInv

LEMMA ClientsNextSafe ==
  ASSUME ClientsSafe, ClientsNext
  PROVE  ClientsSafe'
<1> USE DEF ClientsSafe, ClientsInv
<1>1. MapInv' /\ EntryHeld'
  BY ClientsNextIsMap, MapStepInv, EntryHeldStep
<1>2. CASE clients = "net" /\ NetNext
  <2>1. CASE Stopped
    <3>1. NetInv' /\ clients' = clients
      BY <1>2, <2>1, StoppedKeeps DEF Stopped
    <3>2. NetForCause'
      BY <2>1 DEF Stopped, Justified, NetForCause, netVars
    <3> QED BY <1>1, <1>2, <3>1, <3>2 DEF CallsForCause
  <2>2. CASE NetInv' /\ Quiet
    BY <1>1, <1>2, <2>2 DEF ClientsNext, Quiet, CallsForCause, NetForCause
  <2> QED BY <1>2, <2>1, <2>2, NetStep
<1>3. CASE clients = "rest" /\ HostNext /\ UNCHANGED netVars
  <2>1. NetInit'
    BY <1>3 DEF NetInit, netVars
  <2>2. CASE Halted
    <3>1. RestInv' /\ clients' = clients
      BY <1>3, <2>2, HaltedKeeps DEF Halted
    <3>2. CallsForCause'
      BY <2>2 DEF Halted, CallsForCause
    <3> QED BY <1>1, <1>3, <2>1, <3>1, <3>2 DEF NetForCause
  <2>3. CASE RestInv' /\ Quiet
    BY <1>1, <1>3, <2>1, <2>3 DEF ClientsNext, Quiet, CallsForCause, NetForCause
  <2> QED BY <1>3, <2>2, <2>3, RestStep
<1> QED BY <1>2, <1>3 DEF ClientsNext

LEMMA ClientsStutterSafe ==
  ASSUME ClientsSafe, UNCHANGED ndVars
  PROVE  ClientsSafe'
<1>1. UNCHANGED <<clients, mapVars, hostVars, call, bad, cause, used, netVars>>
  BY DEF ndVars, hdVars
<1>2. MapInv' /\ EntryHeld'
  BY <1>1, MapStepInv, EntryHeldStep DEF ClientsSafe, ClientsInv
<1>3. NetInv => NetInv'
  BY <1>1 DEF NetInv, NetType, Current, Right, Consistent, Agreed, Opening, Plugged, InPlace,
     Whole, Served, netVars, mapVars, hostVars, n0
<1>4. RestInv => RestInv'
  <2>1. ASSUME RestInv PROVE \A c \in Callers : CallInv(call[c])'
    BY <1>1, <1>2, <2>1, NothingAround, CallsStay DEF hostVars, ClientsSafe, ClientsInv
  <2> QED BY <1>1, <2>1 DEF RestInv, RestType, ModuleInv, RingsInv, Up, Plugged, mapVars, hostVars
<1>5. CallsForCause' /\ NetForCause' /\ (NetInit => NetInit')
  BY <1>1 DEF ClientsSafe, CallsForCause, NetForCause, NetInit, netVars
<1> QED BY <1>1, <1>2, <1>3, <1>4, <1>5 DEF ClientsSafe, ClientsInv

\* For any number of cards, places in the map, callers, probes, calls and
\* failures: the map keeps its records, the interfaces and calls are as said
\* above, and if something broke it did so for a cause.
THEOREM ClientsAreSafe == ClientsSpec => []ClientsSafe
<1>1. ClientsSafe /\ [ClientsNext]_ndVars => ClientsSafe'
  BY ClientsNextSafe, ClientsStutterSafe
<1> QED BY ClientsInitSafe, <1>1, PTL DEF ClientsSpec

\* The calls that other modules and readers of the proc files make into
\* ax_pcie_host_dev follow a NULL entry or a freed record only if a card was
\* unplugged, use a ring that is not there (or for which there was no memory)
\* or freed, a function that is not set, room on the stack that is not there, or
\* a divisor 0 only for the causes that CallCauses names.
THEOREM CallsBreakForCause == ClientsSpec => []CallsForCause
BY ClientsAreSafe, PTL DEF ClientsSafe

\* ax_pcie_net.c uses what is not there, waits for ever or makes an interface
\* twice only for the causes that NetCauses names: with no unplug, no failed
\* init, no refused mailbox and no answer out of time, its exit is the only
\* one to touch freed memory.
THEOREM NetBreaksForCause == ClientsSpec => []NetForCause
BY ClientsAreSafe, PTL DEF ClientsSafe

\* After the handshake of ax_pcie_net.c a card uses the memory that the host
\* uses, whatever fails or is unplugged, unless it was told too early or
\* answers an earlier load.
THEOREM MemoryIsShared == ClientsSpec => []SameMemory
<1>1. ClientsSafe => SameMemory
  <2>1. SUFFICES ASSUME ClientsSafe, NEW d \in Cards, net[d].registered, net[d].checked,
                        net[d].mem = "live", cause \cap {"early", "stale"} = {}
                 PROVE  net[d].knows = "live"
    BY DEF SameMemory
  <2>2. clients = "net"
    BY <2>1 DEF ClientsSafe, ClientsInv, Clients, NetInit, NoNet
  <2>3. Agreed(net[d])
    BY <2>1, <2>2 DEF ClientsSafe, ClientsInv, NetInv, Right
  <2> QED BY <2>1, <2>3 DEF Agreed
<1> QED BY ClientsAreSafe, <1>1, PTL

\* The exits of ax_pcie_host_dev and of the network driver leave nothing
\* behind that the next load would find, but for BARs of failed probes.
THEOREM UnloadLeavesNothing == ClientsSpec => []NothingLeft
<1>1. ClientsSafe => UnloadClean
  <2>1. SUFFICES ASSUME ClientsSafe, module.pc = "out"
                 PROVE  /\ files.made = {} /\ number = 0 /\ \A i \in Slots : map[i] = None
                        /\ \A d \in Cards : bound[d] = "no" /\ has[d] \subseteq Bars
    BY DEF UnloadClean
  <2>2. MapInv /\ RestInv
    BY <2>1 DEF ClientsSafe, ClientsInv, Clients, NetInv
  <2>3. files.made = {} /\ core.pc = "idle" /\ \A d \in Cards : bound[d] = "no"
    BY <2>1, <2>2 DEF RestInv, ModuleInv
  <2>4. /\ \A i \in 0..(number - 1) : map[i] \in Cards /\ bound[map[i]] = "bound"
        /\ \A d \in Cards : bound[d] # "bound" => has[d] \subseteq Bars
    BY <2>2, <2>3, Settled
  <2>5. number = 0
    <3>1. number \in Nat
      BY <2>2 DEF MapInv, MapType
    <3>2. ~(0 \in 0..(number - 1))
      BY <2>3, <2>4
    <3> QED BY <3>1, <3>2
  <2>6. \A i \in Slots : i >= number => map[i] = None
    BY <2>2, <2>3, MapInvIsSound DEF MapSound, MapRight
  <2>7. \A i \in Slots : map[i] = None
    BY <2>5, <2>6, MapAssumption DEF Slots
  <2> QED BY <2>3, <2>4, <2>5, <2>7
<1>2. ClientsSafe => NetUnloadClean
  <2>1. SUFFICES ASSUME ClientsSafe, npc.pc = "out", cause \cap {"unplugged", "initfailed"} = {},
                        NEW d \in Cards
                 PROVE  ~net[d].registered /\ ~net[d].irq /\ net[d].mem # "live"
    BY DEF NetUnloadClean
  <2>2. CASE clients = "rest"
    BY <2>1, <2>2 DEF ClientsSafe, ClientsInv, NetInit, NoNet
  <2>3. CASE clients = "net"
    <3>1. MapInv /\ NetInv /\ Plugged /\ Whole
      BY <2>1, <2>3 DEF ClientsSafe, ClientsInv, NetInv, Plugged
    <3>2. ~net[d].registered
      BY <2>1, <3>1, OutMeansNone
    <3> QED BY <3>1, <3>2 DEF Whole
  <2> QED BY <2>1, <2>2, <2>3 DEF ClientsSafe, ClientsInv, Clients
<1> QED BY ClientsAreSafe, <1>1, <1>2, PTL DEF NothingLeft
=============================================================================
