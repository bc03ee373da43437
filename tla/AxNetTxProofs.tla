---------------------------- MODULE AxNetTxProofs ----------------------------
(***************************************************************************)
(* Theorems about AxNetTx, for any ring and any bounds.                    *)
(*                                                                         *)
(* TypeOK is not inductive, because the bounds are in the types: a packet  *)
(* that is being sent is one of those there are, and a block that is about *)
(* to be allocated is not one too many.                                    *)
(*                                                                         *)
(* PacketsIntact speaks of the packets the card has yet to read; Flow, its *)
(* inductive form, of every place a buffer can be: the free ones, the one  *)
(* start_xmit fills, those in the ring and those the card has taken.       *)
(***************************************************************************)
EXTENDS AxNetTx, FiniteSetTheorems, TLAPS

\* A counter names a slot of the ring.
LEMMA SlotType ==
  ASSUME NEW n \in Nat
  PROVE  Slot(n) \in Slots
<1>1. Ring \in Nat /\ Ring > 0
  BY AxNetTxAssumption
<1> QED
  BY <1>1, SMT DEF Slot, Slots

Bounded ==
  /\ next >= 1
  /\ xpc # "idle" => next <= MaxPackets
  /\ upc \in {"closing", "freed", "clear"} => block < MaxResets

\* TypeOK in two parts, for two provers.
BooleanVars == active \in BOOLEAN /\ tx \in BOOLEAN /\ msi \in BOOLEAN /\ torn \in BOOLEAN

OtherVars ==
  /\ xpc \in {"idle", "check", "take", "advance", "copy", "index", "write", "push"}
  /\ buf \in Bufs /\ slot \in Slots /\ next \in Nat
  /\ upc \in {"up", "closing", "freed", "clear", "open"}
  /\ os \in {"UP", "DOWN"} /\ queue \in {"on", "stopped"}
  /\ block \in 0 .. MaxResets
  /\ mem \in [Bufs -> Packets]
  /\ e \in Counters /\ f \in Counters
  /\ free \in [Slots -> Bufs] /\ busy \in [Slots -> Descriptors]
  /\ card \subseteq Descriptors

LEMMA TypeParts == TypeOK <=> BooleanVars /\ OtherVars
BY Zenon DEF TypeOK, BooleanVars, OtherVars

LEMMA BooleanStep == BooleanVars /\ [Next]_vars => BooleanVars'
<1> SUFFICES ASSUME BooleanVars, [Next]_vars PROVE BooleanVars'
  OBVIOUS
<1> USE DEF BooleanVars, xmitVars, userVars, ringVars
<1>1. CASE Xmit
  BY <1>1, Zenon DEF Xmit
<1>2. CASE XmitChecks
  BY <1>2, Zenon DEF XmitChecks
<1>3. CASE XmitTakes
  BY <1>3, Zenon DEF XmitTakes
<1>4. CASE XmitAdvances
  BY <1>4, Zenon DEF XmitAdvances
<1>5. CASE XmitCopies
  BY <1>5, Zenon DEF XmitCopies
<1>6. CASE XmitIndexes
  BY <1>6, Zenon DEF XmitIndexes
<1>7. CASE XmitWrites
  BY <1>7, Zenon DEF XmitWrites
<1>8. CASE XmitPushes
  BY <1>8, Zenon DEF XmitPushes
<1>9. CASE Close
  BY <1>9, Zenon DEF Close
<1>10. CASE Frees
  BY <1>10, Zenon DEF Frees
<1>11. CASE Clears
  BY <1>11, Zenon DEF Clears
<1>12. CASE Allocs
  BY <1>12, Zenon DEF Allocs
<1>13. CASE Opens
  BY <1>13, Zenon DEF Opens
<1>14. CASE Irq
  BY <1>14, Zenon DEF Irq
<1>15. CASE CardTakes
  BY <1>15, Zenon DEF CardTakes
<1>16. CASE CardReturns
  BY <1>16, Zenon DEF CardReturns
<1>17. CASE UNCHANGED vars
  BY <1>17, Zenon DEF vars
<1> QED
  BY <1>1, <1>2, <1>3, <1>4, <1>5, <1>6, <1>7, <1>8, <1>9, <1>10, <1>11, <1>12, <1>13, <1>14,
        <1>15, <1>16, <1>17
    DEF Next, Transmit, Reopen

LEMMA OtherStep == OtherVars /\ Bounded /\ [Next]_vars => OtherVars' /\ Bounded'
<1> SUFFICES ASSUME OtherVars, Bounded, [Next]_vars PROVE OtherVars' /\ Bounded'
  OBVIOUS
<1> USE AxNetTxAssumption DEF OtherVars, Bounded, xmitVars, userVars, ringVars
<1>1. CASE Xmit
  BY <1>1, SMT DEF Xmit, Stops, GoesOn
<1>2. CASE XmitChecks
  BY <1>2, SMT DEF XmitChecks, Stops, GoesOn
<1>3. CASE XmitTakes
  <2>1. Slot(e.rd) \in Slots
    BY SlotType DEF Counters
  <2> QED
    BY <1>3, <2>1, SMT DEF XmitTakes
<1>4. CASE XmitAdvances
  BY <1>4, SMT DEF XmitAdvances, Counters
<1>5. CASE XmitCopies
  BY <1>5, SMT DEF XmitCopies, Packets
<1>6. CASE XmitIndexes
  <2>1. Slot(f.wr) \in Slots
    BY SlotType DEF Counters
  <2> QED
    BY <1>6, <2>1, SMT DEF XmitIndexes
<1>7. CASE XmitWrites
  BY <1>7, SMT DEF XmitWrites, Descriptors, Packets
<1>8. CASE XmitPushes
  BY <1>8, SMT DEF XmitPushes, Counters
<1>9. CASE Close
  BY <1>9, SMT DEF Close
<1>10. CASE Frees
  BY <1>10, SMT DEF Frees
<1>11. CASE Clears
  BY <1>11, SMT DEF Clears, Fresh, Counters
<1>12. CASE Allocs
  <2>1. block < MaxResets
    BY <1>12, SMT DEF Allocs
  <2>2. \A i \in Slots : <<block + 1, i>> \in Bufs
    BY <2>1, SMT DEF Bufs
  <2>3. e' \in Counters
    BY <1>12, SMT DEF Allocs, Counters
  <2>4. free' \in [Slots -> Bufs]
    <3>1. CASE UNCHANGED free
      BY <3>1
    <3>2. CASE free' = [i \in Slots |-> IF i < e.rd + Ring - e.wr THEN <<block + 1, i>> ELSE free[i]]
      BY <2>2, <3>2, Zenon
    <3> QED
      BY <1>12, <3>1, <3>2, Zenon DEF Allocs
  <2> QED
    BY <1>12, <2>1, <2>3, <2>4, SMT DEF Allocs
<1>13. CASE Opens
  BY <1>13, SMT DEF Opens
<1>14. CASE Irq
  BY <1>14, SMT DEF Irq
<1>15. CASE CardTakes
  <2>1. Slot(f.rd) \in Slots
    BY SlotType DEF Counters
  <2>2. busy[Slot(f.rd)] \in Descriptors
    BY <2>1
  <2>3. f' \in Counters
    BY <1>15, SMT DEF CardTakes, Counters
  <2> QED
    BY <1>15, <2>2, <2>3 DEF CardTakes
<1>16. CASE CardReturns
  <2>1. Slot(e.wr) \in Slots
    BY SlotType DEF Counters
  <2>2. e' \in Counters
    BY <1>16, SMT DEF CardReturns, Counters
  <2>3. PICK c \in card : card' = card \ {c} /\ free' = [free EXCEPT ![Slot(e.wr)] = c.buf]
    BY <1>16 DEF CardReturns
  <2>4. c.buf \in Bufs
    BY <2>3 DEF Descriptors
  <2>5. free' \in [Slots -> Bufs] /\ card' \subseteq Descriptors
    BY <2>1, <2>3, <2>4
  <2> QED
    BY <1>16, <2>2, <2>5 DEF CardReturns
<1>17. CASE UNCHANGED vars
  BY <1>17, SMT DEF vars
<1> QED
  BY <1>1, <1>2, <1>3, <1>4, <1>5, <1>6, <1>7, <1>8, <1>9, <1>10, <1>11, <1>12, <1>13, <1>14,
        <1>15, <1>16, <1>17
    DEF Next, Transmit, Reopen

LEMMA TxInit == Init => BooleanVars /\ OtherVars /\ Bounded
<1> SUFFICES ASSUME Init PROVE BooleanVars /\ OtherVars /\ Bounded
  OBVIOUS
<1> USE AxNetTxAssumption
<1>1. BooleanVars
  BY Zenon DEF Init, BooleanVars
<1>2. \A i \in Slots : <<0, i>> \in Bufs
  BY SMT DEF Bufs
<1>3. 0 \in Slots /\ 0 \in Packets
  BY SMT DEF Slots, Packets
<1>4. free \in [Slots -> Bufs]
  BY <1>2 DEF Init
<1>5. busy \in [Slots -> Descriptors]
  BY <1>2, <1>3 DEF Init, Descriptors
<1>6. mem \in [Bufs -> Packets]
  BY <1>3 DEF Init
<1>7. e \in Counters /\ f \in Counters
  BY SMT DEF Init, Counters, Fresh
<1>8. buf \in Bufs /\ slot \in Slots /\ card \subseteq Descriptors
  BY <1>2, <1>3 DEF Init
<1>9. next \in Nat /\ block \in 0 .. MaxResets
  BY SMT DEF Init
<1>10. OtherVars
  BY <1>4, <1>5, <1>6, <1>7, <1>8, <1>9 DEF Init, OtherVars
<1>11. Bounded
  BY SMT DEF Init, Bounded
<1> QED
  BY <1>1, <1>10, <1>11

\* The variables have their types: slots are within the ring, and every address
\* that goes round is that of a transmit buffer, also when the interface is
\* closed and opened under start_xmit.
THEOREM TxTypeCorrect == Spec => []TypeOK
<1>1. Init => BooleanVars /\ OtherVars /\ Bounded
  BY TxInit
<1>2. BooleanVars /\ OtherVars /\ Bounded /\ [Next]_vars => BooleanVars' /\ OtherVars' /\ Bounded'
  BY BooleanStep, OtherStep
<1>3. BooleanVars /\ OtherVars => TypeOK
  BY TypeParts
<1> QED
  BY <1>1, <1>2, <1>3, PTL DEF Spec

-----------------------------------------------------------------------------
(* Where the buffers are                                                   *)

\* start_xmit has a buffer of its own: neither free nor handed to the card.
Holds == xpc \in {"copy", "index", "write", "push"}

\* The positions between the counters of a ring, and what its slots hold.
Waiting(c) == c.rd .. c.wr - 1
FreeAt(n) == free[Slot(n)]
FullAt(n) == busy[Slot(n)]

\* What a step of the close and the open has done so far.
Phases ==
  /\ os = "UP" <=> upc = "up"
  /\ upc # "up" => queue = "stopped" /\ card = {}
  /\ ~torn /\ upc \in {"freed", "clear", "open"} => xpc = "idle"
  /\ ~torn /\ upc = "clear" => e = Fresh /\ f = Fresh

\* There are never more buffers under way than slots, so that neither ring
\* runs over.
Room ==
  /\ e.rd <= e.wr /\ f.rd <= f.wr
  /\ e.wr - e.rd + f.wr - f.rd + Cardinality(card) + (IF Holds THEN 1 ELSE 0) <= Ring
  /\ xpc \in {"check", "take", "advance"} => e.rd < e.wr

\* No buffer is in two places.
Apart ==
  /\ \A n, m \in Waiting(e) : FreeAt(n) = FreeAt(m) => n = m
  /\ \A n, m \in Waiting(f) : FullAt(n).buf = FullAt(m).buf => n = m
  /\ \A c, d \in card : c.buf = d.buf => c = d
  /\ \A n \in Waiting(e), m \in Waiting(f) : FreeAt(n) # FullAt(m).buf
  /\ \A n \in Waiting(e), c \in card : FreeAt(n) # c.buf
  /\ \A n \in Waiting(f), c \in card : FullAt(n).buf # c.buf

HeldApart == Holds =>
  /\ \A n \in Waiting(e) : FreeAt(n) # buf
  /\ \A n \in Waiting(f) : FullAt(n).buf # buf
  /\ \A c \in card : c.buf # buf

\* All of them are of the block that is allocated, and what the card has to
\* read is what was copied.
Current ==
  /\ \A n \in Waiting(e) : FreeAt(n)[1] = block
  /\ \A n \in Waiting(f) : FullAt(n).buf[1] = block /\ mem[FullAt(n).buf] = FullAt(n).packet
  /\ \A c \in card : c.buf[1] = block /\ mem[c.buf] = c.packet
  /\ Holds => buf[1] = block

\* What start_xmit has done by its steps.
Sending ==
  /\ xpc = "advance" => buf = FreeAt(e.rd)
  /\ xpc \in {"index", "write", "push"} => mem[buf] = next
  /\ xpc \in {"write", "push"} => slot = Slot(f.wr)
  /\ xpc = "push" => FullAt(f.wr) = [buf |-> buf, packet |-> next]

Flow == Room /\ Apart /\ HeldApart /\ Current /\ Sending
TxInv == OtherVars /\ Phases /\ IsFiniteSet(card) /\ (~torn => Flow)

\* Two positions less than a ring apart have different slots.
LEMMA SlotsApart ==
  ASSUME NEW n \in Nat, NEW m \in Nat, n < m, m - n < Ring
  PROVE  Slot(n) # Slot(m)
<1>1. Ring \in Nat \ {0}
  BY AxNetTxAssumption
<1> DEFINE qn == n \div Ring
           qm == m \div Ring
           r == n % Ring
<1>2. SUFFICES ASSUME n % Ring = m % Ring PROVE FALSE
  BY DEF Slot
<1>3. /\ qn \in Int /\ qm \in Int /\ r \in 0 .. Ring - 1
      /\ n = Ring * qn + r /\ m = Ring * qm + r
  BY <1>1, <1>2, Z3
<1> HIDE DEF qn, qm, r
<1>4. m - n = Ring * (qm - qn)
  BY <1>1, <1>3
<1>5. CASE qm - qn <= 0
  <2>1. Ring * (qm - qn) <= 0
    BY <1>1, <1>3, <1>5, Z3
  <2> QED
    BY <2>1, <1>4
<1>6. CASE qm - qn >= 1
  <2>1. Ring * (qm - qn) >= Ring
    BY <1>1, <1>3, <1>6, Z3
  <2> QED
    BY <2>1, <1>4, <1>1
<1> QED
  BY <1>3, <1>5, <1>6

\* The positions in use have slots of their own, also the next one.
LEMMA RingFacts ==
  ASSUME OtherVars, IsFiniteSet(card), Room
  PROVE  /\ Ring \in Nat \ {0} /\ Cardinality(card) \in Nat
         /\ e.rd \in Nat /\ e.wr \in Nat /\ f.rd \in Nat /\ f.wr \in Nat
         /\ Waiting(e) \subseteq Nat /\ Waiting(f) \subseteq Nat
         /\ \A n \in Nat : Slot(n) \in Slots
         /\ \A n, m \in Waiting(e) : n # m => Slot(n) # Slot(m)
         /\ \A n, m \in Waiting(f) : n # m => Slot(n) # Slot(m)
         /\ card # {} => \A n \in Waiting(e) : Slot(n) # Slot(e.wr)
         /\ Holds => \A n \in Waiting(f) : Slot(n) # Slot(f.wr)
<1>1. Ring \in Nat \ {0} /\ Cardinality(card) \in Nat
  BY AxNetTxAssumption, FS_CardinalityType
<1>2. e.rd \in Nat /\ e.wr \in Nat /\ f.rd \in Nat /\ f.wr \in Nat
  BY DEF OtherVars, Counters
<1>3. e.wr - e.rd <= Ring /\ f.wr - f.rd <= Ring
  BY <1>1, <1>2 DEF Room
<1>4. card # {} => e.wr - e.rd < Ring
  <2>1. card # {} => Cardinality(card) # 0
    BY FS_EmptySet
  <2> QED
    BY <2>1, <1>1, <1>2 DEF Room
<1>5. Holds => f.wr - f.rd < Ring
  BY <1>1, <1>2 DEF Room
<1>6. Waiting(e) \subseteq Nat /\ Waiting(f) \subseteq Nat
  BY <1>2 DEF Waiting
<1>7. \A n \in Nat : Slot(n) \in Slots
  BY SlotType
<1>8. \A n, m \in Waiting(e) : n # m => Slot(n) # Slot(m)
  BY <1>1, <1>2, <1>3, SlotsApart DEF Waiting
<1>9. \A n, m \in Waiting(f) : n # m => Slot(n) # Slot(m)
  BY <1>1, <1>2, <1>3, SlotsApart DEF Waiting
<1>10. card # {} => \A n \in Waiting(e) : Slot(n) # Slot(e.wr)
  BY <1>1, <1>2, <1>4, SlotsApart DEF Waiting
<1>11. Holds => \A n \in Waiting(f) : Slot(n) # Slot(f.wr)
  BY <1>1, <1>2, <1>5, SlotsApart DEF Waiting
<1> QED
  BY <1>1, <1>2, <1>6, <1>7, <1>8, <1>9, <1>10, <1>11

-----------------------------------------------------------------------------
(* Each step keeps the buffers apart                                       *)

\* A step that moves no buffer.
LEMMA StillFlows ==
  ASSUME Flow, UNCHANGED <<buf, slot, next, e, f, free, busy, card, mem, block>>,
         ~Holds, ~Holds',
         xpc' \in {"check", "take", "advance"} => e.rd < e.wr,
         xpc' # "advance"
  PROVE  Flow'
<1>1. Room'
  BY DEF Flow, Room
<1>2. Apart' /\ HeldApart'
  BY DEF Flow, Apart, HeldApart, Waiting, FreeAt, FullAt
<1>3. Current' /\ Sending'
  BY DEF Flow, Current, Sending, Waiting, FreeAt, FullAt, Holds
<1> QED
  BY <1>1, <1>2, <1>3 DEF Flow

\* start_xmit takes its buffer out of the ring.
LEMMA AdvanceFlows ==
  ASSUME TxInv, XmitAdvances, Flow
  PROVE  Flow'
<1>1. /\ xpc = "advance" /\ xpc' = "copy" /\ buf = FreeAt(e.rd) /\ e.rd < e.wr
      /\ e' = [e EXCEPT !.rd = @ + 1]
      /\ UNCHANGED <<buf, slot, next, f, free, busy, card, mem, block>>
  BY DEF XmitAdvances, Flow, Sending, Room, userVars
<1>2. e'.rd = e.rd + 1 /\ e'.wr = e.wr
  BY <1>1 DEF TxInv, OtherVars, Counters
<1>3. Waiting(e') \subseteq Waiting(e) /\ e.rd \in Waiting(e) /\ e.rd \notin Waiting(e')
  BY <1>1, <1>2, RingFacts DEF TxInv, Flow, Waiting
<1>4. ~Holds /\ Holds'
  BY <1>1 DEF Holds
<1>5. Room'
  BY <1>1, <1>2, <1>4, RingFacts DEF TxInv, Flow, Room
<1>6. Apart'
  BY <1>1, <1>3 DEF Flow, Apart, FreeAt, FullAt
<1>7. HeldApart'
  BY <1>1, <1>3 DEF Flow, Apart, HeldApart, FreeAt, FullAt
<1>8. Current' /\ Sending'
  BY <1>1, <1>3 DEF Flow, Current, Sending, FreeAt, FullAt
<1> QED
  BY <1>5, <1>6, <1>7, <1>8 DEF Flow

\* The packet is copied where nobody else reads.
LEMMA CopyFlows ==
  ASSUME TxInv, XmitCopies, Flow
  PROVE  Flow'
<1>1. /\ xpc = "copy" /\ xpc' = "index" /\ mem' = [mem EXCEPT ![buf] = next]
      /\ UNCHANGED <<buf, slot, next, e, f, free, busy, card, block>>
  BY DEF XmitCopies, userVars, ringVars
<1>2. Holds /\ Holds'
  BY <1>1 DEF Holds
<1>3. Room'
  BY <1>1, <1>2 DEF Flow, Room
<1>4. Apart' /\ HeldApart'
  BY <1>1, <1>2 DEF Flow, Apart, HeldApart, Waiting, FreeAt, FullAt
<1>5. mem'[buf] = next /\ \A b \in Bufs : b # buf => mem'[b] = mem[b]
  BY <1>1 DEF TxInv, OtherVars
<1>6. /\ \A n \in Waiting(f) : FullAt(n).buf \in Bufs
      /\ \A c \in card : c.buf \in Bufs
  BY RingFacts DEF TxInv, Flow, OtherVars, FullAt, Descriptors
<1>7. Current'
  BY <1>1, <1>2, <1>5, <1>6 DEF Flow, Current, HeldApart, Waiting, FreeAt, FullAt
<1>8. Sending'
  BY <1>1, <1>5 DEF Sending
<1> QED
  BY <1>3, <1>4, <1>7, <1>8 DEF Flow

\* The slot that is written is not in use.
LEMMA WriteFlows ==
  ASSUME TxInv, XmitWrites, Flow
  PROVE  Flow'
<1>1. /\ xpc = "write" /\ xpc' = "push" /\ slot = Slot(f.wr)
      /\ busy' = [busy EXCEPT ![slot] = [buf |-> buf, packet |-> next]]
      /\ UNCHANGED <<buf, slot, next, e, f, free, card, mem, block>>
  BY DEF XmitWrites, Flow, Sending, userVars
<1>2. Holds /\ Holds'
  BY <1>1 DEF Holds
<1>3. \A n \in Waiting(f) : FullAt(n)' = FullAt(n)
  BY <1>1, <1>2, RingFacts DEF TxInv, Flow, OtherVars, FullAt
<1>4. FullAt(f.wr)' = [buf |-> buf, packet |-> next]
  BY <1>1, RingFacts DEF TxInv, Flow, OtherVars, FullAt
<1>5. Room'
  BY <1>1, <1>2 DEF Flow, Room
<1>6. Apart' /\ HeldApart'
  BY <1>1, <1>2, <1>3 DEF Flow, Apart, HeldApart, Waiting, FreeAt
<1>7. Current'
  BY <1>1, <1>2, <1>3 DEF Flow, Current, Waiting, FreeAt
<1>8. Sending'
  BY <1>1, <1>4 DEF Flow, Sending
<1> QED
  BY <1>5, <1>6, <1>7, <1>8 DEF Flow

\* The buffer is the card's now.
LEMMA PushFlows ==
  ASSUME TxInv, XmitPushes, Flow
  PROVE  Flow'
<1>1. /\ xpc = "push" /\ xpc' = "idle" /\ f' = [f EXCEPT !.wr = @ + 1]
      /\ FullAt(f.wr) = [buf |-> buf, packet |-> next] /\ mem[buf] = next
      /\ UNCHANGED <<buf, e, free, busy, card, mem, block>>
  BY DEF XmitPushes, Flow, Sending, userVars
<1>2. f'.rd = f.rd /\ f'.wr = f.wr + 1
  BY <1>1 DEF TxInv, OtherVars, Counters
<1>3. Waiting(f') = Waiting(f) \cup {f.wr}
  BY <1>2, RingFacts DEF TxInv, Flow, Room, Waiting
<1>4. Holds /\ ~Holds'
  BY <1>1 DEF Holds
<1>5. Room'
  BY <1>1, <1>2, <1>4, RingFacts DEF TxInv, Flow, Room
<1>6. Apart'
  BY <1>1, <1>3, <1>4 DEF Flow, Apart, HeldApart, FreeAt, FullAt
<1>7. HeldApart' /\ Sending'
  BY <1>1, <1>4 DEF HeldApart, Sending
<1>8. Current'
  BY <1>1, <1>3, <1>4 DEF Flow, Current, FreeAt, FullAt
<1> QED
  BY <1>5, <1>6, <1>7, <1>8 DEF Flow

\* The card takes the first packet of the ring.
LEMMA CardTakesFlows ==
  ASSUME TxInv, CardTakes, Flow
  PROVE  Flow' /\ IsFiniteSet(card')
<1>1. /\ f.rd < f.wr /\ f' = [f EXCEPT !.rd = @ + 1] /\ card' = card \cup {FullAt(f.rd)}
      /\ UNCHANGED <<xpc, buf, slot, next, e, free, busy, mem, block>>
  BY DEF CardTakes, FullAt, userVars, xmitVars
<1>2. f'.rd = f.rd + 1 /\ f'.wr = f.wr
  BY <1>1 DEF TxInv, OtherVars, Counters
<1>3. Waiting(f') \subseteq Waiting(f) /\ f.rd \in Waiting(f) /\ f.rd \notin Waiting(f')
  BY <1>1, <1>2, RingFacts DEF TxInv, Flow, Waiting
<1>4. Holds' <=> Holds
  BY <1>1 DEF Holds
<1>5. IsFiniteSet(card') /\ Cardinality(card') <= Cardinality(card) + 1 /\ Cardinality(card') \in Nat
  BY <1>1, FS_AddElement, FS_CardinalityType DEF TxInv
<1>6. Room'
  BY <1>1, <1>2, <1>4, <1>5, RingFacts DEF TxInv, Flow, Room
<1>7. Apart'
  BY <1>1, <1>3 DEF Flow, Apart, FreeAt, FullAt
<1>8. HeldApart'
  BY <1>1, <1>3, <1>4 DEF Flow, HeldApart, FreeAt, FullAt
<1>9. Current'
  BY <1>1, <1>3, <1>4 DEF Flow, Current, FreeAt, FullAt
<1>10. Sending'
  BY <1>1, <1>2 DEF Flow, Sending, FreeAt, FullAt
<1> QED
  BY <1>5, <1>6, <1>7, <1>8, <1>9, <1>10 DEF Flow

\* It gives one back, into a slot that is not in use.
LEMMA CardReturnsFlows ==
  ASSUME TxInv, CardReturns, Flow
  PROVE  Flow' /\ IsFiniteSet(card')
<1>1. PICK c \in card : /\ card' = card \ {c} /\ free' = [free EXCEPT ![Slot(e.wr)] = c.buf]
                        /\ e' = [e EXCEPT !.wr = @ + 1]
                        /\ UNCHANGED <<xpc, buf, slot, next, f, busy, mem, block>>
  BY DEF CardReturns, userVars, xmitVars
<1>2. e'.rd = e.rd /\ e'.wr = e.wr + 1
  BY <1>1 DEF TxInv, OtherVars, Counters
<1>3. Waiting(e') = Waiting(e) \cup {e.wr}
  BY <1>2, RingFacts DEF TxInv, Flow, Room, Waiting
<1>4. /\ free'[Slot(e.wr)] = c.buf
      /\ \A n \in Waiting(e) : FreeAt(n)' = FreeAt(n)
  BY <1>1, <1>2, RingFacts DEF TxInv, Flow, OtherVars, FreeAt
<1>5. Holds' <=> Holds
  BY <1>1 DEF Holds
<1>6. IsFiniteSet(card') /\ Cardinality(card') = Cardinality(card) - 1
  BY <1>1, FS_RemoveElement DEF TxInv
<1>7. Room'
  BY <1>1, <1>2, <1>5, <1>6, RingFacts DEF TxInv, Flow, Room
<1>8. Apart'
  BY <1>1, <1>3, <1>4 DEF Flow, Apart, Waiting, FreeAt, FullAt
<1>9. HeldApart'
  BY <1>1, <1>3, <1>4, <1>5 DEF Flow, HeldApart, Waiting, FreeAt, FullAt
<1>10. Current'
  BY <1>1, <1>3, <1>4, <1>5 DEF Flow, Current, Waiting, FreeAt, FullAt
<1>11. Sending'
  <2>1. xpc = "advance" => e.rd \in Waiting(e)
    BY RingFacts DEF TxInv, Flow, Room, Waiting
  <2> QED
    BY <2>1, <1>1, <1>2, <1>4 DEF Flow, Sending, FreeAt, FullAt
<1> QED
  BY <1>6, <1>7, <1>8, <1>9, <1>10, <1>11 DEF Flow

\* The rings before the interface is given memory, and after that.
Emptied == e = Fresh /\ f = Fresh /\ card = {} /\ xpc = "idle"
Filled ==
  /\ e = [rd |-> 0, wr |-> Ring] /\ f = Fresh /\ card = {} /\ xpc = "idle"
  /\ free = [i \in Slots |-> <<block, i>>]

LEMMA EmptyFlows == Emptied => Flow
<1> SUFFICES ASSUME Emptied PROVE Flow
  OBVIOUS
<1>1. Waiting(e) = {} /\ Waiting(f) = {}
  BY DEF Emptied, Waiting, Fresh
<1>2. Cardinality(card) = 0
  BY FS_EmptySet DEF Emptied
<1>3. Room
  BY <1>2, AxNetTxAssumption DEF Emptied, Room, Fresh, Holds
<1> QED
  BY <1>1, <1>3 DEF Emptied, Flow, Apart, HeldApart, Current, Sending, Holds

LEMMA FilledFlows == Filled => Flow
<1> SUFFICES ASSUME Filled PROVE Flow
  OBVIOUS
<1>1. Ring \in Nat \ {0}
  BY AxNetTxAssumption
<1>2. Waiting(e) = Slots /\ Waiting(f) = {}
  BY <1>1 DEF Filled, Waiting, Fresh, Slots
<1>3. \A n \in Slots : Slot(n) = n
  BY <1>1, Z3 DEF Slot, Slots
<1>4. \A n \in Waiting(e) : FreeAt(n) = <<block, n>>
  BY <1>2, <1>3 DEF Filled, FreeAt
<1>5. Room
  <2>1. Cardinality(card) = 0
    BY FS_EmptySet DEF Filled
  <2> QED
    BY <1>1, <2>1 DEF Filled, Room, Fresh, Holds
<1> QED
  BY <1>2, <1>4, <1>5 DEF Filled, Flow, Apart, HeldApart, Current, Sending, Holds

\* The same after a step.
LEMMA EmptyFlowsNext == Emptied' => Flow'
BY EmptyFlows, PTL

LEMMA FilledFlowsNext == Filled' => Flow'
BY FilledFlows, PTL

\* The open finds the rings empty, and fills one or none.
LEMMA AllocFlows ==
  ASSUME TxInv, Allocs, ~torn
  PROVE  Flow'
<1>1. /\ e = Fresh /\ f = Fresh /\ card = {} /\ xpc = "idle"
      /\ UNCHANGED <<xpc, f, card>>
  BY DEF Allocs, TxInv, Phases, xmitVars
<1>2. Ring \in Nat \ {0} /\ ~Full(e)
  BY <1>1, AxNetTxAssumption DEF Full, Fresh
<1>3. CASE UNCHANGED <<block, tx, e, free>>
  BY <1>1, <1>3, EmptyFlowsNext DEF Emptied
<1>4. CASE /\ block' = block + 1 /\ e' = [e EXCEPT !.wr = e.rd + Ring]
           /\ free' = [i \in Slots |-> IF i < e.rd + Ring - e.wr THEN <<block + 1, i>> ELSE free[i]]
  <2>1. e' = [rd |-> 0, wr |-> Ring]
    BY <1>1, <1>2, <1>4 DEF Fresh
  <2>2. free' = [i \in Slots |-> <<block', i>>]
    <3>1. \A i \in Slots : i < e.rd + Ring - e.wr
      BY <1>1, <1>2 DEF Slots, Fresh
    <3> QED
      BY <3>1, <1>4
  <2> QED
    BY <2>1, <2>2, <1>1, FilledFlowsNext DEF Filled
<1> QED
  BY <1>2, <1>3, <1>4 DEF Allocs

-----------------------------------------------------------------------------
(* The invariant                                                           *)

\* A step moves no buffer, or start_xmit takes no further one.
LEMMA QuietFlows ==
  ASSUME Flow, UNCHANGED <<xpc, buf, slot, next, e, f, free, busy, card, mem, block>>
  PROVE  Flow'
<1>1. Room'
  BY DEF Flow, Room, Holds
<1>2. Apart' /\ HeldApart'
  BY DEF Flow, Apart, HeldApart, Waiting, FreeAt, FullAt, Holds
<1>3. Current' /\ Sending'
  BY DEF Flow, Current, Sending, Waiting, FreeAt, FullAt, Holds
<1> QED
  BY <1>1, <1>2, <1>3 DEF Flow

\* start_xmit finds a buffer, or not.
LEMMA XmitFlows ==
  ASSUME TxInv, Flow, Xmit \/ XmitChecks
  PROVE  Flow'
<1>1. UNCHANGED <<buf, slot, next, e, f, free, busy, card, mem, block>>
  BY DEF Xmit, XmitChecks, userVars, ringVars
<1>2. ~Holds /\ ~Holds' /\ xpc' # "advance"
  BY DEF Xmit, XmitChecks, Stops, GoesOn, Holds
<1>3. xpc' \in {"check", "take", "advance"} => e.rd < e.wr
  <2>1. CASE Xmit
    BY <2>1, RingFacts DEF Xmit, Stops, GoesOn, Available, TxInv, Flow, Room
  <2>2. CASE XmitChecks
    BY <2>2 DEF XmitChecks, Stops, GoesOn, Flow, Room
  <2> QED
    BY <2>1, <2>2
<1> QED
  BY <1>1, <1>2, <1>3, StillFlows

LEMMA TakeFlows ==
  ASSUME Flow, XmitTakes
  PROVE  Flow'
<1>1. /\ xpc = "take" /\ xpc' = "advance" /\ buf' = FreeAt(e.rd)
      /\ UNCHANGED <<slot, next, e, f, free, busy, card, mem, block>>
  BY DEF XmitTakes, FreeAt, userVars, ringVars
<1>2. ~Holds /\ ~Holds'
  BY <1>1 DEF Holds
<1>3. Room' /\ Apart' /\ HeldApart'
  BY <1>1, <1>2 DEF Flow, Room, Apart, HeldApart, Waiting, FreeAt, FullAt
<1>4. Current' /\ Sending'
  BY <1>1, <1>2 DEF Flow, Current, Sending, Waiting, FreeAt, FullAt
<1> QED
  BY <1>3, <1>4 DEF Flow

LEMMA IndexFlows ==
  ASSUME Flow, XmitIndexes
  PROVE  Flow'
<1>1. /\ xpc = "index" /\ xpc' = "write" /\ slot' = Slot(f.wr)
      /\ UNCHANGED <<buf, next, e, f, free, busy, card, mem, block>>
  BY DEF XmitIndexes, userVars, ringVars
<1>2. Holds /\ Holds'
  BY <1>1 DEF Holds
<1>3. Room' /\ Apart' /\ HeldApart'
  BY <1>1, <1>2 DEF Flow, Room, Apart, HeldApart, Waiting, FreeAt, FullAt
<1>4. Current' /\ Sending'
  BY <1>1, <1>2 DEF Flow, Current, Sending, Waiting, FreeAt, FullAt
<1> QED
  BY <1>3, <1>4 DEF Flow

\* The card lets go of its buffers; they are lost until the memory is freed.
LEMMA CloseFlows ==
  ASSUME TxInv, Flow, Close
  PROVE  Flow'
<1>1. /\ card' = {}
      /\ UNCHANGED <<xpc, buf, slot, next, e, f, free, busy, mem, block>>
  BY DEF Close, xmitVars, ringVars
<1>2. Cardinality(card') = 0
  BY <1>1, FS_EmptySet
<1>3. Room'
  BY <1>1, <1>2, RingFacts DEF TxInv, Flow, Room, Holds
<1>4. Apart' /\ HeldApart'
  BY <1>1 DEF Flow, Apart, HeldApart, Waiting, FreeAt, FullAt, Holds
<1>5. Current' /\ Sending'
  BY <1>1 DEF Flow, Current, Sending, Waiting, FreeAt, FullAt, Holds
<1> QED
  BY <1>3, <1>4, <1>5 DEF Flow

\* The counters are reset when nobody holds a buffer.
LEMMA ClearFlows ==
  ASSUME TxInv, Clears, ~torn'
  PROVE  Flow'
<1>1. e' = Fresh /\ f' = Fresh /\ xpc = "idle" /\ UNCHANGED <<xpc, card>>
  BY DEF Clears, xmitVars
<1>2. card = {}
  BY DEF Clears, TxInv, Phases
<1> QED
  BY <1>1, <1>2, EmptyFlowsNext DEF Emptied

LEMMA PhasesStep ==
  ASSUME TxInv, [Next]_vars
  PROVE  Phases'
<1> USE DEF TxInv, OtherVars, Phases, xmitVars, userVars, ringVars
<1>1. CASE Xmit
  BY <1>1 DEF Xmit, Stops, GoesOn
<1>2. CASE XmitChecks
  BY <1>2 DEF XmitChecks, Stops, GoesOn
<1>3. CASE XmitTakes \/ XmitAdvances \/ XmitCopies \/ XmitIndexes \/ XmitWrites \/ XmitPushes
  BY <1>3 DEF XmitTakes, XmitAdvances, XmitCopies, XmitIndexes, XmitWrites, XmitPushes
<1>4. CASE Close
  BY <1>4 DEF Close
<1>5. CASE Frees
  BY <1>5 DEF Frees
<1>6. CASE Clears
  BY <1>6 DEF Clears
<1>7. CASE Allocs
  BY <1>7 DEF Allocs
<1>8. CASE Opens
  BY <1>8 DEF Opens
<1>9. CASE Irq
  BY <1>9 DEF Irq, Wakes
<1>10. CASE CardTakes
  BY <1>10 DEF CardTakes
<1>11. CASE CardReturns
  BY <1>11 DEF CardReturns
<1>12. CASE UNCHANGED vars
  BY <1>12 DEF vars
<1> QED
  BY <1>1, <1>2, <1>3, <1>4, <1>5, <1>6, <1>7, <1>8, <1>9, <1>10, <1>11, <1>12
    DEF Next, Transmit, Reopen

\* What the card holds is finite.
LEMMA CardStep ==
  ASSUME TxInv, [Next]_vars
  PROVE  IsFiniteSet(card')
<1> USE DEF TxInv, xmitVars, userVars, ringVars
<1>1. CASE Xmit \/ XmitChecks \/ Irq \/ UNCHANGED vars
  BY <1>1 DEF Xmit, XmitChecks, Irq, vars
<1>2. CASE XmitTakes \/ XmitAdvances \/ XmitCopies \/ XmitIndexes \/ XmitWrites \/ XmitPushes
  BY <1>2 DEF XmitTakes, XmitAdvances, XmitCopies, XmitIndexes, XmitWrites, XmitPushes
<1>3. CASE Reopen
  BY <1>3 DEF Reopen, Frees, Clears, Allocs, Opens
<1>4. CASE Close
  BY <1>4, FS_EmptySet DEF Close
<1>5. CASE CardTakes
  BY <1>5, FS_AddElement DEF CardTakes
<1>6. CASE CardReturns
  BY <1>6, FS_RemoveElement DEF CardReturns
<1> QED
  BY <1>1, <1>2, <1>3, <1>4, <1>5, <1>6 DEF Next, Transmit

\* A torn start_xmit stays torn.
LEMMA TornStep == [Next]_vars /\ ~torn' => ~torn
<1> SUFFICES ASSUME [Next]_vars, torn PROVE torn'
  BY Zenon
<1> USE DEF xmitVars, userVars, ringVars
<1>1. CASE Xmit \/ XmitChecks \/ Irq \/ UNCHANGED vars
  BY <1>1, Zenon DEF Xmit, XmitChecks, Irq, vars
<1>2. CASE XmitTakes \/ XmitAdvances \/ XmitCopies \/ XmitIndexes \/ XmitWrites \/ XmitPushes
  BY <1>2, Zenon DEF XmitTakes, XmitAdvances, XmitCopies, XmitIndexes, XmitWrites, XmitPushes
<1>3. CASE Reopen
  BY <1>3, Zenon DEF Reopen, Frees, Clears, Allocs, Opens
<1>4. CASE Close \/ CardTakes \/ CardReturns
  BY <1>4, Zenon DEF Close, CardTakes, CardReturns
<1> QED
  BY <1>1, <1>2, <1>3, <1>4, Zenon DEF Next, Transmit

LEMMA FlowStep ==
  ASSUME TxInv, [Next]_vars, ~torn'
  PROVE  Flow'
<1>1. ~torn /\ Flow
  BY TornStep, Zenon DEF TxInv
<1> USE <1>1 DEF xmitVars, userVars, ringVars
<1>2. CASE Xmit \/ XmitChecks
  BY <1>2, XmitFlows
<1>3. CASE XmitTakes
  BY <1>3, TakeFlows
<1>4. CASE XmitAdvances
  BY <1>4, AdvanceFlows
<1>5. CASE XmitCopies
  BY <1>5, CopyFlows
<1>6. CASE XmitIndexes
  BY <1>6, IndexFlows
<1>7. CASE XmitWrites
  BY <1>7, WriteFlows
<1>8. CASE XmitPushes
  BY <1>8, PushFlows
<1>9. CASE Close
  BY <1>9, CloseFlows
<1>10. CASE Frees \/ Opens \/ Irq \/ UNCHANGED vars
  <2>1. UNCHANGED <<xpc, buf, slot, next, e, f, free, busy, card, mem, block>>
    BY <1>10 DEF Frees, Opens, Irq, vars
  <2> QED
    BY <2>1, QuietFlows
<1>11. CASE Clears
  BY <1>11, ClearFlows
<1>12. CASE Allocs
  BY <1>12, AllocFlows
<1>13. CASE CardTakes
  BY <1>13, CardTakesFlows
<1>14. CASE CardReturns
  BY <1>14, CardReturnsFlows
<1> QED
  BY <1>2, <1>3, <1>4, <1>5, <1>6, <1>7, <1>8, <1>9, <1>10, <1>11, <1>12, <1>13, <1>14
    DEF Next, Transmit, Reopen

LEMMA TxInvStep == TxInv /\ Bounded /\ [Next]_vars => TxInv' /\ Bounded'
<1> SUFFICES ASSUME TxInv, Bounded, [Next]_vars PROVE TxInv' /\ Bounded'
  OBVIOUS
<1>1. OtherVars' /\ Bounded'
  BY OtherStep DEF TxInv
<1>2. Phases'
  BY PhasesStep
<1>3. IsFiniteSet(card')
  BY CardStep
<1>4. ~torn' => Flow'
  BY FlowStep
<1> QED
  BY <1>1, <1>2, <1>3, <1>4 DEF TxInv

LEMMA TxInvInit == Init => TxInv /\ Bounded
<1> SUFFICES ASSUME Init PROVE TxInv /\ Bounded
  OBVIOUS
<1>1. OtherVars /\ Bounded
  BY TxInit
<1>2. Phases
  BY DEF Init, Phases
<1>3. IsFiniteSet(card)
  BY FS_EmptySet DEF Init
<1>4. Flow
  BY FilledFlows DEF Init, Filled
<1> QED
  BY <1>1, <1>2, <1>3, <1>4 DEF TxInv

LEMMA FlowIntact == TxInv => PacketsIntact
<1> SUFFICES ASSUME TxInv, ~torn, NEW p \in InFlight
             PROVE  mem[p.buf] = p.packet /\ p.buf[1] = block
  BY DEF PacketsIntact
<1>1. Current
  BY DEF TxInv, Flow
<1>2. CASE p \in card
  BY <1>1, <1>2 DEF Current
<1>3. CASE \E n \in Waiting(f) : p = FullAt(n)
  BY <1>1, <1>3 DEF Current
<1> QED
  BY <1>2, <1>3 DEF InFlight, Waiting, FullAt

\* PacketsIntact: no buffer goes round twice.
THEOREM PacketsStayIntact == Spec => []PacketsIntact
<1>1. Init => TxInv /\ Bounded
  BY TxInvInit
<1>2. TxInv /\ Bounded /\ [Next]_vars => TxInv' /\ Bounded'
  BY TxInvStep
<1>3. TxInv => PacketsIntact
  BY FlowIntact
<1> QED
  BY <1>1, <1>2, <1>3, PTL DEF Spec
=============================================================================
