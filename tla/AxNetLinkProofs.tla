--------------------------- MODULE AxNetLinkProofs ---------------------------
(***************************************************************************)
(* Theorems about AxNetLink, for any ring and any number of ifups and      *)
(* changes of the card's link.                                             *)
(*                                                                         *)
(* NapiPaired is not inductive: it says nothing of an open or a close that *)
(* is under way.  Switching adds that both run with NAPI off, that an open *)
(* belongs to an interface that is up, and a close to one that is up only  *)
(* if the MTU changes; and that nothing but an ifup begins a handshake, so *)
(* that the interface is up when the interrupt handler opens it.           *)
(*                                                                         *)
(* BuffersRight, LinkKnown and InterruptLostOnlyAroundClose need what is   *)
(* on its way: LinkInv says for each state of the host's link and of the   *)
(* card's which messages may lie in the rings, and in what order, and the  *)
(* one that the handler has in hand; which of them makes the other side's  *)
(* state right again; and that a host that is down and answered holds no   *)
(* packets that its handler has still to find.                             *)
(***************************************************************************)
EXTENDS AxNetLink, TLAPS

OpenPcs == {"look", "set", "clear", "request", "napi"}
ClosedPcs == {"down", "check", "wait", "free"}

Opening == hpc \in OpenPcs => checked /\ running /\ napi = "off"
HalfClosed == hpc \in ClosedPcs => checked /\ napi = "off"
ClosingFor == hpc \in ClosedPcs \cup {"close"} => (running <=> mtu)
Unshaken ==
  ~checked => /\ napi = "off"
              /\ flag # "none" /\ hpc = "idle" => running

Switching == Opening /\ HalfClosed /\ ClosingFor /\ Unshaken /\ NapiPaired

LEMMA WrittenType ==
  ASSUME NEW r \in RingType, NEW m \in Msgs
  PROVE  Written(r, m) \in RingType
<1>1. CASE Full(r)
  BY <1>1 DEF Written, RingType
<1>2. CASE ~Full(r)
  BY <1>2 DEF Written, RingType
<1> QED
  BY <1>1, <1>2

LEMMA AdvancedType ==
  ASSUME NEW r \in RingType
  PROVE  Advanced(r) \in RingType
<1>1. CASE Empty(r)
  BY <1>1 DEF Advanced, RingType
<1>2. CASE ~Empty(r)
  <2>1. Tail(r.msgs) \in Seq(Msgs)
    BY <1>2 DEF Empty, RingType
  <2> QED
    BY <1>2, <2>1 DEF Advanced, RingType
<1> QED
  BY <1>1, <1>2

LEMMA NewRingType == NewRing \in RingType
BY DEF NewRing, RingType

LEMMA HeadType ==
  ASSUME NEW r \in RingType, ~Empty(r)
  PROVE  Head(r.msgs) \in Msgs
BY DEF Empty, RingType

(* TypeOK in two parts, for two provers.                                   *)

BooleanVars ==
  /\ mtu \in BOOLEAN /\ seen \in BOOLEAN /\ running \in BOOLEAN /\ checked \in BOOLEAN
  /\ bufs \in BOOLEAN /\ line \in BOOLEAN /\ msi \in BOOLEAN /\ full \in BOOLEAN
  /\ unacked \in BOOLEAN /\ missed \in BOOLEAN /\ torn \in BOOLEAN

OtherVars ==
  /\ hpc \in {"idle", "look", "set", "clear", "request", "napi", "hung"} \cup Closing
  /\ opener \in {"user", "irq"} /\ opens \in Nat
  /\ flag \in {"none", "asked", "answered"}
  /\ rx \in LinkStates /\ tx \in {"DOWN", "UP"} /\ os \in {"DOWN", "UP"}
  /\ napi \in {"off", "idle", "sched"}
  /\ ipc \in {"idle", "open", "ctrl", "advance", "handle", "refill", "data"}
  /\ msg \in Msgs /\ ep2h \in RingType /\ h2ep \in RingType
  /\ crx \in LinkStates /\ ctx \in {"DOWN", "UP"} /\ flips \in Nat

LEMMA TypeParts == TypeOK <=> BooleanVars /\ OtherVars
BY Zenon DEF TypeOK, BooleanVars, OtherVars

LEMMA TypeInit == Init => TypeOK
<1> SUFFICES ASSUME Init PROVE TypeOK
  OBVIOUS
<1>1. BooleanVars
  BY Zenon DEF Init, BooleanVars
<1>2. OtherVars
  BY NewRingType, SMT DEF Init, OtherVars, LinkStates, Closing, Msgs
<1> QED
  BY <1>1, <1>2, TypeParts

LEMMA BooleanStep == TypeOK /\ [Next]_vars => BooleanVars'
<1> SUFFICES ASSUME BooleanVars, [Next]_vars PROVE BooleanVars'
  BY TypeParts
<1> USE DEF BooleanVars, userVars, shakeVars, linkVars, irqVars, cardVars, historyVars
<1>1. CASE IfUp
  BY <1>1, Zenon DEF IfUp
<1>2. CASE IfDown
  BY <1>2, Zenon DEF IfDown
<1>3. CASE ChangeMtu
  BY <1>3, Zenon DEF ChangeMtu
<1>4. CASE OpenLooks
  BY <1>4, Zenon DEF OpenLooks
<1>5. CASE OpenSets
  BY <1>5, Zenon DEF OpenSets
<1>6. CASE OpenClears
  BY <1>6, Zenon DEF OpenClears
<1>7. CASE OpenRequests
  BY <1>7, Zenon DEF OpenRequests, LinkIs
<1>8. CASE OpenEnds
  BY <1>8, Zenon DEF OpenEnds
<1>9. CASE CloseNapi
  BY <1>9, Zenon DEF CloseNapi
<1>10. CASE CloseRequests
  BY <1>10, Zenon DEF CloseRequests
<1>11. CASE CloseWaits
  BY <1>11, Zenon DEF CloseWaits
<1>12. CASE CloseAcked
  BY <1>12, Zenon DEF CloseAcked
<1>13. CASE CloseTimesOut
  BY <1>13, Zenon DEF CloseTimesOut
<1>14. CASE CloseFrees
  BY <1>14, Zenon DEF CloseFrees
<1>15. CASE Irq
  BY <1>15, Zenon DEF Irq, IrqOpens
<1>16. CASE IrqReads
  BY <1>16, Zenon DEF IrqReads
<1>17. CASE IrqAdvances
  BY <1>17, Zenon DEF IrqAdvances
<1>18. CASE IrqHandles
  BY <1>18, Zenon DEF IrqHandles, LinkIs
<1>19. CASE IrqRefills
  BY <1>19, Zenon DEF IrqRefills
<1>20. CASE IrqData
  BY <1>20, Zenon DEF IrqData
<1>21. CASE Poll
  BY <1>21, Zenon DEF Poll, TakesPackets
<1>22. CASE CardAnswers
  BY <1>22, Zenon DEF CardAnswers
<1>23. CASE CardUp
  BY <1>23, Zenon DEF CardUp, Sends, Flips
<1>24. CASE CardDown
  BY <1>24, Zenon DEF CardDown, Sends, Flips
<1>25. CASE CardReads
  BY <1>25, Zenon DEF CardReads, Sends
<1>26. CASE CardData
  BY <1>26, Zenon DEF CardData
<1>27. CASE UNCHANGED vars
  BY <1>27, Zenon DEF vars
<1> QED
  BY <1>1, <1>2, <1>3, <1>4, <1>5, <1>6, <1>7, <1>8, <1>9, <1>10, <1>11, <1>12, <1>13,
     <1>14, <1>15, <1>16, <1>17, <1>18, <1>19, <1>20, <1>21, <1>22, <1>23, <1>24, <1>25,
     <1>26, <1>27 DEF Next, User, Handler, Card

LEMMA OtherStep == TypeOK /\ [Next]_vars => OtherVars'
<1> SUFFICES ASSUME OtherVars, [Next]_vars PROVE OtherVars'
  BY TypeParts
<1> USE DEF OtherVars, userVars, shakeVars, linkVars, irqVars, cardVars, historyVars,
            LinkStates, Closing
<1>1. CASE IfUp
  BY <1>1, SMT DEF IfUp
<1>2. CASE IfDown
  BY <1>2, SMT DEF IfDown
<1>3. CASE ChangeMtu
  BY <1>3, SMT DEF ChangeMtu
<1>4. CASE OpenLooks
  BY <1>4, SMT DEF OpenLooks
<1>5. CASE OpenSets
  BY <1>5, SMT DEF OpenSets
<1>6. CASE OpenClears
  BY <1>6, NewRingType, SMT DEF OpenClears
<1>7. CASE OpenRequests
  BY <1>7, WrittenType, SMT DEF OpenRequests, LinkIs, Msgs
<1>8. CASE OpenEnds
  BY <1>8, SMT DEF OpenEnds
<1>9. CASE CloseNapi
  BY <1>9, SMT DEF CloseNapi
<1>10. CASE CloseRequests
  BY <1>10, WrittenType, SMT DEF CloseRequests, Msgs
<1>11. CASE CloseWaits
  BY <1>11, SMT DEF CloseWaits
<1>12. CASE CloseAcked
  BY <1>12, SMT DEF CloseAcked
<1>13. CASE CloseTimesOut
  BY <1>13, SMT DEF CloseTimesOut
<1>14. CASE CloseFrees
  BY <1>14, SMT DEF CloseFrees
<1>15. CASE Irq
  BY <1>15, SMT DEF Irq, IrqOpens
<1>16. CASE IrqReads
  BY <1>16, HeadType, SMT DEF IrqReads
<1>17. CASE IrqAdvances
  BY <1>17, AdvancedType, SMT DEF IrqAdvances
<1>18. CASE IrqHandles
  BY <1>18, WrittenType, SMT DEF IrqHandles, LinkIs, Msgs
<1>19. CASE IrqRefills
  BY <1>19, SMT DEF IrqRefills
<1>20. CASE IrqData
  BY <1>20, SMT DEF IrqData
<1>21. CASE Poll
  BY <1>21, SMT DEF Poll, TakesPackets
<1>22. CASE CardAnswers
  BY <1>22, SMT DEF CardAnswers
<1>23. CASE CardUp
  BY <1>23, WrittenType, SMT DEF CardUp, Sends, Flips, Msgs
<1>24. CASE CardDown
  BY <1>24, WrittenType, SMT DEF CardDown, Sends, Flips, Msgs
<1>25. CASE CardReads
  BY <1>25, WrittenType, AdvancedType, SMT DEF CardReads, Sends, Msgs
<1>26. CASE CardData
  BY <1>26, SMT DEF CardData
<1>27. CASE UNCHANGED vars
  BY <1>27, SMT DEF vars
<1> QED
  BY <1>1, <1>2, <1>3, <1>4, <1>5, <1>6, <1>7, <1>8, <1>9, <1>10, <1>11, <1>12, <1>13,
     <1>14, <1>15, <1>16, <1>17, <1>18, <1>19, <1>20, <1>21, <1>22, <1>23, <1>24, <1>25,
     <1>26, <1>27 DEF Next, User, Handler, Card

LEMMA TypeStep == TypeOK /\ [Next]_vars => TypeOK'
<1> SUFFICES ASSUME TypeOK, [Next]_vars PROVE TypeOK'
  OBVIOUS
<1>1. BooleanVars' /\ OtherVars'
  BY BooleanStep, OtherStep
<1> QED
  BY <1>1, Zenon DEF TypeOK, BooleanVars, OtherVars

\* The variables have their types.
THEOREM NetTypeCorrect == Spec => []TypeOK
BY TypeInit, TypeStep, PTL DEF Spec

-----------------------------------------------------------------------------
(* NAPI.                                                                   *)

LEMMA SwitchingInit == Init => Switching
BY DEF Init, Switching, Opening, HalfClosed, ClosingFor, Unshaken, NapiPaired, OpenPcs, ClosedPcs

\* The variables that Switching is about.
switchVars == <<hpc, running, mtu, checked, flag, napi>>

LEMMA SwitchingStutter == Switching /\ UNCHANGED switchVars => Switching'
<1> SUFFICES ASSUME Switching, UNCHANGED switchVars PROVE Switching'
  OBVIOUS
<1> USE DEF Switching, switchVars
<1>1. Opening' /\ HalfClosed'
  BY Zenon DEF Opening, HalfClosed
<1>2. ClosingFor'
  BY Zenon DEF ClosingFor
<1>3. Unshaken' /\ NapiPaired'
  BY Zenon DEF Unshaken, NapiPaired
<1> QED
  BY <1>1, <1>2, <1>3

LEMMA SwitchingStep == Switching /\ [Next]_vars => Switching'
<1> SUFFICES ASSUME Switching, [Next]_vars PROVE Switching'
  OBVIOUS
<1> USE DEF userVars, shakeVars
<1>1. CASE IfUp
  BY <1>1 DEF IfUp, Switching, Opening, HalfClosed, ClosingFor, Unshaken,
              NapiPaired, OpenPcs, ClosedPcs
<1>2. CASE IfDown
  BY <1>2 DEF IfDown, Switching, Opening, HalfClosed, ClosingFor, Unshaken,
              NapiPaired, OpenPcs, ClosedPcs
<1>3. CASE ChangeMtu
  BY <1>3 DEF ChangeMtu, Switching, Opening, HalfClosed, ClosingFor, Unshaken,
              NapiPaired, OpenPcs, ClosedPcs
<1>4. CASE OpenLooks
  BY <1>4 DEF OpenLooks, Switching, Opening, HalfClosed, ClosingFor, Unshaken,
              NapiPaired, OpenPcs, ClosedPcs
<1>5. CASE OpenSets
  BY <1>5 DEF OpenSets, Switching, Opening, HalfClosed, ClosingFor, Unshaken,
              NapiPaired, OpenPcs, ClosedPcs
<1>6. CASE OpenClears
  BY <1>6 DEF OpenClears, Switching, Opening, HalfClosed, ClosingFor, Unshaken,
              NapiPaired, OpenPcs, ClosedPcs
<1>7. CASE OpenRequests
  BY <1>7 DEF OpenRequests, Switching, Opening, HalfClosed, ClosingFor, Unshaken,
              NapiPaired, OpenPcs, ClosedPcs
<1>8. CASE OpenEnds
  BY <1>8 DEF OpenEnds, Switching, Opening, HalfClosed, ClosingFor, Unshaken,
              NapiPaired, OpenPcs, ClosedPcs
<1>9. CASE CloseNapi
  BY <1>9 DEF CloseNapi, Switching, Opening, HalfClosed, ClosingFor, Unshaken,
              NapiPaired, OpenPcs, ClosedPcs
<1>10. CASE CloseRequests
  BY <1>10 DEF CloseRequests, Switching, Opening, HalfClosed, ClosingFor, Unshaken,
              NapiPaired, OpenPcs, ClosedPcs
<1>11. CASE CloseWaits
  BY <1>11 DEF CloseWaits, Switching, Opening, HalfClosed, ClosingFor, Unshaken,
              NapiPaired, OpenPcs, ClosedPcs
<1>12. CASE CloseAcked
  BY <1>12 DEF CloseAcked, Switching, Opening, HalfClosed, ClosingFor, Unshaken,
              NapiPaired, OpenPcs, ClosedPcs
<1>13. CASE CloseTimesOut
  BY <1>13 DEF CloseTimesOut, Switching, Opening, HalfClosed, ClosingFor, Unshaken,
              NapiPaired, OpenPcs, ClosedPcs
<1>14. CASE CloseFrees
  BY <1>14 DEF CloseFrees, Switching, Opening, HalfClosed, ClosingFor, Unshaken,
              NapiPaired, OpenPcs, ClosedPcs
<1>15. CASE Irq
  BY <1>15 DEF Irq, IrqOpens, Switching, Opening, HalfClosed, ClosingFor, Unshaken,
              NapiPaired, OpenPcs, ClosedPcs
<1>16. CASE IrqData
  BY <1>16 DEF IrqData, Switching, Opening, HalfClosed, ClosingFor, Unshaken,
              NapiPaired, OpenPcs, ClosedPcs
<1>17. CASE Poll
  BY <1>17 DEF Poll, TakesPackets, Switching, Opening, HalfClosed, ClosingFor, Unshaken,
              NapiPaired, OpenPcs, ClosedPcs
<1>18. CASE CardAnswers
  BY <1>18 DEF CardAnswers, Switching, Opening, HalfClosed, ClosingFor, Unshaken,
              NapiPaired, OpenPcs, ClosedPcs
<1>19. CASE \/ IrqReads \/ IrqAdvances \/ IrqHandles \/ IrqRefills
          \/ CardUp \/ CardDown \/ CardReads \/ CardData
  <2>1. UNCHANGED switchVars
    BY <1>19, Zenon DEF IrqReads, IrqAdvances, IrqHandles, IrqRefills, CardUp, CardDown, CardReads,
                  CardData, switchVars
  <2> QED
    BY <2>1, SwitchingStutter
<1>20. CASE UNCHANGED vars
  <2>1. UNCHANGED switchVars
    BY <1>20, Zenon DEF vars, switchVars
  <2> QED
    BY <2>1, SwitchingStutter
<1> QED
  BY <1>1, <1>2, <1>3, <1>4, <1>5, <1>6, <1>7, <1>8, <1>9, <1>10, <1>11, <1>12, <1>13,
     <1>14, <1>15, <1>16, <1>17, <1>18, <1>19, <1>20 DEF Next, User, Handler, Card

\* After the handshake NAPI is on exactly while the interface is up: no close
\* hangs in napi_disable (axnet_host_close) and no open calls napi_enable twice
\* (axnet_host_open), be it the user's, the interrupt handler's or that of a
\* change of the MTU.
THEOREM NapiIsPaired == Spec => []NapiPaired
<1>1. Init => Switching
  BY SwitchingInit
<1>2. Switching /\ [Next]_vars => Switching'
  BY SwitchingStep
<1>3. Switching => NapiPaired
  BY DEF Switching
<1> QED
  BY <1>1, <1>2, <1>3, PTL DEF Spec

-----------------------------------------------------------------------------
(* Messages in a ring.                                                     *)

Has(r, m) == \E i \in DOMAIN r.msgs : r.msgs[i] = m
Single(r, m) == \A i, j \in DOMAIN r.msgs : r.msgs[i] = m /\ r.msgs[j] = m => i = j
Before(r, m, n) == \A i, j \in DOMAIN r.msgs : r.msgs[i] = m /\ r.msgs[j] = n => i < j

\* A message the interrupt handler has copied, or will copy.
InHand(m) == ipc = "handle" /\ msg = m
Coming(m) == InHand(m) \/ Has(ep2h, m)

\* rd never passes wr in the ring to the card, nor in the one to the host while
\* no ring is reset under the handler; the card reads a LINK_DOWN last.
InOrder ==
  /\ h2ep.past = 0
  /\ ~torn => /\ ep2h.past = 0
              /\ ipc = "advance" => ~Empty(ep2h) /\ msg = Head(ep2h.msgs)
              /\ Before(h2ep, "LINK_UP", "LINK_DOWN")

\* What the link states may be where open and close are.
Places ==
  /\ ~checked => rx = "DOWN" /\ ~unacked
  /\ hpc \in {"look", "set", "clear", "request", "napi"} /\ opener = "irq" => ipc = "open"
  /\ os = "UP" => tx = "UP" /\ rx # "DOWN"
  /\ rx = "UP" => hpc \in {"napi", "close", "down"} \/ (hpc = "idle" /\ running)
  /\ hpc \in {"clear", "request"} \/ (hpc = "close" /\ napi = "off") => rx = "DOWN"
  /\ hpc = "free" /\ ~unacked => rx = "DOWN"
  /\ hpc = "idle" /\ ~running /\ ~unacked => rx = "DOWN" /\ ~bufs

\* The buffers while the host takes part, or waits to be let go.
Held ==
  /\ rx = "UP" \/ hpc = "request" => bufs
  /\ rx = "SENT_DOWN" => bufs \/ unacked

\* A close that got no answer, until the next open has reset the rings.
GivenUp == unacked /\ (hpc \in {"free", "look", "set", "clear"} \/ (hpc = "idle" /\ ~running))
\* The host is down, and the card knows.
Quiet == rx = "DOWN" /\ ~GivenUp /\ hpc # "request"
\* The handler will look for packets before it returns.
InHandler == ipc \in {"ctrl", "advance", "handle", "refill", "data"}
\* The host has asked the card to take part, or is about to.
Asked == rx = "UP" \/ hpc = "request"

\* What the card knows of the host, and what is on its way.
Told ==
  ~torn =>
    /\ Asked => ~Has(h2ep, "LINK_DOWN") /\ ~Coming("LINK_DOWN_ACK")
    /\ hpc = "request" => ~Has(h2ep, "LINK_UP")
    /\ rx = "UP" => ctx = "UP" \/ Has(h2ep, "LINK_UP") \/ h2ep.lost
    /\ ~Asked => (ctx = "DOWN" /\ ~Has(h2ep, "LINK_UP")) \/ Has(h2ep, "LINK_DOWN") \/ h2ep.lost
    /\ Coming("LINK_DOWN_ACK") => ctx = "DOWN" /\ ~Has(h2ep, "LINK_UP")
    /\ Quiet => ctx = "DOWN" /\ ~Has(h2ep, "LINK_UP")

\* Packets that came before the card let go are seen, or the interrupt is lost
\* already.
Flow ==
  ~torn =>
    /\ Quiet /\ full => InHandler \/ napi = "sched" \/ ~line
    /\ hpc = "idle" /\ napi = "off" /\ ~unacked /\ full => ~line
\* No message from the card was lost.
Calm == ~torn /\ ~missed /\ ~ep2h.lost

\* One LINK_DOWN is on its way, after any LINK_UP.
LastDown ==
  \/ InHand("LINK_DOWN") /\ ~Has(ep2h, "LINK_DOWN") /\ ~Has(ep2h, "LINK_UP")
  \/ /\ ~InHand("LINK_DOWN") /\ Has(ep2h, "LINK_DOWN")
     /\ Single(ep2h, "LINK_DOWN") /\ Before(ep2h, "LINK_UP", "LINK_DOWN")

\* What the host knows of the card, and what is on its way.
Heard ==
  Calm =>
    /\ hpc = "set" => (seen <=> crx = "UP")
    /\ hpc = "clear" /\ crx = "UP" => tx = "UP"
    /\ crx = "DOWN" => /\ tx = "DOWN" /\ ~Coming("LINK_UP") /\ ~Coming("LINK_DOWN")
                       /\ ~Has(h2ep, "LINK_DOWN_ACK")
    /\ crx = "UP" => /\ tx = "UP" \/ Coming("LINK_UP")
                     /\ ~Coming("LINK_DOWN") /\ ~Has(h2ep, "LINK_DOWN_ACK")
    /\ crx = "SENT_DOWN" =>
         \/ LastDown /\ ~Has(h2ep, "LINK_DOWN_ACK")
         \/ /\ tx = "DOWN" /\ ~Coming("LINK_UP") /\ ~Coming("LINK_DOWN")
            /\ Single(h2ep, "LINK_DOWN_ACK")

LEMMA NewRingHas ==
  /\ \A m : ~Has(NewRing, m) /\ Single(NewRing, m) /\ \A n : Before(NewRing, m, n)
  /\ NewRing.past = 0 /\ ~NewRing.lost /\ Empty(NewRing)
BY DEF NewRing, Has, Single, Before, Empty

LEMMA WrittenHas ==
  ASSUME NEW r \in RingType, NEW m \in Msgs
  PROVE  /\ \A n : Has(Written(r, m), n) <=> Has(r, n) \/ (n = m /\ ~Full(r))
         /\ Written(r, m).past = r.past
         /\ Written(r, m).lost <=> r.lost \/ Full(r)
<1>1. CASE Full(r)
  BY <1>1 DEF Written, RingType, Has
<1>2. CASE ~Full(r)
  <2> DEFINE s == Append(r.msgs, m)
  <2>1. Written(r, m) = [r EXCEPT !.msgs = s]
    BY <1>2 DEF Written
  <2>2. DOMAIN s = 1..(Len(r.msgs) + 1) /\ DOMAIN r.msgs = 1..Len(r.msgs) /\ Len(r.msgs) \in Nat
    BY DEF RingType
  <2>3. /\ s[Len(r.msgs) + 1] = m
        /\ \A i \in 1..Len(r.msgs) : s[i] = r.msgs[i]
    BY DEF RingType
  <2>4. \A n : (\E i \in DOMAIN s : s[i] = n) <=> Has(r, n) \/ n = m
    BY <2>2, <2>3 DEF Has
  <2>5. Written(r, m).msgs = s /\ Written(r, m).past = r.past /\ Written(r, m).lost = r.lost
    BY <2>1 DEF RingType
  <2> QED BY <1>2, <2>4, <2>5 DEF Has
<1> QED BY <1>1, <1>2

\* The order of the messages when one is sent.
LEMMA WrittenOrder ==
  ASSUME NEW r \in RingType, NEW x \in Msgs
  PROVE  /\ \A m, n : Before(r, m, n) /\ m # n /\ (x # m \/ ~Has(r, n)) => Before(Written(r, x), m, n)
         /\ \A n : Single(r, n) /\ (x # n \/ ~Has(r, n)) => Single(Written(r, x), n)
<1>1. CASE Full(r)
  BY <1>1 DEF Written, RingType, Before, Single
<1>2. CASE ~Full(r)
  <2> DEFINE s == Append(r.msgs, x)
  <2>1. Written(r, x).msgs = s
    BY <1>2 DEF Written, RingType
  <2>2. DOMAIN s = 1..(Len(r.msgs) + 1) /\ DOMAIN r.msgs = 1..Len(r.msgs) /\ Len(r.msgs) \in Nat
    BY DEF RingType
  <2>3. /\ s[Len(r.msgs) + 1] = x
        /\ \A i \in 1..Len(r.msgs) : s[i] = r.msgs[i]
    BY DEF RingType
  <2> HIDE DEF s
  <2>4. ASSUME NEW m, NEW n, Before(r, m, n), m # n, x # m \/ ~Has(r, n)
        PROVE  Before(Written(r, x), m, n)
    <3> SUFFICES ASSUME NEW i \in DOMAIN s, NEW j \in DOMAIN s, s[i] = m, s[j] = n
                 PROVE  i < j
      BY <2>1 DEF Before
    <3>1. i # j
      BY <2>4
    <3>2. CASE i \in DOMAIN r.msgs /\ j \in DOMAIN r.msgs
      BY <2>2, <2>3, <2>4, <3>2 DEF Before
    <3>3. CASE i \notin DOMAIN r.msgs
      BY <2>2, <2>3, <2>4, <3>1, <3>3 DEF Has
    <3>4. CASE j \notin DOMAIN r.msgs
      BY <2>2, <3>1, <3>4
    <3> QED BY <3>2, <3>3, <3>4
  <2>5. ASSUME NEW n, Single(r, n), x # n \/ ~Has(r, n)
        PROVE  Single(Written(r, x), n)
    BY <2>1, <2>2, <2>3, <2>5 DEF Single, Has
  <2> QED BY <2>4, <2>5
<1> QED BY <1>1, <1>2

LEMMA AdvancedHas ==
  ASSUME NEW r \in RingType, ~Empty(r)
  PROVE  /\ Advanced(r).past = r.past /\ Advanced(r).lost = r.lost
         /\ \A n : Has(r, n) <=> Has(Advanced(r), n) \/ n = Head(r.msgs)
         /\ \A m, n : Before(r, m, n) => Before(Advanced(r), m, n) /\ (n = Head(r.msgs) => ~Has(r, m))
         /\ \A n : Single(r, n) => Single(Advanced(r), n) /\ (n = Head(r.msgs) => ~Has(Advanced(r), n))
<1> DEFINE s == Tail(r.msgs)
<1>1. Advanced(r) = [r EXCEPT !.msgs = s]
  BY DEF Advanced
<1>2. Advanced(r).msgs = s /\ Advanced(r).past = r.past /\ Advanced(r).lost = r.lost
  BY <1>1 DEF RingType
<1>3. Len(r.msgs) \in Nat \ {0} /\ DOMAIN r.msgs = 1..Len(r.msgs)
  BY DEF RingType, Empty
<1>4. DOMAIN s = 1..(Len(r.msgs) - 1) /\ \A i \in DOMAIN s : s[i] = r.msgs[i + 1]
  BY <1>3 DEF RingType, Empty
<1>5. Head(r.msgs) = r.msgs[1]
  BY DEF RingType, Empty
<1> HIDE DEF s
<1>6. \A n : Has(r, n) <=> Has(Advanced(r), n) \/ n = Head(r.msgs)
  <2> SUFFICES ASSUME NEW n PROVE Has(r, n) <=> Has(Advanced(r), n) \/ n = Head(r.msgs)
    OBVIOUS
  <2>1. ASSUME NEW i \in DOMAIN r.msgs, r.msgs[i] = n, i # 1 PROVE Has(Advanced(r), n)
    <3>1. i - 1 \in DOMAIN s /\ s[i - 1] = n
      BY <1>3, <1>4, <2>1
    <3> QED BY <1>2, <3>1 DEF Has
  <2>2. ASSUME NEW i \in DOMAIN s, s[i] = n PROVE Has(r, n)
    <3>1. i + 1 \in DOMAIN r.msgs /\ r.msgs[i + 1] = n
      BY <1>3, <1>4, <2>2
    <3> QED BY <3>1 DEF Has
  <2>3. n = Head(r.msgs) => Has(r, n)
    BY <1>3, <1>5 DEF Has
  <2> QED BY <1>2, <1>5, <2>1, <2>2, <2>3 DEF Has
<1>7. ASSUME NEW m, NEW n, Before(r, m, n)
      PROVE  Before(Advanced(r), m, n) /\ (n = Head(r.msgs) => ~Has(r, m))
  <2>1. Before(Advanced(r), m, n)
    <3> SUFFICES ASSUME NEW i \in DOMAIN s, NEW j \in DOMAIN s, s[i] = m, s[j] = n
                 PROVE  i < j
      BY <1>2 DEF Before
    <3>1. /\ i + 1 \in DOMAIN r.msgs /\ j + 1 \in DOMAIN r.msgs
          /\ r.msgs[i + 1] = m /\ r.msgs[j + 1] = n
      BY <1>3, <1>4
    <3>2. i + 1 < j + 1
      BY <1>7, <3>1 DEF Before
    <3> QED BY <1>3, <1>4, <3>2
  <2>2. n = Head(r.msgs) => ~Has(r, m)
    BY <1>3, <1>5, <1>7 DEF Before, Has
  <2> QED BY <2>1, <2>2
<1>8. ASSUME NEW n, Single(r, n)
      PROVE  Single(Advanced(r), n) /\ (n = Head(r.msgs) => ~Has(Advanced(r), n))
  <2>1. \A i \in DOMAIN s : i \in Nat /\ i > 0 /\ i + 1 \in DOMAIN r.msgs /\ r.msgs[i + 1] = s[i]
    BY <1>3, <1>4
  <2>2. ASSUME NEW i \in DOMAIN s, NEW j \in DOMAIN s, s[i] = n, s[j] = n PROVE i = j
    <3>1. i + 1 = j + 1
      BY <1>8, <2>1, <2>2 DEF Single
    <3> QED BY <2>1, <3>1
  <2>3. n = Head(r.msgs) => \A i \in DOMAIN s : s[i] # n
    <3> SUFFICES ASSUME n = Head(r.msgs), NEW i \in DOMAIN s, s[i] = n PROVE FALSE
      OBVIOUS
    <3>1. i + 1 = 1
      BY <1>3, <1>5, <1>8, <2>1 DEF Single
    <3> QED BY <2>1, <3>1
  <2> QED BY <1>2, <2>2, <2>3 DEF Single, Has
<1> QED BY <1>2, <1>6, <1>7, <1>8

LEMMA EmptyHas ==
  ASSUME NEW r \in RingType
  PROVE  /\ Empty(r) => \A m : ~Has(r, m)
         /\ ~Empty(r) => Head(r.msgs) \in Msgs /\ Has(r, Head(r.msgs))
<1>1. Empty(r) => \A m : ~Has(r, m)
  BY DEF Empty, Has
<1>2. ~Empty(r) => 1 \in DOMAIN r.msgs /\ Head(r.msgs) = r.msgs[1]
  BY DEF Empty, RingType
<1> QED BY <1>1, <1>2, HeadType DEF Has

LEMMA WrittenHead ==
  ASSUME NEW r \in RingType, NEW m \in Msgs, ~Empty(r)
  PROVE  ~Empty(Written(r, m)) /\ Head(Written(r, m).msgs) = Head(r.msgs)
BY DEF Written, RingType, Empty

-----------------------------------------------------------------------------
(* Buffers and link states.                                                *)

LEMMA PlacesStep ==
  TypeOK /\ Switching /\ Places /\ [Next]_vars => Places'
<1> SUFFICES ASSUME TypeOK, Switching, Places, [Next]_vars PROVE Places'
  OBVIOUS
<1> USE DEF userVars, shakeVars, linkVars, irqVars, cardVars, historyVars,
            Places, TypeOK, LinkStates, Switching, Opening, HalfClosed, ClosingFor,
               Unshaken, OpenPcs, ClosedPcs, NapiPaired
<1>1. CASE IfUp
  BY <1>1 DEF IfUp
<1>2. CASE IfDown
  BY <1>2 DEF IfDown
<1>3. CASE ChangeMtu
  BY <1>3 DEF ChangeMtu
<1>4. CASE OpenLooks
  BY <1>4 DEF OpenLooks
<1>5. CASE OpenSets
  BY <1>5 DEF OpenSets
<1>6. CASE OpenClears
  BY <1>6 DEF OpenClears
<1>7. CASE OpenRequests
  BY <1>7 DEF OpenRequests, LinkIs
<1>8. CASE OpenEnds
  BY <1>8 DEF OpenEnds
<1>9. CASE CloseNapi
  BY <1>9 DEF CloseNapi
<1>10. CASE CloseRequests
  BY <1>10 DEF CloseRequests
<1>11. CASE CloseWaits
  BY <1>11 DEF CloseWaits, Waits
<1>12. CASE CloseAcked
  BY <1>12 DEF CloseAcked
<1>13. CASE CloseTimesOut
  BY <1>13 DEF CloseTimesOut
<1>14. CASE CloseFrees
  BY <1>14 DEF CloseFrees
<1>15. CASE Irq
  BY <1>15 DEF Irq, IrqOpens
<1>16. CASE IrqReads
  BY <1>16 DEF IrqReads, Available
<1>17. CASE IrqAdvances
  BY <1>17 DEF IrqAdvances
<1>18. CASE IrqHandles
  BY <1>18 DEF IrqHandles, LinkIs
<1>19. CASE IrqRefills
  BY <1>19 DEF IrqRefills
<1>20. CASE IrqData
  BY <1>20 DEF IrqData
<1>21. CASE Poll
  BY <1>21 DEF Poll, TakesPackets
<1>22. CASE CardAnswers
  BY <1>22 DEF CardAnswers
<1>23. CASE CardUp
  BY <1>23 DEF CardUp, Sends, Flips
<1>24. CASE CardDown
  BY <1>24 DEF CardDown, Sends, Flips
<1>25. CASE CardReads
  BY <1>25 DEF CardReads, Sends
<1>26. CASE CardData
  BY <1>26 DEF CardData, CardUses
<1>27. CASE UNCHANGED vars
  BY <1>27 DEF vars
<1> QED
  BY <1>1, <1>2, <1>3, <1>4, <1>5, <1>6, <1>7, <1>8, <1>9, <1>10, <1>11, <1>12, <1>13,
     <1>14, <1>15, <1>16, <1>17, <1>18, <1>19, <1>20, <1>21, <1>22, <1>23, <1>24, <1>25,
     <1>26, <1>27 DEF Next, User, Handler, Card
LEMMA HeldStep ==
  TypeOK /\ Switching /\ Places /\ Held /\ [Next]_vars => Held'
<1> SUFFICES ASSUME TypeOK, Switching, Places, Held, [Next]_vars PROVE Held'
  OBVIOUS
<1> USE DEF userVars, shakeVars, linkVars, irqVars, cardVars, historyVars,
            Held, Places, Switching, HalfClosed, ClosedPcs
<1>1. CASE IfUp
  BY <1>1 DEF IfUp
<1>2. CASE IfDown
  BY <1>2 DEF IfDown
<1>3. CASE ChangeMtu
  BY <1>3 DEF ChangeMtu
<1>4. CASE OpenLooks
  BY <1>4 DEF OpenLooks
<1>5. CASE OpenSets
  BY <1>5 DEF OpenSets
<1>6. CASE OpenClears
  BY <1>6 DEF OpenClears
<1>7. CASE OpenRequests
  BY <1>7 DEF OpenRequests, LinkIs
<1>8. CASE OpenEnds
  BY <1>8 DEF OpenEnds
<1>9. CASE CloseNapi
  BY <1>9 DEF CloseNapi
<1>10. CASE CloseRequests
  BY <1>10 DEF CloseRequests
<1>11. CASE CloseWaits
  BY <1>11 DEF CloseWaits, Waits
<1>12. CASE CloseAcked
  BY <1>12 DEF CloseAcked
<1>13. CASE CloseTimesOut
  BY <1>13 DEF CloseTimesOut
<1>14. CASE CloseFrees
  BY <1>14 DEF CloseFrees
<1>15. CASE Irq
  BY <1>15 DEF Irq, IrqOpens
<1>16. CASE IrqReads
  BY <1>16 DEF IrqReads, Available
<1>17. CASE IrqAdvances
  BY <1>17 DEF IrqAdvances
<1>18. CASE IrqHandles
  BY <1>18 DEF IrqHandles, LinkIs
<1>19. CASE IrqRefills
  BY <1>19 DEF IrqRefills
<1>20. CASE IrqData
  BY <1>20 DEF IrqData
<1>21. CASE Poll
  BY <1>21 DEF Poll, TakesPackets
<1>22. CASE CardAnswers
  BY <1>22 DEF CardAnswers
<1>23. CASE CardUp
  BY <1>23 DEF CardUp, Sends, Flips
<1>24. CASE CardDown
  BY <1>24 DEF CardDown, Sends, Flips
<1>25. CASE CardReads
  BY <1>25 DEF CardReads, Sends
<1>26. CASE CardData
  BY <1>26 DEF CardData, CardUses
<1>27. CASE UNCHANGED vars
  BY <1>27 DEF vars
<1> QED
  BY <1>1, <1>2, <1>3, <1>4, <1>5, <1>6, <1>7, <1>8, <1>9, <1>10, <1>11, <1>12, <1>13,
     <1>14, <1>15, <1>16, <1>17, <1>18, <1>19, <1>20, <1>21, <1>22, <1>23, <1>24, <1>25,
     <1>26, <1>27 DEF Next, User, Handler, Card

LEMMA InOrderStep ==
  TypeOK /\ Places /\ Told /\ InOrder /\ [Next]_vars => InOrder'
<1> SUFFICES ASSUME TypeOK, Places, Told, InOrder, [Next]_vars PROVE InOrder'
  OBVIOUS
<1> USE DEF userVars, shakeVars, linkVars, irqVars, cardVars, historyVars,
            InOrder, Told, Asked, Coming, InHand
<1>0. ep2h \in RingType /\ h2ep \in RingType /\ msg \in Msgs
  BY DEF TypeOK
<1>1. CASE IfUp
  BY <1>1 DEF IfUp
<1>2. CASE IfDown
  BY <1>2 DEF IfDown
<1>3. CASE ChangeMtu
  BY <1>3 DEF ChangeMtu
<1>4. CASE OpenLooks
  BY <1>4 DEF OpenLooks
<1>5. CASE OpenSets
  BY <1>5 DEF OpenSets
<1>6. CASE OpenClears
  BY <1>6, NewRingHas, <1>0 DEF OpenClears, Msgs
<1>7. CASE OpenRequests
  BY <1>7, WrittenHas, WrittenOrder, <1>0 DEF OpenRequests, LinkIs, Msgs
<1>8. CASE OpenEnds
  BY <1>8 DEF OpenEnds
<1>9. CASE CloseNapi
  BY <1>9 DEF CloseNapi
<1>10. CASE CloseRequests
  BY <1>10, WrittenHas, WrittenOrder, <1>0 DEF CloseRequests, Msgs
<1>11. CASE CloseWaits
  BY <1>11 DEF CloseWaits, Waits
<1>12. CASE CloseAcked
  BY <1>12 DEF CloseAcked
<1>13. CASE CloseTimesOut
  BY <1>13 DEF CloseTimesOut
<1>14. CASE CloseFrees
  BY <1>14 DEF CloseFrees
<1>15. CASE Irq
  BY <1>15 DEF Irq, IrqOpens
<1>16. CASE IrqReads
  BY <1>16, EmptyHas, <1>0 DEF IrqReads, Available, Msgs
<1>17. CASE IrqAdvances
  BY <1>17, AdvancedHas, <1>0 DEF IrqAdvances, Msgs
<1>18. CASE IrqHandles
  BY <1>18, WrittenHas, WrittenOrder, <1>0 DEF IrqHandles, LinkIs, Msgs
<1>19. CASE IrqRefills
  BY <1>19 DEF IrqRefills
<1>20. CASE IrqData
  BY <1>20 DEF IrqData
<1>21. CASE Poll
  BY <1>21 DEF Poll, TakesPackets
<1>22. CASE CardAnswers
  BY <1>22 DEF CardAnswers
<1>23. CASE CardUp
  BY <1>23, WrittenHas, WrittenHead, WrittenOrder, <1>0 DEF CardUp, Sends, Flips, Msgs
<1>24. CASE CardDown
  BY <1>24, WrittenHas, WrittenHead, WrittenOrder, <1>0 DEF CardDown, Sends, Flips, Msgs
<1>25. CASE CardReads
  BY <1>25, WrittenHas, WrittenHead, WrittenOrder, AdvancedHas, EmptyHas, <1>0 DEF
     CardReads, Sends, Msgs
<1>26. CASE CardData
  BY <1>26 DEF CardData, CardUses
<1>27. CASE UNCHANGED vars
  BY <1>27 DEF vars
<1> QED
  BY <1>1, <1>2, <1>3, <1>4, <1>5, <1>6, <1>7, <1>8, <1>9, <1>10, <1>11, <1>12, <1>13,
     <1>14, <1>15, <1>16, <1>17, <1>18, <1>19, <1>20, <1>21, <1>22, <1>23, <1>24, <1>25,
     <1>26, <1>27 DEF Next, User, Handler, Card

LEMMA ToldStep ==
  TypeOK /\ Switching /\ Places /\ InOrder /\ Told /\ [Next]_vars => Told'
<1> SUFFICES ASSUME TypeOK, Switching, Places, InOrder, Told, [Next]_vars PROVE Told'
  OBVIOUS
<1> USE DEF userVars, shakeVars, linkVars, irqVars, cardVars, historyVars,
            Told, Asked, Coming, InHand, Quiet, GivenUp, InOrder, Places, Switching,
               Opening, Unshaken, OpenPcs, ClosingFor, ClosedPcs
<1>0. ep2h \in RingType /\ h2ep \in RingType /\ msg \in Msgs
  BY DEF TypeOK
<1>1. CASE IfUp
  BY <1>1 DEF IfUp
<1>2. CASE IfDown
  BY <1>2 DEF IfDown
<1>3. CASE ChangeMtu
  BY <1>3 DEF ChangeMtu
<1>4. CASE OpenLooks
  BY <1>4 DEF OpenLooks
<1>5. CASE OpenSets
  BY <1>5 DEF OpenSets
<1>6. CASE OpenClears
  BY <1>6, NewRingHas, <1>0 DEF OpenClears, Msgs
<1>7. CASE OpenRequests
  BY <1>7, WrittenHas, WrittenOrder, <1>0 DEF OpenRequests, LinkIs, Msgs
<1>8. CASE OpenEnds
  BY <1>8 DEF OpenEnds
<1>9. CASE CloseNapi
  BY <1>9 DEF CloseNapi
<1>10. CASE CloseRequests
  BY <1>10, WrittenHas, WrittenOrder, <1>0 DEF CloseRequests, Msgs
<1>11. CASE CloseWaits
  BY <1>11 DEF CloseWaits, Waits
<1>12. CASE CloseAcked
  BY <1>12 DEF CloseAcked
<1>13. CASE CloseTimesOut
  BY <1>13 DEF CloseTimesOut
<1>14. CASE CloseFrees
  BY <1>14 DEF CloseFrees
<1>15. CASE Irq
  BY <1>15 DEF Irq, IrqOpens
<1>16. CASE IrqReads
  <2>1. ipc = "ctrl" /\ UNCHANGED <<torn, rx, hpc, h2ep, ep2h, ctx, unacked, running>>
    BY <1>16 DEF IrqReads
  <2>2. ~torn => ipc' # "handle"
    BY <1>16 DEF IrqReads, Available, Empty, InOrder
  <2>3. ~torn => \A m : Coming(m)' => Coming(m)
    BY <2>1, <2>2 DEF Coming, InHand
  <2> QED BY <2>1, <2>3 DEF Told, Asked, Quiet, GivenUp
<1>17. CASE IrqAdvances
  BY <1>17, AdvancedHas, <1>0 DEF IrqAdvances, Msgs
<1>18. CASE IrqHandles
  BY <1>18, WrittenHas, WrittenOrder, <1>0 DEF IrqHandles, LinkIs, Msgs
<1>19. CASE IrqRefills
  BY <1>19 DEF IrqRefills
<1>20. CASE IrqData
  BY <1>20 DEF IrqData
<1>21. CASE Poll
  BY <1>21 DEF Poll, TakesPackets
<1>22. CASE CardAnswers
  BY <1>22 DEF CardAnswers
<1>23. CASE CardUp
  BY <1>23, WrittenHas, WrittenHead, WrittenOrder, <1>0 DEF CardUp, Sends, Flips, Msgs
<1>24. CASE CardDown
  BY <1>24, WrittenHas, WrittenHead, WrittenOrder, <1>0 DEF CardDown, Sends, Flips, Msgs
<1>25. CASE CardReads
  BY <1>25, WrittenHas, WrittenHead, WrittenOrder, AdvancedHas, EmptyHas, <1>0 DEF
     CardReads, Sends, Msgs
<1>26. CASE CardData
  BY <1>26 DEF CardData, CardUses
<1>27. CASE UNCHANGED vars
  BY <1>27 DEF vars
<1> QED
  BY <1>1, <1>2, <1>3, <1>4, <1>5, <1>6, <1>7, <1>8, <1>9, <1>10, <1>11, <1>12, <1>13,
     <1>14, <1>15, <1>16, <1>17, <1>18, <1>19, <1>20, <1>21, <1>22, <1>23, <1>24, <1>25,
     <1>26, <1>27 DEF Next, User, Handler, Card

LEMMA FlowStep ==
  TypeOK /\ Switching /\ Places /\ Told /\ Flow /\ [Next]_vars => Flow'
<1> SUFFICES ASSUME TypeOK, Switching, Places, Told, Flow, [Next]_vars PROVE Flow'
  OBVIOUS
<1> USE DEF userVars, shakeVars, linkVars, irqVars, cardVars, historyVars,
            Flow, Told, CardUses, Quiet, GivenUp, InHandler, Places, Switching,
               HalfClosed, Opening, ClosedPcs, OpenPcs, Unshaken, ClosingFor, NapiPaired
<1>0. ep2h \in RingType /\ h2ep \in RingType /\ msg \in Msgs
  BY DEF TypeOK
<1>1. CASE IfUp
  BY <1>1 DEF IfUp
<1>2. CASE IfDown
  BY <1>2 DEF IfDown
<1>3. CASE ChangeMtu
  BY <1>3 DEF ChangeMtu
<1>4. CASE OpenLooks
  BY <1>4 DEF OpenLooks
<1>5. CASE OpenSets
  BY <1>5 DEF OpenSets
<1>6. CASE OpenClears
  BY <1>6, NewRingHas, <1>0 DEF OpenClears, Msgs
<1>7. CASE OpenRequests
  BY <1>7, WrittenHas, WrittenOrder, <1>0 DEF OpenRequests, LinkIs, Msgs
<1>8. CASE OpenEnds
  BY <1>8 DEF OpenEnds
<1>9. CASE CloseNapi
  BY <1>9 DEF CloseNapi
<1>10. CASE CloseRequests
  BY <1>10, WrittenHas, WrittenOrder, <1>0 DEF CloseRequests, Msgs
<1>11. CASE CloseWaits
  BY <1>11 DEF CloseWaits, Waits
<1>12. CASE CloseAcked
  BY <1>12 DEF CloseAcked
<1>13. CASE CloseTimesOut
  BY <1>13 DEF CloseTimesOut
<1>14. CASE CloseFrees
  BY <1>14 DEF CloseFrees
<1>15. CASE Irq
  BY <1>15 DEF Irq, IrqOpens
<1>16. CASE IrqReads
  BY <1>16, EmptyHas, <1>0 DEF IrqReads, Available, Msgs
<1>17. CASE IrqAdvances
  BY <1>17, AdvancedHas, <1>0 DEF IrqAdvances, Msgs
<1>18. CASE IrqHandles
  BY <1>18, WrittenHas, WrittenOrder, <1>0 DEF IrqHandles, LinkIs, Msgs
<1>19. CASE IrqRefills
  BY <1>19 DEF IrqRefills
<1>20. CASE IrqData
  BY <1>20 DEF IrqData
<1>21. CASE Poll
  BY <1>21 DEF Poll, TakesPackets
<1>22. CASE CardAnswers
  BY <1>22 DEF CardAnswers
<1>23. CASE CardUp
  BY <1>23, WrittenHas, WrittenHead, WrittenOrder, <1>0 DEF CardUp, Sends, Flips, Msgs
<1>24. CASE CardDown
  BY <1>24, WrittenHas, WrittenHead, WrittenOrder, <1>0 DEF CardDown, Sends, Flips, Msgs
<1>25. CASE CardReads
  BY <1>25, WrittenHas, WrittenHead, WrittenOrder, AdvancedHas, EmptyHas, <1>0 DEF
     CardReads, Sends, Msgs
<1>26. CASE CardData
  BY <1>26 DEF CardData, CardUses
<1>27. CASE UNCHANGED vars
  BY <1>27 DEF vars
<1> QED
  BY <1>1, <1>2, <1>3, <1>4, <1>5, <1>6, <1>7, <1>8, <1>9, <1>10, <1>11, <1>12, <1>13,
     <1>14, <1>15, <1>16, <1>17, <1>18, <1>19, <1>20, <1>21, <1>22, <1>23, <1>24, <1>25,
     <1>26, <1>27 DEF Next, User, Handler, Card

LEMMA HeardStep ==
  TypeOK /\ Places /\ InOrder /\ Heard /\ [Next]_vars => Heard'
<1> SUFFICES ASSUME TypeOK, Places, InOrder, Heard, [Next]_vars PROVE Heard'
  OBVIOUS
<1> USE DEF userVars, shakeVars, linkVars, irqVars, cardVars, historyVars,
            Heard, Calm, LastDown, Coming, InHand, InOrder, Places
<1>0. ep2h \in RingType /\ h2ep \in RingType /\ msg \in Msgs
  BY DEF TypeOK
<1>1. CASE IfUp
  BY <1>1 DEF IfUp
<1>2. CASE IfDown
  BY <1>2 DEF IfDown
<1>3. CASE ChangeMtu
  BY <1>3 DEF ChangeMtu
<1>4. CASE OpenLooks
  BY <1>4 DEF OpenLooks
<1>5. CASE OpenSets
  BY <1>5 DEF OpenSets
<1>6. CASE OpenClears
  <2>1. /\ Calm' => Calm /\ ~Has(ep2h, "LINK_DOWN") /\ ipc \notin {"advance", "handle"}
        /\ hpc = "clear" /\ hpc' = "request" /\ UNCHANGED <<tx, crx, ipc>>
    BY <1>6 DEF OpenClears, Calm, Has
  <2>2. Calm' => \A m : ~InHand(m) /\ ~InHand(m)' /\ ~Has(ep2h', m) /\ ~Has(h2ep', m) /\ Single(h2ep', m)
    BY <1>6, <2>1, NewRingHas DEF OpenClears, InHand
  <2>3. CASE crx = "SENT_DOWN"
    BY <2>1, <2>2, <2>3 DEF Heard, LastDown, Coming
  <2>4. CASE crx # "SENT_DOWN"
    BY <2>1, <2>2, <2>4 DEF Heard, Coming
  <2> QED BY <2>3, <2>4
<1>7. CASE OpenRequests
  BY <1>7, WrittenHas, WrittenOrder, <1>0 DEF OpenRequests, LinkIs, Msgs
<1>8. CASE OpenEnds
  BY <1>8 DEF OpenEnds
<1>9. CASE CloseNapi
  BY <1>9 DEF CloseNapi
<1>10. CASE CloseRequests
  BY <1>10, WrittenHas, WrittenOrder, <1>0 DEF CloseRequests, Msgs
<1>11. CASE CloseWaits
  BY <1>11 DEF CloseWaits, Waits
<1>12. CASE CloseAcked
  BY <1>12 DEF CloseAcked
<1>13. CASE CloseTimesOut
  BY <1>13 DEF CloseTimesOut
<1>14. CASE CloseFrees
  BY <1>14 DEF CloseFrees
<1>15. CASE Irq
  BY <1>15 DEF Irq, IrqOpens
<1>16. CASE IrqReads
  <2>1. ipc = "ctrl" /\ UNCHANGED <<torn, missed, hpc, seen, tx, h2ep, ep2h, crx>>
    BY <1>16 DEF IrqReads
  <2>2. ~torn => ipc' # "handle"
    BY <1>16 DEF IrqReads, Available, Empty, InOrder
  <2>3. ~torn => \A m : (Coming(m)' <=> Coming(m)) /\ ~InHand(m) /\ ~InHand(m)'
    BY <2>1, <2>2 DEF Coming, InHand
  <2> QED BY <2>1, <2>3 DEF Heard, Calm, LastDown
<1>17. CASE IrqAdvances
  BY <1>17, AdvancedHas, <1>0 DEF IrqAdvances, Msgs
<1>18. CASE IrqHandles
  <2>1. /\ ipc = "handle" /\ ipc' = "ctrl" /\ UNCHANGED <<torn, missed, hpc, seen, crx, ep2h, msg>>
        /\ \A m : ~InHand(m)'
    BY <1>18 DEF IrqHandles, InHand
  <2>2. (Calm' => Calm) /\ \A m : Coming(m)' <=> Has(ep2h, m)
    BY <2>1 DEF Calm, Coming
  <2>3. CASE msg = "LINK_UP"
    <3>1. tx' = "UP" /\ h2ep' = h2ep /\ Coming("LINK_UP")
      BY <1>18, <2>1, <2>3 DEF IrqHandles, LinkIs, Coming, InHand
    <3> QED BY <2>1, <2>2, <2>3, <3>1 DEF Heard, LastDown, Coming, InHand
  <2>4. CASE msg = "LINK_DOWN"
    <3>1. tx' = "DOWN" /\ h2ep' = Written(h2ep, "LINK_DOWN_ACK") /\ Coming("LINK_DOWN")
      BY <1>18, <2>1, <2>4 DEF IrqHandles, LinkIs, Coming, InHand
    <3>2. Calm => /\ crx = "SENT_DOWN" /\ ~Has(h2ep, "LINK_DOWN_ACK")
                  /\ ~Has(ep2h, "LINK_DOWN") /\ ~Has(ep2h, "LINK_UP")
      BY <1>0, <2>1, <2>4, <3>1 DEF Heard, LastDown, InHand, TypeOK, LinkStates
    <3>3. ~Has(h2ep, "LINK_DOWN_ACK") => Single(h2ep', "LINK_DOWN_ACK")
      <4>1. ~Has(h2ep, "LINK_DOWN_ACK") => Single(h2ep, "LINK_DOWN_ACK")
        BY DEF Has, Single
      <4> QED BY <1>0, <3>1, <4>1, WrittenOrder DEF Msgs
    <3> QED BY <2>1, <2>2, <3>1, <3>2, <3>3 DEF Heard
  <2>5. CASE msg = "LINK_DOWN_ACK"
    <3>1. tx' = tx /\ h2ep' = h2ep
      BY <1>18, <2>5 DEF IrqHandles, LinkIs
    <3>2. \A m \in {"LINK_UP", "LINK_DOWN"} : ~InHand(m) /\ (Coming(m)' <=> Coming(m))
      BY <2>1, <2>2, <2>5 DEF InHand, Coming
    <3> QED BY <2>1, <2>2, <3>1, <3>2 DEF Heard, LastDown
  <2> QED BY <1>0, <2>3, <2>4, <2>5 DEF Msgs
<1>19. CASE IrqRefills
  BY <1>19 DEF IrqRefills
<1>20. CASE IrqData
  BY <1>20 DEF IrqData
<1>21. CASE Poll
  BY <1>21 DEF Poll, TakesPackets
<1>22. CASE CardAnswers
  BY <1>22 DEF CardAnswers
<1>23. CASE CardUp
  BY <1>23, WrittenHas, WrittenHead, WrittenOrder, <1>0 DEF CardUp, Sends, Flips, Msgs
<1>24. CASE CardDown
  <2>1. /\ crx = "UP" /\ crx' = "SENT_DOWN" /\ ep2h' = Written(ep2h, "LINK_DOWN")
        /\ UNCHANGED <<torn, ipc, msg, h2ep, tx>> /\ (Calm' => Calm /\ ~Full(ep2h) /\ hpc' \notin {"set", "clear"})
    <3>1. Calm' => Calm /\ ~Full(ep2h)
      BY <1>0, <1>24, WrittenHas DEF CardDown, Sends, Flips, Calm, Msgs
    <3> QED BY <1>24, <3>1 DEF CardDown, Sends, Flips, Calm
  <2>2. Calm => /\ ~InHand("LINK_DOWN") /\ ~Has(ep2h, "LINK_DOWN") /\ ~Has(h2ep, "LINK_DOWN_ACK")
    BY <2>1 DEF Heard, Coming
  <2>3. ~Has(ep2h, "LINK_DOWN") => Single(ep2h, "LINK_DOWN") /\ Before(ep2h, "LINK_UP", "LINK_DOWN")
    BY DEF Has, Single, Before
  <2>4. Calm' => LastDown'
    <3>1. Calm' => /\ Has(ep2h', "LINK_DOWN") /\ Single(ep2h', "LINK_DOWN")
                   /\ Before(ep2h', "LINK_UP", "LINK_DOWN")
      BY <1>0, <2>1, <2>2, <2>3, WrittenHas, WrittenOrder DEF Msgs
    <3> QED BY <2>1, <2>2, <3>1 DEF LastDown, InHand
  <2> QED BY <2>1, <2>2, <2>4 DEF Heard
<1>25. CASE CardReads
  <2> DEFINE m == Head(h2ep.msgs)
  <2>1. /\ ~Empty(h2ep) /\ h2ep' = Advanced(h2ep) /\ m \in Msgs /\ Has(h2ep, m)
        /\ UNCHANGED <<torn, missed, hpc, seen, tx, ipc, msg>>
    BY <1>0, <1>25, EmptyHas DEF CardReads
  <2>2. /\ \A n : Has(h2ep', n) => Has(h2ep, n)
        /\ \A n : Single(h2ep, n) => Single(h2ep', n) /\ (n = m => ~Has(h2ep', n))
    BY <1>0, <2>1, AdvancedHas
  <2>3. CASE m = "LINK_DOWN"
    <3>1. crx' = crx /\ ep2h' = Written(ep2h, "LINK_DOWN_ACK")
      BY <1>25, <2>3 DEF CardReads, Sends
    <3>2. /\ Calm' => Calm
          /\ \A n \in {"LINK_UP", "LINK_DOWN"} : Has(ep2h', n) <=> Has(ep2h, n)
          /\ Single(ep2h, "LINK_DOWN") => Single(ep2h', "LINK_DOWN")
          /\ Before(ep2h, "LINK_UP", "LINK_DOWN") => Before(ep2h', "LINK_UP", "LINK_DOWN")
      BY <1>0, <2>1, <3>1, WrittenHas, WrittenOrder DEF Msgs, Calm
    <3> QED BY <2>1, <2>2, <3>1, <3>2 DEF Heard, LastDown, Coming, InHand
  <2>4. CASE m = "LINK_UP"
    <3>1. crx' = crx /\ ep2h' = ep2h
      BY <1>25, <2>4 DEF CardReads
    <3> QED BY <2>1, <2>2, <3>1 DEF Heard, Calm, LastDown, Coming, InHand
  <2>5. CASE m = "LINK_DOWN_ACK"
    <3>1. crx' = "DOWN" /\ ep2h' = ep2h
      BY <1>25, <2>5 DEF CardReads
    <3>2. Calm => crx = "SENT_DOWN" /\ Single(h2ep, m) /\ tx = "DOWN" /\ ~Coming("LINK_UP") /\ ~Coming("LINK_DOWN")
      BY <2>1, <2>5 DEF Heard, TypeOK, LinkStates
    <3> QED BY <2>1, <2>2, <2>5, <3>1, <3>2 DEF Heard, Calm, Coming, InHand
  <2> QED BY <2>1, <2>3, <2>4, <2>5 DEF Msgs
<1>26. CASE CardData
  BY <1>26 DEF CardData, CardUses
<1>27. CASE UNCHANGED vars
  BY <1>27 DEF vars
<1> QED
  BY <1>1, <1>2, <1>3, <1>4, <1>5, <1>6, <1>7, <1>8, <1>9, <1>10, <1>11, <1>12, <1>13,
     <1>14, <1>15, <1>16, <1>17, <1>18, <1>19, <1>20, <1>21, <1>22, <1>23, <1>24, <1>25,
     <1>26, <1>27 DEF Next, User, Handler, Card

-----------------------------------------------------------------------------
LinkInv ==
  /\ TypeOK /\ Switching /\ Places /\ Held
  /\ InOrder /\ Told /\ Flow /\ Heard

LEMMA LinkInvInit == Init => LinkInv
<1> SUFFICES ASSUME Init PROVE LinkInv
  OBVIOUS
<1> USE DEF Init
<1>1. TypeOK /\ Switching
  BY TypeInit, SwitchingInit
<1>2. /\ \A m : ~Has(ep2h, m) /\ ~Has(h2ep, m) /\ Single(h2ep, m) /\ ~Coming(m)
      /\ \A m, n : Before(h2ep, m, n)
      /\ ep2h.past = 0 /\ h2ep.past = 0
  BY NewRingHas DEF Coming, InHand
<1>3. Places /\ Held
  BY DEF Places, Held
<1>4. InOrder /\ Told
  BY <1>2 DEF InOrder, Told, Asked
<1>5. Flow /\ Heard
  BY <1>2 DEF Flow, Heard
<1> QED BY <1>1, <1>3, <1>4, <1>5 DEF LinkInv

LEMMA LinkInvStep == LinkInv /\ [Next]_vars => LinkInv'
<1> SUFFICES ASSUME LinkInv, [Next]_vars PROVE LinkInv'
  OBVIOUS
<1>1. TypeOK'
  BY TypeStep DEF LinkInv
<1>2. Switching' /\ Places' /\ Held'
  BY SwitchingStep, PlacesStep, HeldStep DEF LinkInv
<1>3. InOrder' /\ Told' /\ Flow' /\ Heard'
  BY InOrderStep, ToldStep, FlowStep, HeardStep DEF LinkInv
<1> QED BY <1>1, <1>2, <1>3 DEF LinkInv

\* The receive buffers are there as long as the card may fill them and no
\* longer (axnet_host_close, axnet_host_free_empty_buffers and
\* axnet_host_alloc_empty_buffers), whatever messages cross on the way.
THEOREM BuffersAreRight == Spec => []BuffersRight
<1>1. LinkInv => BuffersRight
  <2> SUFFICES ASSUME LinkInv PROVE BuffersRight
    OBVIOUS
  <2>1. BuffersOutliveUse
    <3> SUFFICES ASSUME CardUses, ~unacked, ~torn PROVE bufs
      BY DEF BuffersOutliveUse
    <3>1. rx = "DOWN" => hpc = "request"
      BY DEF LinkInv, Told, Quiet, GivenUp, CardUses
    <3> QED BY <3>1 DEF LinkInv, Held, TypeOK, LinkStates
  <2>2. NoBuffersWhenClosed
    BY DEF LinkInv, Places, NoBuffersWhenClosed
  <2> QED BY <2>1, <2>2 DEF BuffersRight
<1> QED BY <1>1, LinkInvInit, LinkInvStep, PTL DEF Spec

\* When all messages are handled, host and card know each other's link
\* (axnet_host_process_ctrl_msg, axnet_host_user_link_up_req).
THEOREM LinkIsKnown == Spec => []LinkKnown
<1>1. LinkInv => LinkKnown
  <2> SUFFICES ASSUME LinkInv, AtRest, ~missed, ~torn
               PROVE  (tx = "UP" <=> crx = "UP") /\ (rx = "UP" <=> ctx = "UP")
    BY DEF LinkKnown
  <2>1. /\ hpc = "idle" /\ ipc = "idle" /\ ~ep2h.lost /\ ~h2ep.lost
        /\ Empty(ep2h) /\ Empty(h2ep)
    BY DEF AtRest, Available, Empty
  <2>2. \A m : ~Has(ep2h, m) /\ ~Has(h2ep, m) /\ ~Coming(m)
    BY <2>1, EmptyHas DEF LinkInv, TypeOK, Coming, InHand
  <2>3. tx = "UP" <=> crx = "UP"
    BY <2>1, <2>2 DEF LinkInv, Heard, Calm, LastDown, InHand, TypeOK, LinkStates
  <2>4. rx = "UP" <=> ctx = "UP"
    BY <2>1, <2>2 DEF LinkInv, Told, Asked
  <2> QED BY <2>3, <2>4
<1> QED BY <1>1, LinkInvInit, LinkInvStep, PTL DEF Spec

\* The interrupt is lost only around a close (axnet_irq_data schedules no poll
\* while NAPI is off): a step that leaves the interface idle, answered and
\* with its rings whole never makes the host deaf.
THEOREM InterruptIsKept == Spec => InterruptLostOnlyAroundClose
<1>1. LinkInv /\ [Next]_vars => [Deaf' => Deaf \/ hpc # "idle" \/ unacked \/ torn]_vars
  <2> SUFFICES ASSUME LinkInv, Next, ~Deaf, hpc = "idle", ~unacked, ~torn PROVE ~Deaf'
    OBVIOUS
  <2> USE DEF userVars, shakeVars, linkVars, irqVars, cardVars, historyVars, Deaf
  <2>1. CASE IrqData
    BY <2>1 DEF IrqData, LinkInv, Flow, TypeOK
  <2>2. CASE Poll
    BY <2>2 DEF Poll
  <2>3. CASE IfUp \/ IfDown \/ ChangeMtu \/ User
    BY <2>3 DEF IfUp, IfDown, ChangeMtu, User, OpenLooks, OpenSets, OpenClears, OpenRequests,
      OpenEnds, CloseNapi, CloseRequests, CloseWaits, CloseAcked, CloseTimesOut, CloseFrees
  <2>4. CASE Irq \/ IrqReads \/ IrqAdvances \/ IrqHandles \/ IrqRefills
    BY <2>4 DEF Irq, IrqReads, IrqAdvances, IrqHandles, IrqRefills
  <2>5. CASE Card
    BY <2>5 DEF Card, CardAnswers, CardUp, CardDown, CardReads, CardData
  <2> QED BY <2>1, <2>2, <2>3, <2>4, <2>5 DEF Next, Handler
<1> QED BY <1>1, LinkInvInit, LinkInvStep, PTL DEF Spec, InterruptLostOnlyAroundClose
=============================================================================
