------------------------------ MODULE AxNetLink ------------------------------
(***************************************************************************)
(* The link of the virtual network device (ax_pcie_net.c): how host and    *)
(* card agree whether packets may flow.                                    *)
(*                                                                         *)
(* Each side tells the other with LINK_UP, LINK_DOWN and LINK_DOWN_ACK     *)
(* when it takes part; the messages lie in two rings in shared memory, of  *)
(* which the receiver counts rd and the sender wr up.  The host's ifup,    *)
(* ifdown and change of the MTU run in a process, its side of the messages *)
(* in the interrupt handler, and both write the same variables, without a  *)
(* common lock.  An ifup starts both rings anew.                           *)
(*                                                                         *)
(* Packets from the card are only a flag here: there are some, and NAPI    *)
(* polls for them with the interrupt switched off.  The network driver of  *)
(* the card is not in the repository; the card of this model does what the *)
(* messages of the host ask for, at any time it likes.                     *)
(***************************************************************************)
EXTENDS Naturals, Sequences

CONSTANTS
  Ring,     \* RING_COUNT
  MaxOpens, \* bound: ifups and changes of the MTU
  MaxFlips  \* bound: how often the card takes its link up

ASSUME AxNetLinkAssumption == Ring \in Nat \ {0} /\ MaxOpens \in Nat /\ MaxFlips \in Nat

Msgs == {"LINK_UP", "LINK_DOWN", "LINK_DOWN_ACK"}

VARIABLES
  hpc,      \* where open or close is: "idle" if neither runs
  opener,   \* who runs open: "user", or "irq" at the end of the handshake
  mtu,      \* the close is followed by an open: the MTU changes
  seen,     \* open's local: the card's link is up
  running,  \* the interface is up for the network core
  checked,  \* link_up_checked: host and card have shaken hands
  flag,     \* where that handshake is
  rx,       \* rx_link_state
  tx,       \* tx_link_state
  os,       \* os_link_state
  bufs,     \* ep2h_empty_list is not empty: the card has buffers to fill
  napi,     \* "off" (disabled), "idle" or "sched" (a poll is due)
  line,     \* the interrupt is enabled
  ipc,      \* where the interrupt handler is
  msg,      \* its local: the control message it handles
  msi,      \* an interrupt is pending
  ep2h,     \* ep2h_ctrl: the messages between rd and wr, or by how much rd is
            \* past wr; and, as history, whether a message found the ring full
  h2ep,     \* h2ep_ctrl
  full,     \* there are packets in ep2h_full
  crx,      \* ep_link_status: the card's link
  ctx,      \* what the card knows of the host's
  opens, flips,
  unacked,  \* history: the last close freed the buffers without an answer
  missed,   \* history: the card's link changed after an ifup had looked at it
            \* and before it reset the rings, or the reset hid a LINK_DOWN or
            \* the loss of a message
  torn      \* history: an ifup reset the rings under the interrupt handler

userVars == <<hpc, opener, mtu, seen, running, opens>>
shakeVars == <<checked, flag>>
linkVars == <<rx, tx, os>>
irqVars == <<ipc, msg>>
cardVars == <<crx, ctx, flips>>
historyVars == <<unacked, missed, torn>>
vars == <<userVars, shakeVars, linkVars, irqVars, cardVars, historyVars,
          bufs, napi, line, msi, ep2h, h2ep, full>>

NewRing == [msgs |-> <<>>, past |-> 0, lost |-> FALSE]

Init ==
  /\ hpc = "idle" /\ opener = "user" /\ mtu = FALSE /\ seen = FALSE
  /\ running = FALSE /\ opens = 0
  /\ checked = FALSE /\ flag = "none"
  /\ rx = "DOWN" /\ tx = "DOWN" /\ os = "DOWN"
  /\ bufs = FALSE /\ napi = "off" /\ line = TRUE
  /\ ipc = "idle" /\ msg = "LINK_UP" /\ msi = FALSE
  /\ ep2h = NewRing /\ h2ep = NewRing /\ full = FALSE
  /\ crx = "DOWN" /\ ctx = "DOWN" /\ flips = 0
  /\ unacked = FALSE /\ missed = FALSE /\ torn = FALSE

-----------------------------------------------------------------------------
(* Rings: axnet_ivc_... in ax_pcie_net.h.  The counters are unsigned, so   *)
(* a ring whose rd has passed wr is full, and available and empty at once. *)

Available(r) == r.msgs # <<>> \/ r.past > 0
Empty(r) == r.msgs = <<>>
Full(r) == Len(r.msgs) = Ring \/ r.past > 0

Advanced(r) ==
  IF Empty(r) THEN [r EXCEPT !.past = @ + 1] ELSE [r EXCEPT !.msgs = Tail(@)]

\* A message that finds the ring full is dropped; no caller looks at the error.
Written(r, m) ==
  IF Full(r) THEN [r EXCEPT !.lost = TRUE] ELSE [r EXCEPT !.msgs = Append(@, m)]

\* axnet_host_update_link_sm
LinkIs(rx1, tx1) ==
  /\ rx' = rx1
  /\ tx' = tx1
  /\ os' = IF rx1 = "UP" /\ tx1 = "UP" THEN "UP" ELSE "DOWN"

-----------------------------------------------------------------------------
(* axnet_host_open.                                                        *)

\* ifup.  Before the handshake open only starts it, and does not enable NAPI.
IfUp ==
  /\ hpc = "idle" /\ ~running
  /\ opens < MaxOpens
  /\ opens' = opens + 1
  /\ running' = TRUE
  /\ IF checked
     THEN hpc' = "look" /\ opener' = "user" /\ UNCHANGED flag
     ELSE flag' = "asked" /\ UNCHANGED <<hpc, opener>>
  /\ UNCHANGED <<mtu, seen, checked, linkVars, irqVars, cardVars, historyVars,
                 bufs, napi, line, msi, ep2h, h2ep, full>>

OpenLooks ==
  /\ hpc = "look"
  /\ hpc' = "set"
  /\ seen' = (crx = "UP")
  /\ UNCHANGED <<opener, mtu, running, opens, shakeVars, linkVars, irqVars, cardVars,
                 historyVars, bufs, napi, line, msi, ep2h, h2ep, full>>

MutOpenSets ==
  /\ hpc = "set"
  /\ hpc' = IF rx = "DOWN" THEN "clear" ELSE "napi"
  /\ UNCHANGED <<opener, mtu, seen, running, opens, shakeVars, linkVars, irqVars, cardVars,
                 historyVars, bufs, napi, line, msi, ep2h, h2ep, full>>

OpenSets ==
  /\ hpc = "set"
  /\ tx' = IF seen THEN "UP" ELSE tx
  /\ hpc' = IF rx = "DOWN" THEN "clear" ELSE "napi"
  /\ UNCHANGED <<opener, mtu, seen, running, opens, shakeVars, rx, os, irqVars, cardVars,
                 historyVars, bufs, napi, line, msi, ep2h, h2ep, full>>

\* axnet_host_user_link_up_req: the counters of all rings become 0, then there
\* are new buffers, then LINK_UP is sent.
OpenClears ==
  /\ hpc = "clear"
  /\ hpc' = "request"
  /\ ep2h' = NewRing
  /\ h2ep' = NewRing
  /\ full' = FALSE
  /\ bufs' = TRUE
  /\ unacked' = FALSE
  /\ missed' = (missed \/ ep2h.lost \/ \E i \in DOMAIN ep2h.msgs : ep2h.msgs[i] = "LINK_DOWN")
  /\ torn' = (torn \/ ipc \in {"advance", "handle"})
  /\ UNCHANGED <<opener, mtu, seen, running, opens, shakeVars, linkVars, irqVars,
                 cardVars, napi, line, msi>>

OpenRequests ==
  /\ hpc = "request"
  /\ hpc' = "napi"
  /\ h2ep' = Written(h2ep, "LINK_UP")
  /\ LinkIs("UP", tx)
  /\ UNCHANGED <<opener, mtu, seen, running, opens, shakeVars, irqVars, cardVars,
                 historyVars, bufs, napi, line, msi, ep2h, full>>

\* napi_enable.  An open that runs in the interrupt handler goes on there.
OpenEnds ==
  /\ hpc = "napi"
  /\ hpc' = "idle"
  /\ napi' = "idle"
  /\ ipc' = IF opener = "irq" THEN "ctrl" ELSE ipc
  /\ UNCHANGED <<opener, mtu, seen, running, opens, shakeVars, linkVars, msg, cardVars,
                 historyVars, bufs, line, msi, ep2h, h2ep, full>>

-----------------------------------------------------------------------------
(* axnet_host_close.                                                       *)

IfDown ==
  /\ hpc = "idle" /\ running
  /\ hpc' = "close"
  /\ running' = FALSE
  /\ mtu' = FALSE
  /\ UNCHANGED <<opener, seen, opens, shakeVars, linkVars, irqVars, cardVars,
                 historyVars, bufs, napi, line, msi, ep2h, h2ep, full>>

\* axnet_host_change_mtu closes and opens an interface that is up.
ChangeMtu ==
  /\ hpc = "idle" /\ running
  /\ opens < MaxOpens
  /\ opens' = opens + 1
  /\ hpc' = "close"
  /\ mtu' = TRUE
  /\ UNCHANGED <<opener, seen, running, shakeVars, linkVars, irqVars, cardVars,
                 historyVars, bufs, napi, line, msi, ep2h, h2ep, full>>

\* napi_disable waits for the poll; it waits for ever if NAPI is off.
CloseNapi ==
  /\ hpc = "close"
  /\ \/ napi = "idle" /\ napi' = "off" /\ hpc' = "down"
     \/ napi = "off" /\ hpc' = "hung" /\ UNCHANGED napi
  /\ UNCHANGED <<opener, mtu, seen, running, opens, shakeVars, linkVars, irqVars,
                 cardVars, historyVars, bufs, line, msi, ep2h, h2ep, full>>

CloseRequests ==
  /\ hpc = "down"
  /\ hpc' = "check"
  /\ IF rx = "UP"
     THEN rx' = "SENT_DOWN" /\ h2ep' = Written(h2ep, "LINK_DOWN")
     ELSE UNCHANGED <<rx, h2ep>>
  /\ UNCHANGED <<opener, mtu, seen, running, opens, shakeVars, tx, os, irqVars,
                 cardVars, historyVars, bufs, napi, line, msi, ep2h, full>>

\* A card that is not up is not waited for.
MutWaits == FALSE

Waits == tx = "UP"

CloseWaits ==
  /\ hpc = "check"
  /\ IF Waits
     THEN hpc' = "wait" /\ UNCHANGED <<rx, unacked>>
     ELSE hpc' = "free" /\ rx' = "DOWN" /\ unacked' = (tx # "UP")
  /\ UNCHANGED <<opener, mtu, seen, running, opens, shakeVars, tx, os, irqVars,
                 cardVars, missed, torn, bufs, napi, line, msi, ep2h, h2ep, full>>

CloseAcked ==
  /\ hpc = "wait"
  /\ rx = "DOWN"
  /\ hpc' = "free"
  /\ unacked' = FALSE
  /\ UNCHANGED <<opener, mtu, seen, running, opens, shakeVars, linkVars, irqVars,
                 cardVars, missed, torn, bufs, napi, line, msi, ep2h, h2ep, full>>

MutCloseTimesOut == FALSE

CloseTimesOut ==
  /\ hpc = "wait"
  /\ rx # "DOWN"
  /\ hpc' = "free"
  /\ unacked' = TRUE
  /\ UNCHANGED <<opener, mtu, seen, running, opens, shakeVars, linkVars, irqVars,
                 cardVars, missed, torn, bufs, napi, line, msi, ep2h, h2ep, full>>

\* synchronize_irq, then the buffers are freed.
CloseFrees ==
  /\ hpc = "free"
  /\ ipc = "idle"
  /\ hpc' = IF mtu THEN "look" ELSE "idle"
  /\ opener' = "user"
  /\ bufs' = FALSE
  /\ UNCHANGED <<mtu, seen, running, opens, shakeVars, linkVars, irqVars, cardVars,
                 historyVars, napi, line, msi, ep2h, h2ep, full>>

-----------------------------------------------------------------------------
(* axnet_irq_handler, and the poll.                                        *)

\* The handshake ends in the handler, which opens the interface itself.  It
\* blocks if a close holds the lock that open needs.
MutIrqOpens ==
  /\ flag = "answered"
  /\ flag' = "none"
  /\ checked' = TRUE
  /\ ipc' = "ctrl"
  /\ UNCHANGED <<hpc, opener>>

IrqOpens ==
  /\ flag = "answered"
  /\ flag' = "none"
  /\ checked' = TRUE
  /\ ipc' = "open"
  /\ IF hpc = "idle" THEN hpc' = "look" /\ opener' = "irq" ELSE UNCHANGED <<hpc, opener>>

Irq ==
  /\ msi /\ line /\ ipc = "idle"
  /\ msi' = FALSE
  /\ \/ ~checked /\ IrqOpens
     \/ ~checked /\ flag # "answered" /\ UNCHANGED <<shakeVars, ipc, hpc, opener>>
     \/ checked /\ ipc' = "ctrl" /\ UNCHANGED <<shakeVars, hpc, opener>>
  /\ UNCHANGED <<mtu, seen, running, opens, linkVars, msg, cardVars, historyVars,
                 bufs, napi, line, ep2h, h2ep, full>>

\* axnet_host_process_ctrl_msg copies a message, if the ring is not empty after
\* all, and handles what it has copied last.
IrqReads ==
  /\ ipc = "ctrl"
  /\ \/ ~Available(ep2h) /\ ipc' = "refill" /\ UNCHANGED msg
     \/ Available(ep2h) /\ ~Empty(ep2h) /\ ipc' = "advance" /\ msg' = Head(ep2h.msgs)
     \/ Available(ep2h) /\ Empty(ep2h) /\ ipc' = "handle" /\ UNCHANGED msg
  /\ UNCHANGED <<userVars, shakeVars, linkVars, cardVars, historyVars, bufs, napi, line,
                 msi, ep2h, h2ep, full>>

IrqAdvances ==
  /\ ipc = "advance"
  /\ ipc' = "handle"
  /\ ep2h' = Advanced(ep2h)
  /\ UNCHANGED <<userVars, shakeVars, linkVars, msg, cardVars, historyVars, bufs, napi,
                 line, msi, h2ep, full>>

IrqHandles ==
  /\ ipc = "handle"
  /\ ipc' = "ctrl"
  /\ \/ msg = "LINK_UP" /\ LinkIs(rx, "UP") /\ UNCHANGED h2ep
     \/ msg = "LINK_DOWN" /\ LinkIs(rx, "DOWN") /\ h2ep' = Written(h2ep, "LINK_DOWN_ACK")
     \/ msg = "LINK_DOWN_ACK" /\ LinkIs("DOWN", tx) /\ UNCHANGED h2ep
  /\ UNCHANGED <<userVars, shakeVars, msg, cardVars, historyVars, bufs, napi, line, msi,
                 ep2h, full>>

\* New empty buffers for a link that is up.
IrqRefills ==
  /\ ipc = "refill"
  /\ ipc' = "data"
  /\ bufs' = (bufs \/ os = "UP")
  /\ UNCHANGED <<userVars, shakeVars, linkVars, msg, cardVars, historyVars, napi, line,
                 msi, ep2h, h2ep, full>>

\* axnet_irq_data: napi_schedule does nothing while NAPI is off.
IrqData ==
  /\ ipc = "data"
  /\ ipc' = "idle"
  /\ IF full
     THEN line' = FALSE /\ napi' = (IF napi = "idle" THEN "sched" ELSE napi)
     ELSE UNCHANGED <<line, napi>>
  /\ UNCHANGED <<userVars, shakeVars, linkVars, msg, cardVars, historyVars, bufs,
                 msi, ep2h, h2ep, full>>

\* axnet_host_process_ep2h_msg: every packet between rd and wr is taken, whether
\* its buffer is found in the list or not.  (A poll that stops at its budget
\* leaves everything as it is, and NAPI polls again.)
TakesPackets == full' = FALSE

MutPoll ==
  /\ napi = "sched"
  /\ TakesPackets
  /\ napi' = "idle"
  /\ UNCHANGED <<userVars, shakeVars, linkVars, irqVars, cardVars, historyVars, bufs,
                 line, msi, ep2h, h2ep>>

Poll ==
  /\ napi = "sched"
  /\ TakesPackets
  /\ napi' = "idle"
  /\ line' = TRUE
  /\ UNCHANGED <<userVars, shakeVars, linkVars, irqVars, cardVars, historyVars, bufs,
                 msi, ep2h, h2ep>>

-----------------------------------------------------------------------------
(* The card.                                                               *)

Sends(m) == ep2h' = Written(ep2h, m) /\ msi' = TRUE

CardAnswers ==
  /\ flag = "asked"
  /\ flag' = "answered"
  /\ msi' = TRUE
  /\ UNCHANGED <<userVars, checked, linkVars, irqVars, cardVars, historyVars, bufs, napi,
                 line, ep2h, h2ep, full>>

\* The host misses a change between its look and its reset of the rings.
Flips == missed' = (missed \/ hpc \in {"set", "clear"})

CardUp ==
  /\ checked \/ flag = "answered"
  /\ crx = "DOWN"
  /\ flips < MaxFlips
  /\ flips' = flips + 1
  /\ crx' = "UP"
  /\ Sends("LINK_UP")
  /\ Flips
  /\ UNCHANGED <<ctx, userVars, shakeVars, linkVars, irqVars, unacked, torn, bufs, napi,
                 line, h2ep, full>>

CardDown ==
  /\ crx = "UP"
  /\ crx' = "SENT_DOWN"
  /\ Sends("LINK_DOWN")
  /\ Flips
  /\ UNCHANGED <<ctx, flips, userVars, shakeVars, linkVars, irqVars, unacked, torn, bufs,
                 napi, line, h2ep, full>>

CardReads ==
  /\ ~Empty(h2ep)
  /\ h2ep' = Advanced(h2ep)
  /\ LET m == Head(h2ep.msgs) IN
     \/ m = "LINK_UP" /\ ctx' = "UP" /\ UNCHANGED <<crx, ep2h, msi>>
     \/ m = "LINK_DOWN" /\ ctx' = "DOWN" /\ Sends("LINK_DOWN_ACK") /\ UNCHANGED crx
     \/ m = "LINK_DOWN_ACK" /\ crx' = "DOWN" /\ UNCHANGED <<ctx, ep2h, msi>>
  /\ UNCHANGED <<flips, userVars, shakeVars, linkVars, irqVars, historyVars, bufs, napi,
                 line, full>>

\* The card fills the host's buffers while its link is up in both directions.
CardUses == crx = "UP" /\ ctx = "UP"

CardData ==
  /\ CardUses
  /\ ~full
  /\ full' = TRUE
  /\ msi' = TRUE
  /\ UNCHANGED <<userVars, shakeVars, linkVars, irqVars, cardVars, historyVars, bufs,
                 napi, line, ep2h, h2ep>>

User ==
  \/ OpenLooks \/ OpenSets \/ OpenClears \/ OpenRequests \/ OpenEnds
  \/ CloseNapi \/ CloseRequests \/ CloseWaits \/ CloseAcked \/ CloseTimesOut
  \/ CloseFrees

Handler == Irq \/ IrqReads \/ IrqAdvances \/ IrqHandles \/ IrqRefills \/ IrqData

Card == CardAnswers \/ CardUp \/ CardDown \/ CardReads \/ CardData

Next == IfUp \/ IfDown \/ ChangeMtu \/ User \/ Handler \/ Poll \/ Card

\* Processes, interrupts and polls are scheduled, and the wait has a timeout.
\* napi_disable and synchronize_irq keep off or ignore polls and interrupts
\* that come later, so a card that sends all the time cannot starve them.
\* Nobody has to take the interface up or down, and the card has to do nothing.
Spec ==
  /\ Init /\ [][Next]_vars
  /\ WF_vars(User) /\ WF_vars(Handler) /\ WF_vars(Poll)
  /\ SF_vars(CloseNapi) /\ SF_vars(CloseFrees)

-----------------------------------------------------------------------------
(* Properties.                                                             *)

LinkStates == {"DOWN", "UP", "SENT_DOWN"}
RingType == [msgs : Seq(Msgs), past : Nat, lost : BOOLEAN]
Closing == {"close", "down", "check", "wait", "free"}

\* The variables have their types.
TypeOK ==
  /\ hpc \in {"idle", "look", "set", "clear", "request", "napi", "hung"} \cup Closing
  /\ opener \in {"user", "irq"}
  /\ mtu \in BOOLEAN /\ seen \in BOOLEAN /\ running \in BOOLEAN /\ opens \in Nat
  /\ checked \in BOOLEAN /\ flag \in {"none", "asked", "answered"}
  /\ rx \in LinkStates /\ tx \in {"DOWN", "UP"} /\ os \in {"DOWN", "UP"}
  /\ bufs \in BOOLEAN /\ napi \in {"off", "idle", "sched"} /\ line \in BOOLEAN
  /\ ipc \in {"idle", "open", "ctrl", "advance", "handle", "refill", "data"}
  /\ msg \in Msgs /\ msi \in BOOLEAN
  /\ ep2h \in RingType /\ h2ep \in RingType /\ full \in BOOLEAN
  /\ crx \in LinkStates /\ ctx \in {"DOWN", "UP"} /\ flips \in Nat
  /\ unacked \in BOOLEAN /\ missed \in BOOLEAN /\ torn \in BOOLEAN

\* The buffers the card may write to are not freed under it: a close frees
\* them only after the card has answered, unless the wait timed out or the
\* host did not know that the card was up.
BuffersOutliveUse == CardUses => bufs \/ unacked \/ torn

\* A closed interface holds no receive buffers (they would never be freed if
\* the driver were unloaded), although the handler refills them without a look
\* at whether the interface is up; unless the close got no answer.
NoBuffersWhenClosed ==
  ~running /\ hpc = "idle" /\ ipc = "idle" => ~bufs \/ unacked \/ torn

\* Receive buffers are there as long as the card may use them and no longer.
BuffersRight == BuffersOutliveUse /\ NoBuffersWhenClosed

\* The interrupt is off and no poll is due that would switch it on: the link is
\* dead for good.
Deaf == ~line /\ napi # "sched"

\* The handler switches the interrupt off and the poll switches it on: it is
\* lost only to packets that come while NAPI is off, in a close before the card
\* has stopped sending, in an open after LINK_UP is sent, or after a close that
\* got no answer or took the answer of an earlier close.
InterruptLostOnlyAroundClose == [][Deaf' => Deaf \/ hpc # "idle" \/ unacked \/ torn]_vars

\* After the handshake NAPI is on exactly while the interface is up, whoever
\* opened it: no close waits for ever in napi_disable, and no open calls
\* napi_enable twice, which is a BUG.
NapiPaired == checked /\ hpc = "idle" => (running <=> napi # "off")

\* Host and card agree.
AtRest ==
  /\ hpc = "idle" /\ ipc = "idle" /\ ~msi
  /\ \A r \in {ep2h, h2ep} : ~Available(r) /\ ~r.lost

\* When all messages are handled the host knows whether the card is up, and
\* the card whether the host is, although both may change at any time and the
\* handler and ifup write the same variables, and also if an ifup wipes out the
\* LINK_UP of a card that came up earlier; unless the card's link changed
\* during the ifup or a message found its ring full.
LinkKnown ==
  AtRest /\ ~missed /\ ~torn => /\ tx = "UP" <=> crx = "UP"
                                /\ rx = "UP" <=> ctx = "UP"

\* A close that has NAPI to disable (which it has not before the handshake)
\* ends whatever the card does: the handler it waits for never loops, unless an
\* ifup reset the rings under it.
CloseCanEnd == hpc \in Closing \ {"close"} \/ (hpc = "close" /\ napi # "off")
CloseEnds == CloseCanEnd ~> hpc \notin Closing \cup {"hung"} \/ torn

=============================================================================
