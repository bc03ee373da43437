------------------------------- MODULE AxNetTx -------------------------------
(***************************************************************************)
(* Sending packets over the virtual network device (ax_pcie_net.c).        *)
(*                                                                         *)
(* The host owns Ring transmit buffers in one block of DMA memory.  Their  *)
(* addresses go round: start_xmit takes one from h2ep_empty, copies the    *)
(* packet there and puts the address into h2ep_full; the card takes it     *)
(* from there, reads the packet and gives the address back.  The network   *)
(* core sends one packet at a time, but h2ep_lock, which makes the check   *)
(* of a ring and the stop of the queue one step for the interrupt handler, *)
(* is dropped between the steps of start_xmit.  A change of the MTU frees  *)
(* the block and resets the counters without waiting for start_xmit; an    *)
(* ifdown waits for it.                                                    *)
(*                                                                         *)
(* The card's network driver is not in the repository: the card of this    *)
(* model takes packets in order and gives buffers back in any, with an     *)
(* interrupt, as the host does in the other direction.  How host and card  *)
(* agree on the link is in AxNetLink; here a close has been answered, so   *)
(* that the card has let go of all buffers.                                *)
(***************************************************************************)
EXTENDS Integers, FiniteSets

CONSTANTS
  Ring,       \* RING_COUNT
  MaxPackets, \* bound: packets sent
  MaxResets   \* bound: ifdowns and changes of the MTU

ASSUME AxNetTxAssumption == Ring \in Nat \ {0} /\ MaxPackets \in Nat /\ MaxResets \in Nat

VARIABLES
  xpc,    \* where start_xmit is
  buf,    \* its local dst_iova: the buffer it fills
  slot,   \* its local wr_idx
  next,   \* the packet it sends, or the next one
  upc,    \* where the close and the open of the interface are
  active, \* the network core may call start_xmit
  os,     \* os_link_state, with the carrier
  queue,  \* "on" or "stopped": the transmit queue
  block,  \* which block of DMA memory was allocated last
  tx,     \* tx_virt_addr is not NULL
  mem,    \* the packet in each buffer
  e, f,   \* the counters of h2ep_empty and h2ep_full
  free,   \* free_pcie_address of each slot
  busy,   \* busy_pcie_address of each slot and, as history, the packet it is for
  card,   \* what the card has taken and not given back
  msi,    \* an interrupt is pending
  torn    \* history: the memory was freed or the counters were reset during a start_xmit

xmitVars == <<xpc, buf, slot, next>>
userVars == <<upc, active, block, tx, torn>>
ringVars == <<e, f, free, busy>>
vars == <<xmitVars, userVars, ringVars, os, queue, mem, card, msi>>

Slots == 0 .. Ring - 1
Bufs == (0 .. MaxResets) \X Slots
Packets == 0 .. MaxPackets

(* The counters are unsigned, so one whose rd has passed wr is not empty.  *)
Available(c) == c.wr # c.rd
Full(c) == c.wr - c.rd >= Ring \/ c.wr < c.rd
Slot(n) == n % Ring

Fresh == [rd |-> 0, wr |-> 0]

\* The interface has come up for the first time.
Init ==
  /\ xpc = "idle" /\ buf = <<0, 0>> /\ slot = 0 /\ next = 1
  /\ upc = "up" /\ active = TRUE /\ os = "UP" /\ queue = "on"
  /\ block = 0 /\ tx = TRUE /\ torn = FALSE
  /\ mem = [b \in Bufs |-> 0]
  /\ e = [rd |-> 0, wr |-> Ring] /\ f = Fresh
  /\ free = [i \in Slots |-> <<0, i>>]
  /\ busy = [i \in Slots |-> [buf |-> <<0, i>>, packet |-> 0]]
  /\ card = {} /\ msi = FALSE

-----------------------------------------------------------------------------
(* axnet_host_start_xmit.                                                  *)

\* NETDEV_TX_BUSY: the network core tries the packet again when the queue is woken.
Stops(c) == c /\ queue' = "stopped" /\ xpc' = "idle"
GoesOn(c, pc) == ~c /\ xpc' = pc /\ UNCHANGED queue

Xmit ==
  /\ xpc = "idle"
  /\ active /\ queue = "on" /\ os = "UP"
  /\ next <= MaxPackets
  /\ Stops(~Available(e)) \/ GoesOn(~Available(e), "check")
  /\ UNCHANGED <<buf, slot, next, userVars, ringVars, os, mem, card, msi>>

XmitChecks ==
  /\ xpc = "check"
  /\ Stops(Full(f)) \/ GoesOn(Full(f), "take")
  /\ UNCHANGED <<buf, slot, next, userVars, ringVars, os, mem, card, msi>>

XmitTakes ==
  /\ xpc = "take"
  /\ xpc' = "advance"
  /\ buf' = free[Slot(e.rd)]
  /\ UNCHANGED <<slot, next, userVars, ringVars, os, queue, mem, card, msi>>

MutXmitAdvances ==
  /\ xpc = "advance"
  /\ xpc' = "copy"
  /\ UNCHANGED <<buf, slot, next, userVars, ringVars, os, queue, mem, card, msi>>

XmitAdvances ==
  /\ xpc = "advance"
  /\ xpc' = "copy"
  /\ e' = [e EXCEPT !.rd = @ + 1]
  /\ UNCHANGED <<buf, slot, next, userVars, f, free, busy, os, queue, mem, card, msi>>

XmitCopies ==
  /\ xpc = "copy"
  /\ xpc' = "index"
  /\ mem' = [mem EXCEPT ![buf] = next]
  /\ UNCHANGED <<buf, slot, next, userVars, ringVars, os, queue, card, msi>>

XmitIndexes ==
  /\ xpc = "index"
  /\ xpc' = "write"
  /\ slot' = Slot(f.wr)
  /\ UNCHANGED <<buf, next, userVars, ringVars, os, queue, mem, card, msi>>

XmitWrites ==
  /\ xpc = "write"
  /\ xpc' = "push"
  /\ busy' = [busy EXCEPT ![slot] = [buf |-> buf, packet |-> next]]
  /\ UNCHANGED <<buf, slot, next, userVars, e, f, free, os, queue, mem, card, msi>>

XmitPushes ==
  /\ xpc = "push"
  /\ xpc' = "idle"
  /\ f' = [f EXCEPT !.wr = @ + 1]
  /\ next' = next + 1
  /\ UNCHANGED <<buf, slot, userVars, e, free, busy, os, queue, mem, card, msi>>

-----------------------------------------------------------------------------
(* The close and the open of an interface that is up.                      *)

\* axnet_host_close, up to the answer of the card: the link goes down.  The
\* network core lets start_xmit end before an ifdown; for a change of the MTU
\* nobody does.
Close ==
  /\ upc = "up" /\ block < MaxResets
  /\ upc' = "closing"
  /\ \/ xpc = "idle" /\ active' = FALSE
     \/ UNCHANGED active
  /\ os' = "DOWN" /\ queue' = "stopped"
  /\ card' = {}
  /\ UNCHANGED <<xmitVars, ringVars, block, tx, torn, mem, msi>>

\* axnet_host_free_tx_buffers
Frees ==
  /\ upc = "closing"
  /\ upc' = "freed"
  /\ tx' = FALSE
  /\ torn' = (torn \/ xpc # "idle")
  /\ UNCHANGED <<xmitVars, ringVars, active, block, os, queue, mem, card, msi>>

\* axnet_host_clear_data_msg_counters
Clears ==
  /\ upc = "freed"
  /\ upc' = "clear"
  /\ e' = Fresh /\ f' = Fresh
  /\ torn' = (torn \/ xpc # "idle")
  /\ UNCHANGED <<xmitVars, free, busy, active, block, tx, os, queue, mem, card, msi>>

\* axnet_host_alloc_tx_buffers.  Nobody is told when there is no memory.
Allocs ==
  /\ upc = "clear"
  /\ upc' = "open"
  /\ \/ UNCHANGED <<block, tx, e, free>>
     \/ /\ block' = block + 1 /\ tx' = TRUE
        /\ IF Full(e) THEN UNCHANGED <<e, free>>
           ELSE /\ e' = [e EXCEPT !.wr = e.rd + Ring]
                /\ free' = [i \in Slots |-> IF i < e.rd + Ring - e.wr THEN <<block + 1, i>> ELSE free[i]]
  /\ UNCHANGED <<xmitVars, active, torn, f, busy, os, queue, mem, card, msi>>

\* The link is up again.
Opens ==
  /\ upc = "open"
  /\ upc' = "up"
  /\ active' = TRUE
  /\ os' = "UP" /\ queue' = "on"
  /\ UNCHANGED <<xmitVars, ringVars, block, tx, torn, mem, card, msi>>

-----------------------------------------------------------------------------
(* axnet_irq_ctrl.                                                         *)

MutWakes == queue = "stopped" /\ os = "UP" /\ Available(e) /\ Full(f)

Wakes == queue = "stopped" /\ os = "UP" /\ Available(e) /\ ~Full(f)

Irq ==
  /\ msi
  /\ msi' = FALSE
  /\ queue' = IF Wakes THEN "on" ELSE queue
  /\ UNCHANGED <<xmitVars, userVars, ringVars, os, mem, card>>

-----------------------------------------------------------------------------
(* The card.                                                               *)

CardTakes ==
  /\ os = "UP"
  /\ f.rd < f.wr
  /\ f' = [f EXCEPT !.rd = @ + 1]
  /\ card' = card \cup {busy[Slot(f.rd)]}
  /\ UNCHANGED <<xmitVars, userVars, e, free, busy, os, queue, mem, msi>>

CardReturns ==
  /\ \E c \in card :
       /\ card' = card \ {c}
       /\ free' = [free EXCEPT ![Slot(e.wr)] = c.buf]
  /\ e' = [e EXCEPT !.wr = @ + 1]
  /\ msi' = TRUE
  /\ UNCHANGED <<xmitVars, userVars, f, busy, os, queue, mem>>

Transmit ==
  \/ XmitChecks \/ XmitTakes \/ XmitAdvances \/ XmitCopies
  \/ XmitIndexes \/ XmitWrites \/ XmitPushes

Reopen == Frees \/ Clears \/ Allocs \/ Opens

Next == Xmit \/ Transmit \/ Close \/ Reopen \/ Irq \/ CardTakes \/ CardReturns

\* A start_xmit and a close that have begun go on, interrupts are handled, and
\* a card reads what it is sent and gives the buffers back.
Spec ==
  /\ Init /\ [][Next]_vars
  /\ WF_vars(Transmit) /\ WF_vars(Reopen) /\ WF_vars(Irq)
  /\ WF_vars(CardTakes) /\ WF_vars(CardReturns)

-----------------------------------------------------------------------------
(* Properties.                                                             *)

Counters == [rd : Nat, wr : Nat]
Descriptors == [buf : Bufs, packet : Packets]

\* The variables have their types.
TypeOK ==
  /\ xpc \in {"idle", "check", "take", "advance", "copy", "index", "write", "push"}
  /\ buf \in Bufs /\ slot \in Slots /\ next \in Nat
  /\ upc \in {"up", "closing", "freed", "clear", "open"}
  /\ active \in BOOLEAN /\ os \in {"UP", "DOWN"} /\ queue \in {"on", "stopped"}
  /\ block \in 0 .. MaxResets /\ tx \in BOOLEAN
  /\ mem \in [Bufs -> Packets]
  /\ e \in Counters /\ f \in Counters
  /\ free \in [Slots -> Bufs] /\ busy \in [Slots -> Descriptors]
  /\ card \subseteq Descriptors /\ msi \in BOOLEAN /\ torn \in BOOLEAN

InFlight == card \cup {busy[Slot(n)] : n \in f.rd .. f.wr - 1}

\* A packet that the card has not finished reading stays as it was written, in
\* memory that is still allocated: no buffer goes round twice, whatever the
\* order in which the card gives them back and whenever the interface is
\* closed and opened; unless that happens during a start_xmit.
PacketsIntact ==
  ~torn => \A p \in InFlight : mem[p.buf] = p.packet /\ (os = "UP" => p.buf[1] = block)

\* A queue that start_xmit has stopped is woken when the card gives a buffer
\* back: the wake is not lost between the check and the stop.  Only a host that
\* found no memory for the transmit buffers, and says so to nobody, never sends
\* again.
QueueWoken ==
  queue = "stopped" /\ os = "UP" ~> queue = "on" \/ os = "DOWN" \/ ~tx \/ torn
=============================================================================
