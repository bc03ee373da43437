------------------------------ MODULE MsgRing ------------------------------
(***************************************************************************)
(* One direction of the message transfer (ax_pcie_msg_transfer.c): a ring  *)
(* of bytes in memory both sides of the PCIe link map, with the write and  *)
(* read pointers in front of it.  The pointers count bytes and never wrap; *)
(* only their remainder modulo the size of the ring is an offset.          *)
(*                                                                         *)
(* Senders exclude each other by the data lock of their side.  The         *)
(* receiver, the interrupt handler of the other side, takes no lock the    *)
(* senders take: reads and writes of the two sides interleave here between *)
(* any two accesses to the pointers, a header or a body.                   *)
(*                                                                         *)
(* Bytes are not data but labels: mem[c] = <<n, i>> says that the cell     *)
(* holds byte i of the n-th message, header first, so that a property can  *)
(* say whether a message is still whole.  When the interrupt comes is the  *)
(* subject of MsgDoorbell; here a drain may begin at any time.             *)
(***************************************************************************)
EXTENDS Integers, Sequences

CONSTANTS
  Senders,   \* threads of the sending side
  Ports,
  Sizes,     \* payload sizes in use
  FifoSize,  \* end_addr - base_addr of the ring
  HeadSize,  \* HEAD_SIZE
  MemAlign,  \* MEM_ALIAGN
  MaxMsgs,   \* bound: messages sent
  Nil

Message == [port : Ports, size : Sizes]

\* Both halves of the shared memory are cut at multiples of MEM_ALIAGN.
ASSUME MsgRingAssumption ==
  /\ Sizes \subseteq Nat
  /\ MemAlign \in Nat \ {0}
  /\ HeadSize \in 1 .. MemAlign
  /\ FifoSize \in Nat \ {0}
  /\ FifoSize % MemAlign = 0
  /\ MaxMsgs \in Nat
  /\ Nil \notin Senders \cup Message

VARIABLES
  wp, rp,      \* the pointers in shared memory
  mem,         \* the bytes of the ring
  lock,        \* holder of the sending side's data lock, or Nil
  spc, cur,    \* where each sender is, and its message
  sIn, sOut,   \* in and out of the sending side's kfifo
  rpc,         \* where the receiver is
  rIn, rOut,   \* in and out of the receiving side's kfifo
  rMsg,        \* the message whose header it read
  rLen,        \* the payload length it goes on with
  handlers,    \* ports with an open transfer handle
  sent,        \* history: the messages published
  begin,       \* history: begin[n]: the pointer at which message n starts
  taken,       \* history: how many the receiver is through with
  delivered    \* history: delivered[p]: what port p was given

ringVars == <<wp, rp, mem>>
sendVars == <<lock, spc, cur, sIn, sOut, sent, begin>>
recvVars == <<rpc, rIn, rOut, rMsg, rLen, taken, delivered>>
vars == <<ringVars, sendVars, recvVars, handlers>>

Cells == 0 .. FifoSize - 1

Init ==
  /\ wp = 0
  /\ rp = 0
  /\ mem = [c \in Cells |-> <<0, 0>>]
  /\ lock = Nil
  /\ spc = [s \in Senders |-> "idle"]
  /\ cur = [s \in Senders |-> Nil]
  /\ sIn = 0
  /\ sOut = 0
  /\ rpc = "idle"
  /\ rIn = 0
  /\ rOut = 0
  /\ rMsg = 0
  /\ rLen = 0
  /\ handlers = {}
  /\ sent = <<>>
  /\ begin = <<>>
  /\ taken = 0
  /\ delivered = [p \in Ports |-> <<>>]

-----------------------------------------------------------------------------
(* Pointer arithmetic.                                                     *)

\* How far a message moves a pointer: its header and payload, and from
\* MemAlign + 1 to 2 * MemAlign bytes more, up to the next multiple.
Step(size) == size + HeadSize + 2 * MemAlign - ((size + HeadSize) % MemAlign)

\* The header would not fit before the end of the ring: the message starts at
\* offset 0, and the pointer skips what is left.
Skips(p) == FifoSize - (p % FifoSize) < HeadSize

Advanced(p, size) ==
  p + Step(size) + (IF Skips(p) THEN FifoSize - (p % FifoSize) ELSE 0)

\* Which byte of the message at pointer p the cell c would hold.
ByteAt(p, c) == IF Skips(p) THEN c ELSE (c - p) % FifoSize

\* The cells hold bytes lo .. hi of message n at p.
Holds(p, n, lo, hi) ==
  \A c \in Cells : ByteAt(p, c) \in lo .. hi => mem[c] = <<n, ByteAt(p, c)>>

Write(p, n, lo, hi) ==
  mem' = [c \in Cells |-> IF ByteAt(p, c) \in lo .. hi
                          THEN <<n, ByteAt(p, c)>> ELSE mem[c]]

\* ax_pcie_kfifo_is_full, and the free space check of ax_pcie_kfifo_in.
Fits(size) ==
  /\ sIn - sOut < FifoSize
  /\ Step(size) <= FifoSize - (sIn - sOut)

-----------------------------------------------------------------------------
(* The sending side: ax_send_data_irq.                                     *)

SendStep(s, from, to) ==
  /\ spc[s] = from
  /\ spc' = [spc EXCEPT ![s] = to]

\* ax_pcie_data_lock, and the kfifo's pointers are loaded.
LoadPointers(s, m) ==
  /\ SendStep(s, "idle", "loaded")
  /\ Len(sent) < MaxMsgs
  /\ lock' = s
  /\ cur' = [cur EXCEPT ![s] = m]
  /\ sIn' = wp
  /\ sOut' = rp
  /\ UNCHANGED <<ringVars, recvVars, sent, begin, handlers>>

MutLoad(s, m) == LoadPointers(s, m)
Load(s, m) == lock = Nil /\ LoadPointers(s, m)

\* No room: the lock is released; the caller tries again or gives up.
NoRoom(s) ==
  /\ SendStep(s, "loaded", "idle")
  /\ ~Fits(cur[s].size)
  /\ lock' = Nil
  /\ cur' = [cur EXCEPT ![s] = Nil]
  /\ UNCHANGED <<ringVars, recvVars, sIn, sOut, sent, begin, handlers>>

WriteBody(s) ==
  /\ SendStep(s, "loaded", "body")
  /\ Fits(cur[s].size)
  /\ Write(sIn, Len(sent) + 1, HeadSize, HeadSize + cur[s].size - 1)
  /\ UNCHANGED <<wp, rp, recvVars, lock, cur, sIn, sOut, sent, begin, handlers>>

WriteHead(s) ==
  /\ SendStep(s, "body", "head")
  /\ Write(sIn, Len(sent) + 1, 0, HeadSize - 1)
  /\ UNCHANGED <<wp, rp, recvVars, lock, cur, sIn, sOut, sent, begin, handlers>>

\* The message becomes visible when wp is stored, after the flush.
StorePointer(s) ==
  /\ sIn' = Advanced(sIn, cur[s].size)
  /\ wp' = sIn'
  /\ sent' = Append(sent, cur[s])
  /\ begin' = Append(begin, sIn)
  /\ lock' = Nil
  /\ cur' = [cur EXCEPT ![s] = Nil]
  /\ UNCHANGED <<rp, mem, recvVars, sOut, handlers>>

Publish(s) == SendStep(s, "head", "idle") /\ StorePointer(s)

-----------------------------------------------------------------------------
(* The receiving side: ax_pcie_recv_irq_mem.  read_data_head gives up after *)
(* 10 tries if it finds no header, and the caller then goes on with a      *)
(* length it never read; HeadFound says that this cannot happen here.      *)

RecvStep(from, to) == rpc = from /\ rpc' = to

Interrupt ==
  /\ RecvStep("idle", "check")
  /\ UNCHANGED <<ringVars, sendVars, rIn, rOut, rMsg, rLen, taken, delivered, handlers>>

\* ax_pcie_kfifo_is_empty; all ones on the bus count as empty.
Check ==
  /\ rOut' = rp
  /\ rIn' = wp
  /\ \/ RecvStep("check", "head") /\ rp # wp
     \/ RecvStep("check", "idle")  /\ rp = wp
  /\ UNCHANGED <<ringVars, sendVars, rMsg, rLen, taken, delivered, handlers>>

\* Header and handle are found: the notifier is next.
ReadHead(n) ==
  /\ RecvStep("head", "notify")
  /\ Holds(rOut, n, 0, HeadSize - 1)
  /\ sent[n].port \in handlers
  /\ rMsg' = n
  /\ rLen' = sent[n].size
  /\ UNCHANGED <<ringVars, sendVars, rIn, rOut, taken, delivered, handlers>>

\* No handle for the port: the message is stepped over.
Discard(n) ==
  /\ RecvStep("head", "advance")
  /\ Holds(rOut, n, 0, HeadSize - 1)
  /\ sent[n].port \notin handlers
  /\ rMsg' = n
  /\ rLen' = sent[n].size
  /\ taken' = taken + 1
  /\ UNCHANGED <<ringVars, sendVars, rIn, rOut, delivered, handlers>>

\* The notifier queues a copy of the payload for the port.
Notify ==
  /\ RecvStep("notify", "advance")
  /\ delivered' = [delivered EXCEPT ![sent[rMsg].port] =
                     Append(@, IF Holds(rOut, rMsg, HeadSize, HeadSize + rLen - 1)
                               THEN rMsg ELSE 0)]
  /\ taken' = taken + 1
  /\ UNCHANGED <<ringVars, sendVars, rIn, rOut, rMsg, rLen, handlers>>

\* The notifier fails (no memory): the drain ends, the message stays first.
MutNotifyFails ==
  /\ RecvStep("notify", "advance")
  /\ UNCHANGED <<ringVars, sendVars, rIn, rOut, rMsg, rLen, taken, delivered, handlers>>

NotifyFails ==
  /\ RecvStep("notify", "idle")
  /\ UNCHANGED <<ringVars, sendVars, rIn, rOut, rMsg, rLen, taken, delivered, handlers>>

Advance ==
  /\ RecvStep("advance", "check")
  /\ rOut' = Advanced(rOut, rLen)
  /\ rp' = rOut'
  /\ UNCHANGED <<wp, mem, sendVars, rIn, rMsg, rLen, taken, delivered, handlers>>

\* ax_pcie_open and ax_pcie_msg_close of a port on the receiving side.
OpenOrClose(p) ==
  /\ \/ p \notin handlers /\ handlers' = handlers \cup {p}
     \/ p \in handlers /\ handlers' = handlers \ {p}
  /\ UNCHANGED <<ringVars, sendVars, recvVars>>

Next ==
  \/ \E s \in Senders :
       \/ \E m \in Message : Load(s, m)
       \/ NoRoom(s) \/ WriteBody(s) \/ WriteHead(s) \/ Publish(s)
  \/ Interrupt \/ Check \/ Notify \/ NotifyFails \/ Advance
  \/ \E n \in 1 .. Len(sent) : ReadHead(n) \/ Discard(n)
  \/ \E p \in Ports : OpenOrClose(p)

Spec == Init /\ [][Next]_vars

-----------------------------------------------------------------------------
(* Properties.                                                             *)

\* The variables have their types.
TypeOK ==
  /\ wp \in Nat /\ rp \in Nat
  /\ sIn \in Nat /\ sOut \in Nat
  /\ rIn \in Nat /\ rOut \in Nat /\ rLen \in Nat
  /\ mem \in [Cells -> Nat \X Nat]
  /\ lock \in Senders \cup {Nil}
  /\ spc \in [Senders -> {"idle", "loaded", "body", "head"}]
  /\ cur \in [Senders -> Message \cup {Nil}]
  /\ rpc \in {"idle", "check", "head", "notify", "advance"}
  /\ rMsg \in 0 .. Len(sent)
  /\ handlers \subseteq Ports
  /\ sent \in Seq(Message)
  /\ begin \in Seq(Nat)
  /\ taken \in 0 .. Len(sent)
  /\ delivered \in [Ports -> Seq(Nat)]

\* A stale copy of the read pointer only makes the sender see less room than
\* there is: at any time the unread bytes fit into the ring, the sender's copy
\* is at most the pointer, and its copy of the write pointer is never old.
PointersSane ==
  /\ rp <= wp
  /\ wp - rp <= FifoSize
  /\ sIn = wp
  /\ lock # Nil => sOut <= rp

\* Every pointer is a multiple of MEM_ALIAGN.  So a header never runs over the
\* end of the ring, and the branches of ax_pcie_kfifo_in, read_data_head and
\* _update_read_pointer that skip the end (whose space the free space check
\* does not count) are never taken.
HeadNeverSplit ==
  \A p \in {wp, rp, sIn, rOut} : p % MemAlign = 0 /\ ~Skips(p)

\* Between rp and wp every message is whole, whatever the sender is writing at
\* the moment: it never writes to bytes the receiver has yet to read.
UnreadWhole ==
  \A n \in 1 .. Len(sent) :
    begin[n] >= rp => Holds(begin[n], n, 0, HeadSize + sent[n].size - 1)

\* When the receiver looks for a header, the header of the next message is
\* there: the write pointer never gets ahead of the bytes.
HeadFound == rpc = "head" => Holds(rOut, taken + 1, 0, HeadSize - 1)

\* The messages the receiver is not through with, in the channel's form.
Waiting == [i \in 1 .. Len(sent) - taken |->
              [id |-> taken + i, port |-> sent[taken + i].port]]

\* The ring implements the channel: once each, whole and in order.
Channel == INSTANCE MsgChannel WITH count <- Len(sent), queue <- Waiting
ImplementsChannel == Channel!Spec
=============================================================================
