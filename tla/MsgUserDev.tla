----------------------------- MODULE MsgUserDev -----------------------------
(***************************************************************************)
(* The user message device (ax_pcie_msg_usrdev.c) on top of the transfer   *)
(* handles of ax_pcie_msg_transfer.c, for the ports of one card.           *)
(*                                                                         *)
(* A file that is CONNECTed owns a message handle with a queue; the        *)
(* message handle points to the transfer handle of its port, the transfer  *)
(* handle points back by data, and the interrupt handler reaches it by the *)
(* port.  Files take ioctl_sem to connect, a queue has a lock, and nothing *)
(* else is locked.  The ring below is the channel of MsgChannel: a queue.  *)
(*                                                                         *)
(* Handles are numbered as they are allocated and numbers do not come      *)
(* back, so that the use of a freed one is seen: "bad" says who used it,   *)
(* and the behaviour ends there.                                           *)
(***************************************************************************)
EXTENDS Naturals, Sequences

CONSTANTS
  Files, Ports,
  MaxMsgs,     \* bound: messages the card sends
  MaxConnects, \* bound: CONNECTs, over all files
  None

ASSUME UserDevAssumption ==
  None \notin Files /\ MaxMsgs \in Nat /\ MaxConnects \in Nat

Ids == 0 .. MaxConnects        \* handles; 0 is NULL

VARIABLES
  ring,     \* messages the card sent and the handler is not through with
  sent,     \* how many those were so far; they are numbered
  table,    \* ax_handle_table: transfer handle of each port
  hnd,      \* struct ax_transfer_handle
  msg,      \* struct ax_pcie_msg_handle
  open,     \* open files
  priv,     \* private_data of each file
  con,      \* the CONNECT that holds ioctl_sem
  rel,      \* how far the release of each file is
  poller,   \* what the poll of each file waits for
  irq,      \* where the interrupt handler is
  taken,    \* history: messages read, in order, with the handle
  shared,   \* history: two files had the same transfer handle
  bad       \* who used a handle that is NULL or freed

vars == <<ring, sent, table, hnd, msg, open, priv, con, rel, poller, irq,
          taken, shared, bad>>
handles == <<table, hnd, msg>>
users == <<open, priv, con, rel, poller>>
hist == <<taken, bad>>

Gone == [live |-> FALSE, notifier |-> FALSE, data |-> 0]
GoneMsg == [live |-> FALSE, list |-> <<>>, pci |-> 0, port |-> None, stop |-> FALSE]
NoCon == [pc |-> "none", file |-> None, m |-> 0, h |-> 0]
NoPoll == [pc |-> "none", m |-> 0]
NoIrq == [pc |-> "idle", h |-> 0, m |-> 0]

Init ==
  /\ ring = <<>> /\ sent = 0
  /\ table = [p \in Ports |-> 0]
  /\ hnd = [i \in Ids |-> Gone] /\ msg = [i \in Ids |-> GoneMsg]
  /\ open = {} /\ priv = [f \in Files |-> 0]
  /\ con = NoCon /\ rel = [f \in Files |-> "none"]
  /\ poller = [f \in Files |-> NoPoll] /\ irq = NoIrq
  /\ taken = <<>> /\ shared = FALSE /\ bad = "none"

\* Numbers are handed out in order; one number serves one CONNECT.
Fresh == {i \in Ids \ {0} : msg[i] = GoneMsg /\ hnd[i] = Gone
                            /\ \A j \in 1..i - 1 : msg[j] # GoneMsg}
Blame(who, ok) == bad' = IF ok THEN bad ELSE who
Works(f) == f \in open /\ rel[f] = "none"

-----------------------------------------------------------------------------
(* The card, and the interrupt handler ax_pcie_recv_irq_mem *)

CardSends(p) ==
  /\ sent < MaxMsgs
  /\ sent' = sent + 1
  /\ ring' = Append(ring, [id |-> sent + 1, port |-> p])
  /\ UNCHANGED <<handles, users, irq, hist>>

IrqAt(pc) == irq.pc = pc /\ UNCHANGED <<sent, table, hnd, open, priv, con, rel, taken>>

\* find_device_handle of the message at the head; without one it is skipped.
IrqFinds ==
  /\ IrqAt("idle") /\ ring # <<>>
  /\ LET h == table[Head(ring).port]
     IN IF h = 0 THEN ring' = Tail(ring) /\ UNCHANGED irq
                 ELSE irq' = [NoIrq EXCEPT !.pc = "check", !.h = h] /\ UNCHANGED ring
  /\ UNCHANGED <<msg, poller, bad>>

\* A handle nobody listens to: the message is skipped too.
IrqChecks ==
  /\ IrqAt("check")
  /\ Blame("irq", hnd[irq.h].live)
  /\ IF hnd[irq.h].notifier THEN irq' = [irq EXCEPT !.pc = "notify"] /\ UNCHANGED ring
                            ELSE irq' = NoIrq /\ ring' = Tail(ring)
  /\ UNCHANGED <<msg, poller>>

\* ax_pcie_msg_notifier_recv, up to the copy.  Without memory it fails, the
\* handler returns and the message stays the next one.
IrqNotifies ==
  /\ IrqAt("notify")
  /\ Blame("irq", hnd[irq.h].live)
  /\ \/ irq' = [irq EXCEPT !.pc = "append", !.m = hnd[irq.h].data]
     \/ irq' = NoIrq
  /\ UNCHANGED <<ring, msg, poller>>

\* list_add_tail under msg_lock.
MutQueued(list, m) == <<m>> \o list
Queued(list, m) == Append(list, m)
IrqAppends ==
  /\ IrqAt("append")
  /\ Blame("irq", msg[irq.m].live)
  /\ msg' = [msg EXCEPT ![irq.m].list = Queued(@, Head(ring).id)]
  /\ irq' = [irq EXCEPT !.pc = "wake"]
  /\ UNCHANGED <<ring, poller>>

Woken(m) == [f \in Files |-> IF poller[f] = [pc |-> "sleep", m |-> m]
                             THEN [pc |-> "again", m |-> m] ELSE poller[f]]

\* wake_up_interruptible, and the read pointer moves on.
IrqAdvances ==
  /\ IrqAt("wake")
  /\ Blame("irq", msg[irq.m].live)
  /\ poller' = Woken(irq.m)
  /\ ring' = Tail(ring)
  /\ irq' = NoIrq
  /\ UNCHANGED msg

Irq == IrqFinds \/ IrqChecks \/ IrqNotifies \/ IrqAppends \/ IrqAdvances

-----------------------------------------------------------------------------
(* ioctl: CONNECT and STOP.  The other commands change nothing here. *)

SemFree == con = NoCon

Open(f) ==
  /\ f \notin open
  /\ open' = open \cup {f} /\ priv' = [priv EXCEPT ![f] = 0]
  /\ UNCHANGED <<ring, sent, handles, con, rel, poller, irq, hist>>

\* No memory, or a card that is gone: what the file had is forgotten.
ConnectFails(f) ==
  /\ Works(f) /\ SemFree
  /\ priv' = [priv EXCEPT ![f] = 0]
  /\ UNCHANGED <<ring, sent, handles, open, con, rel, poller, irq, hist>>

\* ax_pcie_msg_open and ax_pcie_open: a port that has a transfer handle
\* already is given the same one.
Connect(f, p) ==
  /\ Works(f) /\ SemFree
  /\ \E i \in Fresh :
       LET h == IF table[p] # 0 THEN table[p] ELSE i IN
       /\ con' = [pc |-> "attach", file |-> f, m |-> i, h |-> h]
       /\ msg' = [msg EXCEPT ![i] = [GoneMsg EXCEPT !.live = TRUE, !.pci = h, !.port = p]]
       /\ hnd' = IF h = i THEN [hnd EXCEPT ![h] = [Gone EXCEPT !.live = TRUE]] ELSE hnd
       /\ table' = [table EXCEPT ![p] = h]
  /\ UNCHANGED <<ring, sent, open, priv, rel, poller, irq, hist>>

ConnectAttaches ==
  /\ con.pc = "attach"
  /\ priv' = [priv EXCEPT ![con.file] = con.m]
  /\ con' = [con EXCEPT !.pc = "listen"]
  /\ UNCHANGED <<ring, sent, handles, open, rel, poller, irq, hist>>

\* usrdev_setopt_recv_pci: first the notifier, then the data it uses.
ConnectListens ==
  /\ con.pc = "listen"
  /\ Blame("file", hnd[con.h].live)
  /\ hnd' = [hnd EXCEPT ![con.h].notifier = TRUE]
  /\ con' = [con EXCEPT !.pc = "data"]
  /\ UNCHANGED <<ring, sent, table, msg, open, priv, rel, poller, irq, taken>>

MutConnectData == hnd
ConnectData == [hnd EXCEPT ![con.h].data = con.m]
ConnectEnds ==
  /\ con.pc = "data"
  /\ Blame("file", hnd[con.h].live)
  /\ hnd' = ConnectData
  /\ con' = NoCon
  /\ UNCHANGED <<ring, sent, table, msg, open, priv, rel, poller, irq, taken>>

\* PCIE_STOP, which takes the file to be connected.
Stop(f) ==
  /\ Works(f) /\ SemFree
  /\ Blame("stop", priv[f] # 0)
  /\ msg' = [msg EXCEPT ![priv[f]].stop = TRUE]
  /\ poller' = Woken(priv[f])
  /\ UNCHANGED <<ring, sent, table, hnd, open, priv, con, rel, irq, taken>>

-----------------------------------------------------------------------------
(* read, write and poll *)

\* The oldest message leaves the queue; it is lost when the buffer is too
\* small or the copy to the user fails.
Read(f) ==
  /\ Works(f) /\ priv[f] # 0 /\ msg[priv[f]].list # <<>>
  /\ msg' = [msg EXCEPT ![priv[f]].list = Tail(@)]
  /\ \/ taken' = Append(taken, [m |-> priv[f], id |-> Head(msg[priv[f]].list)])
     \/ UNCHANGED taken
  /\ UNCHANGED <<ring, sent, table, hnd, users, irq, bad>>

\* ax_pcie_msg_send takes the target from the transfer handle.
Write(f) ==
  /\ Works(f) /\ priv[f] # 0
  /\ Blame("file", hnd[msg[priv[f]].pci].live)
  /\ UNCHANGED <<ring, sent, handles, users, irq, taken>>

MutReady(m) == m.list # <<>>
Ready(m) == m.stop \/ m.list # <<>>

\* poll_wait comes before the look at the queue.
Poll(f) ==
  /\ Works(f) /\ priv[f] # 0 /\ poller[f] = NoPoll
  /\ poller' = [poller EXCEPT ![f] = [pc |-> "look", m |-> priv[f]]]
  /\ UNCHANGED <<ring, sent, handles, open, priv, con, rel, irq, hist>>

\* A poll that was woken is called again, and then takes the handle the file
\* has now, but is still registered with the one it began with.
PollLooks(f) ==
  /\ poller[f].pc \in {"look", "again"}
  /\ LET m == IF poller[f].pc = "look" THEN poller[f].m ELSE priv[f]
     IN poller' = [poller EXCEPT ![f] = IF m = 0 \/ Ready(msg[m]) THEN NoPoll
                                        ELSE [@ EXCEPT !.pc = "sleep"]]
  /\ UNCHANGED <<ring, sent, handles, open, priv, con, rel, irq, hist>>

\* The caller's timeout, or a signal.
PollGivesUp(f) ==
  /\ poller[f].pc = "sleep"
  /\ poller' = [poller EXCEPT ![f] = NoPoll]
  /\ UNCHANGED <<ring, sent, handles, open, priv, con, rel, irq, hist>>

-----------------------------------------------------------------------------
(* release: the kernel calls it when no other call of the file runs *)

Release(f) ==
  /\ Works(f) /\ poller[f] = NoPoll /\ con.file # f
  /\ IF priv[f] = 0
     THEN open' = open \ {f} /\ UNCHANGED <<hnd, rel, bad>>
     ELSE LET h == msg[priv[f]].pci IN          \* usrdev_setopt_null
          /\ Blame("file", hnd[h].live)
          /\ hnd' = [hnd EXCEPT ![h].notifier = FALSE, ![h].data = 0]
          /\ rel' = [rel EXCEPT ![f] = "empty"]
          /\ UNCHANGED open
  /\ UNCHANGED <<ring, sent, table, msg, priv, con, poller, irq, taken>>

ReleaseEmpties(f) ==
  /\ rel[f] = "empty"
  /\ msg' = [msg EXCEPT ![priv[f]].list = <<>>]
  /\ rel' = [rel EXCEPT ![f] = "close"]
  /\ UNCHANGED <<ring, sent, table, hnd, open, priv, con, poller, irq, hist>>

\* ax_pcie_msg_close, and both handles are freed.
MutUnlisted(p) == table
Unlisted(p) == [table EXCEPT ![p] = 0]
ReleaseCloses(f) ==
  /\ rel[f] = "close"
  /\ LET m == priv[f] IN
     /\ Blame("file", hnd[msg[m].pci].live)
     /\ table' = Unlisted(msg[m].port)
     /\ hnd' = [hnd EXCEPT ![msg[m].pci].live = FALSE]
     /\ msg' = [msg EXCEPT ![m].live = FALSE]
  /\ priv' = [priv EXCEPT ![f] = 0]
  /\ rel' = [rel EXCEPT ![f] = "none"]
  /\ open' = open \ {f}
  /\ UNCHANGED <<ring, sent, con, poller, irq, taken>>

-----------------------------------------------------------------------------
\* Two files have the transfer handle of one port.
Holds(f) == {msg[m].pci : m \in ({priv[f]} \cup (IF con.file = f THEN {con.m} ELSE {})) \ {0}}
Shares == \E f, g \in Files : f # g /\ Holds(f) \cap Holds(g) # {}

Step ==
  \/ \E p \in Ports : CardSends(p)
  \/ Irq
  \/ \E f \in Files :
       \/ Open(f) \/ ConnectFails(f) \/ \E p \in Ports : Connect(f, p)
       \/ Stop(f) \/ Read(f) \/ Write(f) \/ Poll(f) \/ PollLooks(f) \/ PollGivesUp(f)
       \/ Release(f) \/ ReleaseEmpties(f) \/ ReleaseCloses(f)
  \/ ConnectAttaches \/ ConnectListens \/ ConnectEnds

Next == bad = "none" /\ Step /\ shared' = (shared \/ Shares')
Spec == Init /\ [][Next]_vars

-----------------------------------------------------------------------------
(* Properties *)

Message == [id : Nat, port : Ports]
PciHandle == [live : BOOLEAN, notifier : BOOLEAN, data : Ids]
MsgHandle == [live : BOOLEAN, list : Seq(Nat), pci : Ids, port : Ports \cup {None},
              stop : BOOLEAN]
ConnectCall == [pc : {"none", "attach", "listen", "data"}, file : Files \cup {None},
                m : Ids, h : Ids]
PollCall == [pc : {"none", "look", "again", "sleep"}, m : Ids]
IrqCall == [pc : {"idle", "check", "notify", "append", "wake"}, h : Ids, m : Ids]
Taken == [m : Ids, id : Nat]

TypeOK ==
  /\ ring \in Seq(Message) /\ sent \in Nat
  /\ table \in [Ports -> Ids] /\ hnd \in [Ids -> PciHandle] /\ msg \in [Ids -> MsgHandle]
  /\ open \subseteq Files /\ priv \in [Files -> Ids]
  /\ con \in ConnectCall /\ rel \in [Files -> {"none", "empty", "close"}]
  /\ poller \in [Files -> PollCall] /\ irq \in IrqCall
  /\ taken \in Seq(Taken)
  /\ shared \in BOOLEAN /\ bad \in {"none", "irq", "file", "stop"}

\* No message is read twice, and each connection reads in the order in which
\* the card sent, although the handler starts a message over when it had no
\* memory and releases and connects of the port come in between.
OnceInOrder ==
  \A i, j \in DOMAIN taken : i < j =>
    /\ taken[i].id # taken[j].id
    /\ taken[i].m = taken[j].m => taken[i].id < taken[j].id

\* A connected file hears its port, unless two files ever had the same port:
\* ax_pcie_open gives both the same transfer handle, and the first release
\* silences and frees it.
HeardUnlessShared ==
  ~shared => \A f \in Files : Works(f) /\ priv[f] # 0 /\ con.file # f =>
    LET m == msg[priv[f]] IN
    /\ table[m.port] = m.pci
    /\ hnd[m.pci] = [live |-> TRUE, notifier |-> TRUE, data |-> priv[f]]

\* Sharing is also the only way a call of a file uses a handle that is freed.
FilesUseFreedOnlyIfShared == bad = "file" => shared

\* A poll does not sleep while the queue of its file has a message or was
\* stopped, but for the moment before the handler wakes it, with one exception:
\* a poll that began before a CONNECT replaced the queue is registered with the
\* old one.  It may sleep over every message of the new one, and over a STOP,
\* until its caller's timeout.
Reconnected(f) == poller[f].m # priv[f]
OversleepsOnlyReconnected ==
  \A f \in Files : poller[f].pc = "sleep" /\ priv[f] # 0 =>
    \/ msg[priv[f]].list = <<>> /\ ~msg[priv[f]].stop
    \/ Reconnected(f)
    \/ irq.pc = "wake" /\ irq.m = priv[f]
=============================================================================
