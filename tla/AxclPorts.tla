----------------------------- MODULE AxclPorts -----------------------------
(***************************************************************************)
(* The port table of the axcl_host character device (axcl_pcie_host.c).    *)
(*                                                                         *)
(* Every process that opens the device gets a process_info_t, in it one    *)
(* device_handle_t per card it uses, and in that the message ports it      *)
(* holds on the card: up to AXCL_MAX_PORT ports handed out when the handle *)
(* is created and any number of lists of "usr" ports requested later.      *)
(* port_info[dev] marks the ports that are taken.  A create is negotiated  *)
(* with the card over the notify port: the host sends CREATE and polls the *)
(* port's mem_list for an answer until AXCL_RECV_TIMEOUT.                  *)
(*                                                                         *)
(* All host operations run under ioctl_mutex, so each is one action; only  *)
(* the create is two, because the card, its answers and its crashes        *)
(* interleave with the wait.  The code that serves the messages on the     *)
(* card is not in the repository: DeviceServe is the peer as the host code *)
(* uses it (FIFO, one answer per CREATE, none for DESTROY).                *)
(***************************************************************************)
EXTENDS Integers, FiniteSets, Sequences

CONSTANTS
  Procs,      \* openers of the device file, one process_info_t each
  Devices,    \* cards (target ids)
  BasePort,   \* AXCL_BASE_PORT
  PortLimit,  \* MAX_MSG_PORTS: ports are BasePort .. PortLimit - 1
  MaxPort,    \* AXCL_MAX_PORT
  RingCap,    \* bound: messages that fit into the ring towards a card
  MaxReplies, \* bound: answers a card may owe the host on the notify port
  Lists,      \* bound: port lists, besides its own, that a DESTROY may name
  NoCreate

Ports == BasePort .. PortLimit - 1

ASSUME PortsAssumption ==
  /\ BasePort \in Nat
  /\ PortLimit \in Nat
  /\ MaxPort \in Nat \ {0}
  /\ RingCap \in Nat
  /\ MaxReplies \in Nat
  /\ Lists \subseteq SUBSET Ports
  /\ NoCreate \notin [proc : Procs, dev : Devices, ports : SUBSET Ports]

VARIABLES
  procs,     \* process_list: the processes that have the file open
  handles,   \* <<p, d>> for every device_handle_t of p's dev_list
  devPorts,  \* devPorts[p][d]: ports of that handle ({} when there is none)
  usrPorts,  \* usrPorts[p][d]: its usr_port_list, a set of port sets
  portInfo,  \* portInfo[d]: the ports marked in port_info[d]
  pending,   \* the create that waits for its answer, or NoCreate
  toDev,     \* toDev[d]: messages on their way to the card, in order
  mailbox,   \* mailbox[d]: answers in the notify port's mem_list, in order
  up,        \* up[d]: the card runs
  devOpen,   \* devOpen[d]: ports the card has open
  known      \* history: handles (or a create) the card knows as they are:
             \* created while it owed no answer, younger than its last stop, and
             \* without a port named by a DESTROY it received, be it that of
             \* somebody else or their own one reported as failed

hostVars == <<procs, handles, devPorts, usrPorts, portInfo, pending>>
cardVars == <<toDev, mailbox, up, devOpen, known>>
portsVars == <<hostVars, cardVars>>

Request == [proc : Procs, dev : Devices, ports : SUBSET Ports]
Message == [cmd : {"CREATE", "DESTROY"}, ports : SUBSET Ports]
Answer == {"COMPLETION", "FAIL"}

PortsInit ==
  /\ procs = {}
  /\ handles = {}
  /\ devPorts = [p \in Procs |-> [d \in Devices |-> {}]]
  /\ usrPorts = [p \in Procs |-> [d \in Devices |-> {}]]
  /\ portInfo = [d \in Devices |-> {}]
  /\ pending = NoCreate
  /\ toDev = [d \in Devices |-> <<>>]
  /\ mailbox = [d \in Devices |-> <<>>]
  /\ up = [d \in Devices |-> TRUE]
  /\ devOpen = [d \in Devices |-> {}]
  /\ known = {}

-----------------------------------------------------------------------------
(* Helpers.                                                                *)

MutexFree == pending = NoCreate

\* The ports a create or a request may take.  (Mut... is a broken variant of
\* the definition that follows it, here and below: PROJECT.json says which
\* property notices.)
MutFreeAny(d) == Ports

Free(d) == Ports \ portInfo[d]

\* The n lowest members of S, all of S if it has fewer.
FirstFit(S, n) == {q \in S : Cardinality({r \in S : r < q}) < n}

\* What the handle of p on d holds.
Own(p, d) == devPorts[p][d] \cup UNION usrPorts[p][d]

\* What the waiting create holds on d, and what all holders together hold.
Requested(d) == IF pending # NoCreate /\ pending.dev = d THEN pending.ports ELSE {}

Owned(d) == Requested(d) \cup UNION {Own(p, d) : p \in Procs}

\* The places of the CREATEs in a queue q of messages.
Creates(q) == {i \in DOMAIN q : q[i].cmd = "CREATE"}

\* Answers the card owes the host or has already put into its mailbox.
Replies(d) == Cardinality(Creates(toDev[d])) + Len(mailbox[d])

\* axcl_pcie_msg_send on the notify port: it appends to the ring towards the
\* card, and fails when the ring stays full or the bus reads back all ones.
\* It may also report a failure of a message that is in the ring: the mailbox
\* interrupt is refused (-3) when no retry is left.
SendOk(d, m) ==
  /\ Len(toDev[d]) < RingCap
  /\ toDev' = [toDev EXCEPT ![d] = Append(@, m)]

SendFails(d, m) ==
  \/ UNCHANGED toDev
  \/ SendOk(d, m)

\* The ports axcl_clean_port_info unmarks for the handle of p on d.
MutClearedAll(p, d) == Ports
MutClearedNoUsr(p, d) == devPorts[p][d]
Cleared(p, d) == Own(p, d)

\* The port lists f once the handles in H are freed.
Without(f, H) ==
  [p \in Procs |-> [d \in Devices |-> IF <<p, d>> \in H THEN {} ELSE f[p][d]]]

\* axcl_clean_port_info, list_del and kfree for the handles in H.
DropHandles(H) ==
  /\ handles' = handles \ H
  /\ devPorts' = Without(devPorts, H)
  /\ usrPorts' = Without(usrPorts, H)
  /\ portInfo' = [d \in Devices |->
                    {q \in portInfo[d] :
                       \A p \in Procs : <<p, d>> \in H => q \notin Cleared(p, d)}]

-----------------------------------------------------------------------------
(* Host operations.                                                        *)

Open(p) ==
  /\ MutexFree
  /\ p \notin procs
  /\ procs' = procs \cup {p}
  /\ UNCHANGED <<handles, devPorts, usrPorts, portInfo, pending, cardVars>>

\* A create for a device the process already has a handle for only copies the
\* handle's ports; it changes nothing.  Otherwise up to MaxPort free ports are
\* marked, possibly none, and CREATE is sent; the caller keeps ioctl_mutex.
CreateSend(p, d) ==
  LET ports == FirstFit(Free(d), MaxPort) IN
  /\ MutexFree
  /\ p \in procs
  /\ <<p, d>> \notin handles
  /\ Replies(d) < MaxReplies
  /\ SendOk(d, [cmd |-> "CREATE", ports |-> ports])
  /\ portInfo' = [portInfo EXCEPT ![d] = @ \cup ports]
  /\ pending' = [proc |-> p, dev |-> d, ports |-> ports]
  /\ known' = IF up[d] /\ Replies(d) = 0 THEN known \cup {<<p, d>>}
              ELSE known \ {<<p, d>>}
  /\ UNCHANGED <<procs, handles, devPorts, usrPorts, mailbox, up, devOpen>>

\* The send fails: the handle is freed, the marks in port_info stay.
CreateSendFails(p, d) ==
  LET ports == FirstFit(Free(d), MaxPort) IN
  /\ MutexFree
  /\ p \in procs
  /\ <<p, d>> \notin handles
  /\ Replies(d) < MaxReplies
  /\ SendFails(d, [cmd |-> "CREATE", ports |-> ports])
  /\ portInfo' = [portInfo EXCEPT ![d] = @ \cup ports]
  /\ UNCHANGED <<procs, handles, devPorts, usrPorts, pending, mailbox, up, devOpen, known>>

\* axcl_pcie_recv takes the oldest answer, whoever it was meant for; every
\* answer but FAIL confirms the create.
MutTakeAll(d) == mailbox' = [mailbox EXCEPT ![d] = <<>>]
TakeAnswer(d) == mailbox' = [mailbox EXCEPT ![d] = Tail(@)]

MutConfirms(answer) == TRUE
Confirms(answer) == answer # "FAIL"

CreateAnswered ==
  LET p == pending.proc
      d == pending.dev
  IN
  /\ pending # NoCreate
  /\ mailbox[d] # <<>>
  /\ TakeAnswer(d)
  /\ pending' = NoCreate
  /\ \/ /\ Head(mailbox[d]) = "FAIL"
        /\ portInfo' = [portInfo EXCEPT ![d] = @ \ pending.ports]
        /\ known' = known \ {<<p, d>>}
        /\ UNCHANGED <<handles, devPorts>>
     \/ /\ Confirms(Head(mailbox[d]))
        /\ handles' = handles \cup {<<p, d>>}
        /\ devPorts' = [devPorts EXCEPT ![p][d] = pending.ports]
        /\ UNCHANGED <<portInfo, known>>
  /\ UNCHANGED <<procs, usrPorts, toDev, up, devOpen>>

\* No answer within AXCL_RECV_TIMEOUT: the handle is freed, the marks stay.
CreateTimeout ==
  /\ pending # NoCreate
  /\ mailbox[pending.dev] = <<>>
  /\ pending' = NoCreate
  /\ known' = known \ {<<pending.proc, pending.dev>>}
  /\ UNCHANGED <<procs, handles, devPorts, usrPorts, portInfo, toDev, mailbox, up, devOpen>>

\* find_dev_handle
DevHandle(p, d) == <<p, d>> \in handles

\* The handles on d that hold one of the ports.
Named(d, ports) == {h \in handles : h[2] = d /\ devPorts[h[1]][d] \cap ports # {}}

\* DESTROY carries the list asked of the caller, whatever its handle holds; on
\* the host it is the handle's ports that are given back.
Destroy(p, d, asked) ==
  /\ MutexFree
  /\ DevHandle(p, d)
  /\ SendOk(d, [cmd |-> "DESTROY", ports |-> asked])
  /\ DropHandles({<<p, d>>})
  /\ known' = (known \ Named(d, asked)) \ {<<p, d>>}
  /\ UNCHANGED <<procs, pending, mailbox, up, devOpen>>

\* A failed send leaves the handle and its ports in place.
DestroySendFails(p, d, asked) ==
  /\ MutexFree
  /\ DevHandle(p, d)
  /\ SendFails(d, [cmd |-> "DESTROY", ports |-> asked])
  /\ known' = IF toDev' = toDev THEN known ELSE known \ Named(d, asked)
  /\ UNCHANGED <<hostVars, mailbox, up, devOpen>>

\* The check looks at the distance from the lowest free port to the end of
\* the table, so a fragmented table may grant fewer ports than asked for.
RequestUsrPort(p, d, n) ==
  /\ MutexFree
  /\ DevHandle(p, d)
  /\ n \in 1 .. MaxPort
  /\ \E i \in FirstFit(Free(d), 1) : PortLimit - i >= n
  /\ LET ports == FirstFit(Free(d), n) IN
     /\ portInfo' = [portInfo EXCEPT ![d] = @ \cup ports]
     /\ usrPorts' = [usrPorts EXCEPT ![p][d] = @ \cup {ports}]
  /\ UNCHANGED <<procs, handles, devPorts, pending, cardVars>>

\* The caller names a list; only a list of its own handle is taken back.
RecycleUsrPort(p, d, ports) ==
  /\ MutexFree
  /\ DevHandle(p, d)
  /\ ports \in usrPorts[p][d]
  /\ portInfo' = [portInfo EXCEPT ![d] = @ \ ports]
  /\ usrPorts' = [usrPorts EXCEPT ![p][d] = @ \ {ports}]
  /\ UNCHANGED <<procs, handles, devPorts, pending, cardVars>>

\* close(): DESTROY is sent for every handle, a failed send is only logged.
Release(p) ==
  LET mine == {d \in Devices : <<p, d>> \in handles} IN
  /\ MutexFree
  /\ p \in procs
  /\ \E sent \in SUBSET {d \in mine : Len(toDev[d]) < RingCap} :
       toDev' = [d \in Devices |->
                   IF d \in sent
                   THEN Append(toDev[d], [cmd |-> "DESTROY", ports |-> devPorts[p][d]])
                   ELSE toDev[d]]
  /\ DropHandles({p} \X mine)
  /\ procs' = procs \ {p}
  /\ known' = known \ ({p} \X Devices)
  /\ UNCHANGED <<pending, mailbox, up, devOpen>>

\* The heartbeat thread gives the card up: every process loses its handle on
\* it and the card is told nothing.
HeartbeatLost(d) ==
  /\ MutexFree
  /\ DropHandles(Procs \X {d})
  /\ known' = known \ (Procs \X {d})
  /\ UNCHANGED <<procs, pending, toDev, mailbox, up, devOpen>>

\* The card stops: everything that was negotiated with it is void.
StopCard(d) ==
  /\ devOpen' = [devOpen EXCEPT ![d] = {}]
  /\ known' = known \ (Procs \X {d})

\* IOC_AXCL_DEVICE_RESET, and an IOC_AXCL_DEVICE_BOOT that ends before it
\* empties the rings, by a failed firmware load or because no thread of the
\* card answers: only the caller's handle is dropped.
ResetDevice(p, d) ==
  /\ MutexFree
  /\ p \in procs
  /\ StopCard(d)
  /\ up' = [up EXCEPT ![d] = FALSE]
  /\ DropHandles({<<p, d>>})
  /\ UNCHANGED <<procs, pending, toDev, mailbox>>

\* IOC_AXCL_DEVICE_BOOT from ax_shared_mem_init on, which empties the rings
\* but not the mem_list; the handshake that follows may still time out.
BootDevice(p, d) ==
  /\ MutexFree
  /\ p \in procs
  /\ StopCard(d)
  /\ \E answers \in BOOLEAN : up' = [up EXCEPT ![d] = answers]
  /\ toDev' = [toDev EXCEPT ![d] = <<>>]
  /\ DropHandles({<<p, d>>})
  /\ UNCHANGED <<procs, pending, mailbox>>

-----------------------------------------------------------------------------
(* The card.                                                               *)

DeviceServe(d) ==
  /\ up[d]
  /\ toDev[d] # <<>>
  /\ toDev' = [toDev EXCEPT ![d] = Tail(@)]
  /\ LET m == Head(toDev[d]) IN
     \/ /\ m.cmd = "CREATE"
        /\ devOpen' = [devOpen EXCEPT ![d] = @ \cup m.ports]
        /\ mailbox' = [mailbox EXCEPT ![d] = Append(@, "COMPLETION")]
     \/ /\ m.cmd = "CREATE"
        /\ mailbox' = [mailbox EXCEPT ![d] = Append(@, "FAIL")]
        /\ UNCHANGED devOpen
     \/ /\ m.cmd = "DESTROY"
        /\ devOpen' = [devOpen EXCEPT ![d] = @ \ m.ports]
        /\ UNCHANGED mailbox
  /\ UNCHANGED <<hostVars, up, known>>

DeviceCrash(d) ==
  /\ up[d]
  /\ StopCard(d)
  /\ up' = [up EXCEPT ![d] = FALSE]
  /\ UNCHANGED <<hostVars, toDev, mailbox>>

\* IOC_AXCL_PORT_MANAGE: axcl_pcie_port_manage.
PortManage(p, d) ==
  \/ CreateSend(p, d) \/ CreateSendFails(p, d)
  \/ \E asked \in Lists \cup {devPorts[p][d]} :
       Destroy(p, d, asked) \/ DestroySendFails(p, d, asked)
  \/ \E n \in 1 .. MaxPort : RequestUsrPort(p, d, n)
  \/ \E ports \in usrPorts[p][d] : RecycleUsrPort(p, d, ports)

\* The calls of axcl_pcie_ioctl that change the table; the others only read.
PortsIoctl(p, d) == PortManage(p, d) \/ ResetDevice(p, d) \/ BootDevice(p, d)

PortsNext ==
  \/ \E p \in Procs : Open(p) \/ Release(p)
  \/ \E p \in Procs, d \in Devices : PortsIoctl(p, d)
  \/ CreateAnswered \/ CreateTimeout
  \/ \E d \in Devices : HeartbeatLost(d) \/ DeviceServe(d) \/ DeviceCrash(d)

PortsSpec == PortsInit /\ [][PortsNext]_portsVars

-----------------------------------------------------------------------------
(* Properties.                                                             *)

\* The variables have their types.
TypeOK ==
  /\ procs \subseteq Procs
  /\ handles \subseteq Procs \X Devices
  /\ devPorts \in [Procs -> [Devices -> SUBSET Ports]]
  /\ usrPorts \in [Procs -> [Devices -> SUBSET SUBSET Ports]]
  /\ portInfo \in [Devices -> SUBSET Ports]
  /\ pending \in Request \cup {NoCreate}
  /\ toDev \in [Devices -> Seq(Message)]
  /\ mailbox \in [Devices -> Seq(Answer)]
  /\ up \in [Devices -> BOOLEAN]
  /\ devOpen \in [Devices -> SUBSET Ports]
  /\ known \subseteq Procs \X Devices

\* Every port that a handle, a usr list or a waiting create holds is marked in
\* port_info: the allocation loops of create and request would otherwise hand
\* it out a second time.
OwnedMarked == \A d \in Devices : Owned(d) \subseteq portInfo[d]

\* No port of a card has two holders: not two processes, not a handle and one
\* of its usr lists, not two usr lists, not a handle and a waiting create.
PortsDisjoint ==
  \A d \in Devices :
    /\ \A p, q \in Procs : p # q => Own(p, d) \cap Own(q, d) = {}
    /\ \A p \in Procs :
         /\ \A s \in usrPorts[p][d] : devPorts[p][d] \cap s = {}
         /\ \A s, t \in usrPorts[p][d] : s # t => s \cap t = {}
         /\ Requested(d) \cap Own(p, d) = {}

\* Only processes that have the file open have handles, and only handles hold
\* ports: nothing a process held outlives its close() or the loss of the card.
PortsNeedHandle ==
  /\ handles \subseteq procs \X Devices
  /\ \A p \in Procs, d \in Devices : <<p, d>> \notin handles => Own(p, d) = {}

\* A step unmarks only ports whose holder gives them up in that step: no
\* destroy, recycle, close, reset or heartbeat cleanup frees a port that
\* somebody else still holds.
OnlyHolderFrees ==
  [][\A d \in Devices :
       \A q \in portInfo[d] \ portInfo'[d] : q \in Owned(d) /\ q \notin Owned(d)']_hostVars

\* Marked ports nobody holds.
Leaked(d) == portInfo[d] \ Owned(d)

\* Marks without a holder appear only when a create fails by its send or by
\* the timeout (the two returns of axcl_pcie_port_create that do not clear
\* port_info), and such a mark is never removed again, not even by a reset.
LeakOnlyByFailedCreate ==
  [][\A d \in Devices :
       Leaked(d)' # Leaked(d) =>
         /\ Leaked(d) \subseteq Leaked(d)'
         /\ handles' = handles
         /\ \/ pending # NoCreate /\ pending.dev = d /\ mailbox'[d] = <<>>
            \/ pending = NoCreate /\ pending' = NoCreate]_hostVars

\* The ports of a handle are open on the card, although no answer says which
\* request it answers: if the card owed nothing when the handle was created,
\* the answer that confirmed it was its own, and no DESTROY of an earlier
\* holder of the ports arrives after the CREATE.  Until the card stops, or a
\* DESTROY that the card received names one of the ports: that of the handle
\* itself reported as failed, or that of another process, whose list nobody
\* compares with what it holds.
HandleBacked ==
  \A p \in Procs, d \in Devices :
    <<p, d>> \in handles \cap known => devPorts[p][d] \subseteq devOpen[d]

\* How many answers of d will be taken by a create they were not sent for:
\* all but the one that a create waits for.
Waits(d) == IF pending # NoCreate /\ pending.dev = d THEN 1 ELSE 0
Skew(d) == Replies(d) - Waits(d)

\* Answers carry no request id, so a create that was given up leaves one
\* answer too many, and each later create takes the answer of the one before
\* it.  Only a BOOT that comes as far as emptying the rings, whatever becomes
\* of its handshake, removes such a surplus, and not the part of it that is in
\* the mailbox already.
SkewNeverHeals ==
  [][\A d \in Devices :
       Skew(d)' < Skew(d) =>
         /\ \E p \in Procs : BootDevice(p, d)
         /\ Skew(d)' = Len(mailbox[d])]_<<pending, toDev, mailbox>>
=============================================================================
