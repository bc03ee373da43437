---------------------------- MODULE AxclProofs -----------------------------
(***************************************************************************)
(* Proofs about the module axcl_host: its ports (AxclPorts), and its       *)
(* driver around the cards (AxclDriver).                                   *)
(***************************************************************************)
EXTENDS AxclPorts, AxclDriver, AxDevMapProofs, FiniteSetTheorems, TLAPS

-----------------------------------------------------------------------------
(***************************************************************************)
(* AxclPorts, for every number of processes, cards and ports.              *)
(*                                                                         *)
(* OwnedMarked and PortsDisjoint are not inductive on their own: when the  *)
(* answer to a create arrives, its ports replace what the process holds on *)
(* that card, so the proof needs that a waiting create belongs to an open  *)
(* process without a handle (PendingFresh) and that no handle means no     *)
(* port (PortsNeedHandle).                                                 *)
(*                                                                         *)
(* HandleBacked needs more: between the send of a create and its answer    *)
(* the proof follows the message through the queue and the mailbox.  When  *)
(* nothing was owed to the host at the send, the answer that is taken is   *)
(* the create's own (OwnAnswer), and no DESTROY in the queue closes a port *)
(* of a handle the card knows (Backed).                                    *)
(***************************************************************************)

\* The waiting create was started by an open process without a handle, and
\* nobody else can give it one while it holds ioctl_mutex.
PendingFresh ==
  pending # NoCreate =>
    /\ pending.proc \in procs
    /\ <<pending.proc, pending.dev>> \notin handles

PortInv ==
  /\ TypeOK
  /\ OwnedMarked
  /\ PortsDisjoint
  /\ PortsNeedHandle
  /\ PendingFresh

-----------------------------------------------------------------------------
(* Lemmas.                                                                 *)

\* FirstFit only picks from the set it is given.
LEMMA FirstFitSubset == \A S, n : FirstFit(S, n) \subseteq S
BY DEF FirstFit

\* A waiting create is a request.
LEMMA PendingType ==
  ASSUME TypeOK, pending # NoCreate
  PROVE  /\ pending \in Request
         /\ pending.proc \in Procs
         /\ pending.dev \in Devices
         /\ pending.ports \subseteq Ports
<1>1. pending \in Request
  BY DEF TypeOK
<1>2. QED
  BY <1>1 DEF Request

\* What a process holds after DropHandles.
LEMMA DropOwn ==
  ASSUME NEW H \in SUBSET (Procs \X Devices), DropHandles(H),
         NEW p \in Procs, NEW d \in Devices
  PROVE  /\ devPorts'[p][d] = IF <<p, d>> \in H THEN {} ELSE devPorts[p][d]
         /\ usrPorts'[p][d] = IF <<p, d>> \in H THEN {} ELSE usrPorts[p][d]
         /\ Own(p, d)' = IF <<p, d>> \in H THEN {} ELSE Own(p, d)
<1>1. /\ devPorts'[p][d] = IF <<p, d>> \in H THEN {} ELSE devPorts[p][d]
      /\ usrPorts'[p][d] = IF <<p, d>> \in H THEN {} ELSE usrPorts[p][d]
  BY DEF DropHandles, Without, Cleared
<1>2. QED
  BY <1>1 DEF Own

\* The type invariant is preserved by dropping handles.
LEMMA DropType ==
  ASSUME NEW H \in SUBSET (Procs \X Devices), DropHandles(H), TypeOK
  PROVE  /\ handles' \subseteq handles
         /\ devPorts' \in [Procs -> [Devices -> SUBSET Ports]]
         /\ usrPorts' \in [Procs -> [Devices -> SUBSET SUBSET Ports]]
         /\ portInfo' \in [Devices -> SUBSET Ports]
<1>1. handles' \subseteq handles
  BY DEF DropHandles, Without, Cleared
<1>2. devPorts' \in [Procs -> [Devices -> SUBSET Ports]]
  BY DEF DropHandles, Without, Cleared, TypeOK
<1>3. usrPorts' \in [Procs -> [Devices -> SUBSET SUBSET Ports]]
  BY DEF DropHandles, Without, Cleared, TypeOK
<1>4. portInfo' \in [Devices -> SUBSET Ports]
  BY DEF DropHandles, Without, Cleared, TypeOK
<1>5. QED
  BY <1>1, <1>2, <1>3, <1>4

\* Dropping handles while no create waits preserves everything but the type
\* of the variables it does not mention.
LEMMA DropKeeps ==
  ASSUME NEW H \in SUBSET (Procs \X Devices), DropHandles(H), PortInv,
         pending = NoCreate, pending' = NoCreate, handles' \subseteq procs' \X Devices
  PROVE  OwnedMarked' /\ PortsDisjoint' /\ PortsNeedHandle' /\ PendingFresh'
<1>1. OwnedMarked'
  <2>1. SUFFICES ASSUME NEW d \in Devices, NEW p \in Procs, NEW x \in Own(p, d)'
                 PROVE  x \in portInfo'[d]
    BY DEF OwnedMarked, Owned, Requested
  <2>2. <<p, d>> \notin H /\ x \in Own(p, d)
    BY <2>1, DropOwn
  <2>3. x \in portInfo[d]
    BY <2>1, <2>2 DEF PortInv, OwnedMarked, Owned
  <2>4. ASSUME NEW r \in Procs, <<r, d>> \in H
        PROVE  x \notin Own(r, d)
    BY <2>2, <2>4 DEF PortInv, PortsDisjoint
  <2>5. portInfo'[d] = {q \in portInfo[d] :
                         \A r \in Procs : <<r, d>> \in H => q \notin Own(r, d)}
    BY DEF DropHandles, Without, Cleared
  <2>6. QED
    BY <2>3, <2>4, <2>5
<1>2. PortsDisjoint'
  <2>1. SUFFICES ASSUME NEW d \in Devices
                 PROVE  /\ \A p, q \in Procs : p # q => Own(p, d)' \cap Own(q, d)' = {}
                        /\ \A p \in Procs :
                             /\ \A s \in usrPorts'[p][d] : devPorts'[p][d] \cap s = {}
                             /\ \A s, t \in usrPorts'[p][d] : s # t => s \cap t = {}
    BY DEF PortsDisjoint, Requested
  <2>2. ASSUME NEW p \in Procs, NEW q \in Procs, p # q
        PROVE  Own(p, d)' \cap Own(q, d)' = {}
    <3>1. Own(p, d)' \subseteq Own(p, d) /\ Own(q, d)' \subseteq Own(q, d)
      BY DropOwn
    <3>2. Own(p, d) \cap Own(q, d) = {}
      BY <2>2 DEF PortInv, PortsDisjoint
    <3>3. QED
      BY <3>1, <3>2
  <2>3. ASSUME NEW p \in Procs
        PROVE  /\ \A s \in usrPorts'[p][d] : devPorts'[p][d] \cap s = {}
               /\ \A s, t \in usrPorts'[p][d] : s # t => s \cap t = {}
    <3>1. CASE <<p, d>> \in H
      <4>1. usrPorts'[p][d] = {}
        BY <3>1, DropOwn
      <4>2. QED
        BY <4>1
    <3>2. CASE <<p, d>> \notin H
      <4>1. usrPorts'[p][d] = usrPorts[p][d] /\ devPorts'[p][d] = devPorts[p][d]
        BY <3>2, DropOwn
      <4>2. QED
        BY <4>1 DEF PortInv, PortsDisjoint
    <3>3. QED
      BY <3>1, <3>2
  <2>4. QED
    BY <2>2, <2>3
<1>3. PortsNeedHandle'
  <2>1. SUFFICES ASSUME NEW p \in Procs, NEW d \in Devices, <<p, d>> \notin handles'
                 PROVE  Own(p, d)' = {}
    BY DEF PortsNeedHandle
  <2>2. CASE <<p, d>> \in H
    BY <2>2, DropOwn
  <2>3. CASE <<p, d>> \notin H
    <3>1. <<p, d>> \notin handles
      BY <2>1, <2>3 DEF DropHandles, Without, Cleared
    <3>2. QED
      BY <2>3, <3>1, DropOwn DEF PortInv, PortsNeedHandle
  <2>4. QED
    BY <2>2, <2>3
<1>4. PendingFresh'
  BY DEF PendingFresh
<1>5. QED
  BY <1>1, <1>2, <1>3, <1>4

\* None of the formulas mentions the variables of the card.
LEMMA HostUnchanged ==
  ASSUME PortInv, UNCHANGED hostVars
  PROVE  OwnedMarked' /\ PortsDisjoint' /\ PortsNeedHandle' /\ PendingFresh'
BY DEF PortInv, OwnedMarked, PortsDisjoint, PortsNeedHandle, PendingFresh,
       Owned, Requested, Own, hostVars

-----------------------------------------------------------------------------
(* Type correctness.                                                       *)

\* The messages the host sends have the type of the ring's entries.
LEMMA SendType ==
  ASSUME TypeOK, NEW d \in Devices, NEW m \in Message,
         \/ SendOk(d, m)
         \/ SendFails(d, m)
  PROVE  toDev' \in [Devices -> Seq(Message)]
<1>1. CASE SendOk(d, m)
  <2>1. toDev \in [Devices -> Seq(Message)] /\ toDev[d] \in Seq(Message)
    BY DEF TypeOK
  <2>2. Append(toDev[d], m) \in Seq(Message)
    BY <2>1
  <2>3. toDev' = [toDev EXCEPT ![d] = Append(toDev[d], m)]
    BY <1>1 DEF SendOk
  <2>4. QED
    BY <2>1, <2>2, <2>3
<1>2. CASE UNCHANGED toDev
  BY <1>2 DEF TypeOK
<1>3. QED
  BY <1>1, <1>2 DEF SendFails

\* The list a DESTROY may carry is one of ports.
LEMMA AskedType ==
  ASSUME TypeOK, NEW p \in Procs, NEW d \in Devices
  PROVE  Lists \cup {devPorts[p][d]} \subseteq SUBSET Ports
BY PortsAssumption DEF TypeOK

LEMMA PortsInitType == PortsInit => TypeOK
BY PortsAssumption DEF PortsInit, TypeOK

\* Every action preserves the types.
LEMMA NextType ==
  ASSUME TypeOK, [PortsNext]_portsVars
  PROVE  TypeOK'
<1>1. ASSUME NEW p \in Procs, Open(p)
      PROVE  TypeOK'
  BY <1>1 DEF Open, TypeOK, cardVars
<1>2. ASSUME NEW p \in Procs, Release(p)
      PROVE  TypeOK'
  <2>1. {p} \X {d \in Devices : <<p, d>> \in handles} \in SUBSET (Procs \X Devices)
    OBVIOUS
  <2>2. /\ devPorts' \in [Procs -> [Devices -> SUBSET Ports]]
        /\ usrPorts' \in [Procs -> [Devices -> SUBSET SUBSET Ports]]
        /\ portInfo' \in [Devices -> SUBSET Ports]
    BY <1>2, <2>1, DropType DEF Release
  <2>3. handles' \subseteq Procs \X Devices
    BY <1>2 DEF Release, DropHandles, Without, Cleared, TypeOK
  <2>4. \A d \in Devices : [cmd |-> "DESTROY", ports |-> devPorts[p][d]] \in Message
    BY DEF Message, TypeOK
  <2>5. toDev' \in [Devices -> Seq(Message)]
    BY <1>2, <2>4 DEF Release, TypeOK
  <2>6. QED
    BY <1>2, <2>2, <2>3, <2>5 DEF Release, TypeOK
<1>3. ASSUME NEW p \in Procs, NEW d \in Devices, CreateSend(p, d)
      PROVE  TypeOK'
  <2>1. FirstFit(Free(d), MaxPort) \subseteq Ports
    BY FirstFitSubset DEF Free
  <2>2. [cmd |-> "CREATE", ports |-> FirstFit(Free(d), MaxPort)] \in Message
    BY <2>1 DEF Message
  <2>3. toDev' \in [Devices -> Seq(Message)]
    BY <1>3, <2>2, SendType DEF CreateSend
  <2>4. pending' \in Request
    BY <1>3, <2>1 DEF CreateSend, Request
  <2>5. portInfo' \in [Devices -> SUBSET Ports]
    BY <1>3, <2>1 DEF CreateSend, TypeOK
  <2>6. known' \subseteq Procs \X Devices
    BY <1>3 DEF CreateSend, TypeOK
  <2>7. QED
    BY <1>3, <2>3, <2>4, <2>5, <2>6 DEF CreateSend, TypeOK
<1>4. ASSUME NEW p \in Procs, NEW d \in Devices, CreateSendFails(p, d)
      PROVE  TypeOK'
  <2>1. FirstFit(Free(d), MaxPort) \subseteq Ports
    BY FirstFitSubset DEF Free
  <2>2. [cmd |-> "CREATE", ports |-> FirstFit(Free(d), MaxPort)] \in Message
    BY <2>1 DEF Message
  <2>3. toDev' \in [Devices -> Seq(Message)]
    BY <1>4, <2>2, SendType DEF CreateSendFails
  <2>4. portInfo' \in [Devices -> SUBSET Ports]
    BY <1>4, <2>1 DEF CreateSendFails, TypeOK
  <2>5. QED
    BY <1>4, <2>3, <2>4 DEF CreateSendFails, TypeOK
<1>5. ASSUME CreateAnswered
      PROVE  TypeOK'
  <2>1. /\ pending.proc \in Procs
        /\ pending.dev \in Devices
        /\ pending.ports \subseteq Ports
    BY <1>5, PendingType DEF CreateAnswered, TakeAnswer, Confirms
  <2>2. mailbox' \in [Devices -> Seq(Answer)]
    BY <1>5, <2>1 DEF CreateAnswered, TakeAnswer, Confirms, TypeOK
  <2>3. CASE Head(mailbox[pending.dev]) = "FAIL"
    <3>1. portInfo' = [portInfo EXCEPT ![pending.dev] = @ \ pending.ports]
      BY <1>5, <2>3 DEF CreateAnswered, TakeAnswer, Confirms
    <3>2. portInfo' \in [Devices -> SUBSET Ports]
      BY <2>1, <3>1 DEF TypeOK
    <3>3. UNCHANGED <<procs, usrPorts, toDev, up, devOpen, handles, devPorts>>
          /\ known' \subseteq known
      BY <1>5, <2>3 DEF CreateAnswered, TakeAnswer, Confirms
    <3>4. pending' = NoCreate
      BY <1>5 DEF CreateAnswered, TakeAnswer, Confirms
    <3>5. QED
      BY <2>2, <3>2, <3>3, <3>4 DEF TypeOK
  <2>4. CASE Head(mailbox[pending.dev]) # "FAIL"
    <3>1. /\ devPorts' = [devPorts EXCEPT ![pending.proc][pending.dev] = pending.ports]
          /\ handles' = handles \cup {<<pending.proc, pending.dev>>}
      BY <1>5, <2>4 DEF CreateAnswered, TakeAnswer, Confirms
    <3>2. devPorts' \in [Procs -> [Devices -> SUBSET Ports]]
      BY <2>1, <3>1 DEF TypeOK
    <3>3. handles' \subseteq Procs \X Devices
      BY <2>1, <3>1 DEF TypeOK
    <3>4. UNCHANGED <<procs, usrPorts, toDev, up, devOpen, known, portInfo>>
      BY <1>5, <2>4 DEF CreateAnswered, TakeAnswer, Confirms
    <3>5. pending' = NoCreate
      BY <1>5 DEF CreateAnswered, TakeAnswer, Confirms
    <3>6. QED
      BY <2>2, <3>2, <3>3, <3>4, <3>5 DEF TypeOK
  <2>5. QED
    BY <2>3, <2>4
<1>6. ASSUME CreateTimeout
      PROVE  TypeOK'
  BY <1>6 DEF CreateTimeout, TypeOK, cardVars
<1>7. ASSUME NEW p \in Procs, NEW d \in Devices, NEW asked \in SUBSET Ports, Destroy(p, d, asked)
      PROVE  TypeOK'
  <2>1. {<<p, d>>} \in SUBSET (Procs \X Devices)
    OBVIOUS
  <2>2. [cmd |-> "DESTROY", ports |-> asked] \in Message
    BY DEF Message
  <2>3. toDev' \in [Devices -> Seq(Message)]
    BY <1>7, <2>2, SendType DEF Destroy
  <2>4. QED
    BY <1>7, <2>1, <2>3, DropType DEF Destroy, TypeOK
<1>8. ASSUME NEW p \in Procs, NEW d \in Devices, NEW asked \in SUBSET Ports,
             DestroySendFails(p, d, asked)
      PROVE  TypeOK'
  <2>1. [cmd |-> "DESTROY", ports |-> asked] \in Message
    BY DEF Message
  <2>2. toDev' \in [Devices -> Seq(Message)]
    BY <1>8, <2>1, SendType DEF DestroySendFails
  <2>3. QED
    BY <1>8, <2>2 DEF DestroySendFails, TypeOK, hostVars
<1>9. ASSUME NEW p \in Procs, NEW d \in Devices, NEW n \in 1 .. MaxPort,
             RequestUsrPort(p, d, n)
      PROVE  TypeOK'
  <2>1. FirstFit(Free(d), n) \subseteq Ports
    BY FirstFitSubset DEF Free
  <2>2. portInfo' \in [Devices -> SUBSET Ports]
    BY <1>9, <2>1 DEF RequestUsrPort, DevHandle, TypeOK
  <2>3. usrPorts' \in [Procs -> [Devices -> SUBSET SUBSET Ports]]
    BY <1>9, <2>1 DEF RequestUsrPort, DevHandle, TypeOK
  <2>4. QED
    BY <1>9, <2>2, <2>3 DEF RequestUsrPort, DevHandle, TypeOK, cardVars
<1>10. ASSUME NEW p \in Procs, NEW d \in Devices, NEW s \in usrPorts[p][d],
              RecycleUsrPort(p, d, s)
       PROVE  TypeOK'
  <2>1. portInfo' \in [Devices -> SUBSET Ports]
    BY <1>10 DEF RecycleUsrPort, DevHandle, TypeOK
  <2>2. usrPorts' \in [Procs -> [Devices -> SUBSET SUBSET Ports]]
    BY <1>10 DEF RecycleUsrPort, DevHandle, TypeOK
  <2>3. QED
    BY <1>10, <2>1, <2>2 DEF RecycleUsrPort, DevHandle, TypeOK, cardVars
<1>11. ASSUME NEW p \in Procs, NEW d \in Devices, ResetDevice(p, d)
       PROVE  TypeOK'
  <2>1. {<<p, d>>} \in SUBSET (Procs \X Devices)
    OBVIOUS
  <2>2. QED
    BY <1>11, <2>1, DropType DEF ResetDevice, StopCard, TypeOK
<1>12. ASSUME NEW p \in Procs, NEW d \in Devices, BootDevice(p, d)
       PROVE  TypeOK'
  <2>1. {<<p, d>>} \in SUBSET (Procs \X Devices)
    OBVIOUS
  <2>2. toDev' \in [Devices -> Seq(Message)]
    BY <1>12 DEF BootDevice, TypeOK
  <2>3. up' \in [Devices -> BOOLEAN]
    BY <1>12 DEF BootDevice, TypeOK
  <2>4. devOpen' \in [Devices -> SUBSET Ports] /\ known' \subseteq Procs \X Devices
    BY <1>12 DEF BootDevice, StopCard, TypeOK
  <2>5. /\ handles' \subseteq handles
        /\ devPorts' \in [Procs -> [Devices -> SUBSET Ports]]
        /\ usrPorts' \in [Procs -> [Devices -> SUBSET SUBSET Ports]]
        /\ portInfo' \in [Devices -> SUBSET Ports]
    BY <1>12, <2>1, DropType DEF BootDevice
  <2>6. UNCHANGED <<procs, pending, mailbox>>
    BY <1>12 DEF BootDevice
  <2>7. QED
    BY <2>2, <2>3, <2>4, <2>5, <2>6 DEF TypeOK
<1>13. ASSUME NEW d \in Devices, HeartbeatLost(d)
       PROVE  TypeOK'
  <2>1. Procs \X {d} \in SUBSET (Procs \X Devices)
    OBVIOUS
  <2>2. QED
    BY <1>13, <2>1, DropType DEF HeartbeatLost, TypeOK, cardVars
<1>14. ASSUME NEW d \in Devices, DeviceServe(d)
       PROVE  TypeOK'
  <2> DEFINE m == Head(toDev[d])
  <2>1. m \in Message /\ Tail(toDev[d]) \in Seq(Message)
    BY <1>14 DEF DeviceServe, TypeOK
  <2>2. toDev' \in [Devices -> Seq(Message)]
    BY <1>14, <2>1 DEF DeviceServe, TypeOK
  <2>3. m.ports \subseteq Ports
    BY <2>1 DEF Message
  <2>4. ASSUME NEW a \in Answer
        PROVE  [mailbox EXCEPT ![d] = Append(@, a)] \in [Devices -> Seq(Answer)]
    <3>1. mailbox \in [Devices -> Seq(Answer)] /\ Append(mailbox[d], a) \in Seq(Answer)
      BY DEF TypeOK
    <3>2. QED
      BY <3>1
  <2>5. "COMPLETION" \in Answer /\ "FAIL" \in Answer
    BY DEF Answer
  <2>6. \/ mailbox' = [mailbox EXCEPT ![d] = Append(@, "COMPLETION")]
        \/ mailbox' = [mailbox EXCEPT ![d] = Append(@, "FAIL")]
        \/ mailbox' = mailbox
    BY <1>14 DEF DeviceServe
  <2>7. mailbox' \in [Devices -> Seq(Answer)]
    BY <2>4, <2>5, <2>6 DEF TypeOK
  <2>8. \/ devOpen' = [devOpen EXCEPT ![d] = @ \cup m.ports]
        \/ devOpen' = [devOpen EXCEPT ![d] = @ \ m.ports]
        \/ devOpen' = devOpen
    BY <1>14 DEF DeviceServe
  <2>9. devOpen' \in [Devices -> SUBSET Ports]
    BY <2>3, <2>8 DEF TypeOK
  <2>10. UNCHANGED <<procs, handles, devPorts, usrPorts, portInfo, pending, up, known>>
    BY <1>14 DEF DeviceServe, hostVars
  <2>11. QED
    BY <2>2, <2>7, <2>9, <2>10 DEF TypeOK
<1>15. ASSUME NEW d \in Devices, DeviceCrash(d)
       PROVE  TypeOK'
  BY <1>15 DEF DeviceCrash, StopCard, TypeOK, hostVars
<1>16. CASE UNCHANGED portsVars
  BY <1>16 DEF TypeOK, portsVars, hostVars, cardVars
<1>17. QED
  BY <1>1, <1>2, <1>3, <1>4, <1>5, <1>6, <1>7, <1>8, <1>9, <1>10, <1>11,
     <1>12, <1>13, <1>14, <1>15, <1>16, AskedType DEF PortsNext, PortsIoctl, PortManage

THEOREM TypeCorrect == PortsSpec => []TypeOK
<1>1. PortsInit => TypeOK
  BY PortsInitType
<1>2. TypeOK /\ [PortsNext]_portsVars => TypeOK'
  BY NextType
<1>3. QED
  BY <1>1, <1>2, PTL DEF PortsSpec

-----------------------------------------------------------------------------
(* The holders of ports.                                                   *)

LEMMA InitPortInv == PortsInit => PortInv
<1>1. SUFFICES ASSUME PortsInit
               PROVE  PortInv
  OBVIOUS
<1>2. \A p \in Procs, d \in Devices :
        devPorts[p][d] = {} /\ usrPorts[p][d] = {} /\ Own(p, d) = {}
  BY <1>1 DEF PortsInit, Own
<1>3. pending = NoCreate
  BY <1>1 DEF PortsInit
<1>4. OwnedMarked
  BY <1>2, <1>3 DEF OwnedMarked, Owned, Requested
<1>5. PortsDisjoint
  BY <1>2, <1>3 DEF PortsDisjoint, Requested
<1>6. PortsNeedHandle
  BY <1>1, <1>2 DEF PortsInit, PortsNeedHandle
<1>7. PendingFresh
  BY <1>3 DEF PendingFresh
<1>8. QED
  BY <1>1, <1>4, <1>5, <1>6, <1>7, PortsInitType DEF PortInv

\* A create that marks ports makes them the property of the waiting request
\* (CreateSend) or of nobody (CreateSendFails).
LEMMA CreateSendKeeps ==
  ASSUME PortInv, NEW p \in Procs, NEW d \in Devices, CreateSend(p, d)
  PROVE  OwnedMarked' /\ PortsDisjoint' /\ PortsNeedHandle' /\ PendingFresh'
<1> DEFINE new == FirstFit(Free(d), MaxPort)
<1>1. new \cap portInfo[d] = {}
  BY FirstFitSubset DEF Free
<1>2. /\ pending = NoCreate
      /\ pending' = [proc |-> p, dev |-> d, ports |-> new]
      /\ UNCHANGED <<procs, handles, devPorts, usrPorts>>
  BY DEF CreateSend, MutexFree
<1>3. portInfo' = [portInfo EXCEPT ![d] = @ \cup new]
  BY DEF CreateSend
<1>4. \A q \in Procs, e \in Devices : Own(q, e)' = Own(q, e)
  BY <1>2 DEF Own
<1>5. pending' # NoCreate
  BY <1>1, <1>2, FirstFitSubset, PortsAssumption DEF Free
<1>6. \A e \in Devices : portInfo'[e] = IF e = d THEN portInfo[d] \cup new ELSE portInfo[e]
  BY <1>3 DEF PortInv, TypeOK
<1>7. \A e \in Devices : Requested(e) = {} /\ Requested(e)' = IF e = d THEN new ELSE {}
  BY <1>2, <1>5 DEF Requested
<1>8. OwnedMarked'
  BY <1>4, <1>6, <1>7 DEF PortInv, OwnedMarked, Owned
<1>9. PortsDisjoint'
  <2>1. \A q \in Procs : new \cap Own(q, d) = {}
    BY <1>1, FirstFitSubset DEF PortInv, OwnedMarked, Owned, Free
  <2>2. QED
    BY <1>2, <1>4, <1>7, <2>1 DEF PortInv, PortsDisjoint
<1>10. PortsNeedHandle'
  BY <1>2, <1>4 DEF PortInv, PortsNeedHandle
<1>11. PendingFresh'
  BY <1>2 DEF CreateSend, PendingFresh
<1>12. QED
  BY <1>8, <1>9, <1>10, <1>11

LEMMA CreateSendFailsKeeps ==
  ASSUME PortInv, NEW p \in Procs, NEW d \in Devices, CreateSendFails(p, d)
  PROVE  OwnedMarked' /\ PortsDisjoint' /\ PortsNeedHandle' /\ PendingFresh'
<1>1. UNCHANGED <<procs, handles, devPorts, usrPorts, pending>>
  BY DEF CreateSendFails
<1>2. \A e \in Devices : portInfo[e] \subseteq portInfo'[e]
  BY DEF CreateSendFails, PortInv, TypeOK
<1>3. \A e \in Devices : Requested(e)' = Requested(e)
  BY <1>1 DEF Requested
<1>4. \A q \in Procs, e \in Devices : Own(q, e)' = Own(q, e)
  BY <1>1 DEF Own
<1>5. OwnedMarked'
  BY <1>2, <1>3, <1>4 DEF PortInv, OwnedMarked, Owned
<1>6. PortsDisjoint'
  BY <1>1, <1>3, <1>4 DEF PortInv, PortsDisjoint
<1>7. PortsNeedHandle' /\ PendingFresh'
  BY <1>1, <1>4 DEF PortInv, PortsNeedHandle, PendingFresh
<1>8. QED
  BY <1>5, <1>6, <1>7

\* The answer turns the request's ports into the handle's, or unmarks them.
LEMMA CreateAnsweredKeeps ==
  ASSUME PortInv, CreateAnswered
  PROVE  OwnedMarked' /\ PortsDisjoint' /\ PortsNeedHandle' /\ PendingFresh'
<1> DEFINE p == pending.proc
           d == pending.dev
           new == pending.ports
<1>1. /\ pending # NoCreate /\ pending' = NoCreate
      /\ UNCHANGED <<procs, usrPorts>>
  BY DEF CreateAnswered, TakeAnswer, Confirms
<1>2. p \in Procs /\ d \in Devices /\ new \subseteq Ports
  BY <1>1, PendingType DEF PortInv
<1>3. p \in procs /\ <<p, d>> \notin handles
  BY <1>1 DEF PortInv, PendingFresh
<1>4. Own(p, d) = {} /\ devPorts[p][d] = {} /\ \A s \in usrPorts[p][d] : s = {}
  BY <1>2, <1>3 DEF PortInv, PortsNeedHandle, Own
<1>5. Requested(d) = new
  BY <1>1 DEF Requested
<1>6. \A e \in Devices : Requested(e)' = {}
  BY <1>1 DEF Requested
<1>7. \A q \in Procs : q # p => new \cap Own(q, d) = {}
  BY <1>2, <1>5 DEF PortInv, PortsDisjoint
<1>8. PendingFresh'
  BY <1>1 DEF PendingFresh
<1>9. CASE Head(mailbox[d]) = "FAIL"
  <2>1. /\ portInfo' = [portInfo EXCEPT ![d] = @ \ new]
        /\ UNCHANGED <<handles, devPorts>>
    BY <1>9 DEF CreateAnswered, TakeAnswer, Confirms
  <2>2. \A q \in Procs, e \in Devices : Own(q, e)' = Own(q, e)
    BY <1>1, <2>1 DEF Own
  <2>3. \A e \in Devices : portInfo'[e] = IF e = d THEN portInfo[d] \ new ELSE portInfo[e]
    BY <1>2, <2>1 DEF PortInv, TypeOK
  <2>4. OwnedMarked'
    BY <1>2, <1>4, <1>6, <1>7, <2>2, <2>3 DEF PortInv, OwnedMarked, Owned
  <2>5. PortsDisjoint'
    BY <1>1, <1>6, <2>1, <2>2 DEF PortInv, PortsDisjoint
  <2>6. PortsNeedHandle'
    BY <1>1, <2>1, <2>2 DEF PortInv, PortsNeedHandle
  <2>7. QED
    BY <1>8, <2>4, <2>5, <2>6
<1>10. CASE Head(mailbox[d]) # "FAIL"
  <2>1. /\ handles' = handles \cup {<<p, d>>}
        /\ devPorts' = [devPorts EXCEPT ![p][d] = new]
        /\ UNCHANGED portInfo
    BY <1>10 DEF CreateAnswered, TakeAnswer, Confirms
  <2>2. \A q \in Procs, e \in Devices :
          devPorts'[q][e] = IF q = p /\ e = d THEN new ELSE devPorts[q][e]
    BY <1>2, <2>1 DEF PortInv, TypeOK
  <2>3. \A q \in Procs, e \in Devices :
          Own(q, e)' = IF q = p /\ e = d THEN new ELSE Own(q, e)
    BY <1>1, <1>4, <2>2 DEF Own
  <2>4. OwnedMarked'
    BY <1>2, <1>5, <1>6, <2>1, <2>3 DEF PortInv, OwnedMarked, Owned
  <2>5. PortsDisjoint'
    <3>1. SUFFICES ASSUME NEW e \in Devices
                   PROVE  /\ \A q, r \in Procs : q # r => Own(q, e)' \cap Own(r, e)' = {}
                          /\ \A q \in Procs :
                               /\ \A s \in usrPorts'[q][e] : devPorts'[q][e] \cap s = {}
                               /\ \A s, t \in usrPorts'[q][e] : s # t => s \cap t = {}
      BY <1>6 DEF PortsDisjoint
    <3>2. \A q, r \in Procs : q # r => Own(q, e)' \cap Own(r, e)' = {}
      BY <1>7, <2>3 DEF PortInv, PortsDisjoint
    <3>3. ASSUME NEW q \in Procs
          PROVE  \A s \in usrPorts'[q][e] : devPorts'[q][e] \cap s = {}
      BY <1>1, <1>4, <2>2 DEF PortInv, PortsDisjoint
    <3>4. ASSUME NEW q \in Procs
          PROVE  \A s, t \in usrPorts'[q][e] : s # t => s \cap t = {}
      BY <1>1 DEF PortInv, PortsDisjoint
    <3>5. QED
      BY <3>2, <3>3, <3>4
  <2>6. PortsNeedHandle'
    BY <1>1, <1>2, <1>3, <2>1, <2>3 DEF PortInv, PortsNeedHandle
  <2>7. QED
    BY <1>8, <2>4, <2>5, <2>6
<1>11. QED
  BY <1>9, <1>10

\* A timeout only forgets the request.
LEMMA CreateTimeoutKeeps ==
  ASSUME PortInv, CreateTimeout
  PROVE  OwnedMarked' /\ PortsDisjoint' /\ PortsNeedHandle' /\ PendingFresh'
<1>1. pending' = NoCreate /\ UNCHANGED <<procs, handles, devPorts, usrPorts, portInfo>>
  BY DEF CreateTimeout
<1>2. \A e \in Devices : Requested(e)' = {}
  BY <1>1 DEF Requested
<1>3. \A q \in Procs, e \in Devices : Own(q, e)' = Own(q, e)
  BY <1>1 DEF Own
<1>4. QED
  BY <1>1, <1>2, <1>3
  DEF PortInv, OwnedMarked, Owned, PortsDisjoint, PortsNeedHandle, PendingFresh

\* A usr list is taken from unmarked ports, so nobody holds them.
LEMMA RequestUsrPortKeeps ==
  ASSUME PortInv, NEW p \in Procs, NEW d \in Devices, NEW n, RequestUsrPort(p, d, n)
  PROVE  OwnedMarked' /\ PortsDisjoint' /\ PortsNeedHandle' /\ PendingFresh'
<1> DEFINE new == FirstFit(Free(d), n)
<1>1. new \subseteq Ports /\ new \cap portInfo[d] = {}
  BY FirstFitSubset DEF Free
<1>2. /\ pending = NoCreate /\ <<p, d>> \in handles
      /\ UNCHANGED <<procs, handles, devPorts, pending>>
      /\ portInfo' = [portInfo EXCEPT ![d] = @ \cup new]
      /\ usrPorts' = [usrPorts EXCEPT ![p][d] = @ \cup {new}]
  BY DEF RequestUsrPort, DevHandle, MutexFree
<1>3. \A e \in Devices : portInfo'[e] = IF e = d THEN portInfo[d] \cup new ELSE portInfo[e]
  BY <1>2 DEF PortInv, TypeOK
<1>4. \A q \in Procs, e \in Devices :
        usrPorts'[q][e] = IF q = p /\ e = d THEN usrPorts[p][d] \cup {new} ELSE usrPorts[q][e]
  BY <1>2 DEF PortInv, TypeOK
<1>5. \A q \in Procs, e \in Devices :
        Own(q, e)' = IF q = p /\ e = d THEN Own(p, d) \cup new ELSE Own(q, e)
  BY <1>2, <1>4 DEF Own
<1>6. \A e \in Devices : Requested(e) = {} /\ Requested(e)' = {}
  BY <1>2 DEF Requested
<1>7. \A q \in Procs : new \cap Own(q, d) = {}
  BY <1>1 DEF PortInv, OwnedMarked, Owned
<1>8. OwnedMarked'
  BY <1>3, <1>5, <1>6 DEF PortInv, OwnedMarked, Owned
<1>9. PortsDisjoint'
  <2>1. SUFFICES ASSUME NEW e \in Devices
                 PROVE  /\ \A q, r \in Procs : q # r => Own(q, e)' \cap Own(r, e)' = {}
                        /\ \A q \in Procs :
                             /\ \A s \in usrPorts'[q][e] : devPorts'[q][e] \cap s = {}
                             /\ \A s, t \in usrPorts'[q][e] : s # t => s \cap t = {}
    BY <1>6 DEF PortsDisjoint
  <2>2. \A q, r \in Procs : q # r => Own(q, e)' \cap Own(r, e)' = {}
    BY <1>5, <1>7 DEF PortInv, PortsDisjoint
  <2>3. \A s \in usrPorts[p][d] : s \cap new = {}
    BY <1>7 DEF Own
  <2>4. devPorts[p][d] \cap new = {}
    BY <1>7 DEF Own
  <2>5. ASSUME NEW q \in Procs
        PROVE  \A s \in usrPorts'[q][e] : devPorts'[q][e] \cap s = {}
    BY <1>2, <1>4, <2>4 DEF PortInv, PortsDisjoint
  <2>6. ASSUME NEW q \in Procs
        PROVE  \A s, t \in usrPorts'[q][e] : s # t => s \cap t = {}
    BY <1>4, <2>3 DEF PortInv, PortsDisjoint
  <2>7. QED
    BY <2>2, <2>5, <2>6
<1>10. PortsNeedHandle' /\ PendingFresh'
  BY <1>2, <1>5 DEF PortInv, PortsNeedHandle, PendingFresh
<1>11. QED
  BY <1>8, <1>9, <1>10

\* A usr list that is taken back is disjoint from everything else.
LEMMA RecycleUsrPortKeeps ==
  ASSUME PortInv, NEW p \in Procs, NEW d \in Devices, NEW s \in usrPorts[p][d],
         RecycleUsrPort(p, d, s)
  PROVE  OwnedMarked' /\ PortsDisjoint' /\ PortsNeedHandle' /\ PendingFresh'
<1>1. /\ pending = NoCreate
      /\ UNCHANGED <<procs, handles, devPorts, pending>>
      /\ portInfo' = [portInfo EXCEPT ![d] = @ \ s]
      /\ usrPorts' = [usrPorts EXCEPT ![p][d] = @ \ {s}]
  BY DEF RecycleUsrPort, DevHandle, MutexFree
<1>2. \A e \in Devices : portInfo'[e] = IF e = d THEN portInfo[d] \ s ELSE portInfo[e]
  BY <1>1 DEF PortInv, TypeOK
<1>3. \A q \in Procs, e \in Devices :
        usrPorts'[q][e] = IF q = p /\ e = d THEN usrPorts[p][d] \ {s} ELSE usrPorts[q][e]
  BY <1>1 DEF PortInv, TypeOK
<1>4. \A q \in Procs, e \in Devices : Own(q, e)' \subseteq Own(q, e)
  BY <1>1, <1>3 DEF Own
<1>5. \A e \in Devices : Requested(e) = {} /\ Requested(e)' = {}
  BY <1>1 DEF Requested
<1>6. s \subseteq Own(p, d)
  BY DEF Own
<1>7. s \cap Own(p, d)' = {}
  <2>1. s \cap devPorts'[p][d] = {}
    BY <1>1 DEF PortInv, PortsDisjoint
  <2>2. \A t \in usrPorts'[p][d] : s \cap t = {}
    BY <1>3 DEF PortInv, PortsDisjoint
  <2>3. QED
    BY <2>1, <2>2 DEF Own
<1>8. \A q \in Procs : s \cap Own(q, d)' = {}
  BY <1>4, <1>6, <1>7 DEF PortInv, PortsDisjoint
<1>9. OwnedMarked'
  BY <1>2, <1>4, <1>5, <1>8 DEF PortInv, OwnedMarked, Owned
<1>10. PortsDisjoint'
  <2>1. SUFFICES ASSUME NEW e \in Devices
                 PROVE  /\ \A q, r \in Procs : q # r => Own(q, e)' \cap Own(r, e)' = {}
                        /\ \A q \in Procs :
                             /\ \A t \in usrPorts'[q][e] : devPorts'[q][e] \cap t = {}
                             /\ \A t, u \in usrPorts'[q][e] : t # u => t \cap u = {}
    BY <1>5 DEF PortsDisjoint
  <2>2. ASSUME NEW q \in Procs, NEW r \in Procs, q # r
        PROVE  Own(q, e)' \cap Own(r, e)' = {}
    <3>1. Own(q, e) \cap Own(r, e) = {}
      BY <2>2 DEF PortInv, PortsDisjoint
    <3>2. QED
      BY <1>4, <3>1
  <2>3. \A q \in Procs : usrPorts'[q][e] \subseteq usrPorts[q][e]
    BY <1>3
  <2>4. QED
    BY <1>1, <2>2, <2>3 DEF PortInv, PortsDisjoint
<1>11. PortsNeedHandle' /\ PendingFresh'
  BY <1>1, <1>4 DEF PortInv, PortsNeedHandle, PendingFresh
<1>12. QED
  BY <1>9, <1>10, <1>11

LEMMA NextPortInv ==
  ASSUME PortInv, [PortsNext]_portsVars
  PROVE  PortInv'
<1> DEFINE Goal == OwnedMarked' /\ PortsDisjoint' /\ PortsNeedHandle' /\ PendingFresh'
<1>1. ASSUME NEW p \in Procs, Open(p)
      PROVE  Goal
  <2>1. UNCHANGED <<handles, devPorts, usrPorts, portInfo, pending>> /\ procs \subseteq procs'
    BY <1>1 DEF Open
  <2>2. \A q \in Procs, e \in Devices :
          Own(q, e)' = Own(q, e) /\ Requested(e)' = Requested(e)
    BY <2>1 DEF Own, Requested
  <2>3. QED
    BY <2>1, <2>2
    DEF PortInv, OwnedMarked, Owned, Requested, PortsDisjoint, PortsNeedHandle, PendingFresh
<1>2. ASSUME NEW p \in Procs, Release(p)
      PROVE  Goal
  <2> DEFINE H == {p} \X {d \in Devices : <<p, d>> \in handles}
  <2>1. H \in SUBSET (Procs \X Devices)
    OBVIOUS
  <2>2. DropHandles(H) /\ pending = NoCreate /\ pending' = NoCreate /\ procs' = procs \ {p}
    BY <1>2 DEF Release, MutexFree
  <2>3. handles' \subseteq procs' \X Devices
    BY <2>2 DEF PortInv, PortsNeedHandle, DropHandles, Without, Cleared
  <2>4. QED
    BY <2>1, <2>2, <2>3, DropKeeps
<1>3. ASSUME NEW p \in Procs, NEW d \in Devices, NEW asked,
             Destroy(p, d, asked) \/ ResetDevice(p, d) \/ BootDevice(p, d)
      PROVE  Goal
  <2>1. {<<p, d>>} \in SUBSET (Procs \X Devices)
    OBVIOUS
  <2>2. /\ DropHandles({<<p, d>>})
        /\ pending = NoCreate /\ pending' = NoCreate /\ procs' = procs
    BY <1>3 DEF Destroy, ResetDevice, BootDevice, MutexFree
  <2>3. handles' \subseteq procs' \X Devices
    BY <2>2 DEF PortInv, PortsNeedHandle, DropHandles, Without, Cleared
  <2>4. QED
    BY <2>1, <2>2, <2>3, DropKeeps
<1>4. ASSUME NEW d \in Devices, HeartbeatLost(d)
      PROVE  Goal
  <2>1. Procs \X {d} \in SUBSET (Procs \X Devices)
    OBVIOUS
  <2>2. /\ DropHandles(Procs \X {d})
        /\ pending = NoCreate /\ pending' = NoCreate /\ procs' = procs
    BY <1>4 DEF HeartbeatLost, MutexFree
  <2>3. handles' \subseteq procs' \X Devices
    BY <2>2 DEF PortInv, PortsNeedHandle, DropHandles, Without, Cleared
  <2>4. QED
    BY <2>1, <2>2, <2>3, DropKeeps
<1>5. ASSUME NEW p \in Procs, NEW d \in Devices, NEW asked, DestroySendFails(p, d, asked)
      PROVE  Goal
  BY <1>5, HostUnchanged DEF DestroySendFails
<1>6. ASSUME NEW d \in Devices, DeviceServe(d) \/ DeviceCrash(d)
      PROVE  Goal
  BY <1>6, HostUnchanged DEF DeviceServe, DeviceCrash
<1>7. ASSUME UNCHANGED portsVars
      PROVE  Goal
  <2>1. UNCHANGED hostVars
    BY <1>7 DEF portsVars
  <2>2. QED
    BY <2>1, HostUnchanged
<1>8. ASSUME NEW p \in Procs, NEW d \in Devices,
             CreateSend(p, d) \/ CreateSendFails(p, d)
      PROVE  Goal
  BY <1>8, CreateSendKeeps, CreateSendFailsKeeps
<1>9. ASSUME CreateAnswered \/ CreateTimeout
      PROVE  Goal
  BY <1>9, CreateAnsweredKeeps, CreateTimeoutKeeps
<1>10. ASSUME NEW p \in Procs, NEW d \in Devices, NEW n \in 1 .. MaxPort,
              RequestUsrPort(p, d, n)
       PROVE  Goal
  BY <1>10, RequestUsrPortKeeps
<1>11. ASSUME NEW p \in Procs, NEW d \in Devices, NEW s \in usrPorts[p][d],
              RecycleUsrPort(p, d, s)
       PROVE  Goal
  BY <1>11, RecycleUsrPortKeeps
<1>12. Goal
  BY <1>1, <1>2, <1>3, <1>4, <1>5, <1>6, <1>7, <1>8, <1>9, <1>10, <1>11
  DEF PortsNext, PortsIoctl, PortManage
<1>13. TypeOK'
  BY NextType DEF PortInv
<1>14. QED
  BY <1>12, <1>13 DEF PortInv

\* No port of a card ever has two holders, and every port with a holder is
\* marked, for any number of processes, cards and ports.
THEOREM PortsSafe == PortsSpec => [](OwnedMarked /\ PortsDisjoint /\ PortsNeedHandle)
<1>1. PortsInit => PortInv
  BY InitPortInv
<1>2. PortInv /\ [PortsNext]_portsVars => PortInv'
  BY NextPortInv
<1>3. PortInv => OwnedMarked /\ PortsDisjoint /\ PortsNeedHandle
  BY DEF PortInv
<1>4. QED
  BY <1>1, <1>2, <1>3, PTL DEF PortsSpec

-----------------------------------------------------------------------------
(* Who may unmark a port.                                                  *)

\* Dropping handles unmarks only what the dropped handles hold.
LEMMA DropFrees ==
  ASSUME NEW H \in SUBSET (Procs \X Devices), DropHandles(H), TypeOK,
         NEW d \in Devices
  PROVE  portInfo[d] \ portInfo'[d] \subseteq Owned(d)
BY DEF DropHandles, Without, Cleared, TypeOK, Owned

\* Whatever a step unmarks had a holder before the step.
LEMMA FreedWasOwned ==
  ASSUME PortInv, [PortsNext]_portsVars, NEW d \in Devices
  PROVE  portInfo[d] \ portInfo'[d] \subseteq Owned(d)
<1> DEFINE Goal == portInfo[d] \ portInfo'[d] \subseteq Owned(d)
<1>1. TypeOK
  BY DEF PortInv
<1>2. CASE portInfo[d] \subseteq portInfo'[d]
  BY <1>2
<1>3. ASSUME NEW p \in Procs, NEW e \in Devices, NEW asked,
             Destroy(p, e, asked) \/ ResetDevice(p, e) \/ BootDevice(p, e)
      PROVE  Goal
  <2>1. DropHandles({<<p, e>>}) /\ {<<p, e>>} \in SUBSET (Procs \X Devices)
    BY <1>3 DEF Destroy, ResetDevice, BootDevice
  <2>2. QED
    BY <1>1, <2>1, DropFrees
<1>4. ASSUME NEW p \in Procs, Release(p)
      PROVE  Goal
  <2> DEFINE H == {p} \X {e \in Devices : <<p, e>> \in handles}
  <2>1. DropHandles(H) /\ H \in SUBSET (Procs \X Devices)
    BY <1>4 DEF Release
  <2>2. QED
    BY <1>1, <2>1, DropFrees
<1>5. ASSUME NEW e \in Devices, HeartbeatLost(e)
      PROVE  Goal
  <2>1. DropHandles(Procs \X {e}) /\ Procs \X {e} \in SUBSET (Procs \X Devices)
    BY <1>5 DEF HeartbeatLost
  <2>2. QED
    BY <1>1, <2>1, DropFrees
<1>6. ASSUME CreateAnswered
      PROVE  Goal
  <2>1. pending # NoCreate /\ pending.ports \subseteq Ports /\ pending.dev \in Devices
    BY <1>1, <1>6, PendingType DEF CreateAnswered, TakeAnswer, Confirms
  <2>2. \/ portInfo' = portInfo
        \/ portInfo' = [portInfo EXCEPT ![pending.dev] = @ \ pending.ports]
    BY <1>6 DEF CreateAnswered, TakeAnswer, Confirms
  <2>3. pending.ports \subseteq Owned(pending.dev)
    BY <2>1 DEF Owned, Requested
  <2>4. QED
    BY <1>1, <2>1, <2>2, <2>3 DEF TypeOK
<1>7. ASSUME NEW p \in Procs, NEW e \in Devices, NEW s \in usrPorts[p][e],
             RecycleUsrPort(p, e, s)
      PROVE  Goal
  <2>1. portInfo' = [portInfo EXCEPT ![e] = @ \ s]
    BY <1>7 DEF RecycleUsrPort, DevHandle
  <2>2. s \subseteq Own(p, e) /\ s \subseteq Ports
    BY <1>1 DEF Own, TypeOK
  <2>3. QED
    BY <1>1, <2>1, <2>2 DEF TypeOK, Owned
<1>8. ASSUME NEW p \in Procs, NEW e \in Devices,
             CreateSend(p, e) \/ CreateSendFails(p, e)
      PROVE  Goal
  BY <1>1, <1>8 DEF CreateSend, CreateSendFails, TypeOK
<1>9. ASSUME NEW p \in Procs, NEW e \in Devices, NEW n, RequestUsrPort(p, e, n)
      PROVE  Goal
  BY <1>1, <1>9 DEF RequestUsrPort, DevHandle, TypeOK
<1>10. ASSUME \/ UNCHANGED hostVars \/ CreateTimeout \/ \E p \in Procs : Open(p)
       PROVE  Goal
  BY <1>10 DEF hostVars, CreateTimeout, Open
<1>11. QED
  BY <1>3, <1>4, <1>5, <1>6, <1>7, <1>8, <1>9, <1>10
  DEF PortsNext, PortsIoctl, PortManage, portsVars, DestroySendFails, DeviceServe, DeviceCrash

\* No step frees a port that somebody still holds.
THEOREM OnlyHolderFreesHolds == PortsSpec => OnlyHolderFrees
<1>1. ASSUME PortInv, [PortsNext]_portsVars
      PROVE  \A d \in Devices :
               \A q \in portInfo[d] \ portInfo'[d] : q \in Owned(d) /\ q \notin Owned(d)'
  <2>1. OwnedMarked'
    BY <1>1, NextPortInv DEF PortInv
  <2>2. QED
    BY <1>1, <2>1, FreedWasOwned DEF OwnedMarked
<1>2. PortInv /\ [PortsNext]_portsVars =>
        [\A d \in Devices :
           \A q \in portInfo[d] \ portInfo'[d] : q \in Owned(d) /\ q \notin Owned(d)']_hostVars
  BY <1>1
<1>3. PortsInit => PortInv
  BY InitPortInv
<1>4. PortInv /\ [PortsNext]_portsVars => PortInv'
  BY NextPortInv
<1>5. QED
  BY <1>2, <1>3, <1>4, PTL DEF PortsSpec, OnlyHolderFrees
-----------------------------------------------------------------------------
(* Marks without a holder.                                                 *)

\* A step that unmarks what it takes from its holders, or marks what it gives
\* to a holder, leaks nothing.
LEMMA NothingLeaks ==
  ASSUME NEW d \in Devices, NEW X,
         \/ portInfo'[d] = portInfo[d] \ X /\ Owned(d) = Owned(d)' \cup X
         \/ portInfo'[d] = portInfo[d] \cup X /\ Owned(d)' = Owned(d) \cup X /\ X \cap portInfo[d] = {}
  PROVE  Leaked(d)' = Leaked(d)
BY DEF Leaked

\* Dropping handles unmarks all that they hold.
LEMMA DropLeaksNothing ==
  ASSUME PortInv, NEW H \in SUBSET (Procs \X Devices), DropHandles(H),
         pending = NoCreate, pending' = NoCreate, NEW d \in Devices
  PROVE  Leaked(d)' = Leaked(d)
<1> DEFINE X == UNION {Own(p, d) : p \in {r \in Procs : <<r, d>> \in H}}
<1>1. \A p \in Procs : Own(p, d)' = IF <<p, d>> \in H THEN {} ELSE Own(p, d)
  BY DropOwn
<1>2. Owned(d) = UNION {Own(p, d) : p \in Procs}
  BY DEF Owned, Requested
<1>3. Owned(d)' = UNION {Own(p, d)' : p \in Procs}
  BY DEF Owned, Requested
<1>4. Owned(d) = Owned(d)' \cup X
  <2>1. \A x : x \in Owned(d)' <=> \E p \in Procs : <<p, d>> \notin H /\ x \in Own(p, d)
    BY <1>1, <1>3
  <2>2. \A x : x \in X <=> \E p \in Procs : <<p, d>> \in H /\ x \in Own(p, d)
    OBVIOUS
  <2> QED BY <1>2, <2>1, <2>2
<1>5. portInfo[d] \subseteq Ports
  BY DEF PortInv, TypeOK
<1>6. portInfo'[d] = portInfo[d] \ X
  BY <1>5 DEF DropHandles, Cleared
<1> QED BY <1>4, <1>6, NothingLeaks

\* A create that waits holds what it has marked, and gives up what it unmarks.
LEMMA CreateSendLeaksNothing ==
  ASSUME PortInv, NEW p \in Procs, NEW e \in Devices, CreateSend(p, e), NEW d \in Devices
  PROVE  Leaked(d)' = Leaked(d)
<1> DEFINE wanted == FirstFit(Free(e), MaxPort)
<1>1. wanted \subseteq Ports \ portInfo[e]
  BY FirstFitSubset DEF Free
<1>2. /\ portInfo' = [portInfo EXCEPT ![e] = @ \cup wanted]
      /\ pending = NoCreate /\ pending' = [proc |-> p, dev |-> e, ports |-> wanted]
      /\ UNCHANGED <<devPorts, usrPorts>>
  BY DEF CreateSend, MutexFree
<1> HIDE DEF wanted
<1>3. pending' # NoCreate
  BY <1>1, <1>2, PortsAssumption
<1>4. Requested(d) = {} /\ Requested(d)' = IF d = e THEN wanted ELSE {}
  BY <1>2, <1>3 DEF Requested
<1>5. \A q \in Procs : Own(q, d)' = Own(q, d)
  BY <1>2 DEF Own
<1>6. CASE d = e
  <2>1. Owned(d)' = Owned(d) \cup wanted
    BY <1>1, <1>4, <1>5, <1>6 DEF Owned
  <2>2. portInfo'[d] = portInfo[d] \cup wanted /\ wanted \cap portInfo[d] = {}
    BY <1>1, <1>2, <1>6 DEF PortInv, TypeOK
  <2> QED BY <2>1, <2>2, NothingLeaks
<1>7. CASE d # e
  <2>1. Owned(d)' = Owned(d)
    BY <1>4, <1>5, <1>7 DEF Owned
  <2>2. portInfo'[d] = portInfo[d]
    BY <1>2, <1>7 DEF PortInv, TypeOK
  <2> QED BY <2>1, <2>2 DEF Leaked
<1> QED BY <1>6, <1>7

\* The answer hands the wanted to the process or unmarks them.
LEMMA CreateAnsweredLeaksNothing ==
  ASSUME PortInv, CreateAnswered, NEW d \in Devices
  PROVE  Leaked(d)' = Leaked(d)
<1> DEFINE p == pending.proc
           e == pending.dev
           wanted == pending.ports
<1>1. pending # NoCreate /\ pending' = NoCreate /\ usrPorts' = usrPorts
  BY DEF CreateAnswered
<1>2. p \in Procs /\ e \in Devices /\ wanted \subseteq Ports
  BY <1>1, PendingType DEF PortInv
<1>3. Requested(d) = (IF d = e THEN wanted ELSE {}) /\ Requested(d)' = {}
  BY <1>1 DEF Requested
<1>4. Own(p, e) = {}
  BY <1>1, <1>2 DEF PortInv, PendingFresh, PortsNeedHandle
<1>5. CASE /\ portInfo' = [portInfo EXCEPT ![e] = @ \ wanted]
           /\ devPorts' = devPorts
  <2>1. \A q \in Procs : Own(q, d)' = Own(q, d)
    BY <1>1, <1>5 DEF Own
  <2>2. Owned(d) = Owned(d)' \cup (IF d = e THEN wanted ELSE {})
    BY <1>2, <1>3, <2>1 DEF Owned
  <2>3. portInfo'[d] = portInfo[d] \ (IF d = e THEN wanted ELSE {})
    BY <1>5 DEF PortInv, TypeOK
  <2> QED BY <2>2, <2>3, NothingLeaks
<1>6. CASE /\ portInfo' = portInfo
           /\ devPorts' = [devPorts EXCEPT ![p][e] = wanted]
  <2>1. \A q \in Procs : devPorts'[q][d] = IF q = p /\ d = e THEN wanted ELSE devPorts[q][d]
    BY <1>2, <1>6 DEF PortInv, TypeOK
  <2>2. UNION usrPorts[p][e] = {} /\ devPorts[p][e] = {}
    BY <1>4 DEF Own
  <2>3. \A q \in Procs : Own(q, d)' = IF q = p /\ d = e THEN wanted ELSE Own(q, d)
    BY <1>1, <2>1, <2>2 DEF Own
  <2>4. Owned(d)' = Owned(d)
    BY <1>2, <1>3, <1>4, <2>3 DEF Owned
  <2> QED BY <1>6, <2>4 DEF Leaked
<1> QED BY <1>5, <1>6 DEF CreateAnswered

LEMMA UsrPortsLeakNothing ==
  ASSUME PortInv, NEW p \in Procs, NEW e \in Devices, NEW d \in Devices,
         \/ \E n \in 1..MaxPort : RequestUsrPort(p, e, n)
         \/ \E s \in usrPorts[p][e] : RecycleUsrPort(p, e, s)
  PROVE  Leaked(d)' = Leaked(d)
<1>1. pending = NoCreate /\ pending' = NoCreate /\ devPorts' = devPorts
  BY DEF RequestUsrPort, RecycleUsrPort, MutexFree
<1>2. Requested(d) = {} /\ Requested(d)' = {}
  BY <1>1 DEF Requested
<1>3. ASSUME NEW n \in 1..MaxPort, RequestUsrPort(p, e, n)
      PROVE  Leaked(d)' = Leaked(d)
  <2> DEFINE wanted == FirstFit(Free(e), n)
  <2>1. wanted \subseteq Ports \ portInfo[e]
    BY FirstFitSubset DEF Free
  <2>2. /\ portInfo' = [portInfo EXCEPT ![e] = @ \cup wanted]
        /\ usrPorts' = [usrPorts EXCEPT ![p][e] = @ \cup {wanted}]
    BY <1>3 DEF RequestUsrPort
  <2> HIDE DEF wanted
  <2> DEFINE X == IF d = e THEN wanted ELSE {}
  <2>3. \A q \in Procs : usrPorts'[q][d] = usrPorts[q][d] \cup (IF q = p /\ d = e THEN {wanted} ELSE {})
    BY <2>2 DEF PortInv, TypeOK
  <2>4. \A q \in Procs : Own(q, d)' = Own(q, d) \cup (IF q = p /\ d = e THEN wanted ELSE {})
    BY <1>1, <2>3 DEF Own
  <2>5. Owned(d)' = Owned(d) \cup X
    BY <1>2, <2>1, <2>4 DEF Owned
  <2>6. portInfo'[d] = portInfo[d] \cup X /\ X \cap portInfo[d] = {}
    BY <2>1, <2>2 DEF PortInv, TypeOK
  <2> QED BY <2>5, <2>6, NothingLeaks
<1>4. ASSUME NEW s \in usrPorts[p][e], RecycleUsrPort(p, e, s)
      PROVE  Leaked(d)' = Leaked(d)
  <2>1. /\ portInfo' = [portInfo EXCEPT ![e] = @ \ s]
        /\ usrPorts' = [usrPorts EXCEPT ![p][e] = @ \ {s}]
    BY <1>4 DEF RecycleUsrPort
  <2> DEFINE X == IF d = e THEN s ELSE {}
  <2>2. s \subseteq Ports
    BY DEF PortInv, TypeOK
  <2>3. \A q \in Procs : usrPorts[q][d] = usrPorts'[q][d] \cup (IF q = p /\ d = e THEN {s} ELSE {})
    BY <2>1 DEF PortInv, TypeOK
  <2>4. \A q \in Procs : Own(q, d) = Own(q, d)' \cup (IF q = p /\ d = e THEN s ELSE {})
    BY <1>1, <2>3 DEF Own
  <2>5. Owned(d) = Owned(d)' \cup X
    BY <1>2, <2>2, <2>4 DEF Owned
  <2>6. portInfo'[d] = portInfo[d] \ X
    BY <2>1 DEF PortInv, TypeOK
  <2> QED BY <2>5, <2>6, NothingLeaks
<1> QED BY <1>3, <1>4

\* Only the two returns of axcl_pcie_port_create that leave port_info as it is
\* leak, and nothing ever removes a leaked mark.
LEMMA LeakStep ==
  ASSUME PortInv, [PortsNext]_portsVars, NEW d \in Devices, Leaked(d)' # Leaked(d)
  PROVE  /\ Leaked(d) \subseteq Leaked(d)'
         /\ handles' = handles
         /\ \/ pending # NoCreate /\ pending.dev = d /\ mailbox'[d] = <<>>
            \/ pending = NoCreate /\ pending' = NoCreate
<1> DEFINE Goal == /\ Leaked(d) \subseteq Leaked(d)'
                   /\ handles' = handles
                   /\ \/ pending # NoCreate /\ pending.dev = d /\ mailbox'[d] = <<>>
                      \/ pending = NoCreate /\ pending' = NoCreate
<1>1. ASSUME UNCHANGED <<devPorts, usrPorts, portInfo, pending>>
      PROVE  Goal
  BY <1>1 DEF Leaked, Owned, Own, Requested
<1>2. ASSUME NEW p \in Procs, NEW e \in Devices, CreateSendFails(p, e)
      PROVE  Goal
  <2>1. /\ UNCHANGED <<handles, devPorts, usrPorts, pending>> /\ pending = NoCreate
        /\ portInfo' = [portInfo EXCEPT ![e] = @ \cup FirstFit(Free(e), MaxPort)]
    BY <1>2 DEF CreateSendFails, MutexFree
  <2>2. portInfo[d] \subseteq portInfo'[d]
    BY <2>1 DEF PortInv, TypeOK
  <2> QED BY <2>1, <2>2 DEF Leaked, Owned, Own, Requested
<1>3. ASSUME CreateTimeout
      PROVE  Goal
  <2>1. /\ UNCHANGED <<handles, devPorts, usrPorts, portInfo, mailbox>>
        /\ pending # NoCreate /\ pending' = NoCreate /\ mailbox[pending.dev] = <<>>
    BY <1>3 DEF CreateTimeout, cardVars
  <2>2. Owned(d)' \subseteq Owned(d)
    BY <2>1 DEF Owned, Own, Requested
  <2>3. pending.dev # d => Owned(d)' = Owned(d)
    BY <2>1 DEF Owned, Own, Requested
  <2> QED BY <2>1, <2>2, <2>3 DEF Leaked
<1>4. ASSUME NEW p \in Procs, NEW e \in Devices, NEW asked,
             Destroy(p, e, asked) \/ ResetDevice(p, e) \/ BootDevice(p, e)
      PROVE  FALSE
  <2>1. DropHandles({<<p, e>>}) /\ {<<p, e>>} \in SUBSET (Procs \X Devices)
        /\ pending = NoCreate /\ pending' = NoCreate
    BY <1>4 DEF Destroy, ResetDevice, BootDevice, MutexFree
  <2> QED BY <2>1, DropLeaksNothing
<1>5. ASSUME NEW p \in Procs, Release(p)
      PROVE  FALSE
  <2> DEFINE H == {p} \X {e \in Devices : <<p, e>> \in handles}
  <2>1. DropHandles(H) /\ H \in SUBSET (Procs \X Devices) /\ pending = NoCreate /\ pending' = NoCreate
    BY <1>5 DEF Release, MutexFree
  <2> QED BY <2>1, DropLeaksNothing
<1>6. ASSUME NEW e \in Devices, HeartbeatLost(e)
      PROVE  FALSE
  <2>1. DropHandles(Procs \X {e}) /\ Procs \X {e} \in SUBSET (Procs \X Devices)
        /\ pending = NoCreate /\ pending' = NoCreate
    BY <1>6 DEF HeartbeatLost, MutexFree
  <2> QED BY <2>1, DropLeaksNothing
<1>7. ~CreateAnswered /\ \A p \in Procs, e \in Devices : ~CreateSend(p, e)
  BY CreateAnsweredLeaksNothing, CreateSendLeaksNothing
<1>8. \A p \in Procs, e \in Devices :
        /\ \A n \in 1..MaxPort : ~RequestUsrPort(p, e, n)
        /\ \A s \in usrPorts[p][e] : ~RecycleUsrPort(p, e, s)
  BY UsrPortsLeakNothing
<1>9. ASSUME \/ \E p \in Procs : Open(p)
             \/ \E p \in Procs, e \in Devices : \E asked : DestroySendFails(p, e, asked)
             \/ \E e \in Devices : DeviceServe(e) \/ DeviceCrash(e)
             \/ UNCHANGED portsVars
      PROVE  Goal
  BY <1>1, <1>9 DEF Open, DestroySendFails, DeviceServe, DeviceCrash, portsVars, hostVars
<1> QED
  BY <1>2, <1>3, <1>4, <1>5, <1>6, <1>7, <1>8, <1>9 DEF PortsNext, PortsIoctl, PortManage

\* Marks without a holder come only from a create whose send failed or whose
\* answer did not come in time, and they never go away
\* (axcl_pcie_port_create).
THEOREM LeaksOnlyByFailedCreate == PortsSpec => LeakOnlyByFailedCreate
<1>1. PortInv /\ [PortsNext]_portsVars =>
        [\A d \in Devices :
           Leaked(d)' # Leaked(d) =>
             /\ Leaked(d) \subseteq Leaked(d)'
             /\ handles' = handles
             /\ \/ pending # NoCreate /\ pending.dev = d /\ mailbox'[d] = <<>>
                \/ pending = NoCreate /\ pending' = NoCreate]_hostVars
  BY LeakStep
<1> QED
  BY <1>1, InitPortInv, NextPortInv, PTL DEF PortsSpec, LeakOnlyByFailedCreate

-----------------------------------------------------------------------------
(* Which answer confirms a create.                                         *)

\* No DESTROY in the queue q closes a port of S.
Spares(q, S) == \A i \in DOMAIN q : q[i].cmd = "DESTROY" => q[i].ports \cap S = {}

\* The last message of q, and no other, is a CREATE, for the ports in S.
EndsInCreate(q, S) ==
  /\ q # <<>> /\ q[Len(q)].cmd = "CREATE" /\ q[Len(q)].ports = S
  /\ \A i \in DOMAIN q : q[i].cmd = "CREATE" => i = Len(q)

\* The ports of a handle the card knows are open there, and stay so.
Backed ==
  \A p \in Procs, d \in Devices : <<p, d>> \in handles \cap known =>
    devPorts[p][d] \subseteq devOpen[d] /\ Spares(toDev[d], devPorts[p][d])

\* A create that was sent when the card owed nothing waits for the only answer.
OwnAnswer ==
  pending # NoCreate /\ <<pending.proc, pending.dev>> \in known =>
    \/ /\ mailbox[pending.dev] = <<>>
       /\ EndsInCreate(toDev[pending.dev], pending.ports)
    \/ /\ toDev[pending.dev] = <<>> /\ Len(mailbox[pending.dev]) = 1
       /\ \/ Head(mailbox[pending.dev]) = "FAIL"
          \/ pending.ports \subseteq devOpen[pending.dev]

LEMMA SentSpares ==
  ASSUME NEW q \in Seq(Message), NEW m \in Message, NEW S, Spares(q, S),
         m.cmd = "CREATE" \/ m.ports \cap S = {}
  PROVE  Spares(Append(q, m), S)
<1> SUFFICES ASSUME NEW i \in DOMAIN Append(q, m), Append(q, m)[i].cmd = "DESTROY"
             PROVE  Append(q, m)[i].ports \cap S = {}
  BY DEF Spares
<1>1. CASE i = Len(q) + 1
  BY <1>1
<1>2. CASE i # Len(q) + 1
  BY <1>2 DEF Spares
<1> QED BY <1>1, <1>2

LEMMA ServedSpares ==
  ASSUME NEW q \in Seq(Message), q # <<>>, NEW S, Spares(q, S)
  PROVE  Spares(Tail(q), S) /\ (Head(q).cmd = "DESTROY" => Head(q).ports \cap S = {})
<1>1. Head(q) = q[1] /\ 1 \in DOMAIN q
  OBVIOUS
<1>2. \A i \in DOMAIN Tail(q) : i + 1 \in DOMAIN q /\ Tail(q)[i] = q[i + 1]
  OBVIOUS
<1> QED BY <1>1, <1>2 DEF Spares

LEMMA SentCreate ==
  ASSUME NEW q \in Seq(Message), NEW m \in Message, m.cmd = "CREATE",
         \A i \in DOMAIN q : q[i].cmd # "CREATE"
  PROVE  EndsInCreate(Append(q, m), m.ports)
<1>1. Len(Append(q, m)) = Len(q) + 1 /\ Append(q, m)[Len(q) + 1] = m /\ Append(q, m) # <<>>
  OBVIOUS
<1>2. \A i \in DOMAIN Append(q, m) : i # Len(q) + 1 => i \in DOMAIN q /\ Append(q, m)[i] = q[i]
  OBVIOUS
<1> QED BY <1>1, <1>2 DEF EndsInCreate

LEMMA ServedCreate ==
  ASSUME NEW q \in Seq(Message), NEW S, EndsInCreate(q, S)
  PROVE  \/ Head(q).cmd = "CREATE" /\ Head(q).ports = S /\ Tail(q) = <<>>
         \/ Head(q).cmd = "DESTROY" /\ EndsInCreate(Tail(q), S)
<1>0. q # <<>> /\ q[Len(q)].cmd = "CREATE" /\ q[Len(q)].ports = S
  BY DEF EndsInCreate
<1>1. Head(q) = q[1] /\ 1 \in DOMAIN q /\ Len(q) \in Nat \ {0} /\ q[1].cmd \in {"CREATE", "DESTROY"}
  <2>1. Head(q) = q[1] /\ 1 \in DOMAIN q /\ Len(q) \in Nat \ {0}
    BY <1>0
  <2>2. q[1] \in Message
    BY <2>1
  <2> QED BY <2>1, <2>2 DEF Message
<1>2. CASE Len(q) = 1
  <2>1. Tail(q) \in Seq(Message) /\ Len(Tail(q)) = 0
    BY <1>0, <1>2
  <2>2. \A s \in Seq(Message) : Len(s) = 0 => s = <<>>
    OBVIOUS
  <2>3. Tail(q) = <<>>
    BY <2>1, <2>2, Zenon
  <2> QED BY <1>0, <1>1, <1>2, <2>3
<1>3. CASE Len(q) > 1
  <2>1. /\ Tail(q) # <<>> /\ Len(Tail(q)) = Len(q) - 1
        /\ \A i \in DOMAIN Tail(q) : i \in Nat /\ i + 1 \in DOMAIN q /\ Tail(q)[i] = q[i + 1]
        /\ Len(q) - 1 \in DOMAIN Tail(q)
    BY <1>3
  <2>2. EndsInCreate(Tail(q), S)
    BY <1>1, <2>1 DEF EndsInCreate
  <2>3. q[1].cmd # "CREATE"
    BY <1>1, <1>3 DEF EndsInCreate
  <2>4. Head(q).cmd = "DESTROY"
    BY <1>1, <2>3
  <2> QED BY <2>2, <2>4, Zenon
<1>4. Len(q) = 1 \/ Len(q) > 1
  <2> DEFINE n == Len(q)
  <2>1. n \in Nat /\ n # 0
    BY <1>0
  <2> HIDE DEF n
  <2>2. n = 1 \/ n > 1
    BY <2>1
  <2> QED BY <2>2 DEF n
<1> QED BY <1>2, <1>3, <1>4, Zenon

\* A card that owes no answer has no CREATE to serve.
LEMMA OwesNothing ==
  ASSUME TypeOK, NEW d \in Devices, Replies(d) = 0
  PROVE  mailbox[d] = <<>> /\ \A i \in DOMAIN toDev[d] : toDev[d][i].cmd # "CREATE"
<1>1. toDev[d] \in Seq(Message) /\ mailbox[d] \in Seq(Answer)
  BY DEF TypeOK
<1>2. IsFiniteSet(Creates(toDev[d]))
  <2>1. IsFiniteSet(1..Len(toDev[d]))
    BY <1>1, FS_Interval
  <2>2. Creates(toDev[d]) \subseteq 1..Len(toDev[d])
    BY <1>1 DEF Creates
  <2> QED BY <2>1, <2>2, FS_Subset
<1>3. Cardinality(Creates(toDev[d])) \in Nat /\ Len(mailbox[d]) \in Nat
  BY <1>1, <1>2, FS_CardinalityType
<1>4. Cardinality(Creates(toDev[d])) = 0 /\ Len(mailbox[d]) = 0
  BY <1>3 DEF Replies
<1>5. Creates(toDev[d]) = {}
  BY <1>2, <1>4, FS_EmptySet
<1> QED BY <1>1, <1>4, <1>5 DEF Creates

\* Nothing a handle relies on changes on a card that only loses handles.
LEMMA BackedLess ==
  ASSUME PortInv, Backed, NEW H \in SUBSET (Procs \X Devices), DropHandles(H), known' \subseteq known,
         \A d \in Devices : (\E p \in Procs : <<p, d>> \in handles' \cap known') =>
           /\ devOpen'[d] = devOpen[d]
           /\ \/ toDev'[d] = toDev[d]
              \/ \E m \in Message :
                   /\ toDev'[d] = Append(toDev[d], m)
                   /\ \A p \in Procs : <<p, d>> \in handles' \cap known' =>
                        m.ports \cap devPorts[p][d] = {}
  PROVE  Backed'
<1> SUFFICES ASSUME NEW p \in Procs, NEW d \in Devices, <<p, d>> \in handles' \cap known'
             PROVE  devPorts'[p][d] \subseteq devOpen'[d] /\ Spares(toDev'[d], devPorts'[p][d])
  BY DEF Backed
<1>1. <<p, d>> \in handles \cap known /\ <<p, d>> \notin H
  BY DEF DropHandles
<1>2. devPorts'[p][d] = devPorts[p][d] /\ devPorts[p][d] \subseteq Own(p, d)
  BY <1>1, DropOwn DEF Own
<1>3. devPorts[p][d] \subseteq devOpen[d] /\ Spares(toDev[d], devPorts[p][d])
  BY <1>1 DEF Backed
<1>4. devOpen'[d] = devOpen[d]
  OBVIOUS
<1>5. CASE toDev'[d] = toDev[d]
  BY <1>2, <1>3, <1>4, <1>5
<1>6. ASSUME NEW m \in Message, toDev'[d] = Append(toDev[d], m), m.ports \cap devPorts[p][d] = {}
      PROVE  Spares(toDev'[d], devPorts[p][d])
  <2>1. toDev[d] \in Seq(Message)
    BY DEF PortInv, TypeOK
  <2> QED BY <1>3, <1>6, <2>1, SentSpares
<1> QED BY <1>2, <1>3, <1>4, <1>5, <1>6

\* No other handle on d holds a port that p's handle holds.
LEMMA OthersSpared ==
  ASSUME PortInv, NEW p \in Procs, NEW d \in Devices
  PROVE  /\ [cmd |-> "DESTROY", ports |-> devPorts[p][d]] \in Message
         /\ \A q \in Procs : q # p => devPorts[p][d] \cap devPorts[q][d] = {}
<1>1. \A q \in Procs : devPorts[q][d] \subseteq Own(q, d)
  BY DEF Own
<1> QED BY <1>1 DEF PortInv, TypeOK, Message, PortsDisjoint

\* A DESTROY closes ports of no handle that stays known.
LEMMA DestroyBacked ==
  ASSUME PortInv, Backed, NEW p \in Procs, NEW d \in Devices, NEW asked \in SUBSET Ports,
         Destroy(p, d, asked) \/ DestroySendFails(p, d, asked)
  PROVE  Backed'
<1> DEFINE m == [cmd |-> "DESTROY", ports |-> asked]
<1>1. m \in Message /\ m.ports = asked
  BY DEF Message
<1>2. toDev \in [Devices -> Seq(Message)]
  BY DEF PortInv, TypeOK
<1>3. ASSUME NEW q \in Procs, <<q, d>> \in handles, <<q, d>> \notin Named(d, asked)
      PROVE  m.ports \cap devPorts[q][d] = {}
  BY <1>3 DEF Named
<1>4. CASE Destroy(p, d, asked)
  <2>1. DropHandles({<<p, d>>}) /\ {<<p, d>>} \in SUBSET (Procs \X Devices)
        /\ known' \subseteq known \ Named(d, asked) /\ devOpen' = devOpen
        /\ handles' \subseteq handles
    BY <1>4 DEF Destroy, DropHandles
  <2>2. \A e \in Devices : toDev'[e] = IF e = d THEN Append(toDev[d], m) ELSE toDev[e]
    BY <1>2, <1>4 DEF Destroy, SendOk
  <2> HIDE DEF m
  <2>3. \A e \in Devices :
          \/ toDev'[e] = toDev[e]
          \/ \E n \in Message :
               /\ toDev'[e] = Append(toDev[e], n)
               /\ \A q \in Procs : <<q, e>> \in handles' \cap known' =>
                    n.ports \cap devPorts[q][e] = {}
    BY <1>1, <1>3, <2>1, <2>2
  <2> QED BY <2>1, <2>3, BackedLess
<1>5. CASE DestroySendFails(p, d, asked)
  <2>1. UNCHANGED <<handles, devPorts, devOpen>>
        /\ (toDev' = toDev \/ toDev' = [toDev EXCEPT ![d] = Append(@, m)])
        /\ known' = IF toDev' = toDev THEN known ELSE known \ Named(d, asked)
    BY <1>5 DEF DestroySendFails, SendFails, SendOk, hostVars
  <2>2. CASE toDev' = toDev
    BY <2>1, <2>2 DEF Backed
  <2>3. CASE toDev' # toDev
    <3>1. \A e \in Devices : toDev'[e] = IF e = d THEN Append(toDev[d], m) ELSE toDev[e]
      BY <1>2, <2>1, <2>3
    <3> HIDE DEF m
    <3> SUFFICES ASSUME NEW q \in Procs, NEW e \in Devices, <<q, e>> \in handles' \cap known'
                 PROVE  devPorts'[q][e] \subseteq devOpen'[e] /\ Spares(toDev'[e], devPorts'[q][e])
      BY DEF Backed
    <3>2. <<q, e>> \in handles \cap known /\ <<q, e>> \notin Named(d, asked)
      BY <2>1, <2>3
    <3>3. devPorts[q][e] \subseteq devOpen[e] /\ Spares(toDev[e], devPorts[q][e])
      BY <3>2 DEF Backed
    <3>4. e = d => m.ports \cap devPorts[q][e] = {}
      BY <1>3, <3>2
    <3>5. Spares(toDev'[e], devPorts[q][e])
      BY <1>1, <1>2, <3>1, <3>3, <3>4, SentSpares
    <3> QED BY <2>1, <3>3, <3>5
  <2> QED BY <2>2, <2>3
<1> QED BY <1>4, <1>5

LEMMA ReleaseBacked ==
  ASSUME PortInv, Backed, NEW p \in Procs, Release(p)
  PROVE  Backed'
<1> DEFINE mine == {d \in Devices : <<p, d>> \in handles}
           m(d) == [cmd |-> "DESTROY", ports |-> devPorts[p][d]]
<1>1. /\ DropHandles({p} \X mine) /\ {p} \X mine \in SUBSET (Procs \X Devices)
      /\ known' \subseteq known /\ devOpen' = devOpen
  BY DEF Release
<1>2. \A d \in Devices : <<p, d>> \notin handles'
  BY <1>1 DEF DropHandles
<1>3. \A d \in Devices : toDev'[d] = toDev[d] \/ toDev'[d] = Append(toDev[d], m(d))
  BY DEF Release
<1>4. ASSUME NEW d \in Devices, toDev'[d] = Append(toDev[d], m(d))
      PROVE  \E n \in Message :
               /\ toDev'[d] = Append(toDev[d], n)
               /\ \A q \in Procs : <<q, d>> \in handles' \cap known' =>
                    n.ports \cap devPorts[q][d] = {}
  <2>1. m(d) \in Message /\ \A q \in Procs : q # p => m(d).ports \cap devPorts[q][d] = {}
    BY OthersSpared
  <2> QED BY <1>2, <1>4, <2>1
<1> QED BY <1>1, <1>3, <1>4, BackedLess

\* A card that stops knows no handle any more.
LEMMA StopsBacked ==
  ASSUME PortInv, Backed, NEW d \in Devices,
         \/ \E p \in Procs : ResetDevice(p, d) \/ BootDevice(p, d)
         \/ HeartbeatLost(d)
  PROVE  Backed'
<1>1. ASSUME NEW p \in Procs, ResetDevice(p, d) \/ BootDevice(p, d)
      PROVE  Backed'
  <2>1. /\ DropHandles({<<p, d>>}) /\ {<<p, d>>} \in SUBSET (Procs \X Devices)
        /\ known' = known \ (Procs \X {d}) /\ devOpen' = [devOpen EXCEPT ![d] = {}]
        /\ toDev' = toDev \/ toDev' = [toDev EXCEPT ![d] = <<>>]
    BY <1>1 DEF ResetDevice, BootDevice, StopCard
  <2>2. \A e \in Devices : e # d => devOpen'[e] = devOpen[e] /\ toDev'[e] = toDev[e]
    BY <2>1 DEF PortInv, TypeOK
  <2> QED BY <2>1, <2>2, BackedLess
<1>2. CASE HeartbeatLost(d)
  <2>1. /\ DropHandles(Procs \X {d}) /\ Procs \X {d} \in SUBSET (Procs \X Devices)
        /\ known' \subseteq known /\ UNCHANGED <<devOpen, toDev>>
    BY <1>2 DEF HeartbeatLost
  <2> QED BY <2>1, BackedLess
<1> QED BY <1>1, <1>2

LEMMA CrashBacked ==
  ASSUME PortInv, Backed, NEW d \in Devices, DeviceCrash(d)
  PROVE  Backed'
<1>1. /\ UNCHANGED <<handles, devPorts, toDev>>
      /\ known' = known \ (Procs \X {d}) /\ devOpen' = [devOpen EXCEPT ![d] = {}]
  BY DEF DeviceCrash, StopCard, hostVars
<1>2. \A e \in Devices : e # d => devOpen'[e] = devOpen[e]
  BY <1>1 DEF PortInv, TypeOK
<1> QED BY <1>1, <1>2 DEF Backed

\* The card serves a message: a CREATE opens ports, and a DESTROY closes none
\* of a handle that is backed.
LEMMA ServeBacked ==
  ASSUME PortInv, Backed, NEW d \in Devices, DeviceServe(d)
  PROVE  Backed'
<1> DEFINE m == Head(toDev[d])
<1>1. /\ UNCHANGED <<handles, devPorts, known>> /\ toDev[d] # <<>>
      /\ toDev' = [toDev EXCEPT ![d] = Tail(@)]
      /\ \/ devOpen' = [devOpen EXCEPT ![d] = @ \cup m.ports]
         \/ devOpen' = devOpen
         \/ m.cmd = "DESTROY" /\ devOpen' = [devOpen EXCEPT ![d] = @ \ m.ports]
  BY DEF DeviceServe, hostVars
<1> SUFFICES ASSUME NEW p \in Procs, NEW e \in Devices, <<p, e>> \in handles' \cap known'
             PROVE  devPorts'[p][e] \subseteq devOpen'[e] /\ Spares(toDev'[e], devPorts'[p][e])
  BY DEF Backed
<1>2. devPorts[p][e] \subseteq devOpen[e] /\ Spares(toDev[e], devPorts[p][e])
  BY <1>1 DEF Backed
<1>3. toDev \in [Devices -> Seq(Message)] /\ devOpen \in [Devices -> SUBSET Ports]
  BY DEF PortInv, TypeOK
<1>4. CASE e = d
  <2>1. Spares(Tail(toDev[d]), devPorts[p][d])
        /\ (m.cmd = "DESTROY" => m.ports \cap devPorts[p][d] = {})
    BY <1>1, <1>2, <1>3, <1>4, ServedSpares
  <2>2. toDev'[d] = Tail(toDev[d])
    BY <1>1, <1>3
  <2>3. \/ devOpen'[d] = devOpen[d] \cup m.ports
        \/ devOpen'[d] = devOpen[d]
        \/ m.cmd = "DESTROY" /\ devOpen'[d] = devOpen[d] \ m.ports
    BY <1>1, <1>3
  <2> QED BY <1>1, <1>2, <1>4, <2>1, <2>2, <2>3
<1>5. CASE e # d
  <2>1. devOpen'[e] = devOpen[e] /\ toDev'[e] = toDev[e]
    BY <1>1, <1>3, <1>5
  <2> QED BY <1>1, <1>2, <2>1
<1> QED BY <1>4, <1>5

LEMMA CreateBacked ==
  ASSUME PortInv, Backed, NEW p \in Procs, NEW d \in Devices,
         CreateSend(p, d) \/ CreateSendFails(p, d)
  PROVE  Backed'
<1> DEFINE m == [cmd |-> "CREATE", ports |-> FirstFit(Free(d), MaxPort)]
<1>1. m \in Message /\ m.cmd = "CREATE"
  BY FirstFitSubset DEF Message, Free
<1>2. /\ UNCHANGED <<handles, devPorts, devOpen>> /\ <<p, d>> \notin handles
      /\ known' \subseteq known \cup {<<p, d>>}
      /\ toDev' = toDev \/ toDev' = [toDev EXCEPT ![d] = Append(@, m)]
  BY DEF CreateSend, CreateSendFails, SendOk, SendFails
<1> HIDE DEF m
<1>3. toDev \in [Devices -> Seq(Message)]
  BY DEF PortInv, TypeOK
<1> SUFFICES ASSUME NEW q \in Procs, NEW e \in Devices, <<q, e>> \in handles' \cap known'
             PROVE  devPorts'[q][e] \subseteq devOpen'[e] /\ Spares(toDev'[e], devPorts'[q][e])
  BY DEF Backed
<1>4. <<q, e>> \in handles \cap known
  BY <1>2
<1>5. devPorts[q][e] \subseteq devOpen[e] /\ Spares(toDev[e], devPorts[q][e])
  BY <1>4 DEF Backed
<1>6. toDev'[e] = toDev[e] \/ toDev'[e] = Append(toDev[e], m)
  BY <1>2, <1>3
<1>7. Spares(Append(toDev[e], m), devPorts[q][e])
  BY <1>1, <1>3, <1>5, SentSpares
<1> QED BY <1>2, <1>5, <1>6, <1>7

\* The new handle is known to the card: nothing is left in the queue.
LEMMA AnsweredBacked ==
  ASSUME PortInv, Backed, OwnAnswer, CreateAnswered
  PROVE  Backed'
<1> DEFINE p == pending.proc
           d == pending.dev
<1>1. pending # NoCreate /\ mailbox[d] # <<>> /\ UNCHANGED <<toDev, devOpen>> /\ known' \subseteq known
  BY DEF CreateAnswered
<1>2. p \in Procs /\ d \in Devices
  BY <1>1, PendingType DEF PortInv
<1>3. CASE handles' = handles /\ devPorts' = devPorts
  BY <1>1, <1>3 DEF Backed
<1>4. CASE /\ Head(mailbox[d]) # "FAIL"
           /\ handles' = handles \cup {<<p, d>>}
           /\ devPorts' = [devPorts EXCEPT ![p][d] = pending.ports]
  <2> SUFFICES ASSUME NEW q \in Procs, NEW e \in Devices, <<q, e>> \in handles' \cap known'
               PROVE  devPorts'[q][e] \subseteq devOpen'[e] /\ Spares(toDev'[e], devPorts'[q][e])
    BY DEF Backed
  <2>1. devPorts'[q][e] = IF q = p /\ e = d THEN pending.ports ELSE devPorts[q][e]
    BY <1>2, <1>4 DEF PortInv, TypeOK
  <2>2. CASE q = p /\ e = d
    <3>1. toDev[d] = <<>> /\ pending.ports \subseteq devOpen[d]
      BY <1>1, <1>4, <2>2 DEF OwnAnswer
    <3>2. Spares(<<>>, pending.ports)
      BY DEF Spares
    <3> QED BY <1>1, <2>1, <2>2, <3>1, <3>2
  <2>3. CASE ~(q = p /\ e = d)
    BY <1>1, <1>4, <2>1, <2>3 DEF Backed
  <2> QED BY <2>2, <2>3
<1> QED BY <1>3, <1>4 DEF CreateAnswered, Confirms

LEMMA BackedStep ==
  ASSUME PortInv, Backed, OwnAnswer, [PortsNext]_portsVars
  PROVE  Backed'
<1>1. ASSUME UNCHANGED <<handles, devPorts, toDev, devOpen>>, known' \subseteq known
      PROVE  Backed'
  BY <1>1 DEF Backed
<1>2. ASSUME \/ \E p \in Procs : Open(p)
             \/ \E p \in Procs, d \in Devices, n \in 1..MaxPort : RequestUsrPort(p, d, n)
             \/ \E p \in Procs, d \in Devices : \E s \in usrPorts[p][d] : RecycleUsrPort(p, d, s)
             \/ CreateTimeout \/ UNCHANGED portsVars
      PROVE  Backed'
  BY <1>1, <1>2 DEF Open, RequestUsrPort, RecycleUsrPort, CreateTimeout, portsVars, hostVars, cardVars
<1> QED
  BY <1>2, DestroyBacked, ReleaseBacked, StopsBacked, CrashBacked, ServeBacked, CreateBacked,
     AnsweredBacked, AskedType DEF PortInv, PortsNext, PortsIoctl, PortManage

LEMMA OwnAnswerServed ==
  ASSUME PortInv, OwnAnswer, NEW d \in Devices, DeviceServe(d)
  PROVE  OwnAnswer'
<1> DEFINE m == Head(toDev[d])
           e == pending.dev
<1> SUFFICES ASSUME pending # NoCreate, <<pending.proc, e>> \in known'
             PROVE  OwnAnswer'
  BY DEF OwnAnswer, DeviceServe, hostVars
<1>1. UNCHANGED <<pending, known>> /\ toDev[d] # <<>> /\ toDev' = [toDev EXCEPT ![d] = Tail(@)]
  BY DEF DeviceServe, hostVars
<1>2. /\ toDev \in [Devices -> Seq(Message)] /\ mailbox \in [Devices -> Seq(Answer)]
      /\ devOpen \in [Devices -> SUBSET Ports] /\ e \in Devices
  BY PendingType DEF PortInv, TypeOK
<1>3. CASE e # d
  <2>1. toDev'[e] = toDev[e] /\ mailbox'[e] = mailbox[e] /\ devOpen'[e] = devOpen[e]
    BY <1>1, <1>2, <1>3 DEF DeviceServe
  <2> QED BY <1>1, <2>1 DEF OwnAnswer
<1>4. CASE e = d
  <2>1. mailbox[d] = <<>> /\ EndsInCreate(toDev[d], pending.ports)
    BY <1>1, <1>4 DEF OwnAnswer
  <2>2. toDev'[d] = Tail(toDev[d])
    BY <1>1, <1>2
  <2>3. CASE m.cmd = "CREATE" /\ m.ports = pending.ports /\ Tail(toDev[d]) = <<>>
    <3>1. \/ mailbox'[d] = <<"COMPLETION">> /\ devOpen'[d] = devOpen[d] \cup m.ports
          \/ mailbox'[d] = <<"FAIL">>
      BY <1>2, <2>1, <2>3 DEF DeviceServe
    <3>2. Len(mailbox'[d]) = 1 /\ (Head(mailbox'[d]) = "FAIL" \/ pending.ports \subseteq devOpen'[d])
      <4>1. CASE mailbox'[d] = <<"FAIL">>
        BY <4>1
      <4>2. CASE mailbox'[d] = <<"COMPLETION">> /\ devOpen'[d] = devOpen[d] \cup m.ports
        <5>1. Len(mailbox'[d]) = 1
          BY <4>2
        <5>2. pending.ports \subseteq devOpen'[d]
          BY <2>3, <4>2
        <5> QED BY <5>1, <5>2
      <4> QED BY <3>1, <4>1, <4>2
    <3> QED BY <1>1, <1>4, <2>2, <2>3, <3>2 DEF OwnAnswer
  <2>4. CASE m.cmd = "DESTROY" /\ EndsInCreate(Tail(toDev[d]), pending.ports)
    <3>1. mailbox' = mailbox
      BY <2>4 DEF DeviceServe
    <3> QED BY <1>1, <1>4, <2>1, <2>2, <2>4, <3>1 DEF OwnAnswer
  <2> QED BY <1>2, <2>1, <2>3, <2>4, ServedCreate
<1> QED BY <1>3, <1>4

LEMMA OwnAnswerStep ==
  ASSUME PortInv, OwnAnswer, [PortsNext]_portsVars
  PROVE  OwnAnswer'
<1>1. ASSUME NEW p \in Procs, NEW d \in Devices, CreateSend(p, d)
      PROVE  OwnAnswer'
  <2> DEFINE m == [cmd |-> "CREATE", ports |-> FirstFit(Free(d), MaxPort)]
  <2>1. m \in Message /\ m.cmd = "CREATE"
    BY FirstFitSubset DEF Message, Free
  <2>2. /\ pending' = [proc |-> p, dev |-> d, ports |-> m.ports]
        /\ toDev' = [toDev EXCEPT ![d] = Append(@, m)] /\ mailbox' = mailbox
        /\ known' = IF up[d] /\ Replies(d) = 0 THEN known \cup {<<p, d>>}
                     ELSE known \ {<<p, d>>}
    BY <1>1 DEF CreateSend, SendOk
  <2> HIDE DEF m
  <2>3. toDev \in [Devices -> Seq(Message)] /\ TypeOK
    BY DEF PortInv, TypeOK
  <2>4. pending'.proc = p /\ pending'.dev = d /\ pending'.ports = m.ports
    BY <2>2
  <2>5. toDev'[d] = Append(toDev[d], m)
    BY <2>2, <2>3
  <2> SUFFICES ASSUME <<p, d>> \in known' PROVE OwnAnswer'
    BY <2>4 DEF OwnAnswer
  <2>6. Replies(d) = 0
    BY <2>2
  <2>7. mailbox[d] = <<>> /\ \A i \in DOMAIN toDev[d] : toDev[d][i].cmd # "CREATE"
    BY <2>3, <2>6, OwesNothing
  <2>8. EndsInCreate(toDev'[d], m.ports)
    BY <2>1, <2>3, <2>5, <2>7, SentCreate
  <2> QED BY <2>2, <2>4, <2>7, <2>8 DEF OwnAnswer
<1>2. ASSUME pending' = NoCreate
      PROVE  OwnAnswer'
  BY <1>2 DEF OwnAnswer
<1>3. ASSUME NEW d \in Devices, DeviceCrash(d)
      PROVE  OwnAnswer'
  <2>1. UNCHANGED <<pending, toDev, mailbox>> /\ known' = known \ (Procs \X {d})
        /\ devOpen' = [devOpen EXCEPT ![d] = {}]
    BY <1>3 DEF DeviceCrash, StopCard, hostVars
  <2>2. pending # NoCreate => pending.proc \in Procs /\ pending.dev \in Devices
    BY PendingType DEF PortInv
  <2>3. pending # NoCreate /\ pending.dev # d => devOpen'[pending.dev] = devOpen[pending.dev]
    BY <2>1, <2>2 DEF PortInv, TypeOK
  <2> QED BY <2>1, <2>2, <2>3 DEF OwnAnswer
<1>4. ASSUME UNCHANGED portsVars
      PROVE  OwnAnswer'
  BY <1>4 DEF OwnAnswer, portsVars, hostVars, cardVars
<1>5. ASSUME \/ \E p \in Procs : Open(p) \/ Release(p)
             \/ \E p \in Procs, d \in Devices :
                  \/ CreateSendFails(p, d)
                  \/ \E asked : Destroy(p, d, asked) \/ DestroySendFails(p, d, asked)
                  \/ ResetDevice(p, d) \/ BootDevice(p, d)
                  \/ \E n \in 1..MaxPort : RequestUsrPort(p, d, n)
                  \/ \E s \in usrPorts[p][d] : RecycleUsrPort(p, d, s)
             \/ \E d \in Devices : HeartbeatLost(d)
             \/ CreateAnswered \/ CreateTimeout
      PROVE  pending' = NoCreate
  <2>1. ASSUME NEW p \in Procs, Open(p) \/ Release(p)
        PROVE  pending' = NoCreate
    BY <2>1 DEF Open, Release, MutexFree
  <2>2. ASSUME NEW p \in Procs, NEW d \in Devices,
               \/ CreateSendFails(p, d)
               \/ \E asked : Destroy(p, d, asked) \/ DestroySendFails(p, d, asked)
        PROVE  pending' = NoCreate
    BY <2>2 DEF CreateSendFails, Destroy, DestroySendFails, MutexFree, hostVars
  <2>3. ASSUME NEW p \in Procs, NEW d \in Devices, ResetDevice(p, d) \/ BootDevice(p, d)
        PROVE  pending' = NoCreate
    BY <2>3 DEF ResetDevice, BootDevice, MutexFree
  <2>4. ASSUME NEW p \in Procs, NEW d \in Devices,
               \/ \E n \in 1..MaxPort : RequestUsrPort(p, d, n)
               \/ \E s \in usrPorts[p][d] : RecycleUsrPort(p, d, s)
        PROVE  pending' = NoCreate
    BY <2>4 DEF RequestUsrPort, RecycleUsrPort, MutexFree
  <2>5. ASSUME NEW d \in Devices, HeartbeatLost(d)
        PROVE  pending' = NoCreate
    BY <2>5 DEF HeartbeatLost, MutexFree
  <2>6. CASE CreateAnswered \/ CreateTimeout
    BY <2>6 DEF CreateAnswered, CreateTimeout
  <2> QED BY <1>5, <2>1, <2>2, <2>3, <2>4, <2>5, <2>6
<1> QED
  BY <1>1, <1>2, <1>3, <1>4, <1>5, OwnAnswerServed DEF PortsNext, PortsIoctl, PortManage

\* The ports of a handle are open on the card, although no answer says which
\* request it answers (axcl_pcie_port_create, axcl_pcie_recv).
THEOREM HandlesAreBacked == PortsSpec => []HandleBacked
<1>1. PortsInit => PortInv /\ Backed /\ OwnAnswer
  BY InitPortInv DEF PortsInit, Backed, OwnAnswer
<1>2. PortInv /\ Backed /\ OwnAnswer /\ [PortsNext]_portsVars => (PortInv /\ Backed /\ OwnAnswer)'
  BY NextPortInv, BackedStep, OwnAnswerStep
<1>3. Backed => HandleBacked
  BY DEF Backed, HandleBacked
<1> QED
  BY <1>1, <1>2, <1>3, PTL DEF PortsSpec

-----------------------------------------------------------------------------
(* Answers that nobody waits for.                                          *)

LEMMA CreatesCount ==
  ASSUME NEW q \in Seq(Message)
  PROVE  IsFiniteSet(Creates(q)) /\ Cardinality(Creates(q)) \in Nat
<1>1. Creates(q) \in SUBSET (1..Len(q)) /\ Len(q) \in Nat
  BY DEF Creates
<1>2. IsFiniteSet(1..Len(q))
  BY <1>1, FS_Interval
<1> QED BY <1>1, <1>2, FS_Subset, FS_CardinalityType

LEMMA SentCount ==
  ASSUME NEW q \in Seq(Message), NEW m \in Message
  PROVE  Cardinality(Creates(Append(q, m))) =
           Cardinality(Creates(q)) + (IF m.cmd = "CREATE" THEN 1 ELSE 0)
<1> DEFINE s == Append(q, m)
           n == Len(q) + 1
<1>1. /\ DOMAIN s = 1..n /\ s[n] = m /\ n \in DOMAIN s /\ n \notin DOMAIN q
      /\ \A i \in DOMAIN s : i # n => i \in DOMAIN q /\ s[i] = q[i]
      /\ \A i \in DOMAIN q : i \in DOMAIN s /\ s[i] = q[i]
  OBVIOUS
<1> HIDE DEF s, n
<1>2. CASE m.cmd = "CREATE"
  <2>1. Creates(s) = Creates(q) \cup {n} /\ n \notin Creates(q)
    BY <1>1, <1>2 DEF Creates
  <2>2. Cardinality(Creates(q) \cup {n}) = Cardinality(Creates(q)) + 1
    BY <2>1, CreatesCount, FS_AddElement
  <2> QED BY <1>2, <2>1, <2>2 DEF s
<1>3. CASE m.cmd # "CREATE"
  <2>1. Creates(s) = Creates(q)
    BY <1>1, <1>3 DEF Creates
  <2> QED BY <1>3, <2>1, CreatesCount DEF s
<1> QED BY <1>2, <1>3

LEMMA ServedCount ==
  ASSUME NEW q \in Seq(Message), q # <<>>
  PROVE  Cardinality(Creates(q)) =
           Cardinality(Creates(Tail(q))) + (IF Head(q).cmd = "CREATE" THEN 1 ELSE 0)
<1> DEFINE t == Tail(q)
           rest == Creates(q) \ {1}
           f == [i \in Creates(t) |-> i + 1]
<1>1. /\ t \in Seq(Message) /\ Head(q) = q[1] /\ 1 \in DOMAIN q
      /\ \A i \in DOMAIN t : i \in Nat \ {0} /\ i + 1 \in DOMAIN q /\ t[i] = q[i + 1]
      /\ \A i \in DOMAIN q : i \in Nat /\ (i # 1 => i - 1 \in DOMAIN t)
  OBVIOUS
<1> HIDE DEF t
<1>2. f \in Bijection(Creates(t), rest)
  <2>1. \A i \in Creates(t) : i \in Nat \ {0} /\ i + 1 \in rest
    BY <1>1 DEF Creates
  <2>2. f \in [Creates(t) -> rest]
    BY <2>1
  <2>3. \A i, j \in Creates(t) : f[i] = f[j] => i = j
    BY <2>1
  <2>4. ASSUME NEW k \in rest PROVE \E i \in Creates(t) : f[i] = k
    <3>1. k \in DOMAIN q /\ k # 1 /\ k \in Nat /\ k - 1 \in DOMAIN t
      BY <1>1 DEF Creates
    <3>2. t[k - 1] = q[k]
      BY <1>1, <3>1
    <3>3. k - 1 \in Creates(t)
      BY <3>1, <3>2 DEF Creates
    <3> QED BY <3>1, <3>3
  <2> QED BY <2>2, <2>3, <2>4 DEF Bijection, Injection, Surjection, IsInjective
<1>3. Cardinality(rest) = Cardinality(Creates(t))
  BY <1>1, <1>2, CreatesCount, FS_Bijection DEF ExistsBijection
<1>4. Cardinality(rest) = Cardinality(Creates(q)) - (IF Head(q).cmd = "CREATE" THEN 1 ELSE 0)
  <2>1. 1 \in Creates(q) <=> Head(q).cmd = "CREATE"
    BY <1>1 DEF Creates
  <2>2. CASE Head(q).cmd = "CREATE"
    <3>1. Cardinality(Creates(q) \ {1}) = Cardinality(Creates(q)) - 1
      BY <2>1, <2>2, CreatesCount, FS_RemoveElement
    <3> QED BY <2>2, <3>1
  <2>3. CASE Head(q).cmd # "CREATE"
    <3>1. rest = Creates(q)
      BY <2>1, <2>3
    <3>2. Cardinality(rest) = Cardinality(Creates(q))
      BY <3>1
    <3> HIDE DEF rest
    <3> QED BY <2>3, <3>2, CreatesCount
  <2> QED BY <2>2, <2>3
<1>5. Cardinality(Creates(q)) \in Nat /\ Cardinality(Creates(t)) \in Nat
  BY <1>1, CreatesCount
<1> QED BY <1>3, <1>4, <1>5 DEF t

LEMMA SkewSum ==
  ASSUME NEW d \in Devices
  PROVE  Skew(d) = (Cardinality(Creates(toDev[d])) + Len(mailbox[d])) - Waits(d)
BY DEF Skew, Replies

LEMMA SkewSumNext ==
  ASSUME NEW d \in Devices
  PROVE  Skew(d)' = (Cardinality(Creates(toDev'[d])) + Len(mailbox'[d])) - Waits(d)'
<1>1. Creates(toDev[d])' = Creates(toDev'[d])
  BY DEF Creates
<1>2. Skew(d)' = (Cardinality(Creates(toDev[d])') + Len(mailbox'[d])) - Waits(d)'
  BY DEF Skew, Replies
<1> QED BY <1>1, <1>2

\* Where neither the queue, the mailbox nor the wait changes.
LEMMA SkewSame ==
  ASSUME NEW d \in Devices, toDev'[d] = toDev[d], mailbox'[d] = mailbox[d], pending' = pending
  PROVE  Skew(d)' = Skew(d)
<1>1. Creates(toDev'[d]) = Creates(toDev[d])
  BY DEF Creates
<1>2. Cardinality(Creates(toDev'[d])) = Cardinality(Creates(toDev[d]))
  BY <1>1
<1>3. Waits(d)' = Waits(d)
  BY DEF Waits
<1> QED BY <1>2, <1>3, SkewSum, SkewSumNext

LEMMA WaitsType ==
  ASSUME NEW d \in Devices
  PROVE  Waits(d) \in {0, 1} /\ Waits(d)' \in {0, 1}
BY DEF Waits

LEMMA NoSmaller ==
  ASSUME NEW a \in Nat, NEW l \in Nat, NEW w \in {0, 1}, NEW v \in {0, 1}, NEW k \in {0, 1}, v <= w + k
  PROVE  ~(((a + k) + l) - v < (a + l) - w)
OBVIOUS

LEMMA SkewStep ==
  ASSUME TypeOK, [PortsNext]_portsVars, NEW d \in Devices, Skew(d)' < Skew(d)
  PROVE  (\E p \in Procs : BootDevice(p, d)) /\ Skew(d)' = Len(mailbox[d])
<1> DEFINE Goal == (\E p \in Procs : BootDevice(p, d)) /\ Skew(d)' = Len(mailbox[d])
           q == toDev[d]
           n == Cardinality(Creates(q))
<1>0. /\ toDev \in [Devices -> Seq(Message)] /\ mailbox \in [Devices -> Seq(Answer)]
      /\ q \in Seq(Message) /\ n \in Nat /\ Len(mailbox[d]) \in Nat
  BY CreatesCount DEF TypeOK
<1>1. /\ Skew(d) = (n + Len(mailbox[d])) - Waits(d)
      /\ Skew(d)' = (Cardinality(Creates(toDev'[d])) + Len(mailbox'[d])) - Waits(d)'
  BY SkewSum, SkewSumNext
<1> HIDE DEF n
<1>2. ASSUME toDev'[d] = toDev[d], mailbox'[d] = mailbox[d], pending' = pending
      PROVE  FALSE
  BY <1>2, SkewSame, <1>0, <1>1, WaitsType DEF n
<1>3. ASSUME NEW m \in Message, toDev'[d] = Append(q, m), mailbox'[d] = mailbox[d],
             Waits(d)' <= Waits(d) + (IF m.cmd = "CREATE" THEN 1 ELSE 0)
      PROVE  FALSE
  <2>1. Cardinality(Creates(toDev'[d])) = n + (IF m.cmd = "CREATE" THEN 1 ELSE 0)
    BY <1>0, <1>3, SentCount DEF n
  <2> DEFINE k == IF m.cmd = "CREATE" THEN 1 ELSE 0
  <2>2. k \in {0, 1} /\ Waits(d)' <= Waits(d) + k /\ Cardinality(Creates(toDev'[d])) = n + k
    BY <1>3, <2>1
  <2> HIDE DEF k
  <2>3. Skew(d)' = ((n + k) + Len(mailbox[d])) - Waits(d)'
    BY <1>1, <1>3, <2>2
  <2>4. ~(((n + k) + Len(mailbox[d])) - Waits(d)' < (n + Len(mailbox[d])) - Waits(d))
    BY <1>0, <2>2, WaitsType, NoSmaller
  <2> QED BY <1>1, <2>3, <2>4
<1>4. ASSUME NEW p \in Procs, NEW e \in Devices, CreateSend(p, e)
      PROVE  FALSE
  <2> DEFINE m == [cmd |-> "CREATE", ports |-> FirstFit(Free(e), MaxPort)]
  <2>1. m \in Message /\ m.cmd = "CREATE"
    BY FirstFitSubset DEF Message, Free
  <2>2. /\ pending = NoCreate /\ pending' = [proc |-> p, dev |-> e, ports |-> m.ports]
        /\ toDev' = [toDev EXCEPT ![e] = Append(@, m)] /\ mailbox' = mailbox
    BY <1>4 DEF CreateSend, SendOk, MutexFree
  <2> HIDE DEF m
  <2>3. Waits(d) = 0 /\ Waits(d)' <= 1 /\ (e # d => Waits(d)' = 0)
    BY <2>2 DEF Waits
  <2>4. CASE e = d
    BY <1>0, <1>3, <2>1, <2>2, <2>3, <2>4
  <2>5. CASE e # d
    <3>1. toDev'[d] = toDev[d] /\ mailbox'[d] = mailbox[d]
      BY <1>0, <2>2, <2>5
    <3> QED BY <1>0, <1>1, <2>3, <2>5, <3>1 DEF n
  <2> QED BY <2>4, <2>5
<1>5. ASSUME NEW p \in Procs, NEW e \in Devices, NEW m \in Message,
             toDev' = toDev \/ toDev' = [toDev EXCEPT ![e] = Append(@, m)],
             mailbox' = mailbox, pending' = pending
      PROVE  FALSE
  <2>1. toDev'[d] = toDev[d] \/ toDev'[d] = Append(q, m)
    BY <1>0, <1>5
  <2>2. Waits(d)' <= Waits(d) + (IF m.cmd = "CREATE" THEN 1 ELSE 0)
    BY <1>5, WaitsType DEF Waits
  <2> QED BY <1>2, <1>3, <1>5, <2>1, <2>2
<1>6. ASSUME NEW p \in Procs, NEW e \in Devices,
             \/ CreateSendFails(p, e)
             \/ \E asked \in SUBSET Ports : Destroy(p, e, asked) \/ DestroySendFails(p, e, asked)
      PROVE  FALSE
  <2>1. \A S \in SUBSET Ports : [cmd |-> "CREATE", ports |-> S] \in Message
                                /\ [cmd |-> "DESTROY", ports |-> S] \in Message
    BY DEF Message
  <2>2. FirstFit(Free(e), MaxPort) \in SUBSET Ports
    BY FirstFitSubset DEF Free
  <2>3. CASE CreateSendFails(p, e)
    BY <1>5, <2>1, <2>2, <2>3 DEF CreateSendFails, SendFails, SendOk
  <2>4. ASSUME NEW asked \in SUBSET Ports, Destroy(p, e, asked)
        PROVE  FALSE
    BY <1>5, <2>1, <2>4 DEF Destroy, SendOk
  <2>5. ASSUME NEW asked \in SUBSET Ports, DestroySendFails(p, e, asked)
        PROVE  FALSE
    BY <1>5, <2>1, <2>5 DEF DestroySendFails, SendFails, SendOk, hostVars
  <2> QED BY <1>6, <2>3, <2>4, <2>5
<1>7. ASSUME NEW p \in Procs, Release(p)
      PROVE  FALSE
  <2> DEFINE m == [cmd |-> "DESTROY", ports |-> devPorts[p][d]]
  <2>1. m \in Message
    BY DEF TypeOK, Message
  <2>2. (toDev'[d] = toDev[d] \/ toDev'[d] = Append(q, m)) /\ mailbox' = mailbox /\ pending' = pending
    BY <1>7 DEF Release
  <2> HIDE DEF m
  <2>3. Waits(d)' <= Waits(d) + (IF m.cmd = "CREATE" THEN 1 ELSE 0)
    BY <2>2, WaitsType DEF Waits
  <2> QED BY <1>2, <1>3, <2>1, <2>2, <2>3
<1>8. ASSUME CreateAnswered
      PROVE  FALSE
  <2> DEFINE e == pending.dev
  <2>1. /\ pending # NoCreate /\ pending' = NoCreate /\ toDev' = toDev /\ mailbox[e] # <<>>
        /\ mailbox' = [mailbox EXCEPT ![e] = Tail(@)]
    BY <1>8 DEF CreateAnswered, TakeAnswer
  <2>2. CASE e = d
    <3>1. mailbox'[d] = Tail(mailbox[d]) /\ mailbox[d] \in Seq(Answer) /\ mailbox[d] # <<>>
      BY <1>0, <2>1, <2>2
    <3>2. Len(mailbox'[d]) = Len(mailbox[d]) - 1
      BY <3>1
    <3>3. Waits(d) = 1 /\ Waits(d)' = 0
      BY <2>1, <2>2 DEF Waits
    <3> QED BY <1>0, <1>1, <2>1, <3>2, <3>3 DEF n
  <2>3. CASE e # d
    <3>1. mailbox'[d] = mailbox[d]
      BY <1>0, <2>1, <2>3
    <3>2. Waits(d) = 0 /\ Waits(d)' = 0
      BY <2>1, <2>3 DEF Waits
    <3> QED BY <1>0, <1>1, <2>1, <3>1, <3>2 DEF n
  <2> QED BY <2>2, <2>3
<1>9. ASSUME CreateTimeout
      PROVE  FALSE
  <2>1. toDev' = toDev /\ mailbox' = mailbox /\ pending' = NoCreate
    BY <1>9 DEF CreateTimeout, cardVars
  <2>2. Waits(d)' <= Waits(d) /\ Waits(d) \in Nat /\ Waits(d)' \in Nat
    BY <2>1 DEF Waits
  <2> QED BY <1>0, <1>1, <2>1, <2>2 DEF n
<1>10. ASSUME NEW e \in Devices, DeviceServe(e)
      PROVE  FALSE
  <2>1. /\ toDev[e] # <<>> /\ toDev' = [toDev EXCEPT ![e] = Tail(@)] /\ pending' = pending
    BY <1>10 DEF DeviceServe, hostVars
  <2>2. CASE e = d
    <3>1. toDev'[d] = Tail(q) /\ q # <<>>
      BY <1>0, <2>1, <2>2
    <3>2. n = Cardinality(Creates(toDev'[d])) + (IF Head(q).cmd = "CREATE" THEN 1 ELSE 0)
      BY <1>0, <3>1, ServedCount DEF n
    <3>3. Len(mailbox'[d]) = Len(mailbox[d]) + (IF Head(q).cmd = "CREATE" THEN 1 ELSE 0)
      <4>1. \/ Head(q).cmd = "CREATE" /\ \E a \in Answer : mailbox'[d] = Append(mailbox[d], a)
            \/ Head(q).cmd = "DESTROY" /\ mailbox'[d] = mailbox[d]
        BY <1>0, <1>10, <2>2 DEF DeviceServe, Answer
      <4>2. \A a \in Answer : Len(Append(mailbox[d], a)) = Len(mailbox[d]) + 1
        BY <1>0
      <4> QED BY <1>0, <4>1, <4>2
    <3>4. Cardinality(Creates(toDev'[d])) \in Nat
      <4>1. toDev'[d] \in Seq(Message)
        BY <1>0, <3>1
      <4> QED BY <4>1, CreatesCount
    <3>5. Waits(d)' = Waits(d) /\ Waits(d) \in Nat
      BY <2>1 DEF Waits
    <3> QED BY <1>0, <1>1, <3>2, <3>3, <3>4, <3>5
  <2>3. CASE e # d
    <3>1. toDev'[d] = toDev[d] /\ mailbox'[d] = mailbox[d]
      BY <1>0, <1>10, <2>1, <2>3 DEF DeviceServe
    <3> QED BY <1>2, <2>1, <3>1
  <2> QED BY <2>2, <2>3
<1>11. ASSUME NEW p \in Procs, NEW e \in Devices, BootDevice(p, e)
       PROVE  Goal
  <2>1. /\ toDev' = [toDev EXCEPT ![e] = <<>>] /\ mailbox' = mailbox
        /\ pending = NoCreate /\ pending' = NoCreate
    BY <1>11 DEF BootDevice, MutexFree
  <2>2. CASE e = d
    <3>1. toDev'[d] = <<>>
      BY <1>0, <2>1, <2>2
    <3>2. Creates(toDev'[d]) = {}
      BY <3>1 DEF Creates
    <3>3. Cardinality(Creates(toDev'[d])) = 0
      BY <3>2, FS_EmptySet
    <3>4. Waits(d)' = 0 /\ mailbox'[d] = mailbox[d]
      BY <2>1 DEF Waits
    <3>5. Skew(d)' = Len(mailbox[d])
      BY <1>0, <1>1, <3>3, <3>4
    <3> QED BY <1>11, <2>2, <3>5
  <2>3. CASE e # d
    <3>1. toDev'[d] = toDev[d] /\ mailbox'[d] = mailbox[d]
      BY <1>0, <2>1, <2>3
    <3> QED BY <1>2, <2>1, <3>1
  <2> QED BY <2>2, <2>3
<1>12. ASSUME \/ \E p \in Procs : Open(p)
              \/ \E p \in Procs, e \in Devices :
                   \/ ResetDevice(p, e)
                   \/ \E k \in 1..MaxPort : RequestUsrPort(p, e, k)
                   \/ \E s \in usrPorts[p][e] : RecycleUsrPort(p, e, s)
              \/ \E e \in Devices : HeartbeatLost(e) \/ DeviceCrash(e)
              \/ UNCHANGED portsVars
       PROVE  UNCHANGED <<toDev, mailbox, pending>>
  BY <1>12 DEF Open, ResetDevice, RequestUsrPort, RecycleUsrPort, HeartbeatLost, DeviceCrash,
    portsVars, hostVars, cardVars
<1>13. ~UNCHANGED <<toDev, mailbox, pending>>
  BY <1>2
<1> QED
  BY <1>4, <1>6, <1>7, <1>8, <1>9, <1>10, <1>11, <1>12, <1>13, AskedType
  DEF PortsNext, PortsIoctl, PortManage

\* A surplus of answers never shrinks but by a BOOT that comes as far as
\* emptying the rings, whether its handshake ends or not, and then to what is
\* in the mailbox already (axcl_pcie_recv matches no request id).
THEOREM SkewStays == PortsSpec => SkewNeverHeals
<1>1. PortInv /\ [PortsNext]_portsVars =>
        [\A d \in Devices :
           Skew(d)' < Skew(d) =>
             /\ \E p \in Procs : BootDevice(p, d)
             /\ Skew(d)' = Len(mailbox[d])]_<<pending, toDev, mailbox>>
  BY SkewStep DEF PortInv
<1> QED
  BY <1>1, InitPortInv, NextPortInv, PTL DEF PortsSpec, SkewNeverHeals
-----------------------------------------------------------------------------
(***************************************************************************)
(* AxclDriver.  Whatever the driver, its threads and the cards do, the map *)
(* changes only by a probe or by a step of the one remove, and these keep  *)
(* it in agreement with the kernel and with what is held.  On top of that, *)
(* as long as no card is unplugged: the map only grows, so that what the   *)
(* driver has found stays; the thread of each card is kept at the card's   *)
(* place; exit has stopped and reset the places it is through with; and a  *)
(* load puts the image part by part into a card that was fresh when it     *)
(* began.                                                                  *)
(***************************************************************************)

-----------------------------------------------------------------------------
(* The driver on top of it *)

\* Nothing that the driver, its threads or the cards do touches the map, but
\* for the probe and the remove.
LEMMA MapChanges ==
  Next => UNCHANGED mapVars \/ RemoveGoesOn \/ \E d \in Cards : Probe(d) \/ Remove(d)
<1> SUFFICES ASSUME Next
             PROVE  UNCHANGED mapVars \/ RemoveGoesOn \/ \E d \in Cards : Probe(d) \/ Remove(d)
  OBVIOUS
<1>1. ASSUME NEW d \in Cards, CardStep(d)
      PROVE  UNCHANGED mapVars
  BY <1>1 DEF CardStep
<1>2. ASSUME NEW d \in Cards, Thread(d)
      PROVE  UNCHANGED mapVars
  BY <1>2 DEF Thread, ThreadStarts, ThreadLooks, ThreadGivesUp, ThreadStops, ThreadLost, Breaks
<1>3. CASE Driver
  <2>1. CASE InitBegins \/ InitLoaded \/ InitFails \/ Allocates
    BY <2>1 DEF InitBegins, InitLoaded, InitFails, Allocates
  <2>2. CASE InitEnds \/ ExitEnds
    BY <2>2 DEF InitEnds, ExitEnds, Ends
  <2>3. ASSUME NEW pc \in Phases, NullEntry(pc)
        PROVE  UNCHANGED mapVars
    BY <2>3 DEF NullEntry, Breaks
  <2>4. ASSUME NEW d \in Cards,
               \/ InitLoads(d) \/ OpensPorts(d) \/ Shakes(d) \/ Syncs(d) \/ Spawns(d)
               \/ \E pc \in {"ports", "shake", "time", "spawn"} : Skips(pc, d)
        PROVE  UNCHANGED mapVars
    BY <2>4 DEF InitLoads, OpensPorts, Shakes, Syncs, Spawns, Skips, Breaks
  <2>5. ASSUME NEW d \in Cards, Overruns(d) \/ Call(d) \/ ExitStops(d)
        PROVE  UNCHANGED mapVars
    BY <2>5 DEF Overruns, Call, ExitStops, Breaks
  <2>6. CASE LoadStep \/ Walks \/ WalkFails
    BY <2>6 DEF LoadStep, Walks, WalkFails, NotThere, Breaks
  <2>7. CASE Resets \/ BootLoads \/ BootLoaded \/ BootChecks \/ RingFails \/ BootSyncs \/ BootWakes
    BY <2>7 DEF Resets, BootLoads, BootLoaded, BootChecks, RingFails, BootSyncs, BootWakes, Breaks
  <2>8. CASE ExitBegins \/ ExitStopped
    BY <2>8 DEF ExitBegins, ExitStopped
  <2> QED BY <1>3, <2>1, <2>2, <2>3, <2>4, <2>5, <2>6, <2>7, <2>8 DEF Driver
<1> QED BY <1>1, <1>2, <1>3 DEF Next

LEMMA NextIsMap == Next => [MapNext]_mapVars
<1> SUFFICES ASSUME Next PROVE [MapNext]_mapVars
  OBVIOUS
<1>1. CASE RemoveGoesOn
  BY <1>1 DEF RemoveGoesOn, MapNext
<1>2. ASSUME NEW d \in Cards, Probe(d) \/ Remove(d)
      PROVE  MapNext
  BY <1>2 DEF Probe, Remove, MapNext
<1> QED BY <1>1, <1>2, MapChanges

\* For any number of cards, places in the map, files and failures: the map,
\* the kernel and what is held for the cards agree whenever no remove is
\* closing a gap, whatever init, BOOT, RESET, exit and the threads do meanwhile
\* (ax_pcie_dev_probe, ax_pcie_dev_remove).
THEOREM MapIsSound == Spec => []MapSound
<1>1. Init => MapInv
  BY MapInitInv DEF Init
<1>2. MapInv /\ [Next]_vars => MapInv'
  <2>1. [Next]_vars => [MapNext]_mapVars
    BY NextIsMap DEF vars
  <2> QED BY <2>1, MapStepInv
<1>3. MapInv => MapSound
  BY MapInvIsSound
<1> QED BY <1>1, <1>2, <1>3, PTL DEF Spec
-----------------------------------------------------------------------------
(* The driver and its cards, as long as none is unplugged *)

Silent(d) == boot[d].cmd = NoCmd /\ boot[d].busy = NoCmd
Fresh(d) == Silent(d) /\ boot[d].status = "none" /\ ~boot[d].started

Cmds == {NoCmd} \cup [op : {"read", "write"}, at : Nat \X Nat]
Contents == (Nat \X Nat) \cup {NoBuf}
BootRecords == [on : BOOLEAN, cmd : Cmds, busy : Cmds, moved : BOOLEAN,
                status : {"none", "read", "write", "fail"}, started : BOOLEAN,
                crashed : BOOLEAN, mem : [Image -> Contents]]
CardsType ==
  /\ boot \in [Cards -> BootRecords] /\ buf \in Contents
  /\ status \in [Cards -> {"none", "alive", "dead"}] /\ ports \in [Cards -> 0..2]
  /\ queues \subseteq Cards /\ stops \subseteq Cards
  /\ heartbeat \in [Slots -> Cards \cup {None}]
  /\ thread \in [Cards -> {"none", "new", "loop", "missed", "ended"}]

InitPcs == {"out", "fw", "ports", "shake", "time", "alloc", "spawn", "failed"}
BootPcs == {"load", "check", "sync", "wake"}
LoadRecords ==
  [pc : {"none", "file", "copy", "send", "wait", "free", "done", "dump", "ask", "save"},
   card : Cards \cup {None}, file : Nat, chunk : Nat, left : Nat, ok : BOOLEAN]
HostPcs == InitPcs \cup BootPcs \cup {"loading", "up", "find", "reset", "exit", "stopping", "gone"}
HostRecords ==
  [pc : HostPcs, i : Nat, card : Cards \cup {None}, op : {"init", "up", "reset", "boot", "exit"},
   next : {"out", "reset", "load", "check", "sync"}, walk : Nat]
HostType == host \in HostRecords /\ load \in LoadRecords

\* Which call the driver is in, and that a load is part of one.
Calls ==
  /\ host.pc \in InitPcs => host.op = "init"
  /\ host.pc \in {"exit", "stopping", "gone"} => host.op = "exit"
  /\ host.pc \in BootPcs => host.op = "boot"
  /\ host.pc = "loading" => host.op \in {"init", "boot"}
  /\ host.pc \in {"find", "reset"} => host.op \in {"reset", "boot", "exit"}
  /\ host.pc = "find" => host.next # "out" /\ (host.next # "reset" => host.op = "boot")
  /\ load.pc = "none" <=> host.pc # "loading"
  /\ host.pc = "loading" => load.card = host.card
  /\ load.pc = "save" => load.left > 0
  /\ host.pc \in BootPcs \cup {"loading", "find", "reset", "stopping"} => host.card \in Cards
  /\ host.pc = "failed" => "initfailed" \in cause
  /\ \A d \in Cards : thread[d] # "none" => d \in queues

DriverType == CardsType /\ HostType /\ Calls

Calm == "unplugged" \notin cause
Steady == Calm /\ Loaded

\* Before init nothing has happened to a card.
BeforeInit ==
  AtHost("out") =>
    /\ \A d \in Cards : thread[d] = "none" /\ status[d] = "none" /\ ports[d] = 0 /\ Fresh(d)
    /\ \A d \in Cards : bound[d] = "bound" /\ ~(core.pc # "idle" /\ d = c0) => boot[d].on
    /\ \A i \in Slots : heartbeat[i] = None
    /\ stops = {} /\ dangling = {} /\ host.card = None

\* The map only grows: what the driver has found is still there.
Kept ==
  /\ core.pc = "idle" /\ dangling = {}
  /\ \A d \in Cards : bound[d] = "bound" => boot[d].on
  /\ \A d \in Cards : bound[d] # "bound" => Fresh(d) /\ thread[d] = "none" /\ ports[d] = 0

\* The thread of the card at a place of the map is kept at that place.
InPlace ==
  /\ \A i \in 0..(number - 1) : heartbeat[i] = IF thread[map[i]] = "none" THEN None ELSE map[i]
  /\ \A i \in Slots : i >= number => heartbeat[i] = None

\* The card of the call is bound, unless it was absent and the call has yet to
\* find that out.
CardOfCall ==
  /\ host.pc \in BootPcs \cup {"loading", "reset", "stopping"} =>
       bound[host.card] = "bound"
  /\ host.pc = "find" =>
       /\ \/ bound[host.card] = "bound"
          \/ /\ host.op \in {"reset", "boot"} /\ host.next \in {"reset", "load"} /\ "absent" \in cause
       /\ host.walk <= number
       /\ \A i \in 0..(number - 1) : i < host.walk => map[i] # host.card
  /\ host.pc = "load" \/ (host.pc = "find" /\ host.next = "load") => Fresh(host.card)

\* init loads each card once.
LoadsOnce ==
  /\ AtHost("fw") => \A i \in 0..(number - 1) : i >= host.i => Fresh(map[i])
  /\ AtHost("loading") /\ host.op = "init" =>
       /\ host.i < number /\ map[host.i] = host.card
       /\ \A i \in 0..(number - 1) : i > host.i => Fresh(map[i])

\* exit has stopped the threads and reset the cards of the places it is through
\* with.
Through(i) == thread[map[i]] \in {"none", "ended"} /\ ~boot[map[i]].started
ExitSoFar ==
  /\ host.op # "exit" => stops = {}
  /\ AtHost("up") => host.op # "exit"
  /\ host.op = "exit" =>
       /\ \A i \in 0..(number - 1) : i < host.i => Through(i)
       /\ \A d \in stops : \E i \in 0..(number - 1) : map[i] = d /\ i <= host.i
       /\ AtHost("exit") => \A i \in 0..(number - 1) : map[i] \in stops => i < host.i
       /\ ~AtHost("exit") => host.i < number /\ map[host.i] = host.card
       /\ AtHost("stopping") => thread[host.card] = "none" \/ host.card \in stops
       /\ host.pc \in {"find", "reset"} => thread[host.card] \in {"none", "ended"}
  /\ \A d \in Cards : thread[d] = "ended" => d \in stops

Right == Kept /\ InPlace /\ CardOfCall /\ LoadsOnce /\ ExitSoFar
SteadyRight == Steady => Right

\* Afterwards.
AfterExit ==
  Calm /\ AtHost("gone") =>
    \A d \in Cards : thread[d] \in {"none", "ended"} /\ (ports[d] # 0 => ~boot[d].started)

\* With no card late and none that failed, every card of the map gets its
\* thread.
Smooth == Steady /\ "late" \notin cause /\ "failed" \notin cause
AllSpawned ==
  Smooth =>
    /\ \A i \in 0..(number - 1) : thread[map[i]] = "none" => status[map[i]] # "dead"
    /\ AtHost("spawn") => \A i \in 0..(number - 1) : i < host.i => thread[map[i]] # "none"
    /\ (host.op = "init" /\ ~AtHost("up")) \/ \A i \in 0..(number - 1) : thread[map[i]] # "none"

-----------------------------------------------------------------------------
(* The load *)

Whole(d) == \A p \in Image : boot[d].mem[p] = p
At == <<load.file, load.chunk>>

\* Where the command is that the host waits for.
Flight(c, op) ==
  \/ c.cmd = [op |-> op, at |-> At] /\ c.busy = NoCmd /\ c.status = "none"
  \/ /\ c.cmd = NoCmd /\ c.busy = [op |-> op, at |-> At] /\ c.status = "none"
     /\ op = "read" /\ c.moved => c.mem[At] = At
  \/ c.cmd = NoCmd /\ c.busy = NoCmd /\ c.status = "fail"
  \/ /\ c.cmd = NoCmd /\ c.busy = NoCmd /\ c.status = op
     /\ op = "read" => c.mem[At] = At

LoadPcs == {"file", "copy", "send", "wait", "dump", "ask", "save"}
LoadRight ==
  /\ load.pc \in LoadPcs =>
       /\ load.file >= 1
       /\ ~boot[load.card].started
       /\ load.pc # "file" => load.file \in Files
       /\ load.pc = "file" => load.file <= Len(Chunks) + 1
       /\ \A p \in Image : p[1] < load.file \/ (p[1] = load.file /\ p[2] < load.chunk) =>
                             boot[load.card].mem[p] = p
  /\ load.pc \in {"file", "copy", "send", "dump", "ask"} => Fresh(load.card)
  /\ load.pc \in {"copy", "send", "wait"} => load.chunk >= 1
  /\ load.pc \in {"send", "wait"} => load.chunk <= Chunks[load.file] /\ buf = At
  /\ load.pc = "wait" => Flight(boot[load.card], "read")
  /\ load.pc = "save" => Flight(boot[load.card], "write")

\* A card that runs has the image and no command; only the dump under way may
\* write the buffer.
Running ==
  /\ \A d \in Cards : boot[d].started => Silent(d) /\ Whole(d)
  /\ \A d \in Cards : "write" \in {boot[d].cmd.op, boot[d].busy.op} => load.pc = "save" /\ d = load.card

LoadInv == Calm /\ ~lateDump => LoadRight /\ Running

\* That the map had more cards than heartbeat[] has entries is known for good.
ManyKnown == number > MaxThreads => "many" \in cause

DriverInv ==
  /\ DriverType /\ BeforeInit /\ SteadyRight /\ AfterExit /\ AllSpawned /\ LoadInv
  /\ ManyKnown

-----------------------------------------------------------------------------
(* Types *)

LEMMA DriverTypeInit == Init => DriverType
<1> SUFFICES ASSUME Init PROVE DriverType
  OBVIOUS
<1> USE DEF Init, FwInit, NoLoad, Reset, Idle
<1>1. NoCmd \in Cmds /\ Junk \in Contents /\ NoBuf \in Contents
  BY DEF Cmds, Contents, Junk, NoBuf
<1>2. Reset \in BootRecords
  BY <1>1 DEF BootRecords
<1>3. CardsType
  BY <1>1, <1>2 DEF CardsType
<1>4. HostType
  BY DEF HostType, LoadRecords, HostRecords, HostPcs, InitPcs, BootPcs
<1>5. Calls
  BY DEF Calls, InitPcs, BootPcs
<1> QED
  BY <1>3, <1>4, <1>5 DEF DriverType

\* What the driver's calls do to host.
LEMMA HostEnters ==
  ASSUME host \in HostRecords, NEW pc \in HostPcs, Enters(pc)
  PROVE  /\ host' \in HostRecords
         /\ host'.pc = pc /\ host'.i = 0 /\ host'.card = None /\ host'.op = host.op
         /\ host'.next = "out" /\ host'.walk = 0
BY DEF HostRecords, Enters, Idle

LEMMA HostNext ==
  ASSUME host \in HostRecords, NEW pc \in HostPcs, NextCard(pc)
  PROVE  /\ host' \in HostRecords
         /\ host'.pc = pc /\ host'.i = host.i + 1 /\ host'.card = None /\ host'.op = host.op
         /\ host'.next = "out" /\ host'.walk = 0
<1> DEFINE i1 == host.i + 1
<1>1. i1 \in Nat
  BY DEF HostRecords
<1>2. host' = [Idle EXCEPT !.pc = pc, !.op = host.op, !.i = i1]
  BY DEF NextCard
<1> HIDE DEF i1
<1>3. /\ host' \in HostRecords
      /\ host'.pc = pc /\ host'.i = i1 /\ host'.card = None /\ host'.op = host.op
      /\ host'.next = "out" /\ host'.walk = 0
  BY <1>1, <1>2 DEF HostRecords, Idle
<1> QED
  BY <1>3 DEF i1

LEMMA HostFinds ==
  ASSUME host \in HostRecords, NEW next \in {"reset", "load", "check", "sync"}, Finds(next)
  PROVE  /\ host' \in HostRecords
         /\ host'.pc = "find" /\ host'.i = host.i /\ host'.card = host.card /\ host'.op = host.op
         /\ host'.next = next /\ host'.walk = 0
<1>1. "find" \in HostPcs
  BY DEF HostPcs
<1> QED
  BY <1>1 DEF HostRecords, Finds

LEMMA HostGoes ==
  ASSUME host \in HostRecords, NEW pc \in HostPcs, host' = [host EXCEPT !.pc = pc]
  PROVE  /\ host' \in HostRecords
         /\ host'.pc = pc /\ host'.i = host.i /\ host'.card = host.card /\ host'.op = host.op
         /\ host'.next = host.next /\ host'.walk = host.walk
BY DEF HostRecords

LEMMA HostGoesTo ==
  ASSUME host \in HostRecords, NEW pc \in HostPcs, NEW d \in Cards,
         host' = [host EXCEPT !.pc = pc, !.card = d]
  PROVE  /\ host' \in HostRecords
         /\ host'.pc = pc /\ host'.i = host.i /\ host'.card = d /\ host'.op = host.op
         /\ host'.next = host.next /\ host'.walk = host.walk
BY DEF HostRecords

LEMMA HostIdle ==
  ASSUME host' = Idle
  PROVE  /\ host' \in HostRecords
         /\ host'.pc = "up" /\ host'.i = 0 /\ host'.card = None /\ host'.op = "up"
BY DEF HostRecords, Idle, HostPcs

LEMMA CardStepType ==
  ASSUME CardsType, NEW d \in Cards, CardStep(d)
  PROVE  CardsType'
<1> DEFINE b == boot[d]
<1>1. b \in BootRecords /\ NoCmd \in Cmds
  BY DEF CardsType, Cmds
<1>2. CASE CardTakes(d)
  <2> DEFINE r == [b EXCEPT !.busy = b.cmd, !.cmd = NoCmd, !.moved = FALSE]
  <2>1. r \in BootRecords
    BY <1>1 DEF BootRecords
  <2>2. boot' = [boot EXCEPT ![d] = r] /\ buf' = buf
    BY <1>2 DEF CardTakes, CardsType
  <2> QED
    BY <2>1, <2>2 DEF CardsType, CardStep, drvVars
<1>3. CASE CardMoves(d)
  <2> DEFINE m == [b EXCEPT !.mem = [b.mem EXCEPT ![b.busy.at] = buf], !.moved = TRUE]
             r == [b EXCEPT !.moved = TRUE]
  <2>1. m \in BootRecords /\ r \in BootRecords
    BY <1>1 DEF BootRecords, CardsType
  <2>2. boot' = [boot EXCEPT ![d] = m] \/ boot' = [boot EXCEPT ![d] = r]
    BY <1>3 DEF CardMoves, CardsType
  <2>3. buf' \in Contents
    BY <1>3 DEF CardMoves, CardsType, Contents, Dump
  <2> QED
    BY <2>1, <2>2, <2>3 DEF CardsType, CardStep, drvVars
<1>4. CASE CardReports(d)
  <2>1. PICK status1 \in {b.busy.op, "fail"} :
          boot' = [boot EXCEPT ![d].status = status1, ![d].busy = NoCmd, ![d].moved = FALSE]
    BY <1>4 DEF CardReports
  <2> DEFINE r == [b EXCEPT !.status = status1, !.busy = NoCmd, !.moved = FALSE]
  <2>2. r \in BootRecords
    BY <1>1, <1>4 DEF BootRecords, Cmds, CardReports
  <2>3. boot' = [boot EXCEPT ![d] = r] /\ buf' = buf
    BY <1>4, <2>1 DEF CardReports, CardsType
  <2> QED
    BY <2>2, <2>3 DEF CardsType, CardStep, drvVars
<1> QED
  BY <1>2, <1>3, <1>4 DEF CardStep, Card

LEMMA ResetType == Reset \in BootRecords
<1>1. NoCmd \in Cmds /\ Junk \in Contents
  BY DEF Cmds, Contents, Junk
<1> QED
  BY <1>1 DEF Reset, BootRecords

LEMMA ProbeRemoveType ==
  ASSUME CardsType, NEW d \in Cards, Probe(d) \/ Remove(d)
  PROVE  CardsType'
<1> DEFINE r == [boot[d] EXCEPT !.on = TRUE]
           off == [Reset EXCEPT !.on = FALSE]
<1>1. r \in BootRecords /\ off \in BootRecords
  BY ResetType DEF CardsType, BootRecords
<1>2. boot' \in {boot, [boot EXCEPT ![d] = r], [boot EXCEPT ![d] = off]}
  BY DEF CardsType, Probe, Remove
<1>3. UNCHANGED <<buf, drvVars>>
  BY DEF Probe, Remove
<1> QED
  BY <1>1, <1>2, <1>3 DEF CardsType, drvVars

\* The steps of a load.
LEMMA LoadingType ==
  ASSUME CardsType, HostType, load.card \in Cards, Loading
  PROVE  boot' \in [Cards -> BootRecords] /\ buf' \in Contents
<1> DEFINE b == boot[load.card]
<1> USE DEF d0, LoadAt, LoadGoes
<1>1. b \in BootRecords /\ boot \in [Cards -> BootRecords] /\ buf \in Contents
  BY DEF CardsType
<1>2. \A r \in BootRecords : [boot EXCEPT ![load.card] = r] \in [Cards -> BootRecords]
  BY <1>1
<1>3. \A op \in {"read", "write"} : Command(op) => boot' \in [Cards -> BootRecords]
  <2> SUFFICES ASSUME NEW op \in {"read", "write"}, Command(op) PROVE boot' \in [Cards -> BootRecords]
    OBVIOUS
  <2> DEFINE c == IF b.on THEN [op |-> op, at |-> <<load.file, load.chunk>>] ELSE NoCmd
             r == [b EXCEPT !.cmd = c]
  <2>1. c \in Cmds
    BY DEF Cmds, HostType, LoadRecords
  <2> HIDE DEF c
  <2>2. r \in BootRecords
    BY <2>1, <1>1 DEF BootRecords
  <2>3. boot' = [boot EXCEPT ![load.card] = r]
    BY <1>1 DEF Command, c
  <2> QED BY <2>2, <2>3, <1>2
<1>4. boot' \in {boot, [boot EXCEPT ![load.card].status = "none"]} => boot' \in [Cards -> BootRecords]
  <2> DEFINE r == [b EXCEPT !.status = "none"]
  <2>1. r \in BootRecords BY <1>1 DEF BootRecords
  <2>2. [boot EXCEPT ![load.card].status = "none"] = [boot EXCEPT ![load.card] = r] BY <1>1
  <2> QED BY <2>1, <2>2, <1>1, <1>2
<1>5. CASE NextFile
  <2> DEFINE r == [b EXCEPT !.started = b.on]
  <2>1. r \in BootRecords BY <1>1 DEF BootRecords
  <2>2. boot' \in {boot, [boot EXCEPT ![load.card] = r]} /\ buf' = buf
    BY <1>5, <1>1 DEF NextFile
  <2> QED BY <1>1, <1>2, <2>1, <2>2
<1>6. CASE Copies
  BY <1>1, <1>6 DEF Copies, Contents, HostType, LoadRecords
<1>7. CASE Sends \/ Asks
  BY <1>1, <1>3, <1>7 DEF Sends, Asks
<1>8. CASE ChunkDone \/ ChunkFails \/ Saved \/ DumpFails
  <2>1. boot' \in {boot, [boot EXCEPT ![load.card].status = "none"]} /\ buf' = buf
    BY <1>8 DEF ChunkDone, ChunkFails, Saved, DumpFails, Succeeds, NoSuccess, Answered
  <2> QED BY <2>1, <1>1, <1>4
<1>9. CASE LoadEnds
  BY <1>1, <1>9 DEF LoadEnds, BufIs, Contents
<1>10. CASE DumpBegins
  <2> DEFINE r == [b EXCEPT !.crashed = FALSE]
  <2>1. r \in BootRecords BY <1>1 DEF BootRecords
  <2>2. boot' = [boot EXCEPT ![load.card] = r] /\ buf' = buf
    BY <1>10, <1>1 DEF DumpBegins
  <2> QED BY <1>1, <1>2, <2>1, <2>2
<1> QED
  BY <1>5, <1>6, <1>7, <1>8, <1>9, <1>10 DEF Loading

LEMMA LoadingMoves ==
  ASSUME load \in LoadRecords, load.pc = "save" => load.left > 0, Loading
  PROVE  /\ load' \in LoadRecords /\ (load'.pc = "save" => load'.left > 0)
         /\ load.pc # "none" /\ load'.pc # "none" /\ load'.card = load.card
<1> USE DEF d0, LoadAt, LoadGoes
<1>1. load' \in LoadRecords
  <2>1. CASE NextFile
    <3>1. \/ load' = [load EXCEPT !.pc = "dump"]
          \/ load' = [load EXCEPT !.pc = "copy", !.chunk = 1]
          \/ load' = [load EXCEPT !.pc = "free"]
      BY <2>1 DEF NextFile
    <3>2. CASE load' = [load EXCEPT !.pc = "dump"]
      BY <3>2 DEF LoadRecords
    <3>3. CASE load' = [load EXCEPT !.pc = "copy", !.chunk = 1]
      BY <3>3 DEF LoadRecords
    <3>4. CASE load' = [load EXCEPT !.pc = "free"]
      BY <3>4 DEF LoadRecords
    <3> QED BY <3>1, <3>2, <3>3, <3>4
  <2>2. CASE Copies
    <3>1. \/ load' = [load EXCEPT !.pc = "send"]
          \/ load' = [load EXCEPT !.pc = "file", !.file = @ + 1, !.chunk = 0]
      BY <2>2 DEF Copies
    <3>2. CASE load' = [load EXCEPT !.pc = "send"]
      BY <3>2 DEF LoadRecords
    <3>3. CASE load' = [load EXCEPT !.pc = "file", !.file = @ + 1, !.chunk = 0]
      <4> DEFINE f1 == load.file + 1
                 zero == 0
      <4>1. f1 \in Nat /\ zero \in Nat
        BY DEF LoadRecords
      <4>2. load' = [load EXCEPT !.pc = "file", !.file = f1, !.chunk = zero]
        BY <3>3
      <4> HIDE DEF f1, zero
      <4> QED BY <4>1, <4>2 DEF LoadRecords
    <3> QED BY <3>1, <3>2, <3>3
  <2>3. CASE Sends \/ LoadEnds \/ ChunkFails
    <3>1. \/ load' = [load EXCEPT !.pc = "wait"]
          \/ load' = [load EXCEPT !.pc = "done"]
          \/ load' = [load EXCEPT !.pc = "free", !.ok = FALSE]
      BY <2>3 DEF Sends, LoadEnds, ChunkFails
    <3>2. CASE load' = [load EXCEPT !.pc = "wait"]
      BY <3>2 DEF LoadRecords
    <3>3. CASE load' = [load EXCEPT !.pc = "done"]
      BY <3>3 DEF LoadRecords
    <3>4. CASE load' = [load EXCEPT !.pc = "free", !.ok = FALSE]
      BY <3>4 DEF LoadRecords
    <3> QED BY <3>1, <3>2, <3>3, <3>4
  <2>4. CASE ChunkDone
    <3>1. load' = [load EXCEPT !.pc = "copy", !.chunk = @ + 1]
      BY <2>4 DEF ChunkDone
    <3>2. CASE load' = [load EXCEPT !.pc = "copy", !.chunk = @ + 1]
      <4> DEFINE c1 == load.chunk + 1
      <4>1. c1 \in Nat
        BY DEF LoadRecords
      <4>2. load' = [load EXCEPT !.pc = "copy", !.chunk = c1]
        BY <3>2
      <4> HIDE DEF c1
      <4> QED BY <4>1, <4>2 DEF LoadRecords
    <3> QED BY <3>1, <3>2
  <2>5. CASE Saved \/ DumpFails
    <3>1. \/ load.pc = "save" /\ load' = [load EXCEPT !.pc = "ask", !.left = @ - 1]
          \/ load' = [load EXCEPT !.pc = "copy", !.chunk = 1, !.left = 0]
      BY <2>5 DEF Saved, DumpFails
    <3>2. CASE load.pc = "save" /\ load' = [load EXCEPT !.pc = "ask", !.left = @ - 1]
      <4> DEFINE n1 == load.left - 1
      <4>1. n1 \in Nat
        BY <3>2 DEF LoadRecords
      <4>2. load' = [load EXCEPT !.pc = "ask", !.left = n1]
        BY <3>2
      <4> HIDE DEF n1
      <4> QED BY <4>1, <4>2 DEF LoadRecords
    <3>3. CASE load' = [load EXCEPT !.pc = "copy", !.chunk = 1, !.left = 0]
      BY <3>3 DEF LoadRecords
    <3> QED BY <3>1, <3>2, <3>3
  <2>6. CASE DumpBegins
    <3>1. \/ load' = [load EXCEPT !.pc = "copy", !.chunk = 1]
          \/ \E n \in Nat : load' = [load EXCEPT !.pc = "ask", !.left = n]
      BY <2>6, FirmwareAssumption DEF DumpBegins, DumpSize
    <3>2. CASE load' = [load EXCEPT !.pc = "copy", !.chunk = 1]
      BY <3>2 DEF LoadRecords
    <3>3. ASSUME NEW n \in Nat, load' = [load EXCEPT !.pc = "ask", !.left = n] PROVE load' \in LoadRecords
      BY <3>3 DEF LoadRecords
    <3> QED BY <3>1, <3>2, <3>3
  <2>7. CASE Asks
    <3>1. \/ load' = [load EXCEPT !.pc = "save"]
          \/ load' = [load EXCEPT !.pc = "copy", !.chunk = 1]
      BY <2>7 DEF Asks
    <3>2. CASE load' = [load EXCEPT !.pc = "save"]
      BY <3>2 DEF LoadRecords
    <3>3. CASE load' = [load EXCEPT !.pc = "copy", !.chunk = 1]
      BY <3>3 DEF LoadRecords
    <3> QED BY <3>1, <3>2, <3>3
  <2> QED
    BY <2>1, <2>2, <2>3, <2>4, <2>5, <2>6, <2>7 DEF Loading
<1>2. load.pc # "none"
  BY
    DEF Loading, NextFile, Copies, Sends, ChunkDone, ChunkFails, LoadEnds, DumpBegins, Asks,
        Saved, DumpFails
<1>3. load'.pc # "none" /\ load'.card = load.card /\ (load'.pc = "save" => load'.left > 0)
  <2>1. CASE NextFile BY <2>1 DEF NextFile, LoadRecords
  <2>2. CASE Copies BY <2>2 DEF Copies, LoadRecords
  <2>3. CASE Sends \/ LoadEnds BY <2>3 DEF Sends, LoadEnds, LoadRecords
  <2>4. CASE ChunkDone \/ ChunkFails BY <2>4 DEF ChunkDone, ChunkFails, LoadRecords
  <2>5. CASE Saved \/ DumpFails BY <2>5 DEF Saved, DumpFails, LoadRecords
  <2>6. CASE DumpBegins BY <2>6 DEF DumpBegins, LoadRecords
  <2>7. CASE Asks
    <3>1. load.left = 0 \/ load.left > 0
      BY DEF LoadRecords
    <3>2. CASE load.left > 0
      <4>1. load' = [load EXCEPT !.pc = "save"] BY <2>7, <3>2 DEF Asks, LoadRecords
      <4> QED BY <4>1, <3>2 DEF LoadRecords
    <3>3. CASE load.left = 0
      BY <2>7, <3>3 DEF Asks, LoadRecords
    <3> QED BY <3>1, <3>2, <3>3
  <2> QED
    BY <2>1, <2>2, <2>3, <2>4, <2>5, <2>6, <2>7 DEF Loading
<1> QED
  BY <1>1, <1>2, <1>3

LEMMA PcNames ==
  /\ {"out", "fw", "ports", "shake", "time", "alloc", "spawn", "failed", "load", "check", "sync", "wake",
      "loading", "up", "find", "reset", "exit", "stopping", "gone"} = HostPcs
BY DEF HostPcs, InitPcs, BootPcs

\* The init function.
LEMMA InitType ==
  ASSUME DriverType, InitBegins \/ InitEnds \/ InitFails \/ Allocates \/ ExitEnds
  PROVE  HostType' /\ Calls'
<1> USE PcNames DEF DriverType, HostType, Calls, AtHost
<1>1. PICK pc \in {"fw", "ports", "shake", "time", "alloc", "spawn", "up", "failed", "gone"} :
        /\ Enters(pc) /\ host.pc \in InitPcs \cup {"exit"}
        /\ pc = "gone" <=> host.pc = "exit"
        /\ pc = "failed" => "initfailed" \in cause'
        /\ UNCHANGED <<load, thread, queues>>
  BY DEF InitBegins, InitEnds, InitFails, Allocates, ExitEnds, Ends, InitPcs, Entry, fwVars, drvVars
<1>2. /\ host' \in HostRecords /\ host'.pc = pc /\ host'.op = host.op
  BY <1>1, HostEnters
<1> QED
  BY <1>1, <1>2 DEF InitPcs, BootPcs

LEMMA LoadStarts ==
  ASSUME NEW d \in Cards, LoadBegins(d)
  PROVE  /\ load' \in LoadRecords /\ load'.card = d
         /\ \/ load'.pc = "file" /\ load'.file = 1 /\ load'.chunk = 0
            \/ load'.pc = "done" /\ ~load'.ok
<1> DEFINE one == 1
<1>1. one \in Nat
  OBVIOUS
<1>2. \/ load' = [NoLoad EXCEPT !.pc = "file", !.card = d, !.file = one]
      \/ load' = [NoLoad EXCEPT !.pc = "done", !.card = d, !.ok = FALSE]
  BY DEF LoadBegins
<1> HIDE DEF one
<1>3. CASE load' = [NoLoad EXCEPT !.pc = "file", !.card = d, !.file = one]
  <2>1. load' \in LoadRecords /\ load'.card = d /\ load'.pc = "file" /\ load'.file = one /\ load'.chunk = 0
    BY <1>1, <1>3 DEF NoLoad, LoadRecords
  <2> QED BY <2>1 DEF one
<1>4. CASE load' = [NoLoad EXCEPT !.pc = "done", !.card = d, !.ok = FALSE]
  BY <1>4 DEF NoLoad, LoadRecords
<1> QED
  BY <1>2, <1>3, <1>4

LEMMA InitCardType ==
  ASSUME DriverType, MapType, NEW d \in Cards,
         InitLoads(d) \/ OpensPorts(d) \/ Shakes(d) \/ Syncs(d) \/ Spawns(d)
           \/ \E pc \in {"ports", "shake", "time", "spawn"} : Skips(pc, d),
         bad' = "no"
  PROVE  DriverType'
<1> USE PcNames DEF DriverType, HostType, Calls, AtHost
<1>1. CASE InitLoads(d)
  <2>1. /\ host' = [host EXCEPT !.pc = "loading", !.card = d] /\ LoadBegins(d)
        /\ host.pc = "fw" /\ UNCHANGED <<boot, drvVars, cause>>
    BY <1>1 DEF InitLoads, Entry
  <2>2. load' \in LoadRecords /\ load'.pc \in {"file", "done"} /\ load'.card = d
    BY <2>1, LoadStarts
  <2>3. buf' \in Contents
    BY <2>1 DEF LoadBegins, BufIs, CardsType, Contents, Junk
  <2>4. /\ host' \in HostRecords /\ host'.pc = "loading" /\ host'.card = d /\ host'.op = host.op
    BY <2>1, HostGoesTo
  <2> QED
    BY <2>1, <2>2, <2>3, <2>4 DEF CardsType, InitPcs, BootPcs, drvVars
<1>2. ASSUME NEW pc \in {"ports", "shake", "time", "spawn"}, host.pc = pc, NextCard(pc),
             UNCHANGED fwVars, cause \subseteq cause', CardsType',
             \A e \in Cards : thread'[e] # "none" => e \in queues'
      PROVE  DriverType'
  <2>1. host' \in HostRecords /\ host'.pc = pc /\ host'.op = host.op
    BY <1>2, HostNext
  <2> QED
    BY <1>2, <2>1 DEF InitPcs, BootPcs, fwVars
<1>3. CASE OpensPorts(d)
  <2>1. CardsType'
    BY <1>3 DEF OpensPorts, PortsOpen, Dies, CardsType, fwVars
  <2> QED
    BY <2>1, <1>3, <1>2 DEF OpensPorts, Entry
<1>4. CASE Shakes(d) \/ Syncs(d)
  <2>1. CardsType'
    BY <1>4 DEF Shakes, Syncs, Breaks, CardsType, fwVars, drvVars
  <2> QED
    BY <2>1, <1>4, <1>2 DEF Shakes, Syncs, Breaks, Entry, fwVars, drvVars
<1>5. CASE Spawns(d)
  <2>1. CardsType'
    BY <1>5 DEF Spawns, CardsType, Entry, fwVars, MapType
  <2>2. \A e \in Cards : thread'[e] # "none" => e \in queues'
    BY <1>5 DEF Spawns, CardsType
  <2> QED
    BY <2>1, <2>2, <1>5, <1>2 DEF Spawns, Entry
<1>6. CASE \E pc \in {"ports", "shake", "time", "spawn"} : Skips(pc, d)
  <2>1. CardsType' /\ UNCHANGED <<fwVars, thread, queues, cause>>
    BY <1>6 DEF Skips, CardsType, fwVars, drvVars
  <2> QED
    BY <2>1, <1>6, <1>2 DEF Skips, Entry
<1> QED
  BY <1>1, <1>3, <1>4, <1>5, <1>6

\* The load under way: each step of it, and its end.
LEMMA LoadType ==
  ASSUME DriverType, LoadStep \/ InitLoaded \/ BootLoaded, bad' = "no"
  PROVE  DriverType'
<1> USE PcNames DEF DriverType, HostType, Calls, AtHost
<1>1. CASE LoadStep
  <2>1. Loading /\ host.pc = "loading" /\ UNCHANGED <<host, drvVars, cause>>
    BY <1>1 DEF LoadStep, Breaks
  <2>2. boot' \in [Cards -> BootRecords] /\ buf' \in Contents
    BY <2>1, LoadingType
  <2>3. /\ load' \in LoadRecords /\ (load'.pc = "save" => load'.left > 0)
        /\ load'.pc # "none" /\ load'.card = load.card
    BY <2>1, LoadingMoves
  <2> QED
    BY <2>1, <2>2, <2>3 DEF CardsType, BootPcs, drvVars
<1>2. load' = NoLoad => load' \in LoadRecords /\ load'.pc = "none"
  BY DEF NoLoad, LoadRecords
<1>3. CASE InitLoaded
  <2>1. NextCard("fw") /\ load' = NoLoad /\ host.op = "init"
    BY <1>3 DEF InitLoaded
  <2>2. host' \in HostRecords /\ host'.pc = "fw" /\ host'.op = "init"
    BY <2>1, HostNext
  <2>3. CardsType' /\ UNCHANGED <<thread, queues>>
    BY <1>3 DEF InitLoaded, Dies, CardsType
  <2> QED
    BY <1>2, <2>1, <2>2, <2>3 DEF InitPcs, BootPcs
<1>4. CASE BootLoaded
  <2>1. load' = NoLoad /\ host.pc = "loading" /\ host.op = "boot" /\ UNCHANGED cause
    BY <1>4 DEF BootLoaded
  <2>2. CardsType' /\ UNCHANGED <<thread, queues>>
    BY <1>4 DEF BootLoaded, Dies, CardsType
  <2>3. CASE Finds("check")
    <3>1. /\ host' \in HostRecords /\ host'.pc = "find" /\ host'.card = host.card /\ host'.op = "boot"
          /\ host'.next = "check"
      BY <2>1, <2>3, HostFinds
    <3> QED BY <1>2, <2>1, <2>2, <3>1 DEF InitPcs, BootPcs
  <2>4. CASE host' = Idle
    <3>1. host' \in HostRecords /\ host'.pc = "up" /\ host'.op = "up"
      BY <2>4, HostIdle
    <3> QED BY <1>2, <2>1, <2>2, <3>1 DEF InitPcs, BootPcs
  <2> QED
    BY <1>4, <2>3, <2>4 DEF BootLoaded
<1> QED
  BY <1>1, <1>3, <1>4

\* A walk over the map, the card that is found or not, and what follows.
LEMMA FindType ==
  ASSUME DriverType, Walks \/ WalkFails, bad' = "no"
  PROVE  DriverType'
<1> USE PcNames DEF DriverType, HostType, Calls, AtHost
<1>1. /\ host.pc = "find" /\ UNCHANGED <<fwVars, ports, queues, heartbeat, thread, stops, cause>>
      /\ status' \in {status, [status EXCEPT ![host.card] = "dead"]}
  BY DEF Walks, WalkFails, NotThere, Breaks, drvVars, d1
<1>2. CardsType'
  BY <1>1 DEF CardsType, fwVars
<1>3. CASE Walks
  <2>1. CASE host' = [host EXCEPT !.pc = host.next]
    <3>1. host.next \in BootPcs \cup {"reset"} /\ host.next \in HostPcs
      BY <1>1 DEF HostRecords, BootPcs
    <3>2. host' \in HostRecords /\ host'.pc = host.next /\ host'.card = host.card /\ host'.op = host.op
      BY <2>1, <3>1, HostGoes
    <3> QED BY <1>1, <1>2, <3>1, <3>2 DEF InitPcs, BootPcs, fwVars, HostRecords
  <2>2. CASE host' = [host EXCEPT !.walk = @ + 1]
    <3> DEFINE w == host.walk + 1
    <3>1. w \in Nat /\ host' = [host EXCEPT !.walk = w]
      BY <2>2 DEF HostRecords
    <3> HIDE DEF w
    <3>2. /\ host' \in HostRecords /\ host'.pc = host.pc /\ host'.card = host.card /\ host'.op = host.op
          /\ host'.next = host.next
      BY <3>1 DEF HostRecords
    <3> QED BY <1>1, <1>2, <3>2 DEF InitPcs, BootPcs, fwVars
  <2> QED
    BY <1>3, <2>1, <2>2 DEF Walks, Breaks
<1>4. CASE WalkFails
  <2>1. CASE host' = Idle
    <3>1. host' \in HostRecords /\ host'.pc = "up" /\ host'.op = "up"
      BY <2>1, HostIdle
    <3> QED BY <1>1, <1>2, <3>1 DEF InitPcs, BootPcs, fwVars
  <2>2. CASE Finds("load") /\ host.op = "boot"
    <3>1. /\ host' \in HostRecords /\ host'.pc = "find" /\ host'.card = host.card /\ host'.op = "boot"
          /\ host'.next = "load"
      BY <2>2, HostFinds
    <3> QED BY <1>1, <1>2, <3>1 DEF InitPcs, BootPcs, fwVars
  <2>3. CASE NextCard("exit") /\ host.op = "exit"
    <3>1. host' \in HostRecords /\ host'.pc = "exit" /\ host'.op = "exit"
      BY <2>3, HostNext
    <3> QED BY <1>1, <1>2, <3>1 DEF InitPcs, BootPcs, fwVars
  <2>4. CASE host' = [host EXCEPT !.pc = "wake"] /\ host.next = "sync"
    <3>1. host' \in HostRecords /\ host'.pc = "wake" /\ host'.card = host.card /\ host'.op = "boot"
      BY <1>1, <2>4, HostGoes
    <3> QED BY <1>1, <1>2, <3>1 DEF InitPcs, BootPcs, fwVars
  <2> QED
    BY <1>4, <2>1, <2>2, <2>3, <2>4 DEF WalkFails, NotThere, Breaks
<1> QED
  BY <1>3, <1>4

\* RESET and BOOT.
LEMMA BootStepsType ==
  ASSUME DriverType, bad' = "no",
         (\E d \in Cards : Call(d)) \/ Resets \/ BootLoads \/ BootChecks \/ BootSyncs \/ BootWakes
  PROVE  DriverType'
<1> USE PcNames DEF DriverType, HostType, Calls, AtHost
<1>1. CASE \E d \in Cards : Call(d)
  <2>1. PICK d \in Cards, op \in {"reset", "boot"} :
          host' = [Idle EXCEPT !.pc = "find", !.next = "reset", !.card = d, !.op = op]
    BY <1>1 DEF Call
  <2>2. /\ host' \in HostRecords /\ host'.pc = "find" /\ host'.next = "reset" /\ host'.card = d
        /\ host'.op = op
    BY <2>1 DEF HostRecords, Idle
  <2>3. host.pc = "up" /\ UNCHANGED <<fwVars, drvVars>>
    BY <1>1 DEF Call
  <2> QED BY <2>2, <2>3 DEF CardsType, InitPcs, BootPcs, fwVars, drvVars
<1>2. CASE Resets
  <2>1. /\ host.pc = "reset" /\ UNCHANGED <<load, buf, ports, queues, heartbeat, thread, stops, cause>>
        /\ status' \in {status, [status EXCEPT ![host.card] = "dead"]}
    BY <1>2 DEF Resets, Breaks, Dies, d1
  <2>2. boot' \in [Cards -> BootRecords]
    <3>1. PICK crashed \in BOOLEAN :
            boot' = [boot EXCEPT ![host.card] = [Reset EXCEPT !.on = boot[host.card].on /\ Restorable(host.card),
                                                              !.crashed = crashed]]
      BY <1>2 DEF Resets, Breaks, d1
    <3> DEFINE on == boot[host.card].on /\ Restorable(host.card)
               r == [Reset EXCEPT !.on = on, !.crashed = crashed]
    <3>2. on \in BOOLEAN
      BY Zenon DEF Restorable
    <3> HIDE DEF on
    <3>3. r \in BootRecords
      BY <3>2, ResetType DEF BootRecords
    <3>4. boot' = [boot EXCEPT ![host.card] = r]
      BY <3>1 DEF on
    <3> QED BY <3>3, <3>4 DEF CardsType
  <2>3. CardsType'
    BY <2>1, <2>2 DEF CardsType
  <2>4. CASE host' = Idle
    <3>1. host' \in HostRecords /\ host'.pc = "up" /\ host'.op = "up"
      BY <2>4, HostIdle
    <3> QED BY <2>1, <2>3, <3>1 DEF InitPcs, BootPcs
  <2>5. CASE Finds("load") /\ host.op = "boot"
    <3>1. /\ host' \in HostRecords /\ host'.pc = "find" /\ host'.card = host.card /\ host'.op = "boot"
          /\ host'.next = "load"
      BY <2>5, HostFinds
    <3> QED BY <2>1, <2>3, <3>1 DEF InitPcs, BootPcs
  <2>6. CASE NextCard("exit") /\ host.op = "exit"
    <3>1. host' \in HostRecords /\ host'.pc = "exit" /\ host'.op = "exit"
      BY <2>6, HostNext
    <3> QED BY <2>1, <2>3, <3>1 DEF InitPcs, BootPcs
  <2> QED BY <1>2, <2>4, <2>5, <2>6 DEF Resets, Breaks
<1>3. CASE BootLoads
  <2>1. /\ host' = [host EXCEPT !.pc = "loading"] /\ LoadBegins(host.card)
        /\ host.pc = "load" /\ UNCHANGED <<boot, drvVars, cause>>
    BY <1>3 DEF BootLoads, Breaks, d1
  <2>2. host.card \in Cards
    BY <2>1 DEF BootPcs
  <2>3. load' \in LoadRecords /\ load'.pc \in {"file", "done"} /\ load'.card = host.card
    BY <2>1, <2>2, LoadStarts
  <2>4. buf' \in Contents
    BY <2>1 DEF LoadBegins, BufIs, CardsType, Contents, Junk
  <2>5. host' \in HostRecords /\ host'.pc = "loading" /\ host'.card = host.card /\ host'.op = host.op
    BY <2>1, HostGoes
  <2> QED BY <2>1, <2>2, <2>3, <2>4, <2>5 DEF CardsType, InitPcs, BootPcs, drvVars
<1>4. CASE BootChecks \/ BootSyncs \/ BootWakes
  <2>1. /\ host.pc \in {"check", "sync", "wake"}
        /\ UNCHANGED <<fwVars, ports, queues, heartbeat, thread, stops, cause>>
        /\ status' \in {status, [status EXCEPT ![host.card] = "dead"], [status EXCEPT ![host.card] = "alive"]}
    BY <1>4 DEF BootChecks, BootSyncs, BootWakes, Breaks, Dies, drvVars, d1
  <2>2. CardsType'
    BY <2>1 DEF CardsType, fwVars
  <2>3. CASE host' = Idle
    <3>1. host' \in HostRecords /\ host'.pc = "up" /\ host'.op = "up"
      BY <2>3, HostIdle
    <3> QED BY <2>1, <2>2, <3>1 DEF InitPcs, BootPcs, fwVars
  <2>4. CASE Finds("sync") /\ host.pc = "check"
    <3>1. /\ host' \in HostRecords /\ host'.pc = "find" /\ host'.card = host.card /\ host'.op = host.op
          /\ host'.next = "sync"
      BY <2>4, HostFinds
    <3> QED BY <2>1, <2>2, <3>1 DEF InitPcs, BootPcs, fwVars
  <2>5. CASE host' = [host EXCEPT !.pc = "wake"]
    <3>1. host' \in HostRecords /\ host'.pc = "wake" /\ host'.card = host.card /\ host'.op = host.op
      BY <2>5, HostGoes
    <3> QED BY <2>1, <2>2, <3>1 DEF InitPcs, BootPcs, fwVars
  <2> QED BY <1>4, <2>3, <2>4, <2>5 DEF BootChecks, BootSyncs, BootWakes, Breaks
<1> QED
  BY <1>1, <1>2, <1>3, <1>4

LEMMA PlaceIsSlot ==
  ASSUME host \in HostRecords, MapType, host.i < number
  PROVE  host.i \in Slots
<1>1. host.i \in Nat /\ number \in Nat /\ number <= MaxDev /\ MaxDev \in Nat
  BY MapAssumption DEF HostRecords, MapType
<1> QED
  BY <1>1 DEF Slots

LEMMA ExitType ==
  ASSUME DriverType, ExitBegins \/ ExitStopped \/ \E d \in Cards : ExitStops(d), MapType, bad' = "no"
  PROVE  DriverType'
<1> USE PcNames DEF DriverType, HostType, Calls, AtHost
<1>1. CASE ExitBegins
  <2>1. /\ host' \in HostRecords /\ host'.pc = "exit" /\ host'.op = "exit"
    BY <1>1 DEF ExitBegins, HostRecords, Idle
  <2>2. host.pc = "up" /\ UNCHANGED <<fwVars, drvVars, cause>>
    BY <1>1 DEF ExitBegins
  <2> QED BY <2>1, <2>2 DEF CardsType, InitPcs, BootPcs, fwVars, drvVars
<1>2. CASE ExitStopped
  <2>1. Finds("reset") /\ host.pc = "stopping" /\ UNCHANGED <<fwVars, drvVars, cause>>
    BY <1>2 DEF ExitStopped
  <2>2. /\ host' \in HostRecords /\ host'.pc = "find" /\ host'.card = host.card /\ host'.op = host.op
        /\ host'.next = "reset"
    BY <2>1, HostFinds
  <2> QED BY <2>1, <2>2 DEF CardsType, InitPcs, BootPcs, fwVars, drvVars
<1>3. ASSUME NEW d \in Cards, ExitStops(d) PROVE DriverType'
  <2>1. host.pc = "exit" /\ host.op = "exit" /\ heartbeat[host.i] \in Cards \cup {None}
    <3>1. host.i \in Slots
      BY <1>3, PlaceIsSlot DEF ExitStops, Entry
    <3> QED BY <1>3, <3>1 DEF ExitStops, Entry, CardsType
  <2>2. CASE /\ host' = [host EXCEPT !.pc = "find", !.next = "reset", !.walk = 0, !.card = d]
             /\ UNCHANGED <<fwVars, drvVars, cause>>
    <3> DEFINE w == 0
    <3>1. w \in Nat /\ host' = [host EXCEPT !.pc = "find", !.next = "reset", !.walk = w, !.card = d]
      BY <2>2
    <3> HIDE DEF w
    <3>2. /\ host' \in HostRecords /\ host'.pc = "find" /\ host'.card = d /\ host'.op = host.op
          /\ host'.next = "reset"
      BY <3>1 DEF HostRecords
    <3> QED BY <2>1, <2>2, <3>2 DEF CardsType, InitPcs, BootPcs, fwVars, drvVars
  <2>3. CASE /\ host' = [host EXCEPT !.pc = "stopping", !.card = d] /\ heartbeat[host.i] # None
             /\ stops' = stops \cup {heartbeat[host.i]}
             /\ UNCHANGED <<fwVars, status, ports, queues, heartbeat, thread, cause>>
    <3>1. /\ host' \in HostRecords /\ host'.pc = "stopping" /\ host'.card = d /\ host'.op = host.op
      BY <2>3, HostGoesTo
    <3> QED BY <2>1, <2>3, <3>1 DEF CardsType, InitPcs, BootPcs, fwVars
  <2> QED BY <1>3, <2>2, <2>3 DEF ExitStops, Breaks
<1> QED
  BY <1>1, <1>2, <1>3

LEMMA ThreadType ==
  ASSUME DriverType, NEW d \in Cards, Thread(d), bad' = "no"
  PROVE  DriverType'
<1>1. /\ UNCHANGED <<fwVars, host, ports, queues, heartbeat, stops, cause>>
      /\ status' \in {status, [status EXCEPT ![d] = "alive"], [status EXCEPT ![d] = "dead"]}
      /\ \/ thread' = thread
         \/ /\ thread[d] # "none"
            /\ \E t \in {"loop", "missed", "ended"} : thread' = [thread EXCEPT ![d] = t]
  BY
    DEF Thread, ThreadStarts, ThreadLooks, ThreadGivesUp, ThreadStops, ThreadLost, Breaks,
        ThreadGoes, Dies
<1>2. CardsType'
  BY <1>1 DEF DriverType, CardsType, fwVars
<1> QED
  BY <1>1, <1>2 DEF DriverType, CardsType, HostType, Calls, fwVars

LEMMA OutsideType ==
  ASSUME DriverType, RemoveGoesOn \/ \E d \in Cards : Probe(d) \/ Remove(d) \/ CardStep(d)
  PROVE  DriverType'
<1>1. CASE RemoveGoesOn
  <2>1. UNCHANGED <<fwVars, host, status, queues, heartbeat, thread, stops, cause>>
    BY <1>1 DEF RemoveGoesOn
  <2>2. ports' \in [Cards -> 0..2]
    BY <1>1 DEF RemoveGoesOn, DriverType, CardsType
  <2> QED BY <2>1, <2>2 DEF DriverType, CardsType, HostType, Calls, fwVars
<1>2. ASSUME NEW d \in Cards, Probe(d) \/ Remove(d) PROVE DriverType'
  <2>1. CardsType' BY <1>2, ProbeRemoveType DEF DriverType
  <2>2. UNCHANGED <<load, host, drvVars>> /\ cause \subseteq cause'
    BY <1>2 DEF Probe, Remove
  <2> QED BY <2>1, <2>2 DEF DriverType, HostType, Calls, drvVars
<1>3. ASSUME NEW d \in Cards, CardStep(d) PROVE DriverType'
  <2>1. CardsType' BY <1>3, CardStepType DEF DriverType
  <2>2. UNCHANGED <<load, host, drvVars, cause>>
    BY <1>3 DEF CardStep, Card, CardTakes, CardMoves, CardReports
  <2> QED BY <2>1, <2>2 DEF DriverType, HostType, Calls, drvVars
<1> QED
  BY <1>1, <1>2, <1>3

LEMMA DriverTypeStep ==
  ASSUME DriverType, MapType, Next, bad' = "no"
  PROVE  DriverType'
<1>1. CASE InitBegins \/ InitEnds \/ InitFails \/ Allocates \/ ExitEnds
  <2>1. UNCHANGED <<buf, boot, drvVars>>
    BY <1>1 DEF InitBegins, InitEnds, InitFails, Allocates, ExitEnds, Ends, fwVars
  <2> QED BY <1>1, <2>1, InitType DEF DriverType, CardsType, drvVars
<1>2. ASSUME NEW d \in Cards,
             \/ InitLoads(d) \/ OpensPorts(d) \/ Shakes(d) \/ Syncs(d) \/ Spawns(d)
             \/ \E pc \in {"ports", "shake", "time", "spawn"} : Skips(pc, d)
      PROVE  DriverType'
  BY <1>2, InitCardType
<1>3. CASE InitLoaded \/ LoadStep \/ BootLoaded
  BY <1>3, LoadType
<1>4. CASE Walks \/ WalkFails
  BY <1>4, FindType
<1>5. CASE (\E d \in Cards : Call(d)) \/ Resets \/ BootLoads \/ BootChecks \/ BootSyncs \/ BootWakes
  BY <1>5, BootStepsType
<1>6. CASE ExitBegins \/ ExitStopped \/ \E d \in Cards : ExitStops(d)
  BY <1>6, ExitType
<1>7. /\ \A pc \in Phases : ~NullEntry(pc)
      /\ ~RingFails /\ \A d \in Cards : ~Overruns(d)
  BY DEF NullEntry, RingFails, Overruns, Breaks
<1>8. CASE RemoveGoesOn \/ \E d \in Cards : Probe(d) \/ Remove(d) \/ CardStep(d)
  BY <1>8, OutsideType
<1>9. ASSUME NEW d \in Cards, Thread(d) PROVE DriverType'
  BY <1>9, ThreadType
<1> QED
  BY <1>1, <1>2, <1>3, <1>4, <1>5, <1>6, <1>7, <1>8, <1>9 DEF Next, Driver

-----------------------------------------------------------------------------
(* What changes what *)

\* Every step, but for a use of what is not there.
Host ==
  \/ InitBegins \/ InitEnds \/ InitLoaded \/ InitFails \/ Allocates
  \/ \E d \in Cards : \/ InitLoads(d) \/ OpensPorts(d) \/ Shakes(d) \/ Syncs(d) \/ Spawns(d)
                      \/ Call(d) \/ ExitStops(d)
                      \/ \E pc \in {"ports", "shake", "time", "spawn"} : Skips(pc, d)
  \/ Walks \/ WalkFails \/ Resets \/ BootLoads \/ BootLoaded
  \/ BootChecks \/ BootSyncs \/ BootWakes
  \/ ExitBegins \/ ExitStopped \/ ExitEnds
Outside == RemoveGoesOn \/ \E d \in Cards : Probe(d) \/ Remove(d)

LEMMA NextCases ==
  ASSUME Next, bad' = "no"
  PROVE  Host \/ LoadStep \/ Outside \/ \E d \in Cards : CardStep(d) \/ Thread(d)
<1>1. /\ \A pc \in Phases : ~NullEntry(pc)
      /\ ~RingFails /\ \A d \in Cards : ~Overruns(d)
  BY DEF NullEntry, RingFails, Overruns, Breaks
<1> QED
  BY <1>1 DEF Next, Driver, Host, Outside

LEMMA HostChanges ==
  ASSUME Host, bad' = "no"
  PROVE  /\ cause \subseteq cause' /\ UNCHANGED <<mapVars, lateDump>>
         /\ dangling' \subseteq dangling
         /\ boot' = boot \/ Resets
         /\ (thread' = thread /\ heartbeat' = heartbeat) \/ \E d \in Cards : Spawns(d)
         /\ ports' = ports \/ \E d \in Cards : OpensPorts(d)
         /\ stops' = stops \/ \E d \in Cards : ExitStops(d)
<1>1. CASE InitBegins \/ InitEnds \/ InitFails \/ Allocates \/ ExitEnds
  BY <1>1 DEF InitBegins, InitEnds, InitFails, Allocates, ExitEnds, Ends, fwVars, drvVars
<1>2. CASE InitLoaded \/ BootLoaded
  BY <1>2 DEF InitLoaded, BootLoaded
<1>3. ASSUME NEW d \in Cards, InitLoads(d) \/ OpensPorts(d) \/ Spawns(d) \/ Call(d)
      PROVE  /\ cause \subseteq cause' /\ UNCHANGED <<mapVars, boot, lateDump>>
             /\ dangling' \subseteq dangling /\ stops' = stops
             /\ (thread' = thread /\ heartbeat' = heartbeat) \/ Spawns(d)
             /\ ports' = ports \/ OpensPorts(d)
  BY <1>3 DEF InitLoads, LoadBegins, OpensPorts, Spawns, Call, fwVars, drvVars
<1>4. ASSUME NEW d \in Cards, Shakes(d) \/ Syncs(d) \/ \E pc \in {"ports", "shake", "time", "spawn"} : Skips(pc, d)
      PROVE  UNCHANGED <<mapVars, boot, lateDump, cause, dangling, thread, heartbeat, ports, stops>>
  BY <1>4 DEF Shakes, Syncs, Skips, Breaks, fwVars, drvVars
<1>5. ASSUME NEW d \in Cards, ExitStops(d)
      PROVE  /\ UNCHANGED <<mapVars, boot, lateDump, cause, dangling, thread, heartbeat, ports>>
             /\ stops' = stops \/ ExitStops(d)
  BY <1>5 DEF ExitStops, Breaks, fwVars, drvVars
<1>6. CASE Walks \/ WalkFails
  BY <1>6 DEF Walks, WalkFails, NotThere, Breaks, fwVars, drvVars
<1>7. CASE Resets
  BY <1>7 DEF Resets, Breaks, fwVars, drvVars
<1>8. CASE BootLoads \/ BootChecks \/ BootSyncs \/ BootWakes
  BY <1>8 DEF BootLoads, LoadBegins, BootChecks, BootSyncs, BootWakes, Breaks, fwVars, drvVars
<1>9. CASE ExitBegins \/ ExitStopped
  BY <1>9 DEF ExitBegins, ExitStopped, fwVars, drvVars
<1> QED
  BY <1>1, <1>2, <1>3, <1>4, <1>5, <1>6, <1>7, <1>8, <1>9 DEF Host

LEMMA ThreadChanges ==
  ASSUME CardsType, NEW d \in Cards, Thread(d), bad' = "no"
  PROVE  /\ UNCHANGED <<mapVars, fwVars, host, ports, queues, heartbeat, stops, dangling, cause>>
         /\ thread[d] \notin {"none", "ended"} /\ Loaded
         /\ \A e \in Cards : thread'[e] # thread[e] => e = d /\ thread'[e] \in {"loop", "missed", "ended"}
         /\ \A e \in Cards : status'[e] # status[e] => e = d
         /\ thread'[d] = "ended" => thread[d] = "ended" \/ d \in stops \/ (thread[d] = "new" /\ WalkEnd(d) = {})
<1>1. CASE ThreadStarts(d)
  BY <1>1 DEF ThreadStarts, ThreadGoes, Breaks, CardsType
<1>2. CASE ThreadLooks(d)
  BY <1>2 DEF ThreadLooks, ThreadGoes, Breaks, CardsType
<1>3. CASE ThreadGivesUp(d)
  BY <1>3 DEF ThreadGivesUp, ThreadGoes, Dies, CardsType
<1>4. CASE ThreadStops(d)
  BY <1>4 DEF ThreadStops, ThreadGoes, CardsType
<1>5. ~ThreadLost(d)
  BY DEF ThreadLost, Breaks
<1> QED
  BY <1>1, <1>2, <1>3, <1>4, <1>5 DEF Thread

\* A card acts on a command only, and on itself; of the rest, only on the buffer.
LEMMA CardChanges ==
  ASSUME CardsType, NEW d \in Cards, CardStep(d)
  PROVE  /\ UNCHANGED <<mapVars, host, drvVars, dangling, cause, load, lateDump>>
         /\ ~Silent(d)
         /\ \A e \in Cards : e # d => boot'[e] = boot[e]
         /\ boot'[d].on = boot[d].on /\ boot'[d].started = boot[d].started
<1>1. /\ UNCHANGED <<mapVars, host, drvVars, dangling, cause, load, lateDump>>
      /\ ~Silent(d)
  BY DEF CardStep, Card, CardTakes, CardMoves, CardReports, Silent
<1>2. CASE CardTakes(d)
  BY <1>1, <1>2 DEF CardTakes, CardsType, BootRecords
<1>3. CASE CardMoves(d)
  BY <1>1, <1>3 DEF CardMoves, CardsType, BootRecords
<1>4. CASE CardReports(d)
  BY <1>1, <1>4 DEF CardReports, CardsType, BootRecords
<1> QED
  BY <1>2, <1>3, <1>4 DEF CardStep, Card

LEMMA LoadChanges ==
  ASSUME DriverType, LoadStep, bad' = "no"
  PROVE  /\ UNCHANGED <<mapVars, host, drvVars, dangling, cause>>
         /\ host.pc = "loading" /\ Loading
         /\ \A e \in Cards : e # host.card => boot'[e] = boot[e]
         /\ boot'[host.card].on = boot[host.card].on
<1>1. /\ UNCHANGED <<mapVars, host, drvVars, dangling, cause>>
      /\ host.pc = "loading" /\ Loading
  BY DEF LoadStep, AtHost, Breaks
<1>2. load.card = host.card /\ host.card \in Cards
  BY <1>1 DEF DriverType, Calls
<1>3. \A e \in Cards : e # host.card => boot'[e] = boot[e]
  BY <1>1, <1>2 DEF Loading, NextFile, Copies, Sends, ChunkDone, ChunkFails, LoadEnds, DumpBegins,
       Asks, Saved, DumpFails, Command, Succeeds, NoSuccess, Answered, d0, DriverType, CardsType
<1>4. boot'[host.card].on = boot[host.card].on
  <2> USE <1>2 DEF d0, DriverType, CardsType, BootRecords
  <2>1. CASE NextFile BY <2>1 DEF NextFile
  <2>2. CASE Copies \/ LoadEnds BY <2>2 DEF Copies, LoadEnds
  <2>3. CASE Sends BY <2>3 DEF Sends, Command
  <2>4. CASE Asks
    <3>1. boot' = boot \/ Command("write") BY <2>4 DEF Asks
    <3> QED BY <3>1 DEF Command
  <2>5. CASE ChunkDone \/ ChunkFails BY <2>5 DEF ChunkDone, ChunkFails, Succeeds, NoSuccess, Answered
  <2>6. CASE Saved \/ DumpFails BY <2>6 DEF Saved, DumpFails, Succeeds, NoSuccess, Answered
  <2>7. CASE DumpBegins
    <3>1. boot' = [boot EXCEPT ![host.card].crashed = FALSE] BY <2>7 DEF DumpBegins
    <3> QED BY <3>1
  <2> QED BY <1>1, <2>1, <2>2, <2>3, <2>4, <2>5, <2>6, <2>7 DEF Loading
<1> QED
  BY <1>1, <1>3, <1>4

LEMMA OutsideChanges ==
  ASSUME Outside
  PROVE  UNCHANGED <<load, buf, fails, lateDump, host, status, queues, heartbeat, thread, stops, bad>>
         /\ cause \subseteq cause'
BY DEF Outside, RemoveGoesOn, Probe, Remove, fwVars, drvVars

LEMMA CauseGrows == Next => cause \subseteq cause'
<1> SUFFICES ASSUME Next PROVE cause \subseteq cause'
  OBVIOUS
<1>1. CASE Driver
  <2>1. CASE InitBegins \/ InitEnds \/ InitFails \/ Allocates \/ ExitEnds \/ InitLoaded \/ BootLoaded
    BY <2>1 DEF InitBegins, InitEnds, InitFails, Allocates, ExitEnds, Ends, InitLoaded, BootLoaded
  <2>2. ASSUME NEW pc \in Phases, NullEntry(pc)
        PROVE  cause \subseteq cause'
    BY <2>2 DEF NullEntry, Breaks
  <2>3. ASSUME NEW d \in Cards,
               \/ InitLoads(d) \/ OpensPorts(d) \/ Shakes(d) \/ Syncs(d) \/ Spawns(d)
               \/ \E pc \in {"ports", "shake", "time", "spawn"} : Skips(pc, d)
        PROVE  cause \subseteq cause'
    BY <2>3 DEF InitLoads, OpensPorts, Shakes, Syncs, Spawns, Skips, Breaks
  <2>4. ASSUME NEW d \in Cards, Overruns(d) \/ Call(d) \/ ExitStops(d)
        PROVE  cause \subseteq cause'
    BY <2>4 DEF Overruns, Call, ExitStops, Breaks
  <2>5. CASE LoadStep \/ Walks \/ WalkFails
    BY <2>5 DEF LoadStep, Walks, WalkFails, NotThere, Breaks
  <2>6. CASE Resets \/ BootLoads \/ BootChecks \/ RingFails \/ BootSyncs \/ BootWakes
    BY <2>6 DEF Resets, BootLoads, BootChecks, RingFails, BootSyncs, BootWakes, Breaks
  <2>7. CASE ExitBegins \/ ExitStopped
    BY <2>7 DEF ExitBegins, ExitStopped
  <2> QED BY <1>1, <2>1, <2>2, <2>3, <2>4, <2>5, <2>6, <2>7 DEF Driver
<1>2. CASE Outside
  BY <1>2, OutsideChanges
<1>3. ASSUME NEW d \in Cards, CardStep(d)
      PROVE  cause \subseteq cause'
  BY <1>3 DEF CardStep
<1>4. ASSUME NEW d \in Cards, Thread(d)
      PROVE  cause \subseteq cause'
  BY <1>4 DEF Thread, ThreadStarts, ThreadLooks, ThreadGivesUp, ThreadStops, ThreadLost, Breaks
<1> QED
  BY <1>1, <1>2, <1>3, <1>4 DEF Next, Outside

\* A driver that is loaded was loaded before, or begins.
LEMMA StaysLoaded ==
  ASSUME DriverType, Next, bad' = "no", Loaded'
  PROVE  Loaded \/ InitBegins
<1>1. CASE Host
  <2>1. InitBegins \/ host.pc \notin {"out", "gone", "failed"}
    <3>1. CASE InitEnds \/ InitFails \/ Allocates \/ ExitEnds \/ InitLoaded \/ BootLoaded
      BY <3>1
        DEF InitEnds, InitFails, Allocates, ExitEnds, Ends, InitLoaded, BootLoaded, AtHost, Entry
    <3>2. ASSUME NEW d \in Cards,
                 \/ InitLoads(d) \/ OpensPorts(d) \/ Shakes(d) \/ Syncs(d) \/ Spawns(d) \/ Call(d) \/ ExitStops(d)
                 \/ \E pc \in {"ports", "shake", "time", "spawn"} : Skips(pc, d)
          PROVE  host.pc \notin {"out", "gone", "failed"}
      BY <3>2
        DEF InitLoads, OpensPorts, Shakes, Syncs, Spawns, Call, ExitStops, Skips, Entry, AtHost
    <3>3. CASE Walks \/ WalkFails \/ Resets \/ BootLoads \/ BootChecks \/ BootSyncs \/ BootWakes \/ ExitBegins \/ ExitStopped
      BY <3>3
        DEF Walks, WalkFails, Resets, BootLoads, BootChecks, BootSyncs, BootWakes, ExitBegins,
            ExitStopped, AtHost
    <3> QED BY <1>1, <3>1, <3>2, <3>3 DEF Host
  <2> QED BY <2>1 DEF Loaded
<1>2. CASE LoadStep \/ Outside \/ \E d \in Cards : CardStep(d) \/ Thread(d)
  <2>1. host' = host
    BY <1>2, LoadChanges, OutsideChanges, CardChanges, ThreadChanges DEF DriverType
  <2> QED BY <2>1 DEF Loaded
<1> QED
  BY <1>1, <1>2, NextCases

-----------------------------------------------------------------------------
(* Before init *)

\* Nothing comes back to before init.
LEMMA NeverOutAgain ==
  ASSUME DriverType, Host, bad' = "no"
  PROVE  /\ host'.pc # "out"
         /\ host'.pc = "gone" => ExitEnds
<1> USE PcNames DEF DriverType, HostType
<1>1. CASE InitBegins \/ InitEnds \/ InitFails \/ Allocates \/ ExitEnds
  <2>1. ExitEnds \/ \E pc \in {"fw", "ports", "shake", "time", "alloc", "spawn", "up", "failed"} : Enters(pc)
    BY <1>1 DEF InitBegins, InitEnds, InitFails, Allocates, Ends
  <2>2. CASE ExitEnds BY <2>2, HostEnters DEF ExitEnds, Ends
  <2> QED BY <2>1, <2>2, HostEnters
<1>2. CASE InitLoaded
  BY <1>2, HostNext DEF InitLoaded
<1>3. ASSUME NEW d \in Cards, OpensPorts(d) \/ Shakes(d) \/ Syncs(d) \/ Spawns(d)
                              \/ \E pc \in {"ports", "shake", "time", "spawn"} : Skips(pc, d)
      PROVE  host'.pc \notin {"out", "gone"}
  <2>1. \E pc \in {"ports", "shake", "time", "spawn"} : NextCard(pc)
    BY <1>3 DEF OpensPorts, Shakes, Syncs, Spawns, Skips, Breaks
  <2> QED BY <2>1, HostNext
<1>4. ASSUME NEW d \in Cards, InitLoads(d)
      PROVE  host'.pc \notin {"out", "gone"}
  BY <1>4, HostGoesTo DEF InitLoads
<1>5. CASE \E d \in Cards : Call(d)
  BY <1>5 DEF Call, Idle
<1>6. ASSUME NEW d \in Cards, ExitStops(d)
      PROVE  host'.pc \notin {"out", "gone"}
  BY <1>6 DEF ExitStops, Breaks, HostRecords
<1>7. CASE Walks
  <2>1. host.pc = "find" /\ host.next # "out"
    BY <1>7 DEF Walks, AtHost, Calls
  <2> QED BY <1>7, <2>1 DEF Walks, Breaks, HostRecords
<1>8. CASE WalkFails
  BY <1>8, HostFinds, HostNext, HostGoes, HostIdle DEF WalkFails, NotThere, Breaks
<1>9. CASE BootLoaded \/ Resets
  <2>1. Finds("check") \/ Finds("load") \/ NextCard("exit") \/ host' = Idle
    <3>1. CASE BootLoaded BY <3>1 DEF BootLoaded
    <3>2. CASE Resets
      <4>1. host.op \in {"reset", "boot", "exit"} BY <3>2 DEF Resets, AtHost, Calls
      <4> QED BY <3>2, <4>1 DEF Resets, Breaks
    <3> QED BY <1>9, <3>1, <3>2
  <2>2. CASE host' = Idle BY <2>2 DEF Idle
  <2> QED BY <2>1, <2>2, HostFinds, HostNext
<1>10. CASE BootLoads \/ BootChecks \/ BootSyncs \/ BootWakes
  <2>1. \/ \E pc \in {"loading", "wake"} : host' = [host EXCEPT !.pc = pc]
        \/ Finds("sync") \/ host' = Idle
    BY <1>10 DEF BootLoads, BootChecks, BootSyncs, BootWakes, Breaks
  <2>2. ASSUME NEW pc \in {"loading", "wake"}, host' = [host EXCEPT !.pc = pc]
        PROVE  host'.pc \notin {"out", "gone"}
    BY <2>2 DEF HostRecords
  <2>3. CASE Finds("sync") BY <2>3, HostFinds
  <2>4. CASE host' = Idle BY <2>4 DEF Idle
  <2> QED BY <2>1, <2>2, <2>3, <2>4
<1>11. CASE ExitBegins \/ ExitStopped
  BY <1>11, HostFinds DEF ExitBegins, ExitStopped, Idle
<1> QED
  BY <1>1, <1>2, <1>3, <1>4, <1>5, <1>6, <1>7, <1>8, <1>9, <1>10, <1>11 DEF Host

LEMMA BeforeInitStep ==
  ASSUME DriverType, MapInv, BeforeInit, Next, bad' = "no"
  PROVE  BeforeInit'
<1> SUFFICES ASSUME AtHost("out")' PROVE BeforeInit'
  BY DEF BeforeInit
<1>1. AtHost("out") /\ (Outside \/ \E d \in Cards : CardStep(d) \/ Thread(d))
  <2>1. ~Host
    BY NeverOutAgain DEF AtHost
  <2>2. ~LoadStep
    BY LoadChanges DEF AtHost
  <2>3. host' = host
    BY <2>1, <2>2, NextCases, OutsideChanges, CardChanges, ThreadChanges DEF DriverType
  <2> QED BY <2>1, <2>2, <2>3, NextCases DEF AtHost
<1>2. /\ \A d \in Cards : thread[d] = "none" /\ status[d] = "none" /\ ports[d] = 0 /\ Fresh(d)
      /\ \A d \in Cards : bound[d] = "bound" /\ ~(core.pc # "idle" /\ d = c0) => boot[d].on
      /\ \A i \in Slots : heartbeat[i] = None
      /\ stops = {} /\ dangling = {} /\ host.card = None
  BY <1>1 DEF BeforeInit
<1>3. Outside
  <2>1. ASSUME NEW d \in Cards, CardStep(d) PROVE FALSE
    BY <1>2, <2>1, CardChanges DEF DriverType, Fresh
  <2>2. ASSUME NEW d \in Cards, Thread(d) PROVE FALSE
    BY <1>2, <2>2, ThreadChanges DEF DriverType
  <2> QED BY <1>1, <2>1, <2>2
<1>4. /\ \A d \in Cards : thread'[d] = "none" /\ status'[d] = "none"
      /\ \A i \in Slots : heartbeat'[i] = None
      /\ stops' = {} /\ host'.card = None
  BY <1>2, <1>3, OutsideChanges
<1>5. CASE RemoveGoesOn
  <2>1. boot' = boot /\ ports' \in [Cards -> 0..2]
    BY <1>5 DEF RemoveGoesOn, fwVars, DriverType, CardsType
  <2>2. \A d \in Cards : ports'[d] = 0
    BY <1>2, <1>5 DEF RemoveGoesOn
  <2>3. dangling' = {}
    BY <1>2, <1>5, MapAssumption DEF RemoveGoesOn, d1
  <2>4. \A d \in Cards : bound'[d] = "bound" /\ ~(core'.pc # "idle" /\ d = core'.card) => boot[d].on
    BY <1>2, <1>5
      DEF RemoveGoesOn, RemoveStep, Releases, MovesLast, ClearsLast, Uncounts, CoreAt, CoreGoes,
          NoCall, c0, MapInv, MapType
  <2>5. \A d \in Cards : Fresh(d)'
    BY <1>2, <2>1 DEF Fresh, Silent
  <2>6. \A d \in Cards : bound'[d] = "bound" /\ ~(core'.pc # "idle" /\ d = core'.card) => boot'[d].on
    BY <2>1, <2>4
  <2>7. \A d \in Cards : thread'[d] = "none" /\ status'[d] = "none" /\ ports'[d] = 0 /\ Fresh(d)'
    BY <1>4, <2>2, <2>5
  <2> QED BY <1>4, <2>7, <2>3, <2>6 DEF BeforeInit, c0
<1>6. ASSUME NEW d \in Cards, Probe(d) PROVE BeforeInit'
  <2>1. UNCHANGED <<ports, dangling>> /\ boot' = [boot EXCEPT ![d].on = TRUE]
    BY <1>6 DEF Probe, drvVars
  <2>2. \A e \in Cards : Fresh(e)' /\ (boot[e].on => boot'[e].on)
    BY <1>2, <2>1 DEF Fresh, Silent, DriverType, CardsType, BootRecords
  <2>3. \A e \in Cards : bound'[e] = "bound" /\ ~(core'.pc # "idle" /\ e = core'.card) => boot'[e].on
    <3>1. core' = core /\ \A e \in Cards : e # d => bound'[e] = bound[e]
      BY <1>6 DEF Probe, ProbeCard, ProbeFails, ProbeRefused, ProbeBinds, mapVars, MapInv, MapType
    <3>2. boot'[d].on
      BY <2>1 DEF DriverType, CardsType, BootRecords
    <3> QED BY <1>2, <2>2, <3>1, <3>2 DEF c0
  <2> QED BY <1>2, <1>4, <2>1, <2>2, <2>3 DEF BeforeInit, c0
<1>7. ASSUME NEW d \in Cards, Remove(d) PROVE BeforeInit'
  <2>1. /\ UNCHANGED <<ports, dangling>> /\ RemoveBegins(d)
        /\ boot' \in {boot, [boot EXCEPT ![d] = [Reset EXCEPT !.on = FALSE]]}
    BY <1>7 DEF Remove, drvVars
  <2>2. \A e \in Cards : Fresh(e)' /\ (e # d => boot'[e] = boot[e])
    BY <1>2, <2>1 DEF Fresh, Silent, Reset, DriverType, CardsType, BootRecords
  <2>3. \A e \in Cards : bound'[e] = "bound" /\ ~(core'.pc # "idle" /\ e = core'.card) => boot'[e].on
    <3>1. /\ core.pc = "idle" /\ \A e \in Cards : e # d => bound'[e] = bound[e]
          /\ bound'[d] = "bound" => core'.pc # "idle" /\ core'.card = d
      BY <2>1 DEF RemoveBegins, CoreAt, MapInv, MapType
    <3> QED BY <1>2, <2>2, <3>1 DEF c0
  <2> QED BY <1>2, <1>4, <2>1, <2>2, <2>3 DEF BeforeInit, c0
<1> QED BY <1>3, <1>5, <1>6, <1>7 DEF Outside

-----------------------------------------------------------------------------
(* While no card is unplugged *)

\* The map is all there.
LEMMA KeptMap ==
  ASSUME MapInv, Kept
  PROVE  /\ number \in Nat /\ Count = number
         /\ \A i \in 0..(number - 1) : i \in Slots /\ map[i] \in Cards /\ bound[map[i]] = "bound"
         /\ \A i, j \in 0..(number - 1) : map[i] = map[j] => i = j
         /\ \A d \in Cards : bound[d] = "bound" =>
              (\E i \in 0..(number - 1) : map[i] = d) /\ Usable(d) /\ Restorable(d)
<1>1. number \in Nat /\ number <= MaxDev /\ MaxDev \in Nat /\ core.pc = "idle"
  BY MapAssumption DEF MapInv, MapType, Kept
<1>2. Count = number /\ \A d \in Cards : (Present(d) <=> bound[d] = "bound") /\ ~Leaving(d)
  BY <1>1 DEF Count, Closing, Present, Leaving
<1>3. \A i \in 0..(number - 1) : i \in Slots /\ map[i] \in Cards /\ bound[map[i]] = "bound"
  BY <1>1, <1>2 DEF MapInv, Entries, Entered, Slots
<1>4. \A i, j \in 0..(number - 1) : map[i] = map[j] => i = j
  BY <1>2 DEF MapInv, Entries, Once
<1>5. \A d \in Cards : bound[d] = "bound" => \E i \in 0..(number - 1) : map[i] = d
  BY <1>2 DEF MapInv, Entries, Listed
<1>6. \A d \in Cards : bound[d] = "bound" => has[d] = All /\ d \in saved
  BY <1>2 DEF MapInv, Holdings
<1>7. Bars \cup {"record", "shm"} \subseteq All
  <2>1. /\ Len(Steps) = 8 /\ Steps[4] = "record" /\ Steps[5] = "bar0" /\ Steps[6] = "bar1"
        /\ Steps[7] = "bar4" /\ Steps[8] = "shm"
    BY DEF Steps
  <2>2. 4 \in 1..Len(Steps) /\ 5 \in 1..Len(Steps) /\ 6 \in 1..Len(Steps) /\ 7 \in 1..Len(Steps) /\ 8 \in 1..Len(Steps)
    BY <2>1
  <2>3. \A n \in 1..Len(Steps) : Steps[n] \in All
    BY DEF All
  <2> QED BY <2>1, <2>2, <2>3 DEF Bars
<1> QED
  BY <1>1, <1>2, <1>3, <1>4, <1>5, <1>6, <1>7 DEF Usable, Restorable

\* Cards come and go around it.
LEMMA KeptMoves ==
  ASSUME MapInv, Kept, DriverType, Loaded, Outside, Calm'
  PROVE  /\ core' = core /\ UNCHANGED <<dangling, ports, thread, stops, heartbeat, host, load, status, buf, lateDump, queues>>
         /\ \E d \in Cards :
              /\ bound[d] # "bound"
              /\ \A e \in Cards \ {d} : boot'[e] = boot[e] /\ bound'[e] = bound[e]
              /\ Fresh(d) => Fresh(d)'
              /\ \/ bound'[d] # "bound" /\ UNCHANGED <<map, number>>
                 \/ /\ bound'[d] = "bound" /\ boot'[d].on /\ "late" \in cause'
                    /\ number' = number + 1 /\ number \in Slots /\ map' = [map EXCEPT ![number] = d]
<1>1. ~RemoveGoesOn
  BY DEF RemoveGoesOn, RemoveStep, Releases, MovesLast, ClearsLast, Uncounts, CoreAt, Kept
<1>2. ASSUME NEW d \in Cards, Probe(d)
      PROVE  /\ core' = core /\ UNCHANGED <<dangling, ports>>
             /\ bound[d] = "no"
             /\ \A e \in Cards \ {d} : boot'[e] = boot[e] /\ bound'[e] = bound[e]
             /\ Fresh(d) => Fresh(d)'
             /\ \/ bound'[d] # "bound" /\ UNCHANGED <<map, number>>
                \/ /\ bound'[d] = "bound" /\ boot'[d].on /\ "late" \in cause'
                   /\ number' = number + 1 /\ number \in Slots /\ map' = [map EXCEPT ![number] = d]
  <2>1. /\ UNCHANGED <<dangling, ports>> /\ boot' = [boot EXCEPT ![d].on = TRUE] /\ ProbeCard(d)
        /\ number' > number /\ ~AtHost("out") => "late" \in cause'
    BY <1>2 DEF Probe, drvVars
  <2>2. /\ \A e \in Cards \ {d} : boot'[e] = boot[e]
        /\ boot'[d].on /\ (Fresh(d) => Fresh(d)')
    BY <2>1 DEF Fresh, Silent, DriverType, CardsType, BootRecords
  <2>3. CASE ProbeBinds(d)
    <3>1. number \in Nat /\ number < MaxDev /\ number \in Slots
      BY <2>3, MapAssumption DEF ProbeBinds, Full, MapInv, MapType, Slots
    <3>2. "late" \in cause'
      BY <2>1, <2>3, <3>1 DEF ProbeBinds, AtHost, Loaded
    <3> QED BY <2>1, <2>2, <2>3, <3>1, <3>2 DEF ProbeBinds, MapInv, MapType
  <2>4. CASE ProbeFails(d) \/ ProbeRefused(d)
    BY <2>1, <2>2, <2>4 DEF ProbeFails, ProbeRefused, mapVars, MapInv, MapType
  <2> QED BY <2>1, <2>3, <2>4 DEF ProbeCard
<1>3. ASSUME NEW d \in Cards, Remove(d)
      PROVE  /\ core' = core /\ UNCHANGED <<dangling, ports, map, number>>
             /\ bound[d] # "bound" /\ bound'[d] # "bound"
             /\ \A e \in Cards \ {d} : boot'[e] = boot[e] /\ bound'[e] = bound[e]
             /\ Fresh(d) => Fresh(d)'
  <2>1. /\ UNCHANGED <<dangling, ports>> /\ RemoveBegins(d)
        /\ boot' \in {boot, [boot EXCEPT ![d] = [Reset EXCEPT !.on = FALSE]]}
        /\ bound[d] # "bound"
    BY <1>3 DEF Remove, drvVars, Calm
  <2>2. \A e \in Cards \ {d} : boot'[e] = boot[e]
    BY <2>1 DEF DriverType, CardsType
  <2>3. Fresh(d) => Fresh(d)'
    <3>1. CASE boot' = boot BY <3>1 DEF Fresh, Silent
    <3>2. CASE boot' = [boot EXCEPT ![d] = [Reset EXCEPT !.on = FALSE]]
      BY <3>2 DEF Fresh, Silent, Reset, DriverType, CardsType
    <3> QED BY <2>1, <3>1, <3>2
  <2>4. bound[d] = "hollow" /\ bound' = [bound EXCEPT ![d] = "no"] /\ UNCHANGED <<core, map, number>>
    BY <2>1 DEF RemoveBegins, MapInv, MapType
  <2> QED BY <2>1, <2>2, <2>3, <2>4 DEF MapInv, MapType
<1>4. UNCHANGED <<thread, stops, heartbeat, host, load, status, buf, lateDump, queues>>
  BY OutsideChanges
<1>5. PICK d \in Cards : Probe(d) \/ Remove(d)
  BY <1>1 DEF Outside
<1> QED
  BY <1>2, <1>3, <1>4, <1>5

\* A walk for a bound card ends at its entry.
LEMMA WalkEnds ==
  ASSUME MapInv, Kept, NEW d \in Cards, bound[d] = "bound"
  PROVE  /\ WalkEnd(d) # {}
         /\ \A i \in WalkEnd(d) : map[i] # None
<1>1. PICK i \in 0..(number - 1) : map[i] = d
  BY KeptMap
<1>2. \A j \in 0..(number - 1) : map[j] # None /\ (map[j] = d => j = i)
  BY <1>1, KeptMap, MapAssumption
<1>3. \A j \in 0..(i - 1) : j \in 0..(number - 1) /\ j # i
  BY <1>1, KeptMap
<1>4. i \in WalkEnd(d)
  BY <1>1, <1>2, <1>3 DEF WalkEnd
<1> QED
  BY <1>2, <1>4 DEF WalkEnd

LEMMA OutsideRight ==
  ASSUME DriverType, MapInv, Right, Loaded, Outside, Calm'
  PROVE  Right'
<1>1. PICK d \in Cards :
        /\ bound[d] # "bound"
        /\ \A e \in Cards \ {d} : boot'[e] = boot[e] /\ bound'[e] = bound[e]
        /\ Fresh(d) => Fresh(d)'
        /\ \/ bound'[d] # "bound" /\ UNCHANGED <<map, number>>
           \/ /\ bound'[d] = "bound" /\ boot'[d].on
              /\ number' = number + 1 /\ number \in Slots /\ map' = [map EXCEPT ![number] = d]
  BY KeptMoves DEF Right
<1>2. /\ core' = core
      /\ UNCHANGED <<dangling, ports, thread, stops, heartbeat, host, load, status>>
      /\ cause \subseteq cause'
  BY KeptMoves, OutsideChanges DEF Right
<1>3. /\ number \in Nat
      /\ \A i \in 0..(number - 1) : i \in Slots /\ map[i] \in Cards /\ bound[map[i]] = "bound"
  BY KeptMap DEF Right
<1>4. Fresh(d) /\ Fresh(d)' /\ thread[d] = "none" /\ ports[d] = 0
  BY <1>1 DEF Right, Kept
<1>5. \A e \in Cards \ {d} : Fresh(e)' <=> Fresh(e)
  BY <1>1 DEF Fresh, Silent
<1>6. /\ number' \in Nat /\ number <= number'
      /\ \A i \in 0..(number - 1) : map'[i] = map[i] /\ i \in 0..(number' - 1) /\ map[i] # d
      /\ \A i \in 0..(number' - 1) : i \in 0..(number - 1) \/ (i = number /\ map'[i] = d /\ i \in Slots)
  <2>1. CASE UNCHANGED <<map, number>>
    BY <2>1, <1>1, <1>3
  <2>2. CASE number' = number + 1 /\ number \in Slots /\ map' = [map EXCEPT ![number] = d]
    BY <2>2, <1>1, <1>3 DEF MapInv, MapType
  <2> QED BY <1>1, <2>1, <2>2
<1>7. Kept'
  BY <1>1, <1>2, <1>4, <1>5 DEF Right, Kept
<1>8. InPlace'
  <2>1. ASSUME NEW i \in 0..(number' - 1)
        PROVE  heartbeat[i] = IF thread[map'[i]] = "none" THEN None ELSE map'[i]
    <3>1. CASE i \in 0..(number - 1)
      BY <3>1, <1>6 DEF Right, InPlace
    <3>2. CASE i = number /\ map'[i] = d /\ i \in Slots
      BY <3>2, <1>3, <1>4 DEF Right, InPlace
    <3> QED BY <3>1, <3>2, <1>6
  <2>2. \A i \in Slots : i >= number' => heartbeat[i] = None
    BY <1>3, <1>6 DEF Right, InPlace, Slots
  <2> QED BY <1>2, <2>1, <2>2 DEF InPlace
<1>9. CardOfCall'
  <2>1. \A e \in Cards : bound[e] = "bound" => bound'[e] = "bound"
    BY <1>1
  <2>2. host.pc = "find" => host.walk <= number /\ host.walk \in Nat
    BY DEF Right, CardOfCall, DriverType, HostType, HostRecords
  <2>3. host.pc = "find" => /\ host.walk <= number'
                            /\ \A i \in 0..(number' - 1) : i < host.walk => map'[i] # host.card
    <3>1. ASSUME host.pc = "find", NEW i \in 0..(number' - 1), i < host.walk
          PROVE  map'[i] # host.card
      <4>1. i \in 0..(number - 1)
        BY <3>1, <2>2, <1>3
      <4>2. map[i] # host.card
        BY <3>1, <4>1 DEF Right, CardOfCall
      <4> QED BY <4>1, <4>2, <1>6
    <3>2. host.pc = "find" => host.walk <= number'
      BY <2>2, <1>3, <1>6
    <3> QED BY <3>1, <3>2
  <2>4. \A e \in Cards : Fresh(e) => Fresh(e)'
    BY <1>4, <1>5
  <2>5. host.pc \in BootPcs \cup {"loading", "reset", "stopping", "find"} => host.card \in Cards
    BY DEF DriverType, Calls
  <2> QED BY <1>2, <2>1, <2>3, <2>4, <2>5 DEF Right, CardOfCall, BootPcs
<1>10. LoadsOnce'
  <2>1. \A i \in 0..(number - 1) : Fresh(map[i]) => Fresh(map[i])'
    <3>1. \A i \in 0..(number - 1) : boot'[map'[i]] = boot[map[i]]
      BY <1>1, <1>3, <1>6
    <3> QED BY <3>1 DEF Fresh, Silent
  <2>2. \A i \in 0..(number' - 1) : i \notin 0..(number - 1) => Fresh(map[i])'
    BY <1>4, <1>6 DEF Fresh, Silent
  <2>3. host.i \in Nat
    BY DEF DriverType, HostType, HostRecords
  <2>4. AtHost("fw") => \A i \in 0..(number' - 1) : i >= host.i => Fresh(map[i])'
    BY <2>1, <2>2 DEF Right, LoadsOnce
  <2>5. AtHost("loading") /\ host.op = "init" =>
          /\ host.i < number' /\ map'[host.i] = host.card
          /\ \A i \in 0..(number' - 1) : i > host.i => Fresh(map[i])'
    <3> SUFFICES ASSUME AtHost("loading"), host.op = "init"
                 PROVE  /\ host.i < number' /\ map'[host.i] = host.card
                        /\ \A i \in 0..(number' - 1) : i > host.i => Fresh(map[i])'
      OBVIOUS
    <3>1. /\ host.i < number /\ map[host.i] = host.card
          /\ \A i \in 0..(number - 1) : i > host.i => Fresh(map[i])
      BY DEF Right, LoadsOnce
    <3>2. host.i < number' /\ map'[host.i] = host.card
      BY <1>3, <1>6, <2>3, <3>1
    <3>3. ASSUME NEW i \in 0..(number' - 1), i > host.i
          PROVE  Fresh(map[i])'
      <4>1. CASE i \in 0..(number - 1)
        BY <2>1, <3>1, <3>3, <4>1
      <4>2. CASE i \notin 0..(number - 1)
        BY <2>2, <4>2
      <4> QED BY <4>1, <4>2
    <3> QED BY <3>2, <3>3
  <2> QED BY <1>2, <2>4, <2>5 DEF LoadsOnce, AtHost
<1>11. ExitSoFar'
  <2>1. \A i \in 0..(number - 1) : Through(i) => Through(i)'
    BY <1>1, <1>2, <1>3, <1>6 DEF Through
  <2>2. \A i \in 0..(number' - 1) : i \notin 0..(number - 1) => Through(i)' /\ map'[i] = d
    BY <1>2, <1>4, <1>6 DEF Through, Fresh
  <2>3. host.op = "exit" => d \notin stops
    BY <1>3, <1>6 DEF Right, ExitSoFar
  <2>4. host.i \in Nat
    BY DEF DriverType, HostType, HostRecords
  <2>5. host.op = "exit" =>
          /\ \A i \in 0..(number' - 1) : i < host.i => Through(i)'
          /\ \A e \in stops : \E i \in 0..(number' - 1) : map'[i] = e /\ i <= host.i
          /\ AtHost("exit") => \A i \in 0..(number' - 1) : map'[i] \in stops => i < host.i
          /\ ~AtHost("exit") => host.i < number' /\ map'[host.i] = host.card
    <3> SUFFICES ASSUME host.op = "exit" PROVE
          /\ \A i \in 0..(number' - 1) : i < host.i => Through(i)'
          /\ \A e \in stops : \E i \in 0..(number' - 1) : map'[i] = e /\ i <= host.i
          /\ AtHost("exit") => \A i \in 0..(number' - 1) : map'[i] \in stops => i < host.i
          /\ ~AtHost("exit") => host.i < number' /\ map'[host.i] = host.card
      OBVIOUS
    <3>1. \A i \in 0..(number' - 1) : i < host.i => Through(i)'
      BY <2>1, <2>2 DEF Right, ExitSoFar
    <3>2. \A e \in stops : \E i \in 0..(number' - 1) : map'[i] = e /\ i <= host.i
      BY <1>6 DEF Right, ExitSoFar
    <3>3. AtHost("exit") => \A i \in 0..(number' - 1) : map'[i] \in stops => i < host.i
      BY <1>6, <2>3 DEF Right, ExitSoFar
    <3>4. ~AtHost("exit") => host.i < number' /\ map'[host.i] = host.card
      <4>1. ~AtHost("exit") => host.i < number /\ map[host.i] = host.card
        BY DEF Right, ExitSoFar
      <4>2. ~AtHost("exit") => host.i \in 0..(number - 1)
        BY <4>1, <1>3, <2>4
      <4>3. ASSUME NEW i \in 0..(number - 1) PROVE map'[i] = map[i] /\ i < number'
        <5>1. number \in Nat /\ number' \in Nat /\ number <= number'
          BY <1>3, <1>6
        <5>2. i < number'
          BY <5>1
        <5> QED BY <1>6, <5>2
      <4> QED BY <4>1, <4>2, <4>3
    <3> QED BY <3>1, <3>2, <3>3, <3>4
  <2> QED BY <1>2, <2>5 DEF Right, ExitSoFar, AtHost
<1> QED
  BY <1>7, <1>8, <1>9, <1>10, <1>11 DEF Right

LEMMA ThreadRight ==
  ASSUME DriverType, MapInv, Right, NEW d \in Cards, Thread(d), bad' = "no"
  PROVE  Right'
<1>1. /\ UNCHANGED <<mapVars, fwVars, host, ports, queues, heartbeat, stops, dangling, cause>>
      /\ thread[d] \notin {"none", "ended"}
      /\ \A e \in Cards : thread'[e] # thread[e] => e = d /\ thread'[e] \in {"loop", "missed", "ended"}
      /\ thread'[d] = "ended" => thread[d] = "ended" \/ d \in stops \/ (thread[d] = "new" /\ WalkEnd(d) = {})
  BY ThreadChanges DEF DriverType
<1>2. bound[d] = "bound"
  BY <1>1 DEF Right, Kept
<1>3. thread'[d] = "ended" => d \in stops
  BY <1>1, <1>2, WalkEnds DEF Right
<1>4. \A e \in Cards : /\ thread'[e] = "none" <=> thread[e] = "none"
                       /\ thread[e] = "ended" => thread'[e] = "ended"
  BY <1>1
<1>5. \A e \in Cards : Fresh(e)' <=> Fresh(e)
  BY <1>1 DEF Fresh, Silent, fwVars
<1>6. Kept'
  BY <1>1, <1>4, <1>5 DEF Right, Kept, fwVars, mapVars
<1>7. \A i \in 0..(number - 1) : map[i] \in Cards
  BY KeptMap DEF Right
<1>8. InPlace'
  BY <1>1, <1>4, <1>7 DEF Right, InPlace, mapVars
<1>9. CardOfCall'
  BY <1>1 DEF Right, CardOfCall, Fresh, Silent, mapVars, fwVars
<1>10. LoadsOnce'
  BY <1>1 DEF Right, LoadsOnce, Fresh, Silent, AtHost, mapVars, fwVars
<1>11. ExitSoFar'
  <2>1. \A i \in 0..(number - 1) : Through(i) => Through(i)'
    BY <1>1, <1>4, <1>7 DEF Through, mapVars, fwVars
  <2>2. host.pc \in {"stopping", "find", "reset"} => host.card \in Cards
    BY DEF DriverType, Calls
  <2>3. \A e \in Cards : thread'[e] = "ended" => e \in stops
    BY <1>1, <1>3 DEF Right, ExitSoFar
  <2> QED BY <1>1, <1>4, <1>7, <2>1, <2>2, <2>3 DEF Right, ExitSoFar, AtHost, mapVars
<1> QED
  BY <1>6, <1>8, <1>9, <1>10, <1>11 DEF Right

\* Whoever changes only a card that does something or is loaded.
LEMMA CardsRight ==
  ASSUME DriverType, MapInv, Right, NEW d \in Cards,
         UNCHANGED <<mapVars, host, drvVars, dangling, cause>>,
         \A e \in Cards : e # d => boot'[e] = boot[e],
         boot'[d].on = boot[d].on,
         \/ ~Silent(d) /\ boot'[d].started = boot[d].started
         \/ AtHost("loading") /\ d = host.card
  PROVE  Right'
<1>1. UNCHANGED <<map, number, bound, core, host, ports, heartbeat, thread, stops, dangling, cause>>
  BY DEF mapVars, drvVars
<1>2. \A e \in Cards : e # d => (Fresh(e)' <=> Fresh(e))
  BY DEF Fresh, Silent
<1>3. Fresh(d) => AtHost("loading") /\ d = host.card /\ bound[d] = "bound"
  BY DEF Fresh, Right, CardOfCall, AtHost
<1>4. /\ number \in Nat
      /\ \A i \in 0..(number - 1) : map[i] \in Cards
      /\ \A i, j \in 0..(number - 1) : map[i] = map[j] => i = j
  BY KeptMap DEF Right
<1>5. Kept'
  BY <1>1, <1>2, <1>3 DEF Right, Kept
<1>6. InPlace'
  BY <1>1 DEF Right, InPlace
<1>7. CardOfCall'
  <2>1. host.pc \in {"load", "find"} => host.card \in Cards
    BY DEF DriverType, Calls, BootPcs
  <2>2. host.pc \in {"load", "find"} /\ Fresh(host.card) => Fresh(host.card)'
    BY <1>2, <1>3, <2>1 DEF AtHost
  <2> QED BY <1>1, <2>2 DEF Right, CardOfCall
<1>8. LoadsOnce'
  <2>1. \A i \in 0..(number - 1) :
          Fresh(map[i]) /\ ~(AtHost("loading") /\ map[i] = host.card) => Fresh(map[i])'
    BY <1>1, <1>3, <1>4 DEF Fresh, Silent
  <2>2. AtHost("fw") => LoadsOnce'
    BY <1>1, <1>4, <2>1 DEF Right, LoadsOnce, AtHost
  <2>3. CASE AtHost("loading") /\ host.op = "init"
    <3>1. /\ host.i < number /\ map[host.i] = host.card /\ host.i \in 0..(number - 1)
          /\ \A i \in 0..(number - 1) : i > host.i => Fresh(map[i])
      BY <2>3, <1>4 DEF Right, LoadsOnce, DriverType, HostType, HostRecords
    <3>2. \A i \in 0..(number - 1) : i > host.i => map[i] # host.card
      BY <3>1, <1>4
    <3>3. \A i \in 0..(number - 1) : i > host.i => Fresh(map[i])'
      BY <3>1, <3>2, <2>1
    <3> QED BY <1>1, <2>3, <3>1, <3>3 DEF LoadsOnce, AtHost
  <2> QED BY <1>1, <2>2, <2>3 DEF LoadsOnce, AtHost
<1>9. ExitSoFar'
  <2>1. host.op = "exit" => \A e \in Cards : boot'[e].started = boot[e].started
    BY DEF AtHost, DriverType, Calls
  <2>2. host.op = "exit" => \A i \in 0..(number - 1) : Through(i) => Through(i)'
    BY <1>1, <1>4, <2>1 DEF Through
  <2> QED BY <1>1, <2>2 DEF Right, ExitSoFar, AtHost
<1> QED
  BY <1>5, <1>6, <1>7, <1>8, <1>9 DEF Right

-----------------------------------------------------------------------------
Same ==
  /\ UNCHANGED <<mapVars, boot, thread, heartbeat, stops>> /\ dangling' \subseteq dangling
  /\ ports' = ports \/ \E d \in Cards : Entry("ports", d) /\ \A e \in Cards \ {d} : ports'[e] = ports[e]

LEMMA SameKept ==
  ASSUME DriverType, MapInv, Right, Same
  PROVE  /\ Kept' /\ InPlace'
         /\ UNCHANGED <<map, number, bound, boot, thread, stops>>
         /\ number \in Nat
         /\ \A i \in 0..(number - 1) : map[i] \in Cards
<1>1. UNCHANGED <<map, number, bound, boot, thread, stops>>
  BY DEF Same, mapVars
<1>2. number \in Nat /\ \A i \in 0..(number - 1) : map[i] \in Cards /\ bound[map[i]] = "bound"
  BY KeptMap DEF Right
<1>3. \A e \in Cards : bound[e] # "bound" => ports'[e] = ports[e]
  <2>1. ASSUME NEW d \in Cards, Entry("ports", d)
        PROVE  bound[d] = "bound"
    <3>1. host.i \in 0..(number - 1)
      BY <2>1, <1>2 DEF Entry, DriverType, HostType, HostRecords
    <3> QED BY <2>1, <3>1, <1>2 DEF Entry
  <2> QED BY <2>1 DEF Same
<1>4. Kept'
  BY <1>1, <1>3 DEF Right, Kept, Same, Fresh, Silent, mapVars
<1>5. InPlace'
  BY <1>1 DEF Right, InPlace, Same
<1> QED
  BY <1>1, <1>2, <1>4, <1>5

\* The driver is between two cards or two calls.
LEMMA QuietRight ==
  ASSUME DriverType, MapInv, Right, Same,
         host'.pc \in {"ports", "shake", "time", "alloc", "spawn", "up"},
         host.op # "exit", host'.op # "exit"
  PROVE  Right'
<1>1. /\ Kept' /\ InPlace' /\ stops' = stops /\ thread' = thread
  BY SameKept
<1>2. CardOfCall'
  BY DEF CardOfCall, BootPcs
<1>3. LoadsOnce'
  BY DEF LoadsOnce, AtHost
<1>4. ExitSoFar'
  BY <1>1 DEF Right, ExitSoFar, AtHost
<1> QED
  BY <1>1, <1>2, <1>3, <1>4 DEF Right

\* A BOOT goes on.
LEMMA BootRight ==
  ASSUME DriverType, MapInv, Right, Same,
         host.op = "boot", host'.op = "boot", host'.card = host.card,
         bound[host.card] = "bound",
         host'.pc \in BootPcs \cup {"loading"} \/ (host'.pc = "find" /\ host'.walk = 0),
         host'.pc = "load" \/ (host'.pc = "find" /\ host'.next = "load") => Fresh(host.card)
  PROVE  Right'
<1>1. /\ Kept' /\ InPlace' /\ stops' = stops /\ thread' = thread
      /\ UNCHANGED <<map, number, bound, boot>> /\ number \in Nat
  BY SameKept
<1>2. CardOfCall'
  <2>1. bound'[host'.card] = "bound"
    BY <1>1
  <2>2. host'.pc = "load" \/ (host'.pc = "find" /\ host'.next = "load") => Fresh(host.card)'
    BY <1>1 DEF Fresh, Silent
  <2>3. host'.pc = "find" => host'.walk <= number' /\ \A i \in 0..(number' - 1) : ~(i < host'.walk)
    BY <1>1 DEF BootPcs
  <2> QED BY <2>1, <2>2, <2>3 DEF CardOfCall
<1>3. LoadsOnce'
  BY DEF LoadsOnce, AtHost, BootPcs
<1>4. ExitSoFar'
  BY <1>1 DEF Right, ExitSoFar, AtHost
<1> QED
  BY <1>1, <1>2, <1>3, <1>4 DEF Right

\* What leaves all but the call alone.
LEMMA AllSame ==
  ASSUME UNCHANGED <<mapVars, fwVars, drvVars, dangling>>
  PROVE  Same
BY DEF Same, fwVars, drvVars

LEMMA InitRight ==
  ASSUME DriverType, MapInv, Right, Loaded',
         \/ InitEnds \/ InitFails \/ Allocates \/ ExitEnds
         \/ \E d \in Cards : \/ OpensPorts(d) \/ Shakes(d) \/ Syncs(d)
                             \/ \E pc \in {"ports", "shake", "time", "spawn"} : Skips(pc, d),
         bad' = "no"
  PROVE  Right'
<1> USE PcNames DEF DriverType, HostType
<1>1. CASE InitEnds \/ InitFails \/ Allocates \/ ExitEnds
  <2>1. \E pc \in {"ports", "shake", "time", "alloc", "spawn", "up"} : Enters(pc)
    <3>1. CASE InitEnds \/ Allocates
      BY <3>1 DEF InitEnds, Allocates, Ends
    <3>2. ~InitFails /\ ~ExitEnds
      BY HostEnters DEF InitFails, ExitEnds, Ends, Loaded
    <3> QED BY <1>1, <3>1, <3>2
  <2>2. host.op = "init"
    <3>1. CASE InitEnds \/ Allocates
      BY <3>1 DEF InitEnds, Allocates, Ends, AtHost, Calls, InitPcs
    <3>2. ~InitFails /\ ~ExitEnds
      BY HostEnters DEF InitFails, ExitEnds, Ends, Loaded
    <3> QED BY <1>1, <3>1, <3>2
  <2>3. host'.pc \in {"ports", "shake", "time", "alloc", "spawn", "up"} /\ host'.op = "init"
    BY <2>1, <2>2, HostEnters
  <2>4. Same
    BY <1>1, AllSame DEF InitEnds, InitFails, Allocates, ExitEnds, Ends
  <2> QED BY <2>2, <2>3, <2>4, QuietRight
<1>2. ASSUME NEW d \in Cards,
             \/ OpensPorts(d) \/ Shakes(d) \/ Syncs(d)
             \/ \E pc \in {"ports", "shake", "time", "spawn"} : Skips(pc, d)
      PROVE  Right'
  <2>1. \E pc \in {"ports", "shake", "time", "spawn"} : NextCard(pc) /\ AtHost(pc)
    BY <1>2 DEF OpensPorts, Shakes, Syncs, Skips, Breaks, Entry
  <2>2. host.op = "init"
    BY <2>1 DEF AtHost, Calls, InitPcs
  <2>3. host'.pc \in {"ports", "shake", "time", "spawn"} /\ host'.op = "init"
    BY <2>1, <2>2, HostNext
  <2>4. Same
    <3>1. CASE OpensPorts(d)
      <4>1. /\ UNCHANGED <<mapVars, boot, thread, heartbeat, stops, dangling>>
            /\ Entry("ports", d) /\ \E n \in 0..2 : ports' = [ports EXCEPT ![d] = n]
        BY <3>1 DEF OpensPorts, PortsOpen, fwVars
      <4>2. \A e \in Cards \ {d} : ports'[e] = ports[e]
        BY <4>1 DEF CardsType
      <4> QED BY <4>1, <4>2 DEF Same
    <3>2. CASE Shakes(d)
      BY <3>2 DEF Shakes, Breaks, Same, fwVars
    <3>3. CASE Syncs(d) \/ \E pc \in {"ports", "shake", "time", "spawn"} : Skips(pc, d)
      BY <3>3, AllSame DEF Syncs, Skips, Breaks
    <3> QED BY <1>2, <3>1, <3>2, <3>3
  <2> QED BY <2>2, <2>3, <2>4, QuietRight
<1> QED
  BY <1>1, <1>2

\* init loads a card, and goes to the next.
LEMMA InitLoadRight ==
  ASSUME DriverType, MapInv, Right, InitLoaded \/ \E d \in Cards : InitLoads(d)
  PROVE  Right'
<1> USE PcNames DEF DriverType, HostType
<1>0. number \in Nat /\ host.i \in Nat
      /\ \A i \in 0..(number - 1) : map[i] \in Cards /\ bound[map[i]] = "bound"
  BY KeptMap DEF Right, HostRecords
<1>1. ASSUME NEW d \in Cards, InitLoads(d)
      PROVE  Right'
  <2>1. /\ Entry("fw", d) /\ host' = [host EXCEPT !.pc = "loading", !.card = d]
        /\ UNCHANGED <<mapVars, boot, drvVars>> /\ dangling' \subseteq dangling
    BY <1>1 DEF InitLoads
  <2>2. host'.pc = "loading" /\ host'.card = d /\ host'.op = host.op /\ host'.i = host.i
    BY <2>1, HostGoesTo
  <2>3. host.pc = "fw" /\ host.op = "init" /\ host.i < number /\ map[host.i] = d
    BY <2>1 DEF Entry, AtHost, Calls, InitPcs
  <2>4. Same
    BY <2>1 DEF Same, drvVars
  <2>5. /\ Kept' /\ InPlace' /\ UNCHANGED <<map, number, bound, boot, thread, stops>>
    BY <2>4, SameKept
  <2>6. CardOfCall'
    BY <1>0, <2>2, <2>3, <2>5 DEF CardOfCall
  <2>7. LoadsOnce'
    <3>1. \A i \in 0..(number - 1) : i >= host.i => Fresh(map[i])
      BY <2>3 DEF Right, LoadsOnce, AtHost
    <3>2. \A i \in 0..(number' - 1) : i > host'.i => Fresh(map[i])'
      BY <1>0, <2>2, <2>5, <3>1 DEF Fresh, Silent
    <3> QED BY <2>2, <2>3, <2>5, <3>2 DEF LoadsOnce, AtHost
  <2>8. ExitSoFar'
    BY <2>2, <2>3, <2>5 DEF Right, ExitSoFar, AtHost
  <2> QED BY <2>5, <2>6, <2>7, <2>8 DEF Right
<1>2. CASE InitLoaded
  <2>1. /\ host.pc = "loading" /\ host.op = "init" /\ NextCard("fw")
        /\ UNCHANGED <<mapVars, boot, thread, heartbeat, stops, dangling, ports>>
    BY <1>2 DEF InitLoaded, AtHost
  <2>2. host'.pc = "fw" /\ host'.op = "init" /\ host'.i = host.i + 1
    BY <2>1, HostNext
  <2>4. Same
    BY <2>1 DEF Same
  <2>5. /\ Kept' /\ InPlace' /\ UNCHANGED <<map, number, bound, boot, thread, stops>>
    BY <2>4, SameKept
  <2>6. CardOfCall'
    BY <2>2 DEF CardOfCall, BootPcs
  <2>7. LoadsOnce'
    <3>1. \A i \in 0..(number - 1) : i > host.i => Fresh(map[i])
      BY <2>1 DEF Right, LoadsOnce, AtHost
    <3>2. \A i \in 0..(number' - 1) : i >= host'.i => Fresh(map[i])'
      BY <1>0, <2>2, <2>5, <3>1 DEF Fresh, Silent
    <3> QED BY <2>2, <2>5, <3>2 DEF LoadsOnce, AtHost
  <2>8. ExitSoFar'
    BY <2>1, <2>2, <2>5 DEF Right, ExitSoFar, AtHost
  <2> QED BY <2>5, <2>6, <2>7, <2>8 DEF Right
<1> QED
  BY <1>1, <1>2

\* The thread goes to the place of its card.
LEMMA SpawnRight ==
  ASSUME DriverType, MapInv, Right, NEW d \in Cards, Spawns(d)
  PROVE  Right'
<1> USE PcNames DEF DriverType, HostType
<1>1. /\ Entry("spawn", d) /\ NextCard("spawn")
      /\ heartbeat' = [heartbeat EXCEPT ![host.i] = d]
      /\ thread' = [thread EXCEPT ![d] = "new"]
      /\ UNCHANGED <<map, number, bound, core, boot, ports, stops>> /\ dangling' \subseteq dangling
  BY DEF Spawns, fwVars, mapVars
<1>2. host.i \in 0..(number - 1) /\ map[host.i] = d /\ host.op = "init"
  BY <1>1, KeptMap DEF Right, HostRecords, Entry, AtHost, Calls, InitPcs
<1>3. /\ number \in Nat
      /\ \A i \in 0..(number - 1) : i \in Slots /\ map[i] \in Cards /\ bound[map[i]] = "bound"
      /\ \A i, j \in 0..(number - 1) : map[i] = map[j] => i = j
  BY KeptMap DEF Right
<1>4. host'.pc = "spawn" /\ host'.op = "init"
  BY <1>1, <1>2, HostNext
<1>5. thread'[d] = "new" /\ \A e \in Cards \ {d} : thread'[e] = thread[e]
  BY <1>1 DEF CardsType
<1>6. Kept'
  BY <1>1, <1>2, <1>3, <1>5 DEF Right, Kept, Fresh, Silent
<1>7. InPlace'
  <2>1. heartbeat'[host.i] = d /\ \A i \in Slots : i # host.i => heartbeat'[i] = heartbeat[i]
    BY <1>1, <1>2, <1>3 DEF CardsType
  <2>2. ASSUME NEW i \in 0..(number - 1)
        PROVE  heartbeat'[i] = IF thread'[map[i]] = "none" THEN None ELSE map[i]
    <3>1. CASE i = host.i BY <3>1, <2>1, <1>2, <1>5
    <3>2. CASE i # host.i
      BY <3>2, <2>1, <1>2, <1>3, <1>5 DEF Right, InPlace
    <3> QED BY <3>1, <3>2
  <2>3. \A i \in Slots : i >= number => heartbeat'[i] = None
    BY <2>1, <1>2, <1>3 DEF Right, InPlace
  <2> QED BY <2>2, <2>3, <1>1 DEF InPlace
<1>8. CardOfCall' /\ LoadsOnce'
  BY <1>4 DEF CardOfCall, LoadsOnce, AtHost, BootPcs
<1>9. ExitSoFar'
  BY <1>1, <1>2, <1>4, <1>5 DEF Right, ExitSoFar, AtHost
<1> QED
  BY <1>6, <1>7, <1>8, <1>9 DEF Right

\* A lookup takes a step.
LEMMA WalksRight ==
  ASSUME DriverType, MapInv, Right, Walks, bad' = "no"
  PROVE  Right'
<1> USE PcNames DEF DriverType, HostType
<1>1. /\ host.pc = "find" /\ host.walk < number /\ Same
      /\ host.card \in Cards /\ host.op \in {"reset", "boot", "exit"} /\ host.next # "out"
      /\ host.walk \in Nat /\ host.i \in Nat
  BY AllSame DEF Walks, AtHost, Calls, HostRecords, Breaks, Same, fwVars, drvVars
<1>2. /\ Kept' /\ InPlace' /\ UNCHANGED <<map, number, bound, boot, thread, stops>> /\ number \in Nat
  BY <1>1, SameKept
<1>3. CASE map[host.walk] = d1
  <2>1. host' = [host EXCEPT !.pc = host.next]
    BY <1>3, <1>1, MapAssumption DEF Walks, Breaks, d1
  <2>2. /\ host'.pc = host.next /\ host'.card = host.card /\ host'.op = host.op /\ host'.i = host.i
        /\ host.next \in {"reset", "load", "check", "sync"}
    BY <1>1, <2>1 DEF HostRecords
  <2>3. bound[host.card] = "bound"
    BY <1>1, <1>2, <1>3, KeptMap DEF Right, d1
  <2>4. CardOfCall'
    <3>1. host.next = "load" => Fresh(host.card)'
      BY <1>1, <1>2, <2>2 DEF Right, CardOfCall, Fresh, Silent
    <3> QED BY <1>2, <2>2, <2>3, <3>1 DEF CardOfCall, Fresh, Silent
  <2>5. LoadsOnce'
    BY <2>2 DEF LoadsOnce, AtHost
  <2>6. ExitSoFar'
    <3>1. host.op = "exit" => host.next = "reset"
      BY <1>1 DEF Calls
    <3> QED BY <1>1, <1>2, <2>2, <3>1 DEF Right, ExitSoFar, AtHost, Through
  <2> QED BY <1>2, <2>4, <2>5, <2>6 DEF Right
<1>4. CASE map[host.walk] # d1
  <2> DEFINE w == host.walk + 1
  <2>1. host' = [host EXCEPT !.walk = w]
    BY <1>4, <1>1 DEF Walks, Breaks, d1
  <2>2. w \in Nat BY <1>1
  <2> HIDE DEF w
  <2>3. /\ host'.pc = "find" /\ host'.card = host.card /\ host'.op = host.op /\ host'.i = host.i
        /\ host'.next = host.next /\ host'.walk = w
    BY <1>1, <2>1, <2>2 DEF HostRecords
  <2>4. w <= number /\ \A i \in 0..(number - 1) : i < w => map[i] # host.card
    <3>1. \A i \in 0..(number - 1) : i < host.walk => map[i] # host.card
      BY <1>1 DEF Right, CardOfCall
    <3> QED BY <3>1, <1>1, <1>2, <1>4 DEF w, d1
  <2>5. CardOfCall'
    <3>1. \/ bound[host.card] = "bound"
          \/ host.op \in {"reset", "boot"} /\ host.next \in {"reset", "load"} /\ "absent" \in cause
      BY <1>1 DEF Right, CardOfCall
    <3>2. host.next = "load" => Fresh(host.card)'
      BY <1>1, <1>2, <2>3 DEF Right, CardOfCall, Fresh, Silent
    <3>3. cause' = cause
      BY <1>1, <1>4 DEF Walks, Breaks
    <3> QED BY <1>2, <2>3, <2>4, <3>1, <3>2, <3>3 DEF CardOfCall, BootPcs, Fresh, Silent
  <2>6. LoadsOnce'
    BY <2>3 DEF LoadsOnce, AtHost
  <2>7. ExitSoFar'
    BY <1>1, <1>2, <2>3 DEF Right, ExitSoFar, AtHost, Through
  <2> QED BY <1>2, <2>5, <2>6, <2>7 DEF Right
<1> QED
  BY <1>3, <1>4

\* A lookup that fails: the card was absent from the start.
LEMMA AbsentOnly ==
  ASSUME DriverType, MapInv, Right, AtHost("find"), host.walk >= number
  PROVE  /\ bound[host.card] # "bound" /\ "absent" \in cause
         /\ host.op \in {"reset", "boot"} /\ host.next \in {"reset", "load"}
<1>1. \A i \in 0..(number - 1) : map[i] # host.card
  BY KeptMap DEF Right, CardOfCall, AtHost, DriverType, HostType, HostRecords
<1>2. host.card \in Cards
  BY DEF DriverType, Calls, AtHost
<1>3. bound[host.card] # "bound"
  BY <1>1, <1>2, KeptMap DEF Right
<1> QED
  BY <1>3 DEF Right, CardOfCall, AtHost

LEMMA WalkFailsRight ==
  ASSUME DriverType, MapInv, Right, WalkFails, bad' = "no"
  PROVE  Right'
<1> USE PcNames DEF DriverType, HostType
<1>1. host.pc = "find" /\ host.walk >= number /\ host.card \in Cards
  BY DEF WalkFails, AtHost, Calls
<1>2. /\ bound[host.card] # "bound" /\ "absent" \in cause
      /\ host.op \in {"reset", "boot"} /\ host.next \in {"reset", "load"}
  BY <1>1, AbsentOnly DEF AtHost
<1>3. CASE host.op = "reset"
  <2>1. host' = Idle /\ Same
    BY <1>2, <1>3 DEF WalkFails, NotThere, Breaks, Same, fwVars, Calls
  <2> QED BY <2>1, <1>3, HostIdle, QuietRight
<1>4. CASE host.op = "boot"
  <2>1. Finds("load") /\ Same /\ cause' = cause
    BY <1>2, <1>4, AllSame DEF WalkFails, NotThere, Breaks
  <2>2. host'.pc = "find" /\ host'.card = host.card /\ host'.op = "boot" /\ host'.next = "load" /\ host'.walk = 0
    BY <2>1, <1>4, HostFinds
  <2>3. /\ Kept' /\ InPlace' /\ UNCHANGED <<map, number, bound, boot, thread, stops>> /\ number \in Nat
    BY <2>1, SameKept
  <2>4. Fresh(host.card)'
    BY <1>1, <1>2, <2>2, <2>3 DEF Right, Kept, Fresh, Silent
  <2>5. CardOfCall'
    <3>1. \A i \in 0..(number - 1) : ~(i < 0)
      BY <2>3
    <3> QED BY <1>2, <2>1, <2>2, <2>3, <2>4, <3>1 DEF CardOfCall, BootPcs, Fresh, Silent
  <2>6. LoadsOnce' /\ ExitSoFar'
    BY <1>4, <2>2, <2>3 DEF Right, LoadsOnce, ExitSoFar, AtHost
  <2> QED BY <2>3, <2>5, <2>6 DEF Right
<1> QED
  BY <1>2, <1>3, <1>4

LEMMA CallRight ==
  ASSUME DriverType, MapInv, Right, NEW d \in Cards, Call(d)
  PROVE  Right'
<1> USE DEF DriverType, HostType
<1>1. PICK op \in {"reset", "boot"} :
        host' = [Idle EXCEPT !.pc = "find", !.next = "reset", !.card = d, !.op = op]
  BY DEF Call
<1>2. host'.pc = "find" /\ host'.card = d /\ host'.op = op /\ host'.next = "reset" /\ host'.walk = 0
  BY <1>1 DEF Idle
<1>3. Same /\ AtHost("up")
  BY AllSame DEF Call
<1>4. /\ Kept' /\ InPlace' /\ UNCHANGED <<map, number, bound, boot, thread, stops>> /\ number \in Nat
  BY <1>3, SameKept
<1>5. bound[d] = "bound" \/ "absent" \in cause'
  BY DEF Call, MapInv, Right, Kept, Entries, Entered, Present, Count, Closing
<1>6. CardOfCall'
  <2>1. \A i \in 0..(number - 1) : ~(i < 0)
    BY <1>4
  <2> QED BY <1>2, <1>4, <1>5, <2>1 DEF CardOfCall, BootPcs
<1>7. LoadsOnce'
  BY <1>2 DEF LoadsOnce, AtHost
<1>8. ExitSoFar'
  BY <1>2, <1>3, <1>4 DEF Right, ExitSoFar, AtHost
<1> QED
  BY <1>4, <1>6, <1>7, <1>8 DEF Right

LEMMA BootStepsRight ==
  ASSUME DriverType, MapInv, Right, BootLoads \/ BootLoaded \/ BootChecks \/ BootSyncs \/ BootWakes, bad' = "no"
  PROVE  Right'
<1> USE PcNames DEF DriverType, HostType
<1>1. /\ host.op = "boot" /\ bound[host.card] = "bound"
      /\ UNCHANGED <<mapVars, boot, ports, heartbeat, thread, stops, dangling>>
      /\ \/ \E pc \in {"loading", "wake"} : host' = [host EXCEPT !.pc = pc]
         \/ \E next \in {"check", "sync"} : Finds(next)
         \/ host' = Idle
  <2>1. CASE BootLoads
    BY <2>1 DEF BootLoads, Breaks, AtHost, Calls, BootPcs, Right, CardOfCall, drvVars
  <2>2. CASE BootLoaded
    BY <2>2 DEF BootLoaded, AtHost, Calls, Right, CardOfCall, drvVars
  <2>3. CASE BootChecks
    BY <2>3 DEF BootChecks, Breaks, AtHost, Calls, BootPcs, Right, CardOfCall, fwVars
  <2>4. CASE BootSyncs \/ BootWakes
    BY <2>4
      DEF BootSyncs, BootWakes, Breaks, AtHost, Calls, BootPcs, Right, CardOfCall, fwVars, drvVars
  <2> QED BY <2>1, <2>2, <2>3, <2>4
<1>2. Same
  BY <1>1 DEF Same
<1>3. ASSUME NEW pc \in {"loading", "wake"}, host' = [host EXCEPT !.pc = pc]
      PROVE  Right'
  <2>1. host'.pc = pc /\ host'.card = host.card /\ host'.op = "boot"
    BY <1>1, <1>3 DEF HostRecords
  <2> QED BY <1>1, <1>2, <2>1, BootRight DEF BootPcs
<1>4. ASSUME NEW next \in {"check", "sync"}, Finds(next)
      PROVE  Right'
  <2>1. host'.pc = "find" /\ host'.card = host.card /\ host'.op = "boot" /\ host'.walk = 0 /\ host'.next = next
    BY <1>1, <1>4, HostFinds
  <2> QED BY <1>1, <1>2, <2>1, BootRight
<1>5. CASE host' = Idle
  BY <1>1, <1>2, <1>5, HostIdle, QuietRight
<1> QED
  BY <1>1, <1>3, <1>4, <1>5

\* Before a card is reset it is bound, with its configuration space stored.
LEMMA ResetsRight ==
  ASSUME DriverType, MapInv, Right, Resets, bad' = "no"
  PROVE  Right'
<1> USE PcNames DEF DriverType, HostType
<1> DEFINE c == host.card
<1>1. /\ host.pc = "reset" /\ c \in Cards /\ bound[c] = "bound" /\ host.op \in {"reset", "boot", "exit"}
  BY DEF Resets, AtHost, Calls, Right, CardOfCall
<1>2. /\ boot[c].on /\ Restorable(c)
      /\ number \in Nat /\ host.i \in Nat
      /\ \A i \in 0..(number - 1) : map[i] \in Cards /\ bound[map[i]] = "bound"
      /\ \A i, j \in 0..(number - 1) : map[i] = map[j] => i = j
  BY <1>1, KeptMap DEF Right, Kept, HostRecords
<1>3. PICK crashed \in {FALSE, host.op = "boot"} :
        boot' = [boot EXCEPT ![c] = [Reset EXCEPT !.on = boot[c].on /\ Restorable(c), !.crashed = crashed]]
  BY DEF Resets, Breaks, d1
<1>4. /\ boot'[c] = [Reset EXCEPT !.on = boot[c].on /\ Restorable(c), !.crashed = crashed]
      /\ \A e \in Cards \ {c} : boot'[e] = boot[e]
  BY <1>1, <1>3 DEF CardsType
<1>5. boot'[c].on /\ ~boot'[c].started /\ boot'[c].cmd = NoCmd /\ boot'[c].busy = NoCmd /\ boot'[c].status = "none"
  <2>1. (boot[c].on /\ Restorable(c)) = TRUE
    BY <1>2
  <2>2. boot'[c] = [Reset EXCEPT !.on = TRUE, !.crashed = crashed]
    BY <1>4, <2>1
  <2> QED BY <2>2 DEF Reset
<1>6. UNCHANGED <<map, number, bound, core, ports, heartbeat, thread, stops, dangling>>
  BY DEF Resets, Breaks, mapVars
<1>7. Kept'
  <2>1. \A e \in Cards \ {c} : Fresh(e)' <=> Fresh(e)
    BY <1>4 DEF Fresh, Silent
  <2> QED BY <1>1, <1>4, <1>5, <1>6, <2>1 DEF Right, Kept
<1>8. InPlace'
  BY <1>6 DEF Right, InPlace
<1>9. CASE host.op = "reset"
  <2>1. host' = Idle
    BY <1>9 DEF Resets, Breaks
  <2>2. host'.pc = "up" /\ host'.op = "up"
    BY <2>1, HostIdle
  <2>3. CardOfCall' /\ LoadsOnce'
    BY <2>2 DEF CardOfCall, LoadsOnce, AtHost, BootPcs
  <2>4. ExitSoFar'
    BY <1>6, <1>9, <2>2 DEF Right, ExitSoFar, AtHost
  <2> QED BY <1>7, <1>8, <2>3, <2>4 DEF Right
<1>10. CASE host.op = "boot"
  <2>1. Finds("load")
    BY <1>10 DEF Resets, Breaks
  <2>2. host'.pc = "find" /\ host'.card = c /\ host'.op = "boot" /\ host'.next = "load" /\ host'.walk = 0
    BY <2>1, <1>10, HostFinds
  <2>3. Fresh(host.card)'
    BY <1>5, <2>2 DEF Fresh, Silent
  <2>4. CardOfCall'
    <3>1. \A i \in 0..(number - 1) : ~(i < 0)
      BY <1>2
    <3> QED BY <1>1, <1>2, <1>6, <2>2, <2>3, <3>1 DEF CardOfCall, BootPcs
  <2>5. LoadsOnce' /\ ExitSoFar'
    BY <1>6, <1>10, <2>2 DEF Right, LoadsOnce, ExitSoFar, AtHost
  <2> QED BY <1>7, <1>8, <2>4, <2>5 DEF Right
<1>11. CASE host.op = "exit"
  <2>1. NextCard("exit")
    BY <1>11 DEF Resets, Breaks
  <2>2. host'.pc = "exit" /\ host'.op = "exit" /\ host'.i = host.i + 1
    BY <2>1, <1>11, HostNext
  <2>3. CardOfCall' /\ LoadsOnce'
    BY <2>2 DEF CardOfCall, LoadsOnce, AtHost, BootPcs
  <2>4. /\ \A i \in 0..(number - 1) : i < host.i => Through(i)
        /\ \A d \in stops : \E i \in 0..(number - 1) : map[i] = d /\ i <= host.i
        /\ host.i < number /\ map[host.i] = c
        /\ thread[c] \in {"none", "ended"}
        /\ \A d \in Cards : thread[d] = "ended" => d \in stops
    BY <1>1, <1>11 DEF Right, ExitSoFar, AtHost
  <2>5. \A i \in 0..(number - 1) : i < host.i + 1 => Through(i)'
    <3>1. ASSUME NEW i \in 0..(number - 1), i < host.i + 1
          PROVE  Through(i)'
      <4>1. CASE i = host.i
        BY <4>1, <1>5, <1>6, <2>4 DEF Through
      <4>2. CASE i # host.i
        <5>1. i < host.i /\ map[i] # c
          BY <4>2, <3>1, <1>2, <2>4
        <5>2. boot'[map[i]] = boot[map[i]]
          BY <5>1, <1>2, <1>4
        <5> QED BY <5>1, <5>2, <1>6, <2>4 DEF Through
      <4> QED BY <4>1, <4>2
    <3> QED BY <3>1
  <2>6. \A i \in 0..(number - 1) : map[i] \in stops => i < host.i + 1
    BY <1>2, <2>4
  <2>7. \A d \in stops : \E i \in 0..(number - 1) : map[i] = d /\ i <= host.i + 1
    BY <1>2, <2>4
  <2>8. ExitSoFar'
    BY <1>6, <2>2, <2>4, <2>5, <2>6, <2>7 DEF ExitSoFar, AtHost
  <2> QED BY <1>7, <1>8, <2>3, <2>8 DEF Right
<1> QED
  BY <1>1, <1>9, <1>10, <1>11

\* The exit function.
LEMMA ExitRight ==
  ASSUME DriverType, MapInv, Right, ExitBegins \/ ExitStopped \/ \E d \in Cards : ExitStops(d), bad' = "no"
  PROVE  Right'
<1> USE PcNames DEF DriverType, HostType
<1>1. /\ number \in Nat /\ host.i \in Nat
      /\ \A i \in 0..(number - 1) : i \in Slots /\ map[i] \in Cards /\ bound[map[i]] = "bound"
      /\ \A i, j \in 0..(number - 1) : map[i] = map[j] => i = j
  BY KeptMap DEF Right, HostRecords
<1>2. CASE ExitBegins
  <2>1. AtHost("up") /\ host'.pc = "exit" /\ host'.op = "exit" /\ host'.i = 0 /\ Same
    BY <1>2, AllSame DEF ExitBegins, Idle
  <2>2. /\ Kept' /\ InPlace' /\ UNCHANGED <<map, number, bound, boot, thread, stops>>
    BY <2>1, SameKept
  <2>3. CardOfCall' /\ LoadsOnce'
    BY <2>1 DEF CardOfCall, LoadsOnce, AtHost, BootPcs
  <2>4. stops = {} /\ \A d \in Cards : thread[d] # "ended"
    BY <2>1 DEF Right, ExitSoFar
  <2>5. ExitSoFar'
    <3>1. \A i \in 0..(number - 1) : ~(i < 0)
      BY <1>1
    <3> QED BY <2>1, <2>2, <2>4, <3>1 DEF ExitSoFar, AtHost
  <2> QED BY <2>2, <2>3, <2>5 DEF Right
<1>3. CASE ExitStopped
  <2>1. /\ host.pc = "stopping" /\ host.op = "exit" /\ host.card \in Cards /\ Finds("reset") /\ Same
        /\ \A t \in stops : thread[t] = "ended"
    BY <1>3, AllSame DEF ExitStopped, AtHost, Calls
  <2>2. host'.pc = "find" /\ host'.card = host.card /\ host'.op = "exit" /\ host'.i = host.i
        /\ host'.next = "reset" /\ host'.walk = 0
    BY <2>1, HostFinds
  <2>3. /\ Kept' /\ InPlace' /\ UNCHANGED <<map, number, bound, boot, thread, stops>>
    BY <2>1, SameKept
  <2>4. CardOfCall'
    <3>1. \A i \in 0..(number - 1) : ~(i < 0)
      BY <1>1
    <3>2. bound[host.card] = "bound"
      BY <2>1 DEF Right, CardOfCall
    <3> QED BY <1>1, <2>2, <2>3, <3>1, <3>2 DEF CardOfCall, BootPcs
  <2>5. LoadsOnce'
    BY <2>2 DEF LoadsOnce, AtHost
  <2>6. thread[host.card] \in {"none", "ended"}
    BY <2>1 DEF Right, ExitSoFar, AtHost
  <2>7. ExitSoFar'
    BY <2>1, <2>2, <2>3, <2>6 DEF Right, ExitSoFar, AtHost, Through
  <2> QED BY <2>3, <2>4, <2>5, <2>7 DEF Right
<1>4. ASSUME NEW d \in Cards, ExitStops(d)
      PROVE  Right'
  <2>1. /\ host.pc = "exit" /\ host.op = "exit" /\ host.i < number /\ map[host.i] = d
        /\ host.i \in 0..(number - 1) /\ bound[d] = "bound"
    <3>1. host.pc = "exit" /\ host.i < number /\ map[host.i] = d
      BY <1>4 DEF ExitStops, Entry, AtHost
    <3>2. host.op = "exit"
      BY <3>1 DEF Calls
    <3> QED BY <1>1, <3>1, <3>2
  <2>2. heartbeat[host.i] = IF thread[d] = "none" THEN None ELSE d
    BY <2>1 DEF Right, InPlace
  <2>3. /\ \A i \in 0..(number - 1) : i < host.i => Through(i)
        /\ \A e \in stops : \E i \in 0..(number - 1) : map[i] = e /\ i <= host.i
        /\ \A e \in Cards : thread[e] = "ended" => e \in stops
    BY <2>1 DEF Right, ExitSoFar
  <2>4. \A i \in 0..(number - 1) : ~(i < 0)
    BY <1>1
  <2>5. CASE thread[d] = "none"
    <3>1. /\ host' = [host EXCEPT !.pc = "find", !.next = "reset", !.walk = 0, !.card = d] /\ Same
      BY <1>4, <2>2, <2>5, AllSame DEF ExitStops
    <3>2. /\ host'.pc = "find" /\ host'.card = d /\ host'.op = "exit" /\ host'.i = host.i
          /\ host'.next = "reset" /\ host'.walk = 0
      BY <3>1, <2>1 DEF HostRecords
    <3>3. /\ Kept' /\ InPlace' /\ UNCHANGED <<map, number, bound, boot, thread, stops>>
      BY <3>1, SameKept
    <3>4. CardOfCall' /\ LoadsOnce'
      BY <1>1, <2>1, <2>4, <3>2, <3>3 DEF CardOfCall, LoadsOnce, AtHost, BootPcs
    <3>5. ExitSoFar'
      BY <2>1, <2>3, <2>5, <3>2, <3>3 DEF ExitSoFar, AtHost, Through
    <3> QED BY <3>3, <3>4, <3>5 DEF Right
  <2>6. CASE thread[d] # "none"
    <3>1. /\ stops' = stops \cup {d} /\ host' = [host EXCEPT !.pc = "stopping", !.card = d]
          /\ UNCHANGED <<mapVars, boot, heartbeat, thread, ports, dangling>>
      BY <1>4, <2>2, <2>6, MapAssumption DEF ExitStops, Breaks, fwVars
    <3>2. /\ host'.pc = "stopping" /\ host'.card = d /\ host'.op = "exit" /\ host'.i = host.i
      BY <3>1, <2>1, HostGoesTo
    <3>3. UNCHANGED <<map, number, bound, core, boot, heartbeat, thread, ports, dangling>>
      BY <3>1 DEF mapVars
    <3>4. Kept' /\ InPlace'
      BY <3>3 DEF Right, Kept, InPlace, Fresh, Silent
    <3>5. CardOfCall' /\ LoadsOnce'
      BY <2>1, <3>2, <3>3 DEF CardOfCall, LoadsOnce, AtHost, BootPcs
    <3>6. ExitSoFar'
      <4>1. \A e \in stops' : \E i \in 0..(number - 1) : map[i] = e /\ i <= host.i
        BY <2>1, <2>3, <3>1, <1>1
      <4> QED BY <2>1, <2>3, <3>1, <3>2, <3>3, <4>1 DEF ExitSoFar, AtHost, Through
    <3> QED BY <3>4, <3>5, <3>6 DEF Right
  <2> QED BY <2>5, <2>6
<1> QED
  BY <1>2, <1>3, <1>4

LEMMA BeginsRight ==
  ASSUME DriverType, MapInv, BeforeInit, InitBegins, Calm'
  PROVE  Right'
<1>1. /\ AtHost("out") /\ core.pc = "idle"
      /\ UNCHANGED <<map, number, bound, core, boot, ports, heartbeat, thread, stops, dangling>>
  BY DEF InitBegins, CoreAt, Calm, mapVars, fwVars, drvVars
<1>2. /\ \A d \in Cards : thread[d] = "none" /\ ports[d] = 0 /\ Fresh(d)
      /\ \A d \in Cards : bound[d] = "bound" => boot[d].on
      /\ \A i \in Slots : heartbeat[i] = None
      /\ stops = {} /\ dangling = {}
  BY <1>1 DEF BeforeInit
<1>3. host.op = "init"
  BY <1>1 DEF DriverType, Calls, AtHost, InitPcs
<1>4. host'.pc = "fw" /\ host'.op = "init"
  BY <1>3, HostEnters, PcNames DEF InitBegins, DriverType, HostType
<1>5. Kept'
  BY <1>1, <1>2 DEF Kept, Fresh, Silent
<1>6. Kept
  BY <1>1, <1>2 DEF Kept
<1>7. \A i \in 0..(number - 1) : i \in Slots /\ map[i] \in Cards
  BY <1>6, KeptMap
<1>8. InPlace'
  BY <1>1, <1>2, <1>7 DEF InPlace
<1>9. CardOfCall' /\ ExitSoFar'
  BY <1>1, <1>2, <1>4 DEF CardOfCall, ExitSoFar, AtHost, BootPcs
<1>10. LoadsOnce'
  BY <1>1, <1>2, <1>4, <1>7 DEF LoadsOnce, AtHost, Fresh, Silent
<1> QED
  BY <1>5, <1>8, <1>9, <1>10 DEF Right

LEMMA SteadyStep ==
  ASSUME DriverType, MapInv, BeforeInit, SteadyRight, Next, bad' = "no"
  PROVE  SteadyRight'
<1> SUFFICES ASSUME Calm', Loaded' PROVE Right'
  BY DEF SteadyRight, Steady
<1>1. Calm
  BY CauseGrows DEF Calm
<1>2. CASE InitBegins
  BY <1>2, BeginsRight
<1>3. CASE ~InitBegins
  <2>1. Loaded /\ Right
    BY <1>1, <1>3, StaysLoaded DEF SteadyRight, Steady
  <2>2. CASE Outside
    BY <2>1, <2>2, OutsideRight
  <2>3. ASSUME NEW d \in Cards, CardStep(d)
        PROVE  Right'
    BY <2>1, <2>3, CardChanges, CardsRight DEF DriverType
  <2>4. ASSUME NEW d \in Cards, Thread(d)
        PROVE  Right'
    BY <2>1, <2>4, ThreadRight
  <2>5. CASE LoadStep
    <3>1. host.card \in Cards
      BY <2>5, LoadChanges DEF DriverType, Calls
    <3> QED BY <2>1, <2>5, <3>1, LoadChanges, CardsRight DEF AtHost
  <2>6. CASE Host
    BY <1>3, <2>1, <2>6, InitRight, InitLoadRight, SpawnRight, WalksRight, WalkFailsRight,
          CallRight,
       BootStepsRight, ResetsRight, ExitRight DEF Host
  <2> QED BY <2>2, <2>3, <2>4, <2>5, <2>6, NextCases
<1> QED
  BY <1>2, <1>3

-----------------------------------------------------------------------------
(* After exit *)

LEMMA AfterExitStep ==
  ASSUME DriverType, MapInv, SteadyRight, AfterExit, Next, bad' = "no"
  PROVE  AfterExit'
<1> SUFFICES ASSUME Calm', AtHost("gone")'
             PROVE  \A d \in Cards : thread'[d] \in {"none", "ended"} /\ (ports'[d] # 0 => ~boot'[d].started)
  BY DEF AfterExit
<1>1. Calm
  BY CauseGrows DEF Calm
<1>2. CASE Host
  <2>1. ExitEnds
    BY <1>2, NeverOutAgain DEF AtHost
  <2>2. /\ AtHost("exit") /\ host.op = "exit" /\ host.i >= number /\ Loaded
        /\ UNCHANGED <<thread, ports, boot>>
    BY <2>1 DEF ExitEnds, Ends, AtHost, Loaded, DriverType, Calls, fwVars, drvVars
  <2>3. Right
    BY <1>1, <2>2 DEF SteadyRight, Steady
  <2>4. \A i \in 0..(number - 1) : Through(i)
    BY <2>2, <2>3, KeptMap DEF Right, ExitSoFar, DriverType, HostType, HostRecords
  <2>5. \A d \in Cards : bound[d] = "bound" => \E i \in 0..(number - 1) : map[i] = d
    BY <2>3, KeptMap DEF Right
  <2> QED BY <2>2, <2>3, <2>4, <2>5 DEF Right, Kept, Through
<1>3. CASE ~Host
  <2>1. ~LoadStep /\ \A d \in Cards : ~Thread(d)
    <3>1. ASSUME LoadStep PROVE FALSE BY <3>1, LoadChanges DEF AtHost
    <3>2. ASSUME NEW d \in Cards, Thread(d) PROVE FALSE
      BY <3>2, ThreadChanges DEF DriverType, Loaded, AtHost
    <3> QED BY <3>1, <3>2
  <2>2. CASE Outside
    <3>1. AtHost("gone") /\ thread' = thread
      BY <2>2, OutsideChanges DEF AtHost
    <3>2. CASE RemoveGoesOn
      BY <1>1, <3>1, <3>2 DEF RemoveGoesOn, AfterExit, fwVars
    <3>3. ASSUME NEW d \in Cards, Probe(d)
          PROVE  ports' = ports /\ \A e \in Cards : boot'[e].started = boot[e].started
      BY <3>3 DEF Probe, drvVars, DriverType, CardsType, BootRecords
    <3>4. ASSUME NEW d \in Cards, Remove(d)
          PROVE  ports' = ports /\ \A e \in Cards : boot'[e].started => boot[e].started
      BY <3>4 DEF Remove, drvVars, DriverType, CardsType, Reset
    <3> QED BY <1>1, <2>2, <3>1, <3>2, <3>3, <3>4 DEF Outside, AfterExit
  <2>3. ASSUME NEW d \in Cards, CardStep(d)
        PROVE  \A e \in Cards : thread'[e] \in {"none", "ended"} /\ (ports'[e] # 0 => ~boot'[e].started)
    <3>1. /\ AtHost("gone") /\ UNCHANGED <<thread, ports>>
          /\ \A e \in Cards : boot'[e].started = boot[e].started
      BY <2>3, CardChanges DEF AtHost, drvVars, DriverType
    <3> QED BY <1>1, <3>1 DEF AfterExit
  <2> QED BY <1>3, <2>1, <2>2, <2>3, NextCases
<1> QED
  BY <1>2, <1>3

-----------------------------------------------------------------------------
(* Every card has its thread *)

\* The parts of AllSpawned: who has no thread did not fail, and after init
\* nobody is without.
NoneFailed == \A i \in 0..(number - 1) : thread[map[i]] = "none" => status[map[i]] # "dead"
SpawnedSoFar == AtHost("spawn") => \A i \in 0..(number - 1) : i < host.i => thread[map[i]] # "none"
AllHave == \A i \in 0..(number - 1) : thread[map[i]] # "none"
Initing == host.op = "init" /\ ~AtHost("up")

LEMMA SpawnedParts == AllSpawned <=> (Smooth => NoneFailed /\ SpawnedSoFar /\ (Initing \/ AllHave))
BY DEF AllSpawned, NoneFailed, SpawnedSoFar, AllHave, Initing

\* init, card by card.
LEMMA SpawnedInit ==
  ASSUME DriverType, MapInv, Right, NoneFailed, SpawnedSoFar, "failed" \notin cause', Loaded',
         \/ InitEnds \/ InitFails \/ Allocates \/ ExitEnds \/ InitLoaded
         \/ \E d \in Cards : \/ InitLoads(d) \/ OpensPorts(d) \/ Shakes(d) \/ Syncs(d) \/ Spawns(d)
                             \/ \E pc \in {"ports", "shake", "time", "spawn"} : Skips(pc, d),
         bad' = "no"
  PROVE  NoneFailed' /\ SpawnedSoFar' /\ (Initing' \/ AllHave')
<1> USE PcNames DEF DriverType, HostType
<1>1. /\ number \in Nat /\ host.i \in Nat
      /\ \A i \in 0..(number - 1) : i \in Slots /\ map[i] \in Cards
      /\ \A i, j \in 0..(number - 1) : map[i] = map[j] => i = j
  BY KeptMap DEF Right, HostRecords
<1>2. CASE InitEnds \/ InitFails \/ Allocates \/ ExitEnds
  <2>1. UNCHANGED <<map, number, thread, status>>
    BY <1>2 DEF InitEnds, InitFails, Allocates, ExitEnds, Ends, mapVars, drvVars
  <2>2. ~InitFails /\ ~ExitEnds
    BY HostEnters DEF InitFails, ExitEnds, Ends, Loaded
  <2>3. NoneFailed'
    BY <2>1 DEF NoneFailed
  <2>4. \/ host'.pc \in {"ports", "shake", "time", "alloc"}
        \/ host'.pc = "spawn" /\ host'.i = 0
        \/ AtHost("spawn") /\ host.i >= number
    BY <1>2, <2>2, HostEnters DEF InitEnds, Allocates, Ends
  <2>5. host'.op = "init"
    <3>1. host.op = "init"
      BY <1>2, <2>2 DEF InitEnds, Allocates, Ends, AtHost, Calls, InitPcs
    <3> QED BY <1>2, <2>2, <3>1, HostEnters DEF InitEnds, Allocates, Ends
  <2>6. CASE AtHost("spawn") /\ host.i >= number
    <3>1. AllHave'
      BY <1>1, <2>1, <2>6 DEF SpawnedSoFar, AllHave
    <3> QED BY <2>1, <2>3, <3>1 DEF SpawnedSoFar, AllHave
  <2>7. CASE host'.pc \in {"ports", "shake", "time", "alloc"}
    BY <2>3, <2>5, <2>7 DEF SpawnedSoFar, Initing, AtHost
  <2>8. CASE host'.pc = "spawn" /\ host'.i = 0
    <3>1. \A i \in 0..(number' - 1) : ~(i < 0)
      BY <1>1, <2>1
    <3> QED BY <2>3, <2>5, <2>8, <3>1 DEF SpawnedSoFar, Initing, AtHost
  <2> QED BY <2>4, <2>6, <2>7, <2>8
<1>3. CASE InitLoaded
  <2>1. /\ UNCHANGED <<map, number, thread>> /\ host.op = "init" /\ NextCard("fw")
        /\ status' = status
    BY <1>3 DEF InitLoaded, mapVars
  <2>2. host'.pc = "fw" /\ host'.op = "init"
    BY <2>1, HostNext
  <2> QED BY <2>1, <2>2 DEF NoneFailed, SpawnedSoFar, Initing, AtHost
<1>4. ASSUME NEW d \in Cards, InitLoads(d)
      PROVE  NoneFailed' /\ SpawnedSoFar' /\ Initing'
  <2>1. /\ UNCHANGED <<map, number, thread, status>> /\ host.op = "init"
        /\ host' = [host EXCEPT !.pc = "loading", !.card = d]
    BY <1>4 DEF InitLoads, Entry, AtHost, Calls, InitPcs, mapVars, drvVars
  <2>2. host'.pc = "loading" /\ host'.op = "init"
    BY <2>1, HostGoesTo
  <2> QED BY <2>1, <2>2 DEF NoneFailed, SpawnedSoFar, Initing, AtHost
<1>5. ASSUME NEW d \in Cards, OpensPorts(d) \/ Shakes(d) \/ Syncs(d)
                              \/ \E pc \in {"ports", "shake", "time"} : Skips(pc, d)
      PROVE  NoneFailed' /\ SpawnedSoFar' /\ Initing'
  <2>1. /\ UNCHANGED <<map, number, thread>>
        /\ \E pc \in {"ports", "shake", "time"} : AtHost(pc) /\ NextCard(pc)
        /\ status' = status \/ status' = [status EXCEPT ![d] = "alive"]
    <3>1. CASE OpensPorts(d)
      BY <1>5, <3>1 DEF OpensPorts, Entry, mapVars
    <3>2. CASE Shakes(d)
      BY <1>5, <3>2 DEF Shakes, Breaks, Entry, mapVars
    <3>3. CASE Syncs(d) \/ \E pc \in {"ports", "shake", "time"} : Skips(pc, d)
      BY <1>5, <3>3 DEF Syncs, Skips, Breaks, Entry, mapVars, drvVars
    <3> QED BY <1>5, <3>1, <3>2, <3>3
  <2>2. host'.pc \in {"ports", "shake", "time"} /\ host'.op = "init"
    BY <2>1, HostNext DEF AtHost, Calls, InitPcs
  <2>3. NoneFailed'
    BY <1>1, <2>1 DEF NoneFailed, CardsType
  <2> QED BY <2>2, <2>3 DEF SpawnedSoFar, Initing, AtHost
<1>6. ASSUME NEW d \in Cards, Skips("spawn", d) \/ Spawns(d)
      PROVE  NoneFailed' /\ SpawnedSoFar' /\ Initing'
  <2>1. /\ UNCHANGED <<map, number, status>> /\ Entry("spawn", d) /\ NextCard("spawn")
        /\ \A e \in Cards : e # d => thread'[e] = thread[e]
        /\ thread'[d] # "none" \/ (status[d] = "dead" /\ thread' = thread)
    <3>1. CASE Skips("spawn", d)
      BY <3>1 DEF Skips, mapVars, drvVars
    <3>2. CASE Spawns(d)
      BY <3>2 DEF Spawns, mapVars, CardsType
    <3> QED BY <1>6, <3>1, <3>2
  <2>2. host.op = "init" /\ AtHost("spawn") /\ host.i \in 0..(number - 1) /\ map[host.i] = d
    BY <1>1, <2>1 DEF Entry, AtHost, Calls, InitPcs
  <2>3. host'.pc = "spawn" /\ host'.op = "init" /\ host'.i = host.i + 1
    BY <2>1, <2>2, HostNext
  <2>4. \A e \in Cards : thread'[e] = "none" => thread[e] = "none"
    BY <2>1
  <2>5. NoneFailed'
    BY <1>1, <2>1, <2>4 DEF NoneFailed
  <2>6. thread'[d] # "none"
    BY <2>1, <2>2 DEF NoneFailed
  <2>7. SpawnedSoFar'
    <3>1. ASSUME NEW i \in 0..(number - 1), i < host.i + 1
          PROVE  thread'[map[i]] # "none"
      <4>1. CASE i = host.i BY <4>1, <2>2, <2>6
      <4>2. CASE i # host.i
        BY <4>2, <3>1, <1>1, <2>2, <2>4 DEF SpawnedSoFar
      <4> QED BY <4>1, <4>2
    <3> QED BY <3>1, <2>1, <2>3 DEF SpawnedSoFar
  <2> QED BY <2>3, <2>5, <2>7 DEF Initing, AtHost
<1> QED
  BY <1>2, <1>3, <1>4, <1>5, <1>6

\* After it, card by card no more.
LEMMA SpawnedLater ==
  ASSUME DriverType, MapInv, Right, NoneFailed, Initing \/ AllHave,
         \/ \E d \in Cards : Call(d) \/ ExitStops(d)
         \/ Walks \/ WalkFails \/ Resets \/ BootLoads \/ BootLoaded
         \/ BootChecks \/ BootSyncs \/ BootWakes \/ ExitBegins \/ ExitStopped,
         bad' = "no"
  PROVE  NoneFailed' /\ SpawnedSoFar' /\ AllHave'
<1> USE DEF DriverType, HostType
<1>1. ~Initing
  BY
    DEF Initing, Call, ExitStops, Walks, WalkFails, Resets, BootLoads, BootLoaded, BootChecks,
        BootSyncs,
     BootWakes, ExitBegins, ExitStopped, Entry, AtHost, Calls, BootPcs
<1>2. UNCHANGED <<map, number, thread>>
  <2>1. UNCHANGED <<mapVars, thread>>
    <3>1. Host BY DEF Host
    <3>2. ~\E d \in Cards : Spawns(d)
      BY
        DEF Spawns, Call, ExitStops, Walks, WalkFails, Resets, BootLoads, BootLoaded, BootChecks,
            BootSyncs,
         BootWakes, ExitBegins, ExitStopped, Entry, AtHost
    <3> QED BY <3>1, <3>2, HostChanges
  <2> QED BY <2>1 DEF mapVars
<1>3. AllHave'
  BY <1>1, <1>2 DEF AllHave
<1>4. NoneFailed' /\ SpawnedSoFar'
  BY <1>2, <1>3 DEF AllHave, NoneFailed, SpawnedSoFar
<1> QED
  BY <1>3, <1>4

LEMMA AllSpawnedStep ==
  ASSUME DriverType, MapInv, BeforeInit, SteadyRight, AllSpawned, Next, bad' = "no"
  PROVE  AllSpawned'
<1> SUFFICES ASSUME Calm', Loaded', "late" \notin cause', "failed" \notin cause'
             PROVE  NoneFailed' /\ SpawnedSoFar' /\ (Initing' \/ AllHave')
  BY DEF AllSpawned, Smooth, Steady, NoneFailed, SpawnedSoFar, AllHave, Initing
<1>1. Calm /\ "late" \notin cause /\ "failed" \notin cause
  BY CauseGrows DEF Calm
<1>2. CASE InitBegins
  <2>1. /\ AtHost("out") /\ core.pc = "idle" /\ UNCHANGED <<map, number, thread, status, boot, bound, dangling, ports, core>>
    BY <1>2 DEF InitBegins, Calm, CoreAt, mapVars, fwVars, drvVars
  <2>2. host'.pc = "fw" /\ host'.op = "init"
    BY <1>2, <2>1, HostEnters, PcNames DEF InitBegins, DriverType, HostType, Calls, AtHost, InitPcs
  <2>3. Kept
    BY <2>1 DEF BeforeInit, Kept
  <2>4. NoneFailed'
    BY <2>1, <2>3, KeptMap DEF BeforeInit, NoneFailed
  <2> QED BY <2>2, <2>4 DEF SpawnedSoFar, Initing, AtHost
<1>3. CASE ~InitBegins
  <2>1. Loaded /\ Right
    BY <1>1, <1>3, StaysLoaded DEF SteadyRight, Steady
  <2>2. NoneFailed /\ SpawnedSoFar /\ (Initing \/ AllHave)
    BY <1>1, <2>1, SpawnedParts DEF Smooth, Steady
  <2>3. CASE Outside
    <3>1. UNCHANGED <<map, number, thread, host, status>>
      BY <2>1, <2>3, KeptMoves, OutsideChanges DEF Right
    <3> QED BY <2>2, <3>1 DEF NoneFailed, SpawnedSoFar, Initing, AllHave, AtHost
  <2>4. ASSUME NEW d \in Cards, CardStep(d)
        PROVE  NoneFailed' /\ SpawnedSoFar' /\ (Initing' \/ AllHave')
    <3>1. UNCHANGED <<map, number, thread, host, status>>
      BY <2>4, CardChanges DEF mapVars, drvVars, DriverType
    <3> QED BY <2>2, <3>1 DEF NoneFailed, SpawnedSoFar, Initing, AllHave, AtHost
  <2>5. ASSUME NEW d \in Cards, Thread(d)
        PROVE  NoneFailed' /\ SpawnedSoFar' /\ (Initing' \/ AllHave')
    <3>1. /\ UNCHANGED <<map, number, host>>
          /\ \A e \in Cards : thread'[e] = "none" => thread[e] = "none" /\ status'[e] = status[e]
          /\ \A e \in Cards : thread[e] # "none" => thread'[e] # "none"
      BY <2>5, ThreadChanges DEF mapVars, DriverType
    <3>2. \A i \in 0..(number - 1) : map[i] \in Cards
      BY <2>1, KeptMap DEF Right
    <3> QED BY <2>2, <3>1, <3>2 DEF NoneFailed, SpawnedSoFar, Initing, AllHave, AtHost
  <2>6. CASE LoadStep
    <3>1. UNCHANGED <<map, number, thread, host, status>>
      BY <2>6, LoadChanges DEF mapVars, drvVars
    <3> QED BY <2>2, <3>1 DEF NoneFailed, SpawnedSoFar, Initing, AllHave, AtHost
  <2>7. CASE Host
    BY <1>3, <2>1, <2>2, <2>7, SpawnedInit, SpawnedLater DEF Host
  <2> QED BY <2>3, <2>4, <2>5, <2>6, <2>7, NextCases
<1> QED
  BY <1>2, <1>3

-----------------------------------------------------------------------------
(* What is not there *)

\* While no card was unplugged, what the driver works with is there.
LEMMA SteadyHolds ==
  ASSUME DriverType, MapInv, Right
  PROVE  /\ \A pc \in Phases : ~(AtHost(pc) /\ host.i < number /\ map[host.i] = None)
         /\ AtHost("find") /\ host.walk < number => map[host.walk] # None
         /\ host.pc \in BootPcs \cup {"loading", "reset"} => Holds(host.card)
         /\ \A pc \in Phases, d \in Cards : Entry(pc, d) => Usable(d)
         /\ \A d \in Cards : thread[d] # "none" =>
              d \notin dangling /\ "shm" \in has[d] /\ \A i \in WalkEnd(d) : map[i] # None
<1> USE DEF DriverType, HostType
<1>1. host.i \in Nat /\ host.walk \in Nat
  BY DEF HostRecords
<1>2. /\ \A i \in 0..(number - 1) : map[i] \in Cards /\ map[i] # None /\ bound[map[i]] = "bound"
      /\ \A d \in Cards : bound[d] = "bound" => Usable(d)
      /\ dangling = {} /\ number \in Nat
  BY KeptMap, MapAssumption DEF Right, Kept
<1>3. /\ \A pc \in Phases : ~(AtHost(pc) /\ host.i < number /\ map[host.i] = None)
      /\ AtHost("find") /\ host.walk < number => map[host.walk] # None
  BY <1>1, <1>2
<1>4. host.pc \in BootPcs \cup {"loading", "reset"} => Holds(host.card)
  <2>1. host.pc \in BootPcs \cup {"loading", "reset"} => host.card \in Cards /\ bound[host.card] = "bound"
    BY DEF Right, CardOfCall, Calls
  <2> QED BY <2>1, <1>2 DEF Holds
<1>5. \A pc \in Phases, d \in Cards : Entry(pc, d) => Usable(d)
  <2>1. ASSUME NEW pc \in Phases, NEW d \in Cards, Entry(pc, d)
        PROVE  Usable(d)
    <3>1. host.i \in 0..(number - 1) /\ map[host.i] = d
      BY <2>1, <1>1, <1>2 DEF Entry
    <3> QED BY <3>1, <1>2
  <2> QED BY <2>1
<1>6. ASSUME NEW d \in Cards, thread[d] # "none"
      PROVE  d \notin dangling /\ "shm" \in has[d] /\ \A i \in WalkEnd(d) : map[i] # None
  <2>1. bound[d] = "bound"
    BY <1>6 DEF Right, Kept
  <2> QED BY <1>2, <2>1, WalkEnds DEF Right, Usable
<1> QED
  BY <1>3, <1>4, <1>5, <1>6

\* A thread's wait queue is there, and a card that has none came late or failed.
LEMMA SteadyQueues ==
  ASSUME DriverType, MapInv, Right
  PROVE  /\ AllSpawned /\ Steady /\ AtHost("wake") /\ host.card \notin queues =>
              cause \cap {"failed", "late"} # {}
         /\ \A d \in Cards : Entry("exit", d) /\ heartbeat[host.i] # None =>
              /\ heartbeat[host.i] = d /\ d \in queues /\ thread[d] # "ended"
<1> USE DEF DriverType, HostType
<1>1. /\ number \in Nat /\ host.i \in Nat
      /\ \A i, j \in 0..(number - 1) : map[i] = map[j] => i = j
      /\ \A d \in Cards : bound[d] = "bound" => \E i \in 0..(number - 1) : map[i] = d
  BY KeptMap DEF Right, HostRecords
<1>2. ASSUME AllSpawned, Steady, AtHost("wake"), host.card \notin queues,
             "failed" \notin cause, "late" \notin cause
      PROVE  FALSE
  <2>1. host.card \in Cards /\ bound[host.card] = "bound" /\ host.op = "boot"
    BY <1>2 DEF AtHost, Right, CardOfCall, Calls, BootPcs
  <2>2. \A i \in 0..(number - 1) : thread[map[i]] # "none"
    BY <1>2, <2>1 DEF AllSpawned, Smooth
  <2> QED BY <1>1, <1>2, <2>1, <2>2 DEF Calls
<1>3. ASSUME NEW d \in Cards, Entry("exit", d), heartbeat[host.i] # None
      PROVE  heartbeat[host.i] = d /\ d \in queues /\ thread[d] # "ended"
  <2>1. host.i \in 0..(number - 1) /\ map[host.i] = d /\ AtHost("exit")
    BY <1>1, <1>3 DEF Entry
  <2>2. heartbeat[host.i] = d /\ thread[d] # "none"
    BY <1>3, <2>1 DEF Right, InPlace
  <2>3. thread[d] # "ended"
    <3>1. host.op = "exit" BY <2>1 DEF AtHost, Calls
    <3> QED BY <1>1, <2>1, <3>1 DEF Right, ExitSoFar
  <2> QED BY <2>2, <2>3 DEF Calls
<1> QED
  BY <1>2, <1>3

LEMMA BreaksForCause ==
  ASSUME DriverType, MapInv, BeforeInit, SteadyRight, AfterExit, AllSpawned, ManyKnown,
         Next, bad' # "no"
  PROVE  /\ cause' \cap Causes[bad'] # {}
         /\ \A why : why # "nomem" => (why \in cause' <=> why \in cause)
         /\ UNCHANGED <<mapVars, fwVars, host, drvVars, dangling, used>>
<1> USE DEF DriverType, HostType
<1>1. bad = "no"
  BY DEF Next
<1>2. "unplugged" \in cause \/ Calm
  BY DEF Calm
<1>3. Calm /\ Loaded => Right /\ Steady
  BY DEF SteadyRight, Steady
<1>4. /\ \A how \in {"null", "freed", "queue", "code", "ended"} : "unplugged" \in Causes[how]
      /\ "absent" \in Causes["null"] /\ {"failed", "late"} \subseteq Causes["queue"]
      /\ "initfailed" \in Causes["code"] /\ "many" \in Causes["array"]
  BY DEF Causes
<1> DEFINE All1 == UNCHANGED <<mapVars, fwVars, host, drvVars, dangling, cause, used>>
<1>5. ASSUME NEW pc \in Phases, NullEntry(pc)
      PROVE  cause \cap Causes[bad'] # {} /\ All1
  <2>1. All1 /\ bad' = "null" BY <1>5 DEF NullEntry, Breaks
  <2>2. Loaded BY <1>5 DEF NullEntry, AtHost, Phases, Loaded
  <2>3. ~(Calm /\ Loaded) BY <1>3, <1>5, SteadyHolds DEF NullEntry
  <2> QED BY <1>2, <1>4, <2>1, <2>2, <2>3
<1>6. ASSUME Walks
      PROVE  cause \cap Causes[bad'] # {} /\ All1
  <2>1. All1 /\ bad' = "null" /\ AtHost("find") /\ host.walk < number /\ map[host.walk] = None
    BY <1>1, <1>6 DEF Walks, Breaks
  <2>2. Loaded BY <2>1 DEF AtHost, Loaded
  <2>3. ~Calm BY <1>3, <2>1, <2>2, SteadyHolds
  <2> QED BY <1>2, <1>4, <2>1, <2>3
<1>7. ASSUME WalkFails
      PROVE  cause \cap Causes[bad'] # {} /\ All1
  <2>1. All1 /\ bad' = "null" /\ AtHost("find") /\ host.walk >= number
    BY <1>1, <1>7 DEF WalkFails, NotThere, Breaks
  <2>2. Loaded BY <2>1 DEF AtHost, Loaded
  <2>3. Calm => "absent" \in cause BY <1>3, <2>1, <2>2, AbsentOnly
  <2> QED BY <1>2, <1>4, <2>1, <2>3
<1>8. ASSUME NEW d \in Cards, Shakes(d) \/ Syncs(d)
      PROVE  cause \cap Causes[bad'] # {} /\ All1
  <2>1. All1 /\ bad' = "freed" /\ ~Usable(d) /\ (Entry("shake", d) \/ Entry("time", d))
    BY <1>1, <1>8 DEF Shakes, Syncs, Breaks
  <2>2. Loaded BY <2>1 DEF Entry, AtHost, Loaded
  <2>3. ~Calm BY <1>3, <2>1, <2>2, SteadyHolds DEF Phases
  <2> QED BY <1>2, <1>4, <2>1, <2>3
<1>9. ASSUME LoadStep \/ Resets \/ BootLoads \/ BootChecks \/ BootSyncs
      PROVE  cause \cap Causes[bad'] # {} /\ All1
  <2>1. All1 /\ bad' = "freed" /\ ~Holds(host.card) /\ host.pc \in BootPcs \cup {"loading", "reset"}
    <3>1. CASE LoadStep
      BY <1>1, <3>1 DEF LoadStep, AtHost, Breaks, d1
    <3>2. CASE Resets
      BY <1>1, <3>2 DEF Resets, AtHost, Breaks, d1
    <3>3. CASE BootLoads \/ BootChecks \/ BootSyncs
      BY <1>1, <3>3 DEF BootLoads, BootChecks, BootSyncs, AtHost, Breaks, d1, BootPcs
    <3> QED BY <1>9, <3>1, <3>2, <3>3
  <2>2. Loaded BY <2>1 DEF Loaded, BootPcs
  <2>3. ~Calm BY <1>3, <2>1, <2>2, SteadyHolds
  <2> QED BY <1>2, <1>4, <2>1, <2>3
<1>10. ASSUME BootWakes
      PROVE  cause \cap Causes[bad'] # {} /\ All1
  <2>1. All1 /\ bad' = "queue" /\ AtHost("wake") /\ host.card \notin queues
    BY <1>1, <1>10 DEF BootWakes, Breaks, d1
  <2>2. Loaded BY <2>1 DEF AtHost, Loaded
  <2>3. Calm => cause \cap {"failed", "late"} # {} BY <1>3, <2>1, <2>2, SteadyQueues
  <2> QED BY <1>2, <1>4, <2>1, <2>3
<1>11. ASSUME NEW d \in Cards, ExitStops(d)
      PROVE  cause \cap Causes[bad'] # {} /\ All1
  <2>1. All1 /\ bad' \in {"queue", "ended"} /\ Entry("exit", d) /\ heartbeat[host.i] # None
        /\ (d \notin queues \/ thread[heartbeat[host.i]] = "ended")
    BY <1>1, <1>11 DEF ExitStops, Breaks
  <2>2. Loaded BY <2>1 DEF Entry, AtHost, Loaded
  <2>3. ~Calm BY <1>3, <2>1, <2>2, SteadyQueues
  <2> QED BY <1>2, <1>4, <2>1, <2>3
<1>12. ASSUME NEW d \in Cards, ThreadStarts(d) \/ ThreadLooks(d)
      PROVE  cause \cap Causes[bad'] # {} /\ All1
  <2>1. All1 /\ bad' \in {"null", "freed"} /\ Loaded /\ thread[d] # "none"
        /\ (d \in dangling \/ "shm" \notin has[d] \/ \E i \in WalkEnd(d) : map[i] = None)
    <3>1. CASE ThreadStarts(d) BY <1>1, <3>1 DEF ThreadStarts, Breaks
    <3>2. CASE ThreadLooks(d) BY <1>1, <3>2 DEF ThreadLooks, Breaks
    <3> QED BY <1>12, <3>1, <3>2
  <2>2. ~Calm BY <1>3, <2>1, SteadyHolds
  <2> QED BY <1>2, <1>4, <2>1, <2>2
<1>13. ASSUME NEW d \in Cards, ThreadLost(d)
      PROVE  cause \cap Causes[bad'] # {} /\ All1
  <2>1. All1 /\ bad' = "code" /\ ~Loaded /\ thread[d] \notin {"none", "ended"}
    BY <1>13 DEF ThreadLost, Breaks
  <2>2. Calm => host.pc = "failed"
    BY <2>1 DEF Loaded, BeforeInit, AfterExit, AtHost
  <2>3. Calm => "initfailed" \in cause
    BY <2>2 DEF Calls
  <2> QED BY <1>2, <1>4, <2>1, <2>3
<1>14. ~(InitBegins \/ InitEnds \/ InitLoaded \/ InitFails \/ Allocates \/ BootLoaded \/ ExitBegins
         \/ ExitStopped \/ ExitEnds)
  BY <1>1
    DEF InitBegins, InitEnds, InitLoaded, InitFails, Allocates, BootLoaded, ExitBegins, ExitStopped,
              ExitEnds, Ends
<1>15. \A d \in Cards : ~(InitLoads(d) \/ OpensPorts(d) \/ Spawns(d) \/ Call(d)
                          \/ \E pc \in {"ports", "shake", "time", "spawn"} : Skips(pc, d))
  BY <1>1 DEF InitLoads, OpensPorts, Spawns, Call, Skips
<1>16. ~RemoveGoesOn /\ \A d \in Cards : ~(Probe(d) \/ Remove(d) \/ CardStep(d) \/ ThreadGivesUp(d) \/ ThreadStops(d))
  BY <1>1 DEF RemoveGoesOn, Probe, Remove, CardStep, ThreadGivesUp, ThreadStops
<1>17. ASSUME NEW d \in Cards, Overruns(d)
       PROVE  cause \cap Causes[bad'] # {} /\ All1
  <2>1. All1 /\ bad' = "array" /\ host.i >= MaxThreads /\ host.i < number
    BY <1>17 DEF Overruns, Entry, Breaks
  <2>2. number > MaxThreads
    BY <2>1, DriverAssumption DEF MapInv, MapType, HostRecords
  <2> QED BY <1>4, <2>1, <2>2 DEF ManyKnown
<1>18. ASSUME RingFails
       PROVE  /\ cause' \cap Causes[bad'] # {}
              /\ \A why : why # "nomem" => (why \in cause' <=> why \in cause)
              /\ UNCHANGED <<mapVars, fwVars, host, drvVars, dangling, used>>
  BY <1>18 DEF RingFails, Causes
<1>19. CASE RingFails
  BY <1>18, <1>19
<1>20. CASE ~RingFails
  <2>1. cause \cap Causes[bad'] # {} /\ All1
    BY <1>5, <1>6, <1>7, <1>8, <1>9, <1>10, <1>11, <1>12, <1>13, <1>14, <1>15, <1>16, <1>17, <1>20
      DEF Next, Driver, Thread
  <2> QED BY <2>1
<1> QED
  BY <1>19, <1>20

\* The count grows in a probe only, and the probe sees how far.
LEMMA ManyKnownStep == MapType /\ ManyKnown /\ Next => ManyKnown'
<1> SUFFICES ASSUME MapType, ManyKnown, Next, number' > MaxThreads
             PROVE  "many" \in cause'
  BY DEF ManyKnown
<1>1. CASE number > MaxThreads
  BY <1>1, CauseGrows DEF ManyKnown
<1>2. CASE ~(number > MaxThreads)
  <2>1. number \in Nat /\ number - 1 < number
    BY DEF MapType
  <2>2. number' # number /\ number' # number - 1
    BY <1>2, <2>1, DriverAssumption
  <2>3. ~UNCHANGED mapVars
    BY <2>2 DEF mapVars
  <2>4. ~RemoveGoesOn /\ \A d \in Cards : ~Remove(d)
    BY <2>2
      DEF RemoveGoesOn, RemoveStep, Releases, MovesLast, ClearsLast, Uncounts, Remove, RemoveBegins
  <2> QED BY <2>3, <2>4, MapChanges DEF Probe
<1> QED
  BY <1>1, <1>2

-----------------------------------------------------------------------------
(* The load *)

LEMMA ImagePairs ==
  /\ \A p \in Image : /\ p = <<p[1], p[2]>> /\ p[1] \in Files /\ p[2] \in 1..Chunks[p[1]]
                      /\ p[1] \in Nat /\ p[2] \in Nat
  /\ \A n \in Files, k \in Nat : Chunks[n] \in Nat /\ (k >= 1 /\ k <= Chunks[n] => <<n, k>> \in Image)
<1>1. \A n \in Files : Chunks[n] \in Nat /\ n \in Nat
  BY FirmwareAssumption DEF Files
<1>2. ASSUME NEW p \in Image
      PROVE  /\ p = <<p[1], p[2]>> /\ p[1] \in Files /\ p[2] \in 1..Chunks[p[1]]
             /\ p[1] \in Nat /\ p[2] \in Nat
  <2>1. PICK n \in Files : p \in {<<n, k>> : k \in 1..Chunks[n]}
    BY DEF Image
  <2>2. PICK k \in 1..Chunks[n] : p = <<n, k>>
    BY <2>1
  <2> QED BY <2>2, <1>1
<1>3. ASSUME NEW n \in Files, NEW k \in Nat, k >= 1, k <= Chunks[n]
      PROVE  <<n, k>> \in Image
  <2>1. k \in 1..Chunks[n]
    BY <1>3
  <2> QED BY <2>1 DEF Image
<1> QED
  BY <1>1, <1>2, <1>3

\* A load of a card is under way that answers; the card takes, moves, reports.
LEMMA LoadRightCard ==
  ASSUME DriverType, LoadRight, Running, NEW d \in Cards, CardStep(d)
  PROVE  LoadRight' /\ Running'
<1> DEFINE b == boot[d]
<1>1. /\ load' = load /\ ~Silent(d) /\ ~b.started
      /\ \A e \in Cards : e # d => boot'[e] = boot[e]
      /\ boot'[d].on = b.on /\ boot'[d].started = b.started
  BY CardChanges DEF DriverType, Running
<1>2. b \in BootRecords /\ boot \in [Cards -> BootRecords]
  BY DEF DriverType, CardsType
<1>3. load.pc \in LoadPcs /\ load.card = d => load.pc \in {"wait", "save"}
  BY <1>1 DEF LoadRight, Fresh, LoadPcs
<1>4. load.pc \in LoadPcs => load.card \in Cards
  BY DEF LoadPcs, DriverType, Calls
<1>5. "write" \in {b.cmd.op, b.busy.op} => load.pc = "save" /\ d = load.card
  BY DEF Running
<1>6. load.pc = "wait" /\ load.card = d => Flight(b, "read") /\ buf = At /\ At \in Image
  BY ImagePairs DEF LoadRight, LoadPcs, At, DriverType, HostType, LoadRecords
<1>7. load.pc = "save" /\ load.card = d => Flight(b, "write")
  BY DEF LoadRight
<1>8. /\ b.mem \in [Image -> Contents]
      /\ b.busy # NoCmd => b.busy.op \in {"read", "write"}
  BY <1>2 DEF BootRecords, Cmds
<1>9. ASSUME load.pc \in LoadPcs /\ load.card = d => \A p \in Image : p # At => boot'[d].mem[p] = b.mem[p],
             load.pc = "wait" /\ load.card = d => Flight(boot'[d], "read") /\ buf' = At,
             load.pc = "save" /\ load.card = d => Flight(boot'[d], "write"),
             load.pc \in {"send", "wait"} => buf' = buf,
             "write" \in {boot'[d].cmd.op, boot'[d].busy.op} => "write" \in {b.cmd.op, b.busy.op}
      PROVE  LoadRight' /\ Running'
  <2>1. load.pc \in LoadPcs =>
          \A p \in Image : p[1] < load.file \/ (p[1] = load.file /\ p[2] < load.chunk) => boot'[load.card].mem[p] = p
    <3>1. SUFFICES ASSUME load.pc \in LoadPcs, NEW p \in Image, p[1] < load.file \/ (p[1] = load.file /\ p[2] < load.chunk)
                   PROVE  boot'[load.card].mem[p] = p
      OBVIOUS
    <3>2. boot[load.card].mem[p] = p /\ p # At
      BY <3>1, ImagePairs DEF LoadRight, At, DriverType, HostType, LoadRecords
    <3> QED BY <1>1, <1>4, <1>9, <3>1, <3>2
  <2>2. LoadRight'
    <3>1. load.pc \in LoadPcs /\ load.card # d => boot'[load.card] = boot[load.card]
      BY <1>1, <1>4
    <3>2. load.pc \in LoadPcs =>
            /\ load.file >= 1
            /\ ~boot'[load.card].started
            /\ load.pc # "file" => load.file \in Files
            /\ load.pc = "file" => load.file <= Len(Chunks) + 1
      BY <1>1, <3>1 DEF LoadRight
    <3>3. load.pc \in {"file", "copy", "send", "dump", "ask"} => Fresh(load.card)'
      <4>1. load.pc \in {"file", "copy", "send", "dump", "ask"} => load.card # d /\ Fresh(load.card)
        BY <1>3 DEF LoadPcs, LoadRight
      <4>2. load.pc \in {"file", "copy", "send", "dump", "ask"} => boot'[load'.card] = boot[load.card]
        BY <4>1, <3>1, <1>1 DEF LoadPcs
      <4> QED BY <4>1, <4>2 DEF Fresh, Silent
    <3>4. load.pc \in {"send", "wait"} => load.chunk <= Chunks[load.file] /\ buf' = At
      BY <1>9 DEF LoadRight
    <3>5. load.pc = "wait" => Flight(boot'[load.card], "read")
      BY <1>9, <3>1 DEF LoadRight, LoadPcs
    <3>6. load.pc = "save" => Flight(boot'[load.card], "write")
      BY <1>9, <3>1 DEF LoadRight, LoadPcs
    <3>7. load.pc \in {"copy", "send", "wait"} => load.chunk >= 1
      BY DEF LoadRight
    <3> QED BY <1>1, <2>1, <3>2, <3>3, <3>4, <3>5, <3>6, <3>7 DEF LoadRight, At, Flight
  <2>3. Running'
    <3>1. \A e \in Cards : boot'[e].started => e # d /\ boot'[e] = boot[e]
      BY <1>1
    <3>2. \A e \in Cards : boot'[e].started => Silent(e)' /\ Whole(e)'
      BY <3>1 DEF Running, Silent, Whole
    <3>3. \A e \in Cards : "write" \in {boot'[e].cmd.op, boot'[e].busy.op} => load.pc = "save" /\ e = load.card
      BY <1>1, <1>5, <1>9 DEF Running
    <3> QED BY <1>1, <3>2, <3>3 DEF Running
  <2> QED BY <2>2, <2>3
<1>10. CASE CardTakes(d)
  <2>1. /\ boot'[d] = [b EXCEPT !.busy = b.cmd, !.cmd = NoCmd, !.moved = FALSE] /\ buf' = buf
        /\ b.busy = NoCmd /\ b.cmd # NoCmd
    BY <1>2, <1>10 DEF CardTakes
  <2>2. /\ boot'[d].busy = b.cmd /\ boot'[d].cmd = NoCmd /\ boot'[d].moved = FALSE
        /\ boot'[d].status = b.status /\ boot'[d].mem = b.mem
    BY <1>2, <2>1 DEF BootRecords
  <2>3. \A op \in {"read", "write"} : Flight(b, op) => Flight(boot'[d], op)
    BY <2>1, <2>2 DEF Flight
  <2>4. "write" # NoCmd.op
    BY DEF NoCmd
  <2> QED BY <2>1, <2>2, <2>3, <2>4, <1>6, <1>7, <1>9
<1>11. CASE CardReports(d)
  <2>1. PICK s \in {b.busy.op, "fail"} :
          /\ s # "fail" => b.moved
          /\ boot' = [boot EXCEPT ![d].status = s, ![d].busy = NoCmd, ![d].moved = FALSE]
    BY <1>11 DEF CardReports
  <2>2. /\ boot'[d].busy = NoCmd /\ boot'[d].cmd = b.cmd /\ boot'[d].status = s /\ boot'[d].mem = b.mem
        /\ buf' = buf /\ b.busy # NoCmd
    BY <1>2, <1>11, <2>1 DEF CardReports, BootRecords
  <2>3. \A op \in {"read", "write"} : Flight(b, op) => Flight(boot'[d], op)
    BY <2>1, <2>2 DEF Flight
  <2>4. "write" # NoCmd.op
    BY DEF NoCmd
  <2> QED BY <2>2, <2>3, <2>4, <1>6, <1>7, <1>9
<1>12. CASE CardMoves(d) /\ b.busy.op = "read"
  <2>1. /\ boot' = [boot EXCEPT ![d].mem[b.busy.at] = buf, ![d].moved = TRUE] /\ buf' = buf
        /\ b.busy # NoCmd
    BY <1>12 DEF CardMoves
  <2>2. /\ boot'[d].busy = b.busy /\ boot'[d].cmd = b.cmd /\ boot'[d].status = b.status
        /\ boot'[d].mem = [b.mem EXCEPT ![b.busy.at] = buf]
    BY <1>2, <2>1 DEF BootRecords
  <2>3. load.card = d /\ load.pc \in {"wait", "save"} => load.pc = "wait" /\ b.busy.at = At
    BY <1>6, <1>7, <1>12, <2>1 DEF Flight
  <2>4. load.pc = "wait" /\ load.card = d => Flight(boot'[d], "read")
    <3>1. ASSUME load.pc = "wait", load.card = d PROVE Flight(boot'[d], "read")
      <4>1. boot'[d].mem[At] = At
        BY <3>1, <1>6, <1>8, <2>2, <2>3
      <4> QED BY <3>1, <4>1, <1>6, <2>1, <2>2, <2>3 DEF Flight
    <3> QED BY <3>1
  <2>5. \A p \in Image : p # b.busy.at => boot'[d].mem[p] = b.mem[p]
    BY <1>8, <2>2
  <2> QED BY <2>1, <2>2, <2>3, <2>4, <2>5, <1>6, <1>7, <1>9, <1>1, <1>3
<1>13. CASE CardMoves(d) /\ b.busy.op # "read"
  <2>1. /\ boot' = [boot EXCEPT ![d].moved = TRUE] /\ b.busy # NoCmd
    BY <1>13 DEF CardMoves
  <2>2. /\ boot'[d].busy = b.busy /\ boot'[d].cmd = b.cmd /\ boot'[d].status = b.status
        /\ boot'[d].mem = b.mem
    BY <1>2, <2>1 DEF BootRecords
  <2>3. load.pc = "save" /\ load.card = d
    BY <1>5, <1>8, <1>13, <2>1
  <2>4. Flight(boot'[d], "write")
    BY <1>7, <2>1, <2>2, <2>3 DEF Flight
  <2> QED BY <2>2, <2>3, <2>4, <1>9
<1> QED
  BY <1>10, <1>11, <1>12, <1>13 DEF CardStep, Card

\* A card that answers, after a status was read and cleared.
LEMMA ClearsStatus ==
  ASSUME DriverType, NEW d \in Cards, boot' = [boot EXCEPT ![d].status = "none"]
  PROVE  /\ boot'[d].status = "none" /\ boot'[d].cmd = boot[d].cmd /\ boot'[d].busy = boot[d].busy
         /\ boot'[d].mem = boot[d].mem /\ boot'[d].started = boot[d].started
         /\ \A e \in Cards : e # d => boot'[e] = boot[e]
BY DEF DriverType, CardsType, BootRecords

\* The steps of the load itself, on a card that has power.
LEMMA LoadRightStep ==
  ASSUME DriverType, LoadRight, Running, LoadStep, bad' = "no", boot[load.card].on, ~lateDump'
  PROVE  LoadRight' /\ Running'
<1> DEFINE c == load.card
           b == boot[c]
           Prefix(n, k) == \A p \in Image : p[1] < n \/ (p[1] = n /\ p[2] < k) => b.mem[p] = p
<1>1. /\ Loading /\ c \in Cards /\ load'.card = c /\ load' \in LoadRecords
      /\ \A e \in Cards : e # c => boot'[e] = boot[e]
      /\ b \in BootRecords /\ boot \in [Cards -> BootRecords]
  <2>1. /\ Loading /\ host.pc = "loading" /\ \A e \in Cards : e # host.card => boot'[e] = boot[e]
    BY LoadChanges
  <2>2. host.card = c /\ c \in Cards
    BY <2>1 DEF DriverType, Calls
  <2>3. load'.card = c /\ load' \in LoadRecords
    BY <2>1, LoadingMoves DEF DriverType, HostType, Calls
  <2> QED BY <2>1, <2>2, <2>3 DEF DriverType, CardsType
<1>2. /\ load.file \in Nat /\ load.chunk \in Nat /\ load \in LoadRecords
      /\ Len(Chunks) \in Nat /\ \A n \in Files : Chunks[n] \in Nat
  <2>1. Len(Chunks) \in Nat
    BY FirmwareAssumption
  <2>2. \A n \in Files : Chunks[n] \in Nat
    BY ImagePairs
  <2> QED BY <2>1, <2>2 DEF DriverType, HostType, LoadRecords
<1>3. load.pc \in LoadPcs =>
        /\ load.file >= 1 /\ ~b.started
        /\ load.pc # "file" => load.file \in Files
        /\ load.pc = "file" => load.file <= Len(Chunks) + 1
        /\ Prefix(load.file, load.chunk)
  BY DEF LoadRight
<1>4. load.pc \in {"file", "copy", "send", "dump", "ask"} => Fresh(c)
  BY DEF LoadRight
\* What is to be shown, for a card that is not started.
<1>5. ASSUME load.pc \in LoadPcs, load'.pc \in LoadPcs, boot'[c].started = b.started, boot'[c].mem = b.mem,
             /\ load'.file >= 1
             /\ load'.pc # "file" => load'.file \in Files
             /\ load'.pc = "file" => load'.file <= Len(Chunks) + 1
             /\ Prefix(load'.file, load'.chunk),
             load'.pc \in {"file", "copy", "send", "dump", "ask"} => Fresh(c)',
             load'.pc \in {"copy", "send", "wait"} => load'.chunk >= 1,
             load'.pc \in {"send", "wait"} => load'.chunk <= Chunks[load'.file] /\ buf' = At',
             load'.pc = "wait" => Flight(b, "read")' /\ "write" \notin {boot'[c].cmd.op, boot'[c].busy.op},
             load'.pc = "save" => Flight(b, "write")'
      PROVE  LoadRight' /\ Running'
  <2>1. LoadRight'
    <3>1. boot'[load'.card] = boot'[c] BY <1>1
    <3>2. ~boot'[c].started BY <1>3, <1>5
    <3>3. load'.pc \in {"file", "copy", "send", "dump", "ask"} => Fresh(load.card)'
      BY <1>5
    <3>4. load'.pc = "wait" => Flight(boot[load.card], "read")'
      BY <1>5
    <3>5. load'.pc = "save" => Flight(boot[load.card], "write")'
      BY <1>5
    <3> QED BY <1>1, <1>5, <3>1, <3>2, <3>3, <3>4, <3>5 DEF LoadRight
  <2>2. "write" \in {boot'[c].cmd.op, boot'[c].busy.op} => load'.pc = "save"
    <3>1. load'.pc \in {"file", "copy", "send", "dump", "ask"} =>
             "write" \notin {boot'[c].cmd.op, boot'[c].busy.op}
      BY <1>1, <1>5 DEF Fresh, Silent, NoCmd
    <3> QED BY <1>5, <3>1 DEF LoadPcs
  <2>3. \A e \in Cards : e # c => "write" \notin {boot[e].cmd.op, boot[e].busy.op}
    BY DEF Running
  <2>4. Running'
    <3>1. \A e \in Cards : boot'[e].started => e # c /\ boot'[e] = boot[e]
      BY <1>1, <1>3, <1>5
    <3>2. \A e \in Cards : boot'[e].started => Silent(e)' /\ Whole(e)'
      BY <3>1 DEF Running, Silent, Whole
    <3>3. \A e \in Cards : "write" \in {boot'[e].cmd.op, boot'[e].busy.op} => load'.pc = "save" /\ e = load'.card
      BY <1>1, <2>2, <2>3
    <3> QED BY <3>2, <3>3 DEF Running
  <2> QED BY <2>1, <2>4
<1> USE DEF d0, LoadAt, LoadGoes
<1>6. CASE NextFile
  <2>1. load.pc = "file" /\ buf' = buf /\ Fresh(c)
    BY <1>4, <1>6 DEF NextFile
  <2>2. CASE load.file \in Files
    <3>1. boot' = boot /\ (load' = [load EXCEPT !.pc = "dump"] \/ load' = [load EXCEPT !.pc = "copy", !.chunk = 1])
      BY <1>6, <2>2 DEF NextFile
    <3>2. Fresh(c)'
      BY <1>1, <2>1, <3>1 DEF Fresh, Silent
    <3>3. CASE load' = [load EXCEPT !.pc = "dump"]
      <4>1. load'.pc = "dump" /\ load'.file = load.file /\ load'.chunk = load.chunk
        BY <1>2, <3>3 DEF LoadRecords
      <4> QED BY <1>3, <1>5, <2>1, <2>2, <3>1, <3>2, <4>1 DEF LoadPcs
    <3>4. CASE load' = [load EXCEPT !.pc = "copy", !.chunk = 1]
      <4>1. load'.pc = "copy" /\ load'.file = load.file /\ load'.chunk = 1
        BY <1>2, <3>4 DEF LoadRecords
      <4>2. Prefix(load.file, 1)
        BY <1>2, <1>3, <2>1, ImagePairs DEF LoadPcs
      <4> QED BY <1>3, <1>5, <2>1, <2>2, <3>1, <3>2, <4>1, <4>2 DEF LoadPcs
    <3> QED BY <3>1, <3>3, <3>4
  <2>3. CASE load.file \notin Files
    <3>1. boot' = [boot EXCEPT ![c].started = b.on] /\ load' = [load EXCEPT !.pc = "free"]
      BY <1>6, <2>3 DEF NextFile
    <3>2. load.file = Len(Chunks) + 1
      BY <1>2, <1>3, <2>1, <2>3 DEF Files, LoadPcs
    <3>3. \A p \in Image : b.mem[p] = p
      BY <1>2, <1>3, <2>1, <3>2, ImagePairs DEF Files, LoadPcs
    <3>4. boot'[c].cmd = b.cmd /\ boot'[c].busy = b.busy /\ boot'[c].mem = b.mem
      BY <1>1, <3>1 DEF BootRecords
    <3>5. boot'[c].cmd = NoCmd /\ boot'[c].busy = NoCmd /\ \A p \in Image : boot'[c].mem[p] = p
      BY <2>1, <3>3, <3>4 DEF Fresh, Silent
    <3>6. load'.pc = "free" BY <1>2, <3>1 DEF LoadRecords
    <3>7. LoadRight' BY <3>6 DEF LoadRight, LoadPcs
    <3>8. \A e \in Cards : "write" \notin {boot'[e].cmd.op, boot'[e].busy.op}
      BY <1>1, <2>1, <3>4 DEF Running
    <3>9. \A e \in Cards : boot'[e].started => Silent(e)' /\ Whole(e)'
      BY <1>1, <3>5 DEF Running, Silent, Whole
    <3> QED BY <3>7, <3>8, <3>9 DEF Running
  <2> QED BY <2>2, <2>3
<1>7. CASE Copies
  <2>1. load.pc = "copy" /\ boot' = boot /\ Fresh(c) /\ load.file \in Files /\ load.chunk >= 1
    BY <1>3, <1>4, <1>7 DEF Copies, LoadRight, LoadPcs
  <2>2. Fresh(c)'
    BY <1>1, <2>1 DEF Fresh, Silent
  <2>3. CASE load.chunk <= Chunks[load.file]
    <3>1. buf' = At /\ load' = [load EXCEPT !.pc = "send"]
      BY <1>7, <2>3 DEF Copies, At
    <3>2. load'.pc = "send" /\ load'.file = load.file /\ load'.chunk = load.chunk
      BY <1>2, <3>1 DEF LoadRecords
    <3> QED BY <1>3, <1>5, <2>1, <2>2, <2>3, <3>1, <3>2 DEF LoadPcs, At
  <2>4. CASE ~(load.chunk <= Chunks[load.file])
    <3> DEFINE f1 == load.file + 1
               zero == 0
    <3>1. load' = [load EXCEPT !.pc = "file", !.file = f1, !.chunk = zero]
      BY <1>7, <2>4 DEF Copies
    <3>2. f1 \in Nat /\ zero \in Nat BY <1>2
    <3> HIDE DEF f1, zero
    <3>3. load'.pc = "file" /\ load'.file = f1 /\ load'.chunk = zero
      BY <1>2, <3>1, <3>2 DEF LoadRecords
    <3>4. Prefix(f1, zero)
      BY <1>2, <1>3, <2>1, <2>4, ImagePairs DEF LoadPcs, f1, zero
    <3>5. f1 >= 1 /\ f1 <= Len(Chunks) + 1
      BY <1>2, <2>1 DEF f1, Files
    <3> QED BY <1>3, <1>5, <2>1, <2>2, <3>3, <3>4, <3>5 DEF LoadPcs
  <2> QED BY <2>3, <2>4
<1>8. CASE Sends
  <2>1. load.pc = "send" /\ Fresh(c) /\ load.file \in Files /\ load.chunk >= 1 /\ buf' = buf
        /\ load.chunk <= Chunks[load.file] /\ buf = At
    BY <1>3, <1>4, <1>8 DEF Sends, LoadRight, LoadPcs
  <2>2. boot' = [boot EXCEPT ![c].cmd = [op |-> "read", at |-> At]] /\ load' = [load EXCEPT !.pc = "wait"]
    BY <1>8 DEF Sends, Command, At
  <2>3. load'.pc = "wait" /\ load'.file = load.file /\ load'.chunk = load.chunk
    BY <1>2, <2>2 DEF LoadRecords
  <2>4. /\ boot'[c].cmd = [op |-> "read", at |-> At] /\ boot'[c].busy = NoCmd /\ boot'[c].status = "none"
        /\ boot'[c].mem = b.mem /\ boot'[c].started = b.started
    BY <1>1, <2>1, <2>2 DEF BootRecords, Fresh, Silent
  <2>5. At' = At
    BY <2>3 DEF At
  <2>6. Flight(b, "read")'
    BY <1>1, <2>4, <2>5 DEF Flight
  <2>7. "write" \notin {boot'[c].cmd.op, boot'[c].busy.op}
    BY <2>4 DEF NoCmd
  <2>8. buf' = At'
    BY <2>1, <2>5
  <2> QED BY <1>3, <1>5, <2>1, <2>3, <2>4, <2>6, <2>7, <2>8 DEF LoadPcs
<1>9. CASE ChunkDone
  <2>1. load.pc = "wait" /\ load.file \in Files /\ load.chunk >= 1 /\ load.chunk <= Chunks[load.file]
        /\ Flight(b, "read") /\ b.status = "read" /\ boot' = [boot EXCEPT ![c].status = "none"]
    BY <1>3, <1>9 DEF ChunkDone, Succeeds, LoadRight, LoadPcs
  <2>2. b.cmd = NoCmd /\ b.busy = NoCmd /\ b.mem[At] = At
    BY <2>1 DEF Flight
  <2>3. /\ boot'[c].status = "none" /\ boot'[c].cmd = NoCmd /\ boot'[c].busy = NoCmd
        /\ boot'[c].mem = b.mem /\ boot'[c].started = b.started
    BY <1>1, <2>1, <2>2, ClearsStatus
  <2>4. Fresh(c)'
    BY <1>1, <1>3, <2>1, <2>3 DEF Fresh, Silent, LoadPcs
  <2> DEFINE c1 == load.chunk + 1
  <2>5. load' = [load EXCEPT !.pc = "copy", !.chunk = c1] /\ c1 \in Nat
    BY <1>2, <1>9 DEF ChunkDone
  <2> HIDE DEF c1
  <2>6. load'.pc = "copy" /\ load'.file = load.file /\ load'.chunk = c1
    BY <1>2, <2>5 DEF LoadRecords
  <2>7. Prefix(load.file, c1)
    <3>1. ASSUME NEW p \in Image, p[1] < load.file \/ (p[1] = load.file /\ p[2] < c1)
          PROVE  b.mem[p] = p
      <4>1. CASE p[1] < load.file \/ (p[1] = load.file /\ p[2] < load.chunk)
        BY <4>1, <1>3, <2>1 DEF LoadPcs
      <4>2. CASE p[1] = load.file /\ p[2] = load.chunk
        BY <4>2, <2>2, ImagePairs DEF At
      <4> QED BY <3>1, <4>1, <4>2, <1>2, ImagePairs DEF c1
    <3> QED BY <3>1
  <2>8. c1 >= 1 BY <1>2 DEF c1
  <2> QED BY <1>3, <1>5, <2>1, <2>3, <2>4, <2>6, <2>7, <2>8 DEF LoadPcs
<1>10. CASE ChunkFails \/ LoadEnds
  <2>1. /\ load'.pc \in {"free", "done"} /\ load.pc \in {"wait", "free"}
        /\ boot' = boot \/ boot' = [boot EXCEPT ![c].status = "none"]
    BY <1>2, <1>10 DEF ChunkFails, LoadEnds, NoSuccess, Answered, LoadRecords
  <2>2. LoadRight'
    BY <2>1 DEF LoadRight, LoadPcs
  <2>3. \A e \in Cards : /\ boot'[e].cmd = boot[e].cmd /\ boot'[e].busy = boot[e].busy
                         /\ boot'[e].started = boot[e].started /\ boot'[e].mem = boot[e].mem
    BY <1>1, <2>1, ClearsStatus
  <2>4. Running'
    <3>1. \A e \in Cards : boot'[e].started => Silent(e)' /\ Whole(e)'
      BY <2>3 DEF Running, Silent, Whole
    <3>2. \A e \in Cards : "write" \notin {boot'[e].cmd.op, boot'[e].busy.op}
      BY <2>1, <2>3 DEF Running
    <3> QED BY <3>1, <3>2 DEF Running
  <2> QED BY <2>2, <2>4
\* A dump that ends goes on with the file, from its first chunk.
<1>11. ASSUME load.pc \in {"dump", "ask", "save"}, load'.pc = "copy", load'.file = load.file, load'.chunk = 1,
              Fresh(c)', boot'[c].mem = b.mem, boot'[c].started = b.started
       PROVE  LoadRight' /\ Running'
  <2>1. Prefix(load.file, 1) /\ ~b.started /\ load.file \in Files /\ load.file >= 1
    BY <1>2, <1>3, <1>11, ImagePairs DEF LoadPcs
  <2> QED BY <1>5, <1>11, <2>1 DEF LoadPcs
<1>12. CASE DumpBegins
  <2>1. load.pc = "dump" /\ Fresh(c) /\ load.file \in Files /\ boot' = [boot EXCEPT ![c].crashed = FALSE]
    BY <1>3, <1>4, <1>12 DEF DumpBegins, LoadPcs
  <2>2. /\ boot'[c].cmd = b.cmd /\ boot'[c].busy = b.busy /\ boot'[c].status = b.status
        /\ boot'[c].mem = b.mem /\ boot'[c].started = b.started
    BY <1>1, <2>1 DEF BootRecords
  <2>3. Fresh(c)'
    BY <1>1, <2>1, <2>2 DEF Fresh, Silent
  <2>4. CASE load' = [load EXCEPT !.pc = "copy", !.chunk = 1]
    <3>1. load'.pc = "copy" /\ load'.file = load.file /\ load'.chunk = 1
      BY <1>2, <2>4 DEF LoadRecords
    <3> QED BY <1>11, <2>1, <2>2, <2>3, <3>1
  <2>5. ASSUME NEW n \in Nat, load' = [load EXCEPT !.pc = "ask", !.left = n]
        PROVE  LoadRight' /\ Running'
    <3>1. load'.pc = "ask" /\ load'.file = load.file /\ load'.chunk = load.chunk
      BY <1>2, <2>5 DEF LoadRecords
    <3> QED BY <1>3, <1>5, <2>1, <2>2, <2>3, <3>1 DEF LoadPcs
  <2> QED BY <1>12, <2>4, <2>5, FirmwareAssumption DEF DumpBegins, DumpSize
<1>13. CASE Asks
  <2>1. load.pc = "ask" /\ Fresh(c) /\ load.file \in Files
    BY <1>3, <1>4, <1>13 DEF Asks, LoadPcs
  <2>2. CASE load.left = 0
    <3>1. load' = [load EXCEPT !.pc = "copy", !.chunk = 1] /\ boot' = boot
      BY <1>13, <2>2 DEF Asks
    <3>2. load'.pc = "copy" /\ load'.file = load.file /\ load'.chunk = 1
      BY <1>2, <3>1 DEF LoadRecords
    <3>3. Fresh(c)'
      BY <1>1, <2>1, <3>1 DEF Fresh, Silent
    <3> QED BY <1>11, <2>1, <3>1, <3>2, <3>3
  <2>3. CASE load.left # 0
    <3>1. boot' = [boot EXCEPT ![c].cmd = [op |-> "write", at |-> At]] /\ load' = [load EXCEPT !.pc = "save"]
      BY <1>13, <2>3 DEF Asks, Command, At
    <3>2. load'.pc = "save" /\ load'.file = load.file /\ load'.chunk = load.chunk
      BY <1>2, <3>1 DEF LoadRecords
    <3>3. /\ boot'[c].cmd = [op |-> "write", at |-> At] /\ boot'[c].busy = NoCmd /\ boot'[c].status = "none"
          /\ boot'[c].mem = b.mem /\ boot'[c].started = b.started
      BY <1>1, <2>1, <3>1 DEF BootRecords, Fresh, Silent
    <3>4. At' = At
      BY <3>2 DEF At
    <3>5. Flight(b, "write")'
      BY <1>1, <3>3, <3>4 DEF Flight
    <3> QED BY <1>3, <1>5, <2>1, <3>2, <3>3, <3>5 DEF LoadPcs
  <2> QED BY <2>2, <2>3
<1>14. CASE Saved \/ DumpFails
  <2>1. load.pc = "save" /\ load.file \in Files /\ Flight(b, "write")
    BY <1>3, <1>14 DEF Saved, DumpFails, LoadRight, LoadPcs
  <2>2. b.cmd = NoCmd /\ b.busy = NoCmd /\ boot' = [boot EXCEPT ![c].status = "none"]
    <3>1. CASE Saved
      <4>1. b.status = "write" /\ boot' = [boot EXCEPT ![c].status = "none"]
        BY <3>1 DEF Saved, Succeeds
      <4> QED BY <2>1, <4>1 DEF Flight
    <3>2. CASE DumpFails
      <4>1. /\ "write" \notin {b.cmd.op, b.busy.op}
            /\ \/ b.status \in {"read", "fail"} /\ boot' = [boot EXCEPT ![c].status = "none"]
               \/ b.status = "none"
        BY <3>2 DEF DumpFails, NoSuccess, Answered
      <4>2. b.cmd = NoCmd /\ b.busy = NoCmd /\ b.status # "none"
        BY <2>1, <4>1 DEF Flight
      <4> QED BY <4>1, <4>2
    <3> QED BY <1>14, <3>1, <3>2
  <2>3. /\ boot'[c].status = "none" /\ boot'[c].cmd = NoCmd /\ boot'[c].busy = NoCmd
        /\ boot'[c].mem = b.mem /\ boot'[c].started = b.started
    BY <1>1, <2>2, ClearsStatus
  <2>4. Fresh(c)'
    BY <1>1, <1>3, <2>1, <2>3 DEF Fresh, Silent, LoadPcs
  <2>5. \/ load'.pc = "ask" /\ load'.file = load.file /\ load'.chunk = load.chunk
        \/ load'.pc = "copy" /\ load'.file = load.file /\ load'.chunk = 1
    <3>1. \/ load' = [load EXCEPT !.pc = "ask", !.left = @ - 1]
          \/ load' = [load EXCEPT !.pc = "copy", !.chunk = 1, !.left = 0]
      BY <1>14 DEF Saved, DumpFails
    <3> QED BY <1>2, <3>1 DEF LoadRecords
  <2>6. CASE load'.pc = "ask" /\ load'.file = load.file /\ load'.chunk = load.chunk
    BY <1>3, <1>5, <2>1, <2>3, <2>4, <2>6 DEF LoadPcs
  <2>7. CASE load'.pc = "copy" /\ load'.file = load.file /\ load'.chunk = 1
    BY <1>11, <2>1, <2>3, <2>4, <2>7
  <2> QED BY <2>5, <2>6, <2>7
<1> QED
  BY <1>1, <1>6, <1>7, <1>8, <1>9, <1>10, <1>12, <1>13, <1>14 DEF Loading

\* The driver begins a load, of a card that is fresh, or is done with one.
LEMMA LoadRightHost ==
  ASSUME DriverType, MapInv, BeforeInit, SteadyRight, LoadRight, Running, Calm, Host, bad' = "no"
  PROVE  LoadRight' /\ Running'
<1> USE DEF DriverType, HostType
<1>1. UNCHANGED boot /\ load'.pc \in {"none", "done"} => LoadRight' /\ Running'
  <2>1. load'.pc \in {"none", "done"} => LoadRight'
    BY DEF LoadRight, LoadPcs
  <2>2. UNCHANGED boot /\ load.pc # "save" => Running'
    BY DEF Running, Silent, Whole
  <2>3. load.pc # "save"
    <3>1. load.pc = "save" => host.pc = "loading" BY DEF Calls
    <3>2. host.pc = "loading" => load.pc = "done"
      BY
        DEF Host, InitBegins, InitEnds, InitLoaded, InitFails, Allocates, InitLoads, OpensPorts,
            Shakes, Syncs,
         Spawns, Call, ExitStops, Skips, Walks, WalkFails, Resets, BootLoads, BootLoaded, BootChecks, BootSyncs,
         BootWakes, ExitBegins, ExitStopped, ExitEnds, Ends, Entry, AtHost, LoadAt
    <3> QED BY <3>1, <3>2
  <2> QED BY <2>1, <2>2, <2>3
<1>2. ASSUME NEW d \in Cards, LoadBegins(d), UNCHANGED boot, Fresh(d)
      PROVE  LoadRight' /\ Running'
  <2>1. /\ load'.card = d /\ load.pc = "none"
        /\ \/ load'.pc = "file" /\ load'.file = 1 /\ load'.chunk = 0
           \/ load'.pc = "done"
    BY <1>2, LoadStarts DEF LoadBegins, LoadAt
  <2>2. CASE load'.pc = "file" /\ load'.file = 1 /\ load'.chunk = 0
    <3>1. Len(Chunks) \in Nat BY FirmwareAssumption
    <3>2. \A p \in Image : ~(p[1] < 1) /\ ~(p[1] = 1 /\ p[2] < 0)
      BY ImagePairs DEF Files
    <3>3. boot'[load'.card] = boot[d] /\ Fresh(load.card)'
      BY <1>2, <2>1 DEF Fresh, Silent
    <3>4. LoadRight'
      BY <1>2, <2>2, <3>1, <3>2, <3>3 DEF LoadRight, LoadPcs, Fresh
    <3>5. Running'
      BY <1>2, <2>1 DEF Running, Silent, Whole
    <3> QED BY <3>4, <3>5
  <2> QED BY <1>1, <1>2, <2>1, <2>2
<1>3. ASSUME NEW d \in Cards, InitLoads(d)
      PROVE  LoadRight' /\ Running'
  <2>1. AtHost("fw") /\ host.i < number /\ map[host.i] = d /\ LoadBegins(d) /\ UNCHANGED boot
    BY <1>3 DEF InitLoads, Entry
  <2>2. Loaded BY <2>1 DEF AtHost, Loaded
  <2>3. Right BY <2>2 DEF SteadyRight, Steady
  <2>4. host.i \in 0..(number - 1)
    BY <2>1, <2>3, KeptMap DEF Right, HostRecords
  <2>5. Fresh(d)
    BY <2>1, <2>3, <2>4 DEF Right, LoadsOnce, HostRecords
  <2> QED BY <1>2, <2>1, <2>5
<1>4. CASE BootLoads
  <2>1. AtHost("load") /\ LoadBegins(d1) /\ UNCHANGED boot
    BY <1>4 DEF BootLoads, Breaks
  <2>2. Loaded BY <2>1 DEF AtHost, Loaded
  <2>3. d1 \in Cards /\ Fresh(d1)
    BY <2>1, <2>2 DEF SteadyRight, Steady, Right, CardOfCall, AtHost, Calls, BootPcs, d1
  <2> QED BY <1>2, <2>1, <2>3
<1>5. CASE InitLoaded \/ BootLoaded
  <2>1. UNCHANGED boot /\ load' = NoLoad
    BY <1>5 DEF InitLoaded, BootLoaded
  <2> QED BY <1>1, <2>1 DEF NoLoad
<1>6. CASE Resets
  <2>1. /\ host.pc = "reset" /\ host.card \in Cards /\ load' = load
        /\ \E o \in BOOLEAN, crashed \in BOOLEAN :
             boot' = [boot EXCEPT ![host.card] = [Reset EXCEPT !.on = o, !.crashed = crashed]]
    <3>1. host.pc = "reset" /\ host.card \in Cards /\ load' = load
      BY <1>6 DEF Resets, Breaks, AtHost, Calls
    <3>2. PICK crashed \in {FALSE, host.op = "boot"} :
            boot' = [boot EXCEPT ![d1] = [Reset EXCEPT !.on = boot[d1].on /\ Restorable(d1), !.crashed = crashed]]
      BY <1>6 DEF Resets, Breaks
    <3>3. (boot[d1].on /\ Restorable(d1)) \in BOOLEAN /\ crashed \in BOOLEAN
      OBVIOUS
    <3> QED BY <3>1, <3>2, <3>3 DEF d1
  <2>2. load.pc = "none"
    BY <2>1 DEF Calls
  <2>3. LoadRight'
    BY <2>1, <2>2 DEF LoadRight, LoadPcs
  <2>4. PICK o \in BOOLEAN, crashed \in BOOLEAN :
          boot' = [boot EXCEPT ![host.card] = [Reset EXCEPT !.on = o, !.crashed = crashed]]
    BY <2>1
  <2>5. /\ boot'[host.card] = [Reset EXCEPT !.on = o, !.crashed = crashed]
        /\ \A e \in Cards : e # host.card => boot'[e] = boot[e]
    BY <2>1, <2>4 DEF CardsType
  <2>6. ~boot'[host.card].started /\ boot'[host.card].cmd = NoCmd /\ boot'[host.card].busy = NoCmd
    BY <2>5 DEF Reset
  <2>7. \A e \in Cards : boot'[e].started => Silent(e)' /\ Whole(e)'
    <3>1. \A e \in Cards : boot'[e].started => boot'[e] = boot[e]
      BY <2>5, <2>6
    <3> QED BY <3>1 DEF Running, Silent, Whole
  <2>8. \A e \in Cards : "write" \notin {boot'[e].cmd.op, boot'[e].busy.op}
    <3>1. ASSUME NEW e \in Cards PROVE "write" \notin {boot'[e].cmd.op, boot'[e].busy.op}
      <4>1. CASE e = host.card BY <4>1, <2>6 DEF NoCmd
      <4>2. CASE e # host.card
        <5>1. boot'[e] = boot[e] BY <4>2, <2>5
        <5> QED BY <5>1, <2>2 DEF Running
      <4> QED BY <4>1, <4>2
    <3> QED BY <3>1
  <2> QED BY <2>3, <2>7, <2>8 DEF Running
<1>7. CASE ~(InitLoaded \/ BootLoaded \/ BootLoads \/ Resets \/ \E d \in Cards : InitLoads(d))
  <2>1. UNCHANGED fwVars
    <3>1. CASE InitBegins \/ InitEnds \/ InitFails \/ Allocates \/ ExitEnds \/ ExitBegins \/ ExitStopped
      BY <3>1
        DEF InitBegins, InitEnds, InitFails, Allocates, ExitEnds, Ends, ExitBegins, ExitStopped
    <3>2. ASSUME NEW d \in Cards,
                 \/ OpensPorts(d) \/ Shakes(d) \/ Syncs(d) \/ Spawns(d) \/ Call(d) \/ ExitStops(d)
                 \/ \E pc \in {"ports", "shake", "time", "spawn"} : Skips(pc, d)
          PROVE  UNCHANGED fwVars
      BY <3>2 DEF OpensPorts, Shakes, Syncs, Spawns, Call, ExitStops, Skips, Breaks
    <3>3. CASE Walks \/ WalkFails \/ BootChecks \/ BootSyncs \/ BootWakes
      BY <3>3 DEF Walks, WalkFails, NotThere, BootChecks, BootSyncs, BootWakes, Breaks
    <3> QED BY <1>7, <3>1, <3>2, <3>3 DEF Host
  <2> QED BY <2>1 DEF fwVars, LoadRight, Running, Silent, Fresh, Whole, Flight, At
<1> QED
  BY <1>3, <1>4, <1>5, <1>6, <1>7

\* Cards come and go meanwhile.
LEMMA LoadRightOutside ==
  ASSUME DriverType, MapInv, SteadyRight, LoadRight, Running, Calm, Calm', Outside
  PROVE  LoadRight' /\ Running'
<1>1. load' = load /\ buf' = buf
  BY OutsideChanges
<1>2. load.pc \in LoadPcs => load.card \in Cards /\ Loaded /\ bound[load.card] = "bound"
  BY DEF LoadPcs, DriverType, Calls, Loaded, SteadyRight, Steady, Right, CardOfCall
<1>3. ASSUME NEW d \in Cards,
             \/ /\ boot'[d].cmd = boot[d].cmd /\ boot'[d].busy = boot[d].busy /\ boot'[d].moved = boot[d].moved
                /\ boot'[d].status = boot[d].status /\ boot'[d].mem = boot[d].mem
                /\ boot'[d].started = boot[d].started
             \/ /\ ~boot'[d].started /\ boot'[d].cmd = NoCmd /\ boot'[d].busy = NoCmd
                /\ ~(load.pc \in LoadPcs /\ load.card = d),
             \A e \in Cards \ {d} : boot'[e] = boot[e]
      PROVE  LoadRight' /\ Running'
  <2>1. LoadRight'
    <3>1. CASE load.pc \in LoadPcs
      <4>1. /\ boot'[load.card].cmd = boot[load.card].cmd /\ boot'[load.card].busy = boot[load.card].busy
            /\ boot'[load.card].moved = boot[load.card].moved
            /\ boot'[load.card].status = boot[load.card].status /\ boot'[load.card].mem = boot[load.card].mem
            /\ boot'[load.card].started = boot[load.card].started
        BY <1>2, <1>3, <3>1
      <4> QED BY <4>1, <1>1 DEF LoadRight, Fresh, Silent, Flight, At
    <3>2. CASE load.pc \notin LoadPcs
      BY <3>2, <1>1 DEF LoadRight, LoadPcs
    <3> QED BY <3>1, <3>2
  <2>2. Running'
    <3>1. \A e \in Cards : boot'[e].started => Silent(e)' /\ Whole(e)'
      BY <1>3 DEF Running, Silent, Whole
    <3>2. \A e \in Cards : "write" \in {boot'[e].cmd.op, boot'[e].busy.op} => load.pc = "save" /\ e = load.card
      BY <1>3 DEF Running, NoCmd
    <3> QED BY <1>1, <3>1, <3>2 DEF Running
  <2> QED BY <2>1, <2>2
<1>4. CASE RemoveGoesOn
  BY <1>4 DEF RemoveGoesOn, fwVars, LoadRight, Running, Silent, Fresh, Whole, Flight, At
<1>5. ASSUME NEW d \in Cards, Probe(d)
      PROVE  LoadRight' /\ Running'
  <2>1. boot' = [boot EXCEPT ![d].on = TRUE]
    BY <1>5 DEF Probe
  <2>2. /\ boot'[d].cmd = boot[d].cmd /\ boot'[d].busy = boot[d].busy /\ boot'[d].moved = boot[d].moved
        /\ boot'[d].status = boot[d].status /\ boot'[d].mem = boot[d].mem
        /\ boot'[d].started = boot[d].started
        /\ \A e \in Cards \ {d} : boot'[e] = boot[e]
    BY <2>1 DEF DriverType, CardsType, BootRecords
  <2> QED BY <1>3, <2>2
<1>6. ASSUME NEW d \in Cards, Remove(d)
      PROVE  LoadRight' /\ Running'
  <2>1. /\ boot' \in {boot, [boot EXCEPT ![d] = [Reset EXCEPT !.on = FALSE]]}
        /\ ~(Loaded /\ bound[d] = "bound")
    BY <1>6 DEF Remove, Calm
  <2>2. CASE boot' = boot
    BY <1>3, <2>2
  <2>3. CASE boot' = [boot EXCEPT ![d] = [Reset EXCEPT !.on = FALSE]]
    <3>1. /\ ~boot'[d].started /\ boot'[d].cmd = NoCmd /\ boot'[d].busy = NoCmd
          /\ \A e \in Cards \ {d} : boot'[e] = boot[e]
      BY <2>3 DEF DriverType, CardsType, Reset
    <3> QED BY <1>2, <1>3, <2>1, <3>1
  <2> QED BY <2>1, <2>2, <2>3
<1> QED
  BY <1>4, <1>5, <1>6 DEF Outside

LEMMA LoadInvStep ==
  ASSUME DriverType, MapInv, BeforeInit, SteadyRight, LoadInv, Next, bad' = "no"
  PROVE  LoadInv'
<1> SUFFICES ASSUME Calm', ~lateDump' PROVE LoadRight' /\ Running'
  BY DEF LoadInv
<1>1. Calm
  BY CauseGrows DEF Calm
<1>2. CASE Host
  <2>1. ~lateDump BY <1>2, HostChanges
  <2> QED BY <1>1, <1>2, <2>1, LoadRightHost DEF LoadInv
<1>3. CASE Outside
  <2>1. ~lateDump BY <1>3, OutsideChanges
  <2> QED BY <1>1, <1>3, <2>1, LoadRightOutside DEF LoadInv
<1>4. ASSUME NEW d \in Cards, CardStep(d)
      PROVE  LoadRight' /\ Running'
  <2>1. ~lateDump BY <1>4, CardChanges DEF DriverType
  <2> QED BY <1>1, <1>4, <2>1, LoadRightCard DEF LoadInv
<1>5. ASSUME NEW d \in Cards, Thread(d)
      PROVE  LoadRight' /\ Running'
  <2>1. UNCHANGED fwVars
    BY <1>5, ThreadChanges DEF DriverType
  <2> QED BY <1>1, <2>1 DEF LoadInv, fwVars, LoadRight, Running, Silent, Fresh, Whole, Flight, At
<1>6. CASE LoadStep
  <2>1. host.pc = "loading" /\ Loading
    BY <1>6, LoadChanges
  <2>2. ~lateDump
    BY <2>1 DEF Loading, NextFile, Copies, Sends, ChunkDone, ChunkFails, LoadEnds, DumpBegins,
       Asks, Saved, DumpFails, NoSuccess
  <2>3. Right
    BY <1>1, <2>1 DEF SteadyRight, Steady, Loaded
  <2>4. load.card \in Cards /\ boot[load.card].on
    BY <2>1, <2>3 DEF Right, Kept, CardOfCall, DriverType, Calls
  <2> QED BY <1>1, <1>6, <2>2, <2>4, LoadRightStep DEF LoadInv
<1> QED
  BY <1>2, <1>3, <1>4, <1>5, <1>6, NextCases

-----------------------------------------------------------------------------
(* The invariant *)

LEMMA DriverInvInit == Init => DriverInv
<1> SUFFICES ASSUME Init PROVE DriverInv
  OBVIOUS
<1>1. DriverType
  BY DriverTypeInit
<1>2. AtHost("out")
  BY DEF Init, AtHost, Idle
<1>3. BeforeInit
  BY DEF Init, BeforeInit, FwInit, Reset, Fresh, Silent, MapInit, Idle
<1>4. SteadyRight /\ AfterExit /\ AllSpawned
  BY <1>2 DEF SteadyRight, AfterExit, AllSpawned, Smooth, Steady, Loaded, AtHost
<1>5. LoadInv
  BY DEF Init, FwInit, LoadInv, LoadRight, Running, LoadPcs, NoLoad, Reset, NoCmd
<1>6. ManyKnown
  BY DriverAssumption DEF Init, MapInit, ManyKnown
<1> QED
  BY <1>1, <1>3, <1>4, <1>5, <1>6 DEF DriverInv

LEMMA DriverInvStep == MapInv /\ DriverInv /\ [Next]_vars => DriverInv'
<1> SUFFICES ASSUME MapInv, DriverInv, [Next]_vars PROVE DriverInv'
  OBVIOUS
<1>1. CASE /\ UNCHANGED <<mapVars, fwVars, host, drvVars, dangling, used>>
           /\ \A why : why # "nomem" => (why \in cause' <=> why \in cause)
  BY <1>1
    DEF DriverInv, mapVars, fwVars, drvVars, DriverType, CardsType, HostType, Calls, BeforeInit,
        SteadyRight,
     Right, Kept, InPlace, CardOfCall, LoadsOnce, ExitSoFar, Through, AfterExit, AllSpawned, Smooth, Steady, Calm,
     Loaded, AtHost, LoadInv, LoadRight, Running, Silent, Fresh, Whole, Flight, At, c0,
     ManyKnown
<1>2. CASE Next /\ bad' # "no"
  BY <1>1, <1>2, BreaksForCause DEF DriverInv
<1>3. CASE Next /\ bad' = "no"
  <2>1. MapType BY DEF MapInv
  <2>2. DriverType' BY <1>3, <2>1, DriverTypeStep DEF DriverInv
  <2>3. BeforeInit' /\ SteadyRight' /\ AfterExit' /\ AllSpawned' /\ LoadInv' /\ ManyKnown'
    BY <1>3, <2>1, BeforeInitStep, SteadyStep, AfterExitStep, AllSpawnedStep, LoadInvStep, ManyKnownStep
      DEF DriverInv
  <2> QED BY <2>2, <2>3 DEF DriverInv
<1>4. CASE UNCHANGED vars
  BY <1>1, <1>4 DEF vars
<1> QED
  BY <1>2, <1>3, <1>4

LEMMA BadForCauseStep ==
  MapInv /\ DriverInv /\ BadForCause /\ [Next]_vars => BadForCause'
<1> SUFFICES ASSUME MapInv, DriverInv, BadForCause, [Next]_vars, bad' # "no"
             PROVE  cause' \cap Causes[bad'] # {}
  BY DEF BadForCause, Causes
<1>1. CASE Next
  BY <1>1, BreaksForCause DEF DriverInv
<1>2. CASE UNCHANGED vars
  BY <1>2 DEF vars, BadForCause
<1> QED
  BY <1>1, <1>2

\* For any number of cards and entries of heartbeat[]: what is not there is
\* used only for a cause (a NULL entry or freed memory, a wait queue nobody
\* initialised, a thread that outlives the module or ended before it, an entry
\* of heartbeat[] past its end, a ring for which there was no memory).
THEOREM BadOnlyForCause == Spec => []BadForCause
<1>1. Init => MapInv /\ DriverInv /\ BadForCause
  BY MapInitInv, DriverInvInit DEF Init, BadForCause
<1>2. MapInv /\ [Next]_vars => MapInv'
  <2>1. [Next]_vars => [MapNext]_mapVars
    BY NextIsMap DEF vars
  <2> QED BY <2>1, MapStepInv
<1> QED
  BY <1>1, <1>2, DriverInvStep, BadForCauseStep, PTL DEF Spec

\* A module that is gone leaves no card running that could send to the ports
\* it left open, whatever cards were there, late or dead
\* (axcl_pcie_host_exit).
THEOREM ExitIsQuiet == Spec => []QuietAfterExit
<1>1. Init => MapInv /\ DriverInv
  BY MapInitInv, DriverInvInit DEF Init
<1>2. MapInv /\ [Next]_vars => MapInv'
  <2>1. [Next]_vars => [MapNext]_mapVars
    BY NextIsMap DEF vars
  <2> QED BY <2>1, MapStepInv
<1>3. DriverInv => QuietAfterExit
  BY DEF DriverInv, AfterExit, Calm, QuietAfterExit
<1> QED
  BY <1>1, <1>2, <1>3, DriverInvStep, PTL DEF Spec

\* For an image of any files and chunks, a dump of any size and any answers
\* of the card, late ones too: a card is started only with the whole image
\* in its memory, but for the two exceptions (axcl_firmware_load,
\* axcl_device_sysdump).
THEOREM StartsWhole == Spec => []StartedWhole
<1>1. Init => MapInv /\ DriverInv
  BY MapInitInv, DriverInvInit DEF Init
<1>2. MapInv /\ [Next]_vars => MapInv'
  <2>1. [Next]_vars => [MapNext]_mapVars
    BY NextIsMap DEF vars
  <2> QED BY <2>1, MapStepInv
<1>3. DriverInv => StartedWhole
  BY DEF DriverInv, LoadInv, Calm, Running, Whole, StartedWhole
<1> QED
  BY <1>1, <1>2, <1>3, DriverInvStep, PTL DEF Spec
=============================================================================
