------------------------------ MODULE MsgProofs ------------------------------
(***************************************************************************)
(* Theorems about the two ends of the message path: MsgDoorbell, for any   *)
(* number of threads, limit, slots, retries and restarts, and MsgUserDev,  *)
(* for any files, ports, messages and connects.                            *)
(*                                                                         *)
(* That the counts of the doorbell add up is inductive once it is known    *)
(* that only the holder of the lock rings (LockInv).  That nobody is       *)
(* stranded needs in addition who will come for an unread message          *)
(* (Awaited): a sender that rang is not among them, because its doorbell   *)
(* may already be answered.                                                *)
(*                                                                         *)
(* OnceInOrder needs what has not been read yet: Dealt says that a message *)
(* is in one queue or read or still in the ring, and that what left the    *)
(* ring is older than what is in it.  The others need who points to what:  *)
(* Handled holds always, Unshared as long as no two files had one transfer *)
(* handle, and then each file has the transfer handle of its port for      *)
(* itself until its release has closed it.                                 *)
(***************************************************************************)
EXTENDS MsgDoorbell, MsgUserDev, TLAPS

-----------------------------------------------------------------------------
(* The doorbell                                                            *)

\* Who rings holds the lock, and the holder rings.
LockInv == \A t \in Threads : tpc[t] \in {"ring", "count"} <=> lock = t

\* Somebody will make the card look at the ring.
Awaited ==
  unread > 0 =>
    \/ pending > 0
    \/ cpc # "idle"
    \/ \E t \in Threads : tpc[t] \in {"ring", "wait"}
    \/ lost > Limit
    \/ Shared
    \/ failing

DoorInv == DoorbellTypeOK /\ LockInv /\ CountsAddUp /\ MailboxBounded /\ Awaited

LEMMA FailingStep == DoorbellTypeOK /\ [DoorbellNext]_doorbellVars => failing' \in BOOLEAN
<1> SUFFICES ASSUME DoorbellTypeOK, [DoorbellNext]_doorbellVars PROVE failing' \in BOOLEAN
  OBVIOUS
<1>1. failing \in BOOLEAN
  BY DEF DoorbellTypeOK
<1>2. failing' \in {failing, FALSE, TRUE}
  <2>1. CASE Drain \/ DrainFails \/ Restart
    BY <2>1, Zenon DEF Drain, DrainFails, Restart
  <2>2. ASSUME NEW t \in Threads, Host(t) PROVE failing' = failing
    BY <2>2, Zenon DEF Host, StartSend, Enqueue, Full, Ring, Count, Refused, RingAgain, doorCardVars
  <2>3. CASE Handle \/ CountSeen \/ Hang \/ HangUncounted \/ UNCHANGED doorbellVars
    BY <2>3, Zenon DEF Handle, CountSeen, Hang, HangUncounted, doorbellVars, doorCardVars
  <2> QED
    BY <2>1, <2>2, <2>3, Zenon DEF DoorbellNext, Card
<1> QED
  BY <1>1, <1>2, Zenon

LEMMA TypeStep == DoorbellTypeOK /\ [DoorbellNext]_doorbellVars => DoorbellTypeOK'
<1> SUFFICES ASSUME DoorbellTypeOK, [DoorbellNext]_doorbellVars PROVE DoorbellTypeOK'
  OBVIOUS
<1>0. failing' \in BOOLEAN
  BY FailingStep
<1> USE MsgDoorbellAssumption DEF DoorbellTypeOK, threadVars, doorCardVars
<1>1. ASSUME NEW t \in Threads, Host(t) PROVE DoorbellTypeOK'
  <2>1. CASE StartSend(t)
    BY <2>1 DEF StartSend
  <2>2. CASE Enqueue(t)
    BY <2>2 DEF Enqueue
  <2>3. CASE Full(t)
    BY <2>3 DEF Full
  <2>4. CASE Ring(t)
    BY <2>4 DEF Ring
  <2>5. CASE Count(t)
    BY <2>5 DEF Count
  <2>6. CASE Refused(t)
    BY <2>6 DEF Refused
  <2>7. CASE RingAgain(t)
    BY <2>7 DEF RingAgain
  <2> QED
    BY <1>1, <2>1, <2>2, <2>3, <2>4, <2>5, <2>6, <2>7 DEF Host
<1>2. CASE Handle \/ CountSeen
  BY <1>2 DEF Handle, CountSeen
<1>3. CASE Drain
  BY <1>0, <1>3 DEF Drain
<1>4. CASE DrainFails
  BY <1>0, <1>4 DEF DrainFails
<1>5. CASE Hang \/ HangUncounted
  BY <1>5 DEF Hang, HangUncounted
<1>6. CASE Restart
  BY <1>0, <1>6 DEF Restart
<1>7. CASE UNCHANGED doorbellVars
  BY <1>7 DEF doorbellVars
<1> QED
  BY <1>1, <1>2, <1>3, <1>4, <1>5, <1>6, <1>7 DEF DoorbellNext, Card

LEMMA LockStep == DoorbellTypeOK /\ LockInv /\ [DoorbellNext]_doorbellVars => LockInv'
<1> SUFFICES ASSUME DoorbellTypeOK, LockInv, [DoorbellNext]_doorbellVars PROVE LockInv'
  OBVIOUS
<1> USE MsgDoorbellAssumption DEF DoorbellTypeOK, LockInv, threadVars, doorCardVars
<1>1. ASSUME NEW t \in Threads, Host(t) PROVE LockInv'
  <2>1. CASE StartSend(t)
    BY <2>1 DEF StartSend
  <2>2. CASE Enqueue(t)
    BY <2>2 DEF Enqueue
  <2>3. CASE Full(t)
    BY <2>3 DEF Full
  <2>4. CASE Ring(t)
    BY <2>4 DEF Ring
  <2>5. CASE Count(t)
    BY <2>5 DEF Count
  <2>6. CASE Refused(t)
    BY <2>6 DEF Refused
  <2>7. CASE RingAgain(t)
    BY <2>7 DEF RingAgain
  <2> QED
    BY <1>1, <2>1, <2>2, <2>3, <2>4, <2>5, <2>6, <2>7 DEF Host
<1>2. CASE Card \/ Hang \/ HangUncounted \/ Restart \/ UNCHANGED doorbellVars
  <2>1. tpc' = tpc /\ lock' = lock
    BY <1>2 DEF Card, Handle, CountSeen, Drain, DrainFails, Hang, HangUncounted, Restart, doorbellVars
  <2> QED
    BY <2>1
<1> QED
  BY <1>1, <1>2 DEF DoorbellNext

\* Only one thread rings: if the holder of the lock is not counting its
\* doorbell, nobody is.
LEMMA RingingByHolder ==
  ASSUME LockInv, NEW t \in Threads, lock = t
  PROVE  Ringing = IF tpc[t] = "count" THEN 1 ELSE 0
<1>1. CASE tpc[t] = "count"
  BY <1>1 DEF Ringing
<1>2. CASE tpc[t] # "count"
  <2>1. ~\E u \in Threads : tpc[u] = "count"
    BY <1>2, Zenon DEF LockInv
  <2> QED
    BY <1>2, <2>1 DEF Ringing
<1> QED
  BY <1>1, <1>2

\* With the lock free nobody rings.
LEMMA NoRinging ==
  ASSUME LockInv, lock \notin Threads
  PROVE  Ringing = 0
BY DEF LockInv, Ringing

LEMMA CountStep ==
  DoorbellTypeOK /\ LockInv /\ CountsAddUp /\ MailboxBounded /\ [DoorbellNext]_doorbellVars
    => CountsAddUp' /\ MailboxBounded'
<1> SUFFICES ASSUME DoorbellTypeOK, LockInv, CountsAddUp, MailboxBounded, [DoorbellNext]_doorbellVars
             PROVE  CountsAddUp' /\ MailboxBounded'
  OBVIOUS
<1>0. DoorbellTypeOK' /\ LockInv'
  BY TypeStep, LockStep
<1> USE MsgDoorbellAssumption DEF threadVars, doorCardVars
<1>1. ASSUME NEW t \in Threads, Host(t) PROVE CountsAddUp' /\ MailboxBounded'
  <2>1. CASE StartSend(t) \/ Enqueue(t) \/ Full(t) \/ Refused(t) \/ RingAgain(t)
    <3>1. /\ UNCHANGED <<req, clr, pending, cpc, lost>>
          /\ tpc[t] # "count" /\ tpc'[t] # "count"
          /\ \A u \in Threads \ {t} : tpc'[u] = tpc[u]
      BY <2>1 DEF StartSend, Enqueue, Full, Refused, RingAgain, DoorbellTypeOK
    <3>2. (\E u \in Threads : tpc'[u] = "count") <=> (\E u \in Threads : tpc[u] = "count")
      BY <3>1, Zenon
    <3> QED
      BY <3>1, <3>2 DEF CountsAddUp, MailboxBounded, Ringing, Seeing
  <2>2. CASE Ring(t)
    <3>1. lock = t /\ lock' = t /\ tpc[t] # "count" /\ tpc'[t] = "count"
      BY <2>2 DEF Ring, LockInv, DoorbellTypeOK
    <3>2. Ringing = 0 /\ Ringing' = 1
      <4>1. Ringing = 0
        BY <3>1, RingingByHolder
      <4>2. Ringing' = 1
        BY <3>1 DEF Ringing
      <4> QED
        BY <4>1, <4>2
    <3>3. /\ UNCHANGED <<req, clr, cpc, lost>> /\ pending' = pending + 1
          /\ req - clr <= Limit
      BY <2>2 DEF Ring, Granted, DoorbellTypeOK
    <3>4. Seeing' = Seeing /\ Seeing \in {0, 1}
      BY <3>3 DEF Seeing
    <3> QED
      BY <3>2, <3>3, <3>4 DEF CountsAddUp, MailboxBounded, DoorbellTypeOK
  <2>3. CASE Count(t)
    <3>1. lock = t /\ lock' = NoThread /\ tpc[t] = "count"
      BY <2>3 DEF Count, LockInv
    <3>2. Ringing = 1 /\ Ringing' = 0
      <4>1. Ringing = 1
        BY <3>1 DEF Ringing
      <4>2. ~\E u \in Threads : tpc'[u] = "count"
        BY <1>0, <3>1, Zenon DEF LockInv
      <4> QED
        BY <4>1, <4>2 DEF Ringing
    <3>3. UNCHANGED <<clr, pending, cpc, lost>> /\ req' = req + 1
      BY <2>3 DEF Count
    <3>4. Seeing' = Seeing /\ Seeing \in {0, 1}
      BY <3>3 DEF Seeing
    <3> QED
      BY <3>2, <3>3, <3>4 DEF CountsAddUp, MailboxBounded, DoorbellTypeOK
  <2> QED
    BY <1>1, <2>1, <2>2, <2>3 DEF Host
<1>2. CASE Card \/ Hang \/ HangUncounted \/ Restart \/ UNCHANGED doorbellVars
  <2>1. tpc' = tpc /\ req' = req
    BY <1>2 DEF Card, Handle, CountSeen, Drain, DrainFails, Hang, HangUncounted, Restart, doorbellVars
  <2>2. Ringing' = Ringing /\ Ringing \in {0, 1}
    BY <2>1 DEF Ringing
  <2>3. clr' + pending' + Seeing' + lost' = clr + pending + Seeing + lost
    BY <1>2 DEF Card, Handle, CountSeen, Drain, DrainFails, Hang, HangUncounted, Restart, doorbellVars,
                Seeing, DoorbellTypeOK
  <2>4. CountsAddUp'
    BY <2>1, <2>2, <2>3 DEF CountsAddUp
  <2>5. MailboxBounded'
    BY <1>2 DEF Card, Handle, CountSeen, Drain, DrainFails, Hang, HangUncounted, Restart, doorbellVars,
                Seeing, DoorbellTypeOK, MailboxBounded
  <2> QED
    BY <2>4, <2>5
<1> QED
  BY <1>1, <1>2 DEF DoorbellNext

\* A doorbell is refused only if another one is on its way, or if too many
\* were lost.
LEMMA RefusalHasCause ==
  ASSUME DoorbellTypeOK, LockInv, CountsAddUp, NEW t \in Threads, tpc[t] = "ring",
         lost <= Limit, ~Granted
  PROVE  pending > 0 \/ cpc = "count"
<1>1. Ringing = 0
  BY RingingByHolder DEF LockInv
<1>2. req - clr = pending + Seeing + lost
  BY <1>1 DEF CountsAddUp, Seeing, DoorbellTypeOK
<1>3. CASE pending >= Slots
  BY <1>3, MsgDoorbellAssumption DEF DoorbellTypeOK
<1>4. CASE req - clr \notin 0 .. Limit
  BY <1>2, <1>4, MsgDoorbellAssumption DEF DoorbellTypeOK, Seeing
<1> QED
  BY <1>3, <1>4, MsgDoorbellAssumption DEF Granted, DoorbellTypeOK

LEMMA AwaitedStep ==
  DoorbellTypeOK /\ LockInv /\ CountsAddUp /\ Awaited /\ [DoorbellNext]_doorbellVars => Awaited'
<1> SUFFICES ASSUME DoorbellTypeOK, LockInv, CountsAddUp, Awaited, [DoorbellNext]_doorbellVars,
                    unread' > 0, lost' <= Limit, ~Shared, ~failing'
             PROVE  \/ pending' > 0
                    \/ cpc' # "idle"
                    \/ \E t \in Threads : tpc'[t] \in {"ring", "wait"}
  BY TypeStep, MsgDoorbellAssumption DEF Awaited, DoorbellTypeOK
<1> USE MsgDoorbellAssumption DEF threadVars, doorCardVars
<1>1. ASSUME NEW t \in Threads, Host(t)
      PROVE  pending' > 0 \/ cpc' # "idle" \/ \E u \in Threads : tpc'[u] \in {"ring", "wait"}
  <2>1. CASE Enqueue(t) \/ RingAgain(t)
    <3>1. tpc'[t] = "ring"
      BY <2>1 DEF Enqueue, RingAgain, DoorbellTypeOK
    <3> QED
      BY <3>1
  <2>2. CASE Ring(t)
    BY <2>2 DEF Ring, DoorbellTypeOK
  <2>3. CASE StartSend(t) \/ Full(t) \/ Count(t)
    <3>1. UNCHANGED <<pending, cpc, lost, unread, failing>>
      BY <2>3 DEF StartSend, Full, Count
    <3>2. /\ tpc[t] \notin {"ring", "wait"}
          /\ \A u \in Threads \ {t} : tpc'[u] = tpc[u]
      BY <2>3 DEF StartSend, Full, Count, DoorbellTypeOK
    <3>3. pending > 0 \/ cpc # "idle" \/ \E u \in Threads : tpc[u] \in {"ring", "wait"}
      BY <3>1 DEF Awaited, DoorbellTypeOK
    <3>4. ASSUME NEW u \in Threads, tpc[u] \in {"ring", "wait"}
          PROVE  tpc'[u] \in {"ring", "wait"}
      <4>1. u # t
        BY <3>2, <3>4, Zenon
      <4> QED
        BY <3>2, <3>4, <4>1, Zenon
    <3> QED
      BY <3>1, <3>3, <3>4, Zenon
  <2>4. CASE Refused(t)
    <3>1. UNCHANGED <<pending, cpc, lost>> /\ tpc[t] = "ring" /\ ~Granted
      BY <2>4 DEF Refused
    <3>2. pending > 0 \/ cpc = "count"
      BY <3>1, RefusalHasCause
    <3> QED
      BY <3>1, <3>2
  <2> QED
    BY <1>1, <2>1, <2>2, <2>3, <2>4 DEF Host
<1>2. CASE Card \/ Hang \/ HangUncounted \/ Restart \/ UNCHANGED doorbellVars
  <2>1. tpc' = tpc
    BY <1>2 DEF Card, Handle, CountSeen, Drain, DrainFails, Hang, HangUncounted, Restart, doorbellVars
  <2>2. CASE Handle \/ CountSeen \/ Hang \/ HangUncounted
    BY <2>2 DEF Handle, CountSeen, Hang, HangUncounted
  <2>3. CASE Drain \/ DrainFails \/ Restart
    BY <2>3 DEF Drain, DrainFails, Restart, DoorbellTypeOK
  <2>4. CASE UNCHANGED doorbellVars
    BY <2>1, <2>4 DEF doorbellVars, Awaited, DoorbellTypeOK
  <2> QED
    BY <1>2, <2>2, <2>3, <2>4 DEF Card
<1> QED
  BY <1>1, <1>2 DEF DoorbellNext

LEMMA DoorInvHolds == DoorbellSpec => []DoorInv
<1>1. DoorbellInit => DoorInv
  <2>1. DoorbellInit => DoorbellTypeOK
    <3>1. DoorbellInit => failing \in BOOLEAN
      BY Zenon DEF DoorbellInit
    <3> QED BY <3>1, MsgDoorbellAssumption DEF DoorbellInit, DoorbellTypeOK
  <2>2. DoorbellInit => LockInv /\ CountsAddUp /\ MailboxBounded /\ Awaited
    BY MsgDoorbellAssumption
      DEF DoorbellInit, LockInv, CountsAddUp, MailboxBounded, Awaited, Ringing, Seeing
  <2> QED BY <2>1, <2>2 DEF DoorInv
<1>2. DoorInv /\ [DoorbellNext]_doorbellVars => DoorInv'
  BY TypeStep, LockStep, CountStep, AwaitedStep DEF DoorInv
<1> QED
  BY <1>1, <1>2, PTL DEF DoorbellSpec

\* The state of the doorbell has its types, for any number of threads.
THEOREM DoorbellTypeCorrect == DoorbellSpec => []DoorbellTypeOK
BY DoorInvHolds, PTL DEF DoorInv

\* The counts in shared memory always account for every doorbell: in the
\* mailbox, in the card's hands, or lost to a restart (ax_send_data_irq and
\* slave_message_irq_handler).
THEOREM CountsHold == DoorbellSpec => []CountsAddUp
BY DoorInvHolds, PTL DEF DoorInv

\* The limit of mailbox_requst_count_check bounds the mailbox.
THEOREM MailboxHolds == DoorbellSpec => []MailboxBounded
BY DoorInvHolds, PTL DEF DoorInv

\* A send may report success although its doorbell was refused to the last:
\* somebody else's doorbell makes the card read the message, unless too many
\* were lost, others use the mailbox or a notifier of the card failed.
THEOREM StrandedHolds == DoorbellSpec => []StrandedForCause
<1>1. DoorInv => StrandedForCause
  <2> SUFFICES ASSUME DoorInv, Stranded, ~(lost > Limit), ~Shared, ~failing PROVE FALSE
    BY DEF StrandedForCause
  <2>1. \A t \in Threads : tpc[t] \notin {"ring", "wait"}
    BY Zenon DEF Stranded
  <2> QED
    BY <2>1 DEF DoorInv, Awaited, Stranded, DoorbellTypeOK
<1> QED
  BY <1>1, DoorInvHolds, PTL

\* No doorbell is ever rung again once more than Limit of them are lost.
THEOREM DeafHolds == DoorbellSpec => DeafForGood
<1>1. DoorInv /\ [DoorbellNext]_doorbellVars => [lost > Limit => pending' <= pending]_doorbellVars
  <2> SUFFICES ASSUME DoorInv, [DoorbellNext]_doorbellVars, lost > Limit PROVE pending' <= pending
    OBVIOUS
  <2> USE MsgDoorbellAssumption DEF DoorInv, threadVars, doorCardVars
  <2>1. ASSUME NEW t \in Threads, Ring(t) PROVE FALSE
    <3>1. Ringing = 0
      BY <2>1, RingingByHolder DEF Ring, LockInv
    <3> QED
      BY <2>1, <3>1 DEF Ring, Granted, CountsAddUp, DoorbellTypeOK, Seeing
  <2>2. ASSUME NEW t \in Threads, Host(t) PROVE pending' <= pending
    BY <2>1, <2>2 DEF Host, StartSend, Enqueue, Full, Count, Refused, RingAgain, DoorbellTypeOK
  <2>3. CASE Card \/ Hang \/ HangUncounted \/ Restart \/ UNCHANGED doorbellVars
    BY <2>3 DEF Card, Handle, CountSeen, Drain, DrainFails, Hang, HangUncounted, Restart, doorbellVars, DoorbellTypeOK
  <2> QED
    BY <2>2, <2>3 DEF DoorbellNext
<1> QED
  BY <1>1, DoorInvHolds, PTL DEF DoorbellSpec, DeafForGood

-----------------------------------------------------------------------------
(* The user message device: the inductive invariant                        *)

Members(q) == {q[i] : i \in DOMAIN q}
Rising(q) == \A i, j \in DOMAIN q : i < j => q[i] < q[j]

\* Message n has left the ring, or is the first one there and queued already.
Older(n) ==
  /\ n <= sent
  /\ \A i \in DOMAIN ring : n < ring[i].id \/ (irq.pc = "wake" /\ i = 1 /\ n = ring[i].id)

InRing ==
  /\ irq.pc # "idle" => ring # <<>>
  /\ \A i \in DOMAIN ring : ring[i].id <= sent
  /\ \A i, j \in DOMAIN ring : i < j => ring[i].id < ring[j].id

Queue(m) == Members(msg[m].list)
InQueues ==
  /\ \A m \in Ids : Rising(msg[m].list)
  /\ \A m \in Ids : \A n \in Queue(m) : Older(n)
  /\ \A m, o \in Ids : m # o => Queue(m) \cap Queue(o) = {}

HasRead ==
  /\ \A i \in DOMAIN taken : Older(taken[i].id)
  /\ \A i \in DOMAIN taken, m \in Ids : \A n \in Queue(m) :
       taken[i].id # n /\ (taken[i].m = m => taken[i].id < n)

Dealt == InRing /\ InQueues /\ HasRead /\ OnceInOrder

\* Handles that were handed out keep their port and their transfer handle; a
\* connect has a message handle of its own until it attaches it to the file.
Given(m) == msg[m].pci # 0 /\ msg[m].port \in Ports
HasHandle == \A f \in Files : priv[f] # 0 => Given(priv[f])
Releasing ==
  \A f \in Files : rel[f] # "none" => f \in open /\ con.file # f /\ priv[f] # 0
Polling ==
  \A f \in Files :
    /\ poller[f].m # 0 => Given(poller[f].m)
    /\ poller[f].pc # "none" => poller[f].m # 0
Connecting ==
  IF con.pc = "none" THEN con.file = None
  ELSE /\ con.file \in open /\ con.m # 0
       /\ Given(con.m) /\ con.h = msg[con.m].pci
       /\ IF con.pc = "attach"
          THEN \A f \in Files : priv[f] # con.m /\ poller[f].m # con.m
          ELSE priv[con.file] = con.m
Handled == HasHandle /\ Releasing /\ Polling /\ Connecting

\* The port m was opened for leads to its transfer handle, which is there.
Reaches(m) == msg[m].live /\ table[msg[m].port] = msg[m].pci /\ hnd[msg[m].pci].live
Hears(f) == hnd[msg[priv[f]].pci] = [live |-> TRUE, notifier |-> TRUE, data |-> priv[f]]

\* Each port has a transfer handle of its own, a file reaches the one it has,
\* and is heard there unless it is being connected or released.
Listed ==
  /\ \A p \in Ports : table[p] # 0 => hnd[table[p]].live
  /\ \A p, q \in Ports : p # q /\ table[p] # 0 => table[p] # table[q]
Reached ==
  /\ \A f \in Files : priv[f] # 0 => Reaches(priv[f])
  /\ con.pc # "none" => Reaches(con.m)
Heard ==
  /\ \A f \in Files : priv[f] # 0 /\ rel[f] = "none" /\ con.file # f => Hears(f)
  /\ con.pc = "data" => hnd[con.h].notifier
Unshared == ~Shares /\ Listed /\ Reached /\ Heard /\ bad # "file"

Sleeps(f) ==
  \/ msg[poller[f].m].list = <<>> /\ ~msg[poller[f].m].stop
  \/ poller[f].m # priv[f]
  \/ irq.pc = "wake" /\ irq.m = poller[f].m

UserInv ==
  /\ TypeOK /\ Dealt /\ Handled
  /\ \A f \in Files : poller[f].pc = "sleep" => Sleeps(f)
  /\ ~shared => Unshared

-----------------------------------------------------------------------------
(* Types                                                                   *)

LEMMA IdsType == Ids \subseteq Nat /\ 0 \in Ids
BY UserDevAssumption DEF Ids

LEMMA WokenType ==
  ASSUME TypeOK, NEW m \in Ids
  PROVE  Woken(m) \in [Files -> PollCall]
BY DEF TypeOK, Woken, PollCall

LEMMA ConstantTypes ==
  /\ Gone \in PciHandle /\ GoneMsg \in MsgHandle /\ NoCon \in ConnectCall
  /\ NoPoll \in PollCall /\ NoIrq \in IrqCall
BY IdsType DEF Gone, GoneMsg, NoCon, NoPoll, NoIrq, PciHandle, MsgHandle, ConnectCall, PollCall, IrqCall

\* A field of a record is set.
LEMMA MsgSet ==
  ASSUME NEW r \in MsgHandle
  PROVE  /\ \A q \in Seq(Nat) : [r EXCEPT !.list = q] \in MsgHandle
         /\ [r EXCEPT !.stop = TRUE] \in MsgHandle
         /\ [r EXCEPT !.live = FALSE] \in MsgHandle
         /\ r.list \in Seq(Nat) /\ r.pci \in Ids /\ r.port \in Ports \cup {None}
BY DEF MsgHandle

LEMMA HandleSet ==
  ASSUME NEW r \in PciHandle, NEW i \in Ids, NEW b \in BOOLEAN
  PROVE  /\ [r EXCEPT !.data = i] \in PciHandle /\ [r EXCEPT !.notifier = b] \in PciHandle
         /\ [r EXCEPT !.live = b] \in PciHandle
         /\ [r EXCEPT !.notifier = b, !.data = i] \in PciHandle
         /\ r.data \in Ids
BY DEF PciHandle

LEMMA QueueType ==
  ASSUME NEW S, NEW q \in Seq(S), q # <<>>
  PROVE  Head(q) \in S /\ Tail(q) \in Seq(S)
OBVIOUS

LEMMA InitType == Init => TypeOK
<1> SUFFICES ASSUME Init PROVE TypeOK
  OBVIOUS
<1>1. ring \in Seq(Message) /\ taken \in Seq(Taken)
  BY DEF Init
<1> QED BY <1>1, UserDevAssumption, IdsType, ConstantTypes DEF Init, TypeOK

\* What a step of each kind leaves in its variables.
LEMMA IrqType ==
  ASSUME TypeOK, Irq, irq.pc # "idle" => ring # <<>>
  PROVE  /\ ring' \in Seq(Message) /\ irq' \in IrqCall /\ msg' \in [Ids -> MsgHandle]
         /\ poller' \in [Files -> PollCall] /\ bad' \in {"irq", bad}
         /\ UNCHANGED <<sent, table, hnd, open, priv, con, rel, taken>>
<1> USE IdsType, ConstantTypes
<1>0. /\ ring \in Seq(Message) /\ table \in [Ports -> Ids] /\ hnd \in [Ids -> PciHandle]
      /\ msg \in [Ids -> MsgHandle] /\ poller \in [Files -> PollCall] /\ irq \in IrqCall
      /\ irq.h \in Ids /\ irq.m \in Ids
  BY DEF TypeOK, IrqCall
<1>1. ring # <<>> => Head(ring).port \in Ports /\ Head(ring).id \in Nat /\ Tail(ring) \in Seq(Message)
  <2>1. ring # <<>> => Head(ring) \in Message /\ Tail(ring) \in Seq(Message)
    BY <1>0, QueueType
  <2> QED BY <2>1 DEF Message
<1>2. \A h \in Ids : [NoIrq EXCEPT !.pc = "check", !.h = h] \in IrqCall
  BY DEF NoIrq, IrqCall
<1>3. \A pc \in {"notify", "wake"} : [irq EXCEPT !.pc = pc] \in IrqCall
  BY <1>0 DEF IrqCall
<1>4. [irq EXCEPT !.pc = "append", !.m = hnd[irq.h].data] \in IrqCall
  BY <1>0, HandleSet DEF IrqCall
<1>5. CASE IrqFinds
  BY <1>0, <1>1, <1>2, <1>5 DEF IrqFinds, IrqAt
<1>6. CASE IrqChecks
  BY <1>0, <1>1, <1>3, <1>6 DEF IrqChecks, IrqAt, Blame
<1>7. CASE IrqNotifies
  BY <1>0, <1>1, <1>4, <1>7 DEF IrqNotifies, IrqAt, Blame
<1>8. CASE IrqAppends
  <2>1. ring # <<>>
    BY <1>8 DEF IrqAppends, IrqAt
  <2>2. msg[irq.m].list \in Seq(Nat) /\ msg[irq.m] \in MsgHandle
    BY <1>0, MsgSet
  <2>3. Queued(msg[irq.m].list, Head(ring).id) \in Seq(Nat)
    BY <1>1, <2>1, <2>2 DEF Queued
  <2>4. [msg[irq.m] EXCEPT !.list = Queued(msg[irq.m].list, Head(ring).id)] \in MsgHandle
    BY <2>2, <2>3, MsgSet
  <2>5. msg' \in [Ids -> MsgHandle]
    BY <1>0, <1>8, <2>4 DEF IrqAppends
  <2> QED BY <1>0, <1>3, <1>8, <2>5 DEF IrqAppends, IrqAt, Blame
<1>9. CASE IrqAdvances
  <2>1. ring # <<>>
    BY <1>9 DEF IrqAdvances, IrqAt
  <2> QED BY <1>0, <1>1, <1>9, <2>1, WokenType DEF IrqAdvances, IrqAt, Blame
<1> QED BY <1>5, <1>6, <1>7, <1>8, <1>9 DEF Irq

\* Blame: the first one who uses what is not there.
LEMMA StepType ==
  ASSUME TypeOK, InRing, [Next]_vars
  PROVE  TypeOK'
<1> USE IdsType, ConstantTypes
<1>0. /\ ring \in Seq(Message) /\ sent \in Nat
      /\ table \in [Ports -> Ids] /\ hnd \in [Ids -> PciHandle] /\ msg \in [Ids -> MsgHandle]
      /\ open \subseteq Files /\ priv \in [Files -> Ids]
      /\ con \in ConnectCall /\ rel \in [Files -> {"none", "empty", "close"}]
      /\ poller \in [Files -> PollCall] /\ irq \in IrqCall
      /\ taken \in Seq(Taken)
      /\ bad \in {"none", "irq", "file", "stop"}
  BY DEF TypeOK
<1>1. con.m \in Ids /\ con.h \in Ids /\ con.file \in Files \cup {None}
  BY <1>0 DEF ConnectCall
<1>2. shared' \in BOOLEAN
  BY DEF Next, TypeOK, vars
<1>3. ASSUME NEW p \in Ports, CardSends(p) PROVE TypeOK'
  <2>1. [id |-> sent + 1, port |-> p] \in Message
    BY <1>0 DEF Message
  <2>2. ring' \in Seq(Message) /\ sent' \in Nat
    BY <1>0, <1>3, <2>1 DEF CardSends
  <2> QED BY <1>0, <1>2, <1>3, <2>2 DEF CardSends, handles, users, hist, TypeOK
<1>4. ASSUME Irq PROVE TypeOK'
  BY <1>0, <1>2, <1>4, IrqType DEF InRing, TypeOK
<1>5. ASSUME NEW f \in Files, Open(f) \/ ConnectFails(f) PROVE TypeOK'
  BY <1>0, <1>2, <1>5 DEF Open, ConnectFails, handles, hist, TypeOK
<1>6. ASSUME NEW f \in Files, NEW p \in Ports, Connect(f, p) PROVE TypeOK'
  <2>1. PICK i \in Fresh :
          LET h == IF table[p] # 0 THEN table[p] ELSE i IN
          /\ con' = [pc |-> "attach", file |-> f, m |-> i, h |-> h]
          /\ msg' = [msg EXCEPT ![i] = [GoneMsg EXCEPT !.live = TRUE, !.pci = h, !.port = p]]
          /\ hnd' = IF h = i THEN [hnd EXCEPT ![h] = [Gone EXCEPT !.live = TRUE]] ELSE hnd
          /\ table' = [table EXCEPT ![p] = h]
    BY <1>6 DEF Connect
  <2> DEFINE h == IF table[p] # 0 THEN table[p] ELSE i
  <2>2. i \in Ids /\ h \in Ids
    BY <1>0 DEF Fresh
  <2> HIDE DEF h
  <2>3. [pc |-> "attach", file |-> f, m |-> i, h |-> h] \in ConnectCall
    BY <2>2 DEF ConnectCall
  <2>4. [GoneMsg EXCEPT !.live = TRUE, !.pci = h, !.port = p] \in MsgHandle
    BY <2>2 DEF GoneMsg, MsgHandle
  <2>5. [Gone EXCEPT !.live = TRUE] \in PciHandle
    BY HandleSet
  <2>6. con' \in ConnectCall /\ msg' \in [Ids -> MsgHandle] /\ table' \in [Ports -> Ids]
    BY <1>0, <2>1, <2>2, <2>3, <2>4 DEF h
  <2>7. hnd' \in [Ids -> PciHandle]
    BY <1>0, <2>1, <2>2, <2>5 DEF h
  <2> QED BY <1>0, <1>2, <1>6, <2>6, <2>7 DEF Connect, hist, TypeOK
<1>7. ASSUME ConnectAttaches \/ ConnectListens \/ ConnectEnds PROVE TypeOK'
  <2>1. \A pc \in {"listen", "data"} : [con EXCEPT !.pc = pc] \in ConnectCall
    BY <1>0 DEF ConnectCall
  <2>2. /\ [hnd EXCEPT ![con.h].notifier = TRUE] \in [Ids -> PciHandle]
        /\ [hnd EXCEPT ![con.h].data = con.m] \in [Ids -> PciHandle]
    BY <1>0, <1>1, HandleSet
  <2>3. CASE ConnectAttaches
    BY <1>0, <1>1, <1>2, <2>1, <2>3 DEF ConnectAttaches, handles, hist, TypeOK
  <2>4. CASE ConnectListens
    BY <1>0, <1>2, <2>1, <2>2, <2>4 DEF ConnectListens, Blame, TypeOK
  <2>5. CASE ConnectEnds
    BY <1>0, <1>2, <2>2, <2>5 DEF ConnectEnds, ConnectData, Blame, TypeOK
  <2> QED BY <1>7, <2>3, <2>4, <2>5
<1>8. ASSUME NEW f \in Files, Stop(f) PROVE TypeOK'
  <2>1. [msg EXCEPT ![priv[f]].stop = TRUE] \in [Ids -> MsgHandle]
    BY <1>0, MsgSet
  <2>2. Woken(priv[f]) \in [Files -> PollCall]
    BY <1>0, WokenType
  <2> QED BY <1>0, <1>2, <1>8, <2>1, <2>2 DEF Stop, Blame, TypeOK
<1>9. ASSUME NEW f \in Files, Read(f) PROVE TypeOK'
  <2> DEFINE m == priv[f]
  <2>1. m \in Ids /\ msg[m].list \in Seq(Nat) /\ msg[m].list # <<>>
    BY <1>0, <1>9, MsgSet DEF Read
  <2>2. Head(msg[m].list) \in Nat /\ Tail(msg[m].list) \in Seq(Nat)
    BY <2>1, QueueType
  <2>3. [msg[m] EXCEPT !.list = Tail(@)] \in MsgHandle
    BY <1>0, <2>1, <2>2, MsgSet
  <2>4. [m |-> m, id |-> Head(msg[m].list)] \in Taken
    BY <2>1, <2>2 DEF Taken
  <2>5. msg' \in [Ids -> MsgHandle]
    BY <1>0, <1>9, <2>1, <2>3 DEF Read
  <2>6. taken' \in Seq(Taken)
    <3>1. taken' = taken \/ taken' = Append(taken, [m |-> m, id |-> Head(msg[m].list)])
      BY <1>9 DEF Read
    <3>2. \A t \in Taken : Append(taken, t) \in Seq(Taken)
      BY <1>0
    <3> QED BY <1>0, <2>4, <3>1, <3>2
  <2> QED BY <1>0, <1>2, <1>9, <2>5, <2>6 DEF Read, users, TypeOK
<1>10. ASSUME NEW f \in Files, Write(f) PROVE TypeOK'
  BY <1>0, <1>2, <1>10 DEF Write, handles, users, Blame, TypeOK
<1>11. ASSUME NEW f \in Files, Poll(f) \/ PollLooks(f) \/ PollGivesUp(f) PROVE TypeOK'
  <2>1. /\ [pc |-> "look", m |-> priv[f]] \in PollCall
        /\ [poller[f] EXCEPT !.pc = "sleep"] \in PollCall
    BY <1>0 DEF PollCall
  <2>2. poller' \in [Files -> PollCall]
    BY <1>0, <1>11, <2>1 DEF Poll, PollLooks, PollGivesUp
  <2> QED BY <1>0, <1>2, <1>11, <2>2 DEF Poll, PollLooks, PollGivesUp, handles, hist, TypeOK
<1>12. ASSUME NEW f \in Files, Release(f) PROVE TypeOK'
  <2>1. \A h \in Ids : [hnd EXCEPT ![h].notifier = FALSE, ![h].data = 0] \in [Ids -> PciHandle]
    BY <1>0, HandleSet
  <2>2. msg[priv[f]].pci \in Ids
    BY <1>0, MsgSet
  <2>3. [rel EXCEPT ![f] = "empty"] \in [Files -> {"none", "empty", "close"}]
    BY <1>0
  <2>4. hnd' \in [Ids -> PciHandle]
    BY <1>0, <1>12, <2>1, <2>2 DEF Release
  <2>5. rel' \in [Files -> {"none", "empty", "close"}]
    BY <1>0, <1>12, <2>3 DEF Release
  <2>6. open' \subseteq Files /\ bad' \in {"none", "irq", "file", "stop"}
    BY <1>0, <1>12 DEF Release, Blame
  <2> QED BY <1>0, <1>2, <1>12, <2>4, <2>5, <2>6 DEF Release, TypeOK
<1>13. ASSUME NEW f \in Files, ReleaseEmpties(f) PROVE TypeOK'
  <2>1. <<>> \in Seq(Nat)
    OBVIOUS
  <2>2. [msg EXCEPT ![priv[f]].list = <<>>] \in [Ids -> MsgHandle]
    BY <1>0, <2>1, MsgSet
  <2> QED BY <1>0, <1>2, <1>13, <2>2 DEF ReleaseEmpties, hist, TypeOK
<1>14. ASSUME NEW f \in Files, ReleaseCloses(f) PROVE TypeOK'
  <2>1. [msg EXCEPT ![priv[f]].live = FALSE] \in [Ids -> MsgHandle]
    BY <1>0, MsgSet
  <2>2. msg[priv[f]].pci \in Ids
    BY <1>0, MsgSet
  <2>3. [hnd EXCEPT ![msg[priv[f]].pci].live = FALSE] \in [Ids -> PciHandle]
    BY <1>0, <2>2, HandleSet
  <2>4. Unlisted(msg[priv[f]].port) \in [Ports -> Ids]
    BY <1>0 DEF Unlisted
  <2> QED BY <1>0, <1>2, <1>14, <2>1, <2>3, <2>4 DEF ReleaseCloses, Blame, TypeOK
<1>15. CASE UNCHANGED vars
  BY <1>15 DEF vars, TypeOK
<1> QED
  BY <1>3, <1>4, <1>5, <1>6, <1>7, <1>8, <1>9, <1>10, <1>11, <1>12, <1>13, <1>14, <1>15
  DEF Next, Step

-----------------------------------------------------------------------------
(* Each message once, and in order                                         *)

LEMMA AppendMembers ==
  ASSUME NEW q \in Seq(Nat), NEW n \in Nat
  PROVE  /\ Members(Append(q, n)) = Members(q) \cup {n}
         /\ Rising(q) /\ (\A x \in Members(q) : x < n) => Rising(Append(q, n))
<1> DEFINE s == Append(q, n)
           k == Len(q) + 1
<1>1. /\ DOMAIN s = DOMAIN q \cup {k} /\ s[k] = n /\ k \notin DOMAIN q
      /\ \A i \in DOMAIN q : s[i] = q[i] /\ i < k /\ i \in Nat
      /\ k \in Nat
  OBVIOUS
<1> HIDE DEF s, k
<1>2. Members(s) = Members(q) \cup {n}
  BY <1>1 DEF Members
<1>3. ASSUME Rising(q), \A x \in Members(q) : x < n
      PROVE  Rising(s)
  <2> SUFFICES ASSUME NEW i \in DOMAIN s, NEW j \in DOMAIN s, i < j
               PROVE  s[i] < s[j]
    BY DEF Rising
  <2>1. i # k
    BY <1>1
  <2>2. i \in DOMAIN q /\ s[i] = q[i]
    BY <1>1, <2>1
  <2>3. CASE j = k
    BY <1>1, <1>3, <2>2, <2>3 DEF Members
  <2>4. CASE j # k
    BY <1>1, <1>3, <2>2, <2>4 DEF Rising
  <2> QED BY <2>3, <2>4
<1> QED BY <1>2, <1>3 DEF s

LEMMA TailMembers ==
  ASSUME NEW q \in Seq(Nat), q # <<>>
  PROVE  /\ Members(Tail(q)) \subseteq Members(q) /\ Head(q) \in Members(q)
         /\ Rising(q) => Rising(Tail(q)) /\ \A x \in Members(Tail(q)) : Head(q) < x
<1> DEFINE s == Tail(q)
<1>1. /\ Head(q) = q[1] /\ 1 \in DOMAIN q
      /\ \A i \in DOMAIN s : i \in Nat /\ i + 1 \in DOMAIN q /\ s[i] = q[i + 1] /\ 1 < i + 1
  OBVIOUS
<1> HIDE DEF s
<1>2. Members(s) \subseteq Members(q) /\ Head(q) \in Members(q)
  BY <1>1 DEF Members
<1>3. ASSUME Rising(q) PROVE Rising(s) /\ \A x \in Members(s) : Head(q) < x
  <2>1. \A i \in DOMAIN s : Head(q) < s[i]
    BY <1>1, <1>3 DEF Rising
  <2>2. \A i, j \in DOMAIN s : i < j => s[i] < s[j]
    <3> SUFFICES ASSUME NEW i \in DOMAIN s, NEW j \in DOMAIN s, i < j PROVE s[i] < s[j]
      OBVIOUS
    <3>1. i + 1 < j + 1
      BY <1>1
    <3> QED BY <1>1, <1>3, <3>1 DEF Rising
  <2> QED BY <2>1, <2>2 DEF Rising, Members
<1> QED BY <1>2, <1>3 DEF s

LEMMA NatMembers ==
  ASSUME TypeOK
  PROVE  (\A m \in Ids : Queue(m) \subseteq Nat) /\ \A i \in DOMAIN taken : taken[i] \in Taken /\ taken[i].id \in Nat
<1>1. \A m \in Ids : msg[m].list \in Seq(Nat)
  BY MsgSet DEF TypeOK
<1>2. taken \in Seq(Taken)
  BY DEF TypeOK
<1>3. \A i \in DOMAIN taken : taken[i] \in Taken
  BY <1>2
<1>4. \A m \in Ids : Queue(m) \subseteq Nat
  BY <1>1 DEF Queue, Members
<1> QED BY <1>3, <1>4 DEF Taken

\* Nothing is read and nothing is queued.
LEMMA DealtLess ==
  ASSUME TypeOK, Dealt, taken' = taken,
         \A n \in Nat : Older(n) => Older(n)', InRing',
         \A m \in Ids : Queue(m)' \subseteq Queue(m) /\ (Rising(msg[m].list) => Rising(msg'[m].list))
  PROVE  Dealt'
<1>0. (\A m \in Ids : Queue(m) \subseteq Nat) /\ \A i \in DOMAIN taken : taken[i].id \in Nat
  BY NatMembers
<1>1. InQueues'
  <2>1. \A m \in Ids : Rising(msg'[m].list)
    BY DEF Dealt, InQueues
  <2>2. \A m \in Ids : \A n \in Queue(m)' : Older(n)'
    BY <1>0 DEF Dealt, InQueues
  <2>3. \A m, o \in Ids : m # o => Queue(m)' \cap Queue(o)' = {}
    BY DEF Dealt, InQueues
  <2> QED BY <2>1, <2>2, <2>3 DEF InQueues
<1>2. HasRead'
  <2>1. \A i \in DOMAIN taken : Older(taken[i].id)'
    BY <1>0 DEF Dealt, HasRead
  <2>2. \A i \in DOMAIN taken, m \in Ids : \A n \in Queue(m)' :
          taken[i].id # n /\ (taken[i].m = m => taken[i].id < n)
    BY DEF Dealt, HasRead
  <2>3. \A i \in DOMAIN taken' : Older(taken[i].id)'
    BY <2>1
  <2> QED BY <2>2, <2>3 DEF HasRead
<1>3. OnceInOrder'
  BY DEF Dealt, OnceInOrder
<1> QED BY <1>1, <1>2, <1>3 DEF Dealt

\* The ring is left alone, and so is the handler.
LEMMA RingKept ==
  ASSUME ring' = ring, sent' = sent, irq' = irq, InRing
  PROVE  InRing' /\ \A n : Older(n) => Older(n)'
BY DEF InRing, Older

LEMMA QueuesKept ==
  ASSUME TypeOK, Dealt, ring' = ring, sent' = sent, irq' = irq, taken' = taken,
         \A m \in Ids : msg'[m].list = msg[m].list \/ msg'[m].list = <<>>
  PROVE  Dealt'
<1>1. \A m \in Ids : Queue(m)' \subseteq Queue(m) /\ (Rising(msg[m].list) => Rising(msg'[m].list))
  <2> SUFFICES ASSUME NEW m \in Ids
               PROVE  Queue(m)' \subseteq Queue(m) /\ (Rising(msg[m].list) => Rising(msg'[m].list))
    OBVIOUS
  <2>1. Queue(m)' = Members(msg'[m].list)
    BY DEF Queue, Members
  <2>2. Members(<<>>) = {} /\ Rising(<<>>)
    BY DEF Members, Rising
  <2> QED BY <2>1, <2>2 DEF Queue
<1> QED BY <1>1, RingKept, DealtLess DEF Dealt

\* What leaves the ring has been queued or is dropped.
LEMMA RingAdvances ==
  ASSUME TypeOK, InRing, ring # <<>>, ring' = Tail(ring), sent' = sent, irq'.pc = "idle"
  PROVE  InRing' /\ \A n : Older(n) => Older(n)'
<1>1. \A i \in DOMAIN ring' : i \in Nat /\ i + 1 \in DOMAIN ring /\ ring'[i] = ring[i + 1] /\ i + 1 # 1
  BY DEF TypeOK
<1>2. \A i, j \in DOMAIN ring' : i < j => i + 1 < j + 1
  BY <1>1
<1>3. \A i, j \in DOMAIN ring' : i < j => ring'[i].id < ring'[j].id
  BY <1>1, <1>2 DEF InRing
<1>4. \A i \in DOMAIN ring' : ring'[i].id <= sent
  BY <1>1 DEF InRing
<1>6. \A n : Older(n) => \A i \in DOMAIN ring' : n < ring'[i].id
  BY <1>1 DEF Older
<1> QED BY <1>3, <1>4, <1>6 DEF InRing, Older

\* The handler is at another place, but has queued nothing.
LEMMA HandlerMoves ==
  ASSUME InRing, ring # <<>>, ring' = ring, sent' = sent, irq.pc # "wake"
  PROVE  InRing' /\ \A n : Older(n) => Older(n)'
BY DEF InRing, Older

LEMMA SendDealt ==
  ASSUME TypeOK, Dealt, NEW p \in Ports, CardSends(p)
  PROVE  Dealt'
<1> DEFINE k == Len(ring) + 1
<1>1. /\ sent \in Nat /\ sent' = sent + 1 /\ irq' = irq /\ msg' = msg /\ taken' = taken
      /\ ring' = Append(ring, [id |-> sent + 1, port |-> p]) /\ ring \in Seq(Message)
  BY DEF CardSends, TypeOK, handles, hist
<1>2. /\ DOMAIN ring' = DOMAIN ring \cup {k} /\ ring'[k].id = sent + 1 /\ ring' # <<>>
      /\ \A i \in DOMAIN ring : ring'[i] = ring[i] /\ i < k /\ i \in Nat /\ ring[i].id \in Nat
      /\ k \in Nat /\ k \notin DOMAIN ring
  <2>2. \A i \in DOMAIN ring : ring[i] \in Message
    BY <1>1
  <2>1. \A i \in DOMAIN ring : ring[i].id \in Nat
    BY <2>2 DEF Message
  <2> QED BY <1>1, <2>1
<1> HIDE DEF k
<1>3. InRing'
  <2>1. \A i \in DOMAIN ring' : ring'[i].id <= sent'
    BY <1>1, <1>2 DEF Dealt, InRing
  <2>2. \A i, j \in DOMAIN ring' : i < j => ring'[i].id < ring'[j].id
    <3> SUFFICES ASSUME NEW i \in DOMAIN ring', NEW j \in DOMAIN ring', i < j
                 PROVE  ring'[i].id < ring'[j].id
      OBVIOUS
    <3>1. i \in DOMAIN ring
      BY <1>2
    <3>2. CASE j = k
      BY <1>1, <1>2, <3>1, <3>2 DEF Dealt, InRing
    <3>3. CASE j # k
      BY <1>2, <3>1, <3>3 DEF Dealt, InRing
    <3> QED BY <3>2, <3>3
  <2> QED BY <1>2, <2>1, <2>2 DEF InRing
<1>4. ASSUME NEW n \in Nat, Older(n) PROVE Older(n)'
  <2>1. n <= sent'  /\ n < ring'[k].id
    BY <1>1, <1>2, <1>4 DEF Older
  <2>2. \A i \in DOMAIN ring : n < ring'[i].id \/ (irq'.pc = "wake" /\ i = 1 /\ n = ring'[i].id)
    BY <1>1, <1>2, <1>4 DEF Older
  <2> QED BY <1>2, <2>1, <2>2 DEF Older
<1>5. \A m \in Ids : Queue(m)' = Queue(m)
  BY <1>1 DEF Queue, Members
<1> QED BY <1>1, <1>3, <1>4, <1>5, DealtLess

\* The handler queues the message at the head of the ring.
LEMMA AppendDealt ==
  ASSUME TypeOK, Dealt, IrqAppends, sent' = sent, taken' = taken
  PROVE  Dealt'
<1>0. irq.m \in Ids
  BY DEF TypeOK, IrqCall
<1> PICK k \in Ids : k = irq.m
  BY <1>0
<1> PICK n : n = ring[1].id
  OBVIOUS
<1> DEFINE q == msg[k].list
<1>1. /\ irq.pc = "append" /\ irq'.pc = "wake" /\ ring' = ring /\ ring # <<>>
      /\ q \in Seq(Nat) /\ 1 \in DOMAIN ring /\ Head(ring).id = n
      /\ \A i \in DOMAIN ring : i \in Nat /\ (i # 1 => 1 < i)
  <2>1. irq.pc = "append" /\ irq'.pc = "wake" /\ ring' = ring /\ ring # <<>>
    BY DEF TypeOK, Dealt, InRing, IrqAppends, IrqAt, IrqCall
  <2>2. ring \in Seq(Message) /\ q \in Seq(Nat)
    BY MsgSet DEF TypeOK
  <2> QED BY <2>1, <2>2
<1>2. n \in Nat
  <2>1. ring[1] \in Message
    BY <1>1 DEF TypeOK
  <2> QED BY <2>1 DEF Message
<1>3. /\ msg'[k].list = Append(q, n)
      /\ \A m \in Ids : m # k => msg'[m].list = msg[m].list
  BY <1>1 DEF IrqAppends, Queued, TypeOK, MsgHandle
<1>4. \A x : Older(x) => x < n /\ Older(x)'
  BY <1>1 DEF Older
<1> HIDE DEF q
<1>5. Older(n)' /\ InRing'
  BY <1>1 DEF Dealt, InRing, Older
<1>6. /\ Queue(k)' = Queue(k) \cup {n} /\ Rising(msg'[k].list)
      /\ \A m \in Ids : m # k => Queue(m)' = Queue(m)
  <2>1. \A m : Queue(m)' = Members(msg'[m].list)
    BY DEF Queue, Members
  <2>2. \A x \in Members(q) : x < n
    BY <1>1, <1>4 DEF Dealt, InQueues, Queue, q
  <2>3. Rising(q) /\ Queue(k) = Members(q)
    BY <1>1 DEF Dealt, InQueues, Queue, q
  <2> QED BY <1>1, <1>2, <1>3, <2>1, <2>2, <2>3, AppendMembers DEF Queue
<1>7. \A m \in Ids : \A x \in Queue(m) : x \in Nat /\ x # n
  BY <1>2, <1>4, NatMembers DEF Dealt, InQueues
<1>8. InQueues'
  <2>1. \A m \in Ids : Rising(msg'[m].list)
    BY <1>3, <1>6 DEF Dealt, InQueues
  <2>2. \A m \in Ids : \A x \in Queue(m)' : Older(x)'
    BY <1>4, <1>5, <1>6 DEF Dealt, InQueues
  <2>3. \A m, o \in Ids : m # o => Queue(m)' \cap Queue(o)' = {}
    BY <1>6, <1>7 DEF Dealt, InQueues
  <2> QED BY <2>1, <2>2, <2>3 DEF InQueues
<1>9. HasRead'
  <2>1. \A i \in DOMAIN taken : taken[i].id \in Nat /\ taken[i].id < n /\ Older(taken[i].id)'
    BY <1>4, NatMembers DEF Dealt, HasRead
  <2>2. \A i \in DOMAIN taken, m \in Ids : \A x \in Queue(m)' :
          taken[i].id # x /\ (taken[i].m = m => taken[i].id < x)
    <3> SUFFICES ASSUME NEW i \in DOMAIN taken, NEW m \in Ids, NEW x \in Queue(m)'
                 PROVE  taken[i].id # x /\ (taken[i].m = m => taken[i].id < x)
      OBVIOUS
    <3>1. CASE x = n
      BY <1>2, <2>1, <3>1
    <3>2. CASE x # n
      BY <1>6, <3>2 DEF Dealt, HasRead
    <3> QED BY <3>1, <3>2
  <2>3. \A i \in DOMAIN taken' : Older(taken[i].id)'
    BY <2>1
  <2> QED BY <2>2, <2>3 DEF HasRead
<1>10. OnceInOrder'
  BY DEF Dealt, OnceInOrder
<1> QED BY <1>5, <1>8, <1>9, <1>10 DEF Dealt

\* The oldest message of a queue is read, or lost.
LEMMA ReadDealt ==
  ASSUME TypeOK, Dealt, NEW f \in Files, Read(f)
  PROVE  Dealt'
<1>0. priv[f] \in Ids
  BY DEF TypeOK
<1> PICK k \in Ids : k = priv[f]
  BY <1>0
<1> DEFINE q == msg[k].list
<1> PICK n : n = Head(q)
  OBVIOUS
<1> DEFINE t == [m |-> k, id |-> n]
<1>1. /\ q \in Seq(Nat) /\ q # <<>> /\ n \in Nat
      /\ ring' = ring /\ sent' = sent /\ irq' = irq
      /\ msg'[k].list = Tail(q) /\ \A m \in Ids : m # k => msg'[m].list = msg[m].list
  BY MsgSet DEF TypeOK, Read, users, MsgHandle
<1>2. t.m = k /\ t.id = n /\ (taken' = Append(taken, t) \/ taken' = taken)
  BY DEF Read
<1> HIDE DEF q, t
<1>3. InRing' /\ \A x : Older(x) => Older(x)'
  BY <1>1, RingKept DEF Dealt
<1>4. /\ \A m \in Ids : Queue(m)' \subseteq Queue(m) /\ (Rising(msg[m].list) => Rising(msg'[m].list))
      /\ n \in Queue(k) /\ \A x \in Queue(k)' : n < x
  <2>1. \A m : Queue(m)' = Members(msg'[m].list) /\ Queue(m) = Members(msg[m].list)
    BY DEF Queue, Members
  <2>2. Rising(q)
    BY <1>1 DEF Dealt, InQueues, q
  <2>3. /\ Members(Tail(q)) \subseteq Members(q) /\ n \in Members(q)
        /\ Rising(Tail(q)) /\ \A x \in Members(Tail(q)) : n < x
    BY <1>1, <2>2, TailMembers
  <2> QED BY <1>1, <2>1, <2>3 DEF q
<1>5. CASE taken' = taken
  BY <1>3, <1>4, <1>5, DealtLess
<1>6. CASE taken' = Append(taken, t)
  <2> DEFINE e == Len(taken) + 1
  <2>1. /\ DOMAIN taken' = DOMAIN taken \cup {e} /\ taken'[e] = t /\ e \notin DOMAIN taken
        /\ \A i \in DOMAIN taken : taken'[i] = taken[i] /\ i < e /\ i \in Nat
        /\ e \in Nat
    BY <1>6 DEF TypeOK
  <2> HIDE DEF e
  <2>2. InQueues'
    <3>1. \A m \in Ids : Rising(msg'[m].list)
      BY <1>4 DEF Dealt, InQueues
    <3>2. \A m \in Ids : \A x \in Queue(m)' : Older(x)'
      BY <1>3, <1>4 DEF Dealt, InQueues
    <3>3. \A m, o \in Ids : m # o => Queue(m)' \cap Queue(o)' = {}
      BY <1>4 DEF Dealt, InQueues
    <3> QED BY <3>1, <3>2, <3>3 DEF InQueues
  <2>3. \A m \in Ids : \A x \in Queue(m)' : n # x /\ (k = m => n < x)
    BY <1>1, <1>4, NatMembers DEF Dealt, InQueues
  <2>4. HasRead'
    <3>1. \A i \in DOMAIN taken' : Older(taken'[i].id)
      BY <1>1, <1>2, <1>3, <1>4, <2>1 DEF Dealt, HasRead, InQueues
    <3>2. \A i \in DOMAIN taken', m \in Ids : \A x \in Queue(m)' :
            taken'[i].id # x /\ (taken'[i].m = m => taken'[i].id < x)
      BY <1>2, <1>4, <2>1, <2>3 DEF Dealt, HasRead
    <3> QED BY <1>1, <3>1, <3>2 DEF HasRead, Older
  <2>5. \A i, j \in DOMAIN taken' : i < j =>
          /\ taken'[i].id # taken'[j].id
          /\ taken'[i].m = taken'[j].m => taken'[i].id < taken'[j].id
    <3> SUFFICES ASSUME NEW i \in DOMAIN taken', NEW j \in DOMAIN taken', i < j
                 PROVE  /\ taken'[i].id # taken'[j].id
                        /\ taken'[i].m = taken'[j].m => taken'[i].id < taken'[j].id
      OBVIOUS
    <3>1. i \in DOMAIN taken
      BY <2>1
    <3>2. CASE j = e
      BY <1>1, <1>2, <1>4, <2>1, <3>1, <3>2 DEF Dealt, HasRead
    <3>3. CASE j # e
      BY <2>1, <3>1, <3>3 DEF Dealt, OnceInOrder
    <3> QED BY <3>2, <3>3
  <2> QED BY <1>3, <2>2, <2>4, <2>5 DEF Dealt, OnceInOrder
<1> QED BY <1>2, <1>5, <1>6

LEMMA StepDealt ==
  ASSUME TypeOK, Dealt, [Next]_vars
  PROVE  Dealt'
<1>1. \A p \in Ports : CardSends(p) => Dealt'
  BY SendDealt
<1>2. ASSUME Irq PROVE Dealt'
  <2>1. sent' = sent /\ taken' = taken
    BY <1>2 DEF Irq, IrqFinds, IrqChecks, IrqNotifies, IrqAppends, IrqAdvances, IrqAt
  <2>2. CASE IrqAppends
    BY <2>1, <2>2, AppendDealt
  <2>3. ASSUME ~IrqAppends PROVE Dealt'
    <3>1. msg' = msg
      BY <1>2, <2>3 DEF Irq, IrqFinds, IrqChecks, IrqNotifies, IrqAdvances
    <3>2. ring # <<>>
      BY <1>2, <2>3 DEF Irq, IrqFinds, IrqChecks, IrqNotifies, IrqAdvances, IrqAt, Dealt, InRing
    <3>3. \/ ring' = Tail(ring) /\ irq' = NoIrq
          \/ ring' = Tail(ring) /\ irq' = irq /\ irq.pc = "idle"
          \/ ring' = ring /\ irq.pc # "wake"
      BY <1>2, <2>3 DEF Irq, IrqFinds, IrqChecks, IrqNotifies, IrqAdvances, IrqAt
    <3>4. InRing' /\ \A n : Older(n) => Older(n)'
      BY <2>1, <3>2, <3>3, RingAdvances, HandlerMoves DEF Dealt, NoIrq
    <3>5. \A m \in Ids : Queue(m)' = Queue(m)
      BY <3>1 DEF Queue, Members
    <3> QED BY <2>1, <3>1, <3>4, <3>5, DealtLess
  <2> QED BY <2>2, <2>3
<1>3. \A f \in Files : Read(f) => Dealt'
  BY ReadDealt
<1> DEFINE Kept == /\ ring' = ring /\ sent' = sent /\ irq' = irq /\ taken' = taken
                   /\ \A m \in Ids : msg'[m].list = msg[m].list \/ msg'[m].list = <<>>
<1>4. Kept => Dealt'
  BY QueuesKept
<1>5. ASSUME NEW f \in Files, Open(f) \/ ConnectFails(f) \/ Write(f) \/ Poll(f) \/ PollLooks(f) \/ PollGivesUp(f)
      PROVE  Kept
  BY <1>5 DEF Open, ConnectFails, Write, Poll, PollLooks, PollGivesUp, handles, users, hist
<1>6. ASSUME NEW f \in Files, NEW p \in Ports, Connect(f, p)
      PROVE  Kept
  <2>1. PICK i \in Ids, h \in Ids :
          msg' = [msg EXCEPT ![i] = [GoneMsg EXCEPT !.live = TRUE, !.pci = h, !.port = p]]
    <3>1. \A i \in Fresh : i \in Ids /\ (IF table[p] # 0 THEN table[p] ELSE i) \in Ids
      BY DEF Fresh, TypeOK
    <3> QED BY <1>6, <3>1 DEF Connect
  <2>2. \A m \in Ids : msg'[m].list = msg[m].list \/ msg'[m].list = <<>>
    BY <2>1 DEF GoneMsg, TypeOK
  <2> QED BY <1>6, <2>2 DEF Connect, hist
<1>7. ASSUME ConnectAttaches \/ ConnectListens \/ ConnectEnds PROVE Kept
  BY <1>7 DEF ConnectAttaches, ConnectListens, ConnectEnds, handles, hist
<1>8. ASSUME NEW f \in Files, Stop(f) PROVE Kept
  <2>1. \A m \in Ids : msg'[m].list = msg[m].list
    BY <1>8 DEF Stop, TypeOK, MsgHandle
  <2> QED BY <1>8, <2>1 DEF Stop
<1>9. ASSUME NEW f \in Files, Release(f) PROVE Kept
  BY <1>9 DEF Release
<1>10. ASSUME NEW f \in Files, ReleaseEmpties(f) PROVE Kept
  <2>1. \A m \in Ids : msg'[m].list = msg[m].list \/ msg'[m].list = <<>>
    BY <1>10 DEF ReleaseEmpties, TypeOK, MsgHandle
  <2> QED BY <1>10, <2>1 DEF ReleaseEmpties, hist
<1>11. ASSUME NEW f \in Files, ReleaseCloses(f) PROVE Kept
  <2>1. \A m \in Ids : msg'[m].list = msg[m].list
    BY <1>11 DEF ReleaseCloses, TypeOK, MsgHandle
  <2> QED BY <1>11, <2>1 DEF ReleaseCloses
<1>12. CASE UNCHANGED vars
  BY <1>4, <1>12 DEF vars
<1> HIDE DEF Kept
<1> QED
  BY <1>1, <1>2, <1>3, <1>4, <1>5, <1>6, <1>7, <1>8, <1>9, <1>10, <1>11, <1>12 DEF Next, Step

-----------------------------------------------------------------------------
(* Who has which handle                                                    *)

\* No step but a connect changes what a message handle is for.
LEMMA GivenKept ==
  ASSUME \A m \in Ids : msg'[m].pci = msg[m].pci /\ msg'[m].port = msg[m].port
  PROVE  \A m \in Ids : Given(m) => Given(m)'
BY DEF Given

\* A file that sleeps is woken; what the others wait for stays.
LEMMA WokenFields ==
  ASSUME TypeOK, NEW k \in Ids, poller' = Woken(k), NEW f \in Files
  PROVE  /\ poller'[f].m = poller[f].m /\ (poller'[f].pc = "none" <=> poller[f].pc = "none")
         /\ poller'[f].pc = "sleep" => poller[f].pc = "sleep" /\ poller[f].m # k
<1>1. poller[f] \in PollCall
  BY DEF TypeOK
<1>2. poller'[f] = IF poller[f] = [pc |-> "sleep", m |-> k] THEN [pc |-> "again", m |-> k] ELSE poller[f]
  BY DEF Woken
<1> QED BY <1>1, <1>2 DEF PollCall

\* What the fields of the message handles are after each kind of step.
LEMMA StepFields ==
  ASSUME TypeOK, Step, \A f \in Files, p \in Ports : ~Connect(f, p)
  PROVE  \A m \in Ids :
           /\ msg'[m].pci = msg[m].pci /\ msg'[m].port = msg[m].port
           /\ msg'[m].live = msg[m].live \/ \E f \in Files : ReleaseCloses(f)
<1> DEFINE Closes == \E f \in Files : ReleaseCloses(f)
           Same == \A m \in Ids : /\ msg'[m].pci = msg[m].pci /\ msg'[m].port = msg[m].port
                                  /\ msg'[m].live = msg[m].live \/ Closes
<1>0. ASSUME NEW k \in Ids, NEW r, msg' = [msg EXCEPT ![k] = r],
             r.pci = msg[k].pci, r.port = msg[k].port, r.live = msg[k].live \/ Closes
      PROVE  Same
  BY <1>0 DEF TypeOK
<1>00. ASSUME NEW k \in Ids
       PROVE  /\ \A q : msg' = [msg EXCEPT ![k].list = q] => Same
              /\ msg' = [msg EXCEPT ![k].stop = TRUE] => Same
              /\ msg' = [msg EXCEPT ![k].live = FALSE] /\ Closes => Same
  <2>1. msg[k] \in MsgHandle
    BY DEF TypeOK
  <2>2. \A q : [msg[k] EXCEPT !.list = q].pci = msg[k].pci /\ [msg[k] EXCEPT !.list = q].port = msg[k].port
             /\ [msg[k] EXCEPT !.list = q].live = msg[k].live
    BY <2>1 DEF MsgHandle
  <2>3. /\ [msg[k] EXCEPT !.stop = TRUE].live = msg[k].live
        /\ [msg[k] EXCEPT !.stop = TRUE].pci = msg[k].pci /\ [msg[k] EXCEPT !.stop = TRUE].port = msg[k].port
        /\ [msg[k] EXCEPT !.live = FALSE].pci = msg[k].pci /\ [msg[k] EXCEPT !.live = FALSE].port = msg[k].port
    BY <2>1 DEF MsgHandle
  <2> HIDE DEF Same, Closes
  <2> QED BY <1>0, <2>2, <2>3
<1>1. ASSUME Irq PROVE Same
  <2>1. msg' = msg \/ msg' = [msg EXCEPT ![irq.m].list = Queued(msg[irq.m].list, Head(ring).id)]
    BY <1>1 DEF Irq, IrqFinds, IrqChecks, IrqNotifies, IrqAppends, IrqAdvances
  <2>2. irq.m \in Ids
    BY DEF TypeOK, IrqCall
  <2> QED BY <1>00, <2>1, <2>2
<1>2. ASSUME NEW f \in Files, Stop(f) \/ Read(f) \/ ReleaseEmpties(f) \/ ReleaseCloses(f) PROVE Same
  <2>1. /\ \/ \E q : msg' = [msg EXCEPT ![priv[f]].list = q]
           \/ msg' = [msg EXCEPT ![priv[f]].stop = TRUE]
           \/ msg' = [msg EXCEPT ![priv[f]].live = FALSE] /\ Closes
        /\ priv[f] \in Ids
    BY <1>2 DEF Stop, Read, ReleaseEmpties, ReleaseCloses, TypeOK
  <2> HIDE DEF Same
  <2> QED BY <1>00, <2>1
<1>3. msg' = msg => Same
  OBVIOUS
<1>4. \A p \in Ports : CardSends(p) => msg' = msg
  BY DEF CardSends, handles
<1>5. \A f \in Files : Open(f) \/ ConnectFails(f) \/ Write(f) \/ Poll(f) \/ PollLooks(f)
                        \/ PollGivesUp(f) \/ Release(f) => msg' = msg
  BY DEF Open, ConnectFails, Write, Poll, PollLooks, PollGivesUp, Release, handles
<1>6. ConnectAttaches \/ ConnectListens \/ ConnectEnds => msg' = msg
  BY DEF ConnectAttaches, ConnectListens, ConnectEnds, handles
<1> HIDE DEF Same
<1>7. Same
  BY <1>1, <1>2, <1>3, <1>4, <1>5, <1>6 DEF Step
<1> QED BY <1>7 DEF Same

\* A connect takes a message handle that nobody has.
LEMMA FreshIsNew ==
  ASSUME TypeOK, Handled, NEW f \in Files, NEW p \in Ports, Connect(f, p)
  PROVE  \E i \in Ids, h \in Ids :
           /\ i # 0 /\ h # 0 /\ h = (IF table[p] # 0 THEN table[p] ELSE i)
           /\ con' = [pc |-> "attach", file |-> f, m |-> i, h |-> h]
           /\ msg'[i].live /\ msg'[i].pci = h /\ msg'[i].port = p
           /\ \A m \in Ids : m # i => msg'[m] = msg[m]
           /\ hnd' = IF h = i THEN [hnd EXCEPT ![h] = [Gone EXCEPT !.live = TRUE]] ELSE hnd
           /\ table' = [table EXCEPT ![p] = h]
           /\ ~Given(i) /\ ~hnd[i].live
           /\ \A g \in Files : priv[g] # i /\ poller[g].m # i
<1>1. PICK i \in Fresh :
        LET h == IF table[p] # 0 THEN table[p] ELSE i IN
        /\ con' = [pc |-> "attach", file |-> f, m |-> i, h |-> h]
        /\ msg' = [msg EXCEPT ![i] = [GoneMsg EXCEPT !.live = TRUE, !.pci = h, !.port = p]]
        /\ hnd' = IF h = i THEN [hnd EXCEPT ![h] = [Gone EXCEPT !.live = TRUE]] ELSE hnd
        /\ table' = [table EXCEPT ![p] = h]
  BY DEF Connect
<1>2. PICK h : h = IF table[p] # 0 THEN table[p] ELSE i
  OBVIOUS
<1>3. i \in Ids /\ i # 0 /\ h \in Ids /\ h # 0 /\ msg[i].pci = 0 /\ ~hnd[i].live
  BY <1>2 DEF Fresh, GoneMsg, Gone, TypeOK
<1>4. ~Given(i)
  BY <1>3 DEF Given
<1>5. \A g \in Files : priv[g] # i /\ poller[g].m # i
  BY <1>3, <1>4 DEF Handled, HasHandle, Polling
<1> DEFINE r == [GoneMsg EXCEPT !.live = TRUE, !.pci = h, !.port = p]
<1>6. r.live /\ r.pci = h /\ r.port = p
  BY DEF GoneMsg
<1> HIDE DEF r
<1>7. msg'[i].live /\ msg'[i].pci = h /\ msg'[i].port = p
      /\ \A m \in Ids : m # i => msg'[m] = msg[m]
  <2>1. msg' = [msg EXCEPT ![i] = r]
    BY <1>1, <1>2 DEF r
  <2> QED BY <1>3, <1>6, <2>1 DEF TypeOK
<1> QED BY <1>1, <1>2, <1>3, <1>4, <1>5, <1>7

\* Files, connect and releases are where they were, and each poll waits for
\* what it did.
LEMMA PollersWait ==
  ASSUME TypeOK, Handled, priv' = priv, con' = con, rel' = rel, open' = open,
         \A m \in Ids : msg'[m].pci = msg[m].pci /\ msg'[m].port = msg[m].port,
         \A f \in Files : poller'[f].m = poller[f].m /\ (poller'[f].pc = "none" <=> poller[f].pc = "none")
  PROVE  Handled'
<1>1. /\ \A f \in Files : priv[f] \in Ids /\ poller[f].m \in Ids
      /\ con.m \in Ids
  BY DEF TypeOK, ConnectCall, PollCall
<1>2. HasHandle'
  BY <1>1 DEF Handled, HasHandle, Given
<1>3. Releasing'
  BY DEF Handled, Releasing
<1>4. Polling'
  BY <1>1 DEF Handled, Polling, Given
<1>5. Connecting'
  BY <1>1 DEF Handled, Connecting, Given
<1> QED BY <1>2, <1>3, <1>4, <1>5 DEF Handled

LEMMA StepHandled ==
  ASSUME TypeOK, Handled, [Next]_vars
  PROVE  Handled'
<1>0. /\ priv \in [Files -> Ids] /\ poller \in [Files -> PollCall] /\ 0 \in Ids
      /\ rel \in [Files -> {"none", "empty", "close"}]
      /\ con \in ConnectCall /\ con.m \in Ids /\ \A f \in Files : priv[f] \in Ids /\ poller[f].m \in Ids
  BY IdsType DEF TypeOK, ConnectCall, PollCall
<1>1. SemFree => con.pc = "none" /\ con.file = None
  BY DEF SemFree, NoCon
<1>2. None \notin Files
  BY UserDevAssumption
<1>3. ASSUME NEW f \in Files, NEW p \in Ports, Connect(f, p) PROVE Handled'
  <2>1. PICK i \in Ids, h \in Ids :
          /\ i # 0 /\ h # 0
          /\ con' = [pc |-> "attach", file |-> f, m |-> i, h |-> h]
          /\ msg'[i].live /\ msg'[i].pci = h /\ msg'[i].port = p
          /\ \A m \in Ids : m # i => msg'[m] = msg[m]
          /\ ~Given(i)
          /\ \A g \in Files : priv[g] # i /\ poller[g].m # i
    BY <1>3, FreshIsNew
  <2>2. \A m \in Ids : Given(m) => Given(m)'
    BY <2>1 DEF Given
  <2>3. priv' = priv /\ poller' = poller /\ rel' = rel /\ open' = open /\ f \in open /\ rel[f] = "none"
    BY <1>3 DEF Connect, Works
  <2>4. con'.pc = "attach" /\ con'.file = f /\ con'.m = i /\ con'.h = h /\ msg'[i].pci = h /\ msg'[i].port = p
    BY <2>1
  <2>5. HasHandle' /\ Polling'
    BY <1>0, <2>2, <2>3 DEF Handled, HasHandle, Polling, Given
  <2>6. Releasing'
    BY <2>3, <2>4 DEF Handled, Releasing
  <2>7. Connecting'
    BY <2>1, <2>3, <2>4 DEF Connecting, Given
  <2> QED BY <2>5, <2>6, <2>7 DEF Handled
<1>4. ASSUME Step, \A f \in Files, p \in Ports : ~Connect(f, p) PROVE Handled'
  <2>0. \A m \in Ids : msg'[m].pci = msg[m].pci /\ msg'[m].port = msg[m].port
    BY <1>4, StepFields
  <2>1. ASSUME priv' = priv, con' = con, rel' = rel, open' = open, poller' = poller PROVE Handled'
    BY <2>0, <2>1, PollersWait
  <2>2. ASSUME priv' = priv, con' = con, rel' = rel, open' = open, NEW k \in Ids, poller' = Woken(k) PROVE Handled'
    BY <2>0, <2>2, PollersWait, WokenFields
  <2>3. ASSUME Irq PROVE Handled'
    <3>1. irq.m \in Ids
      BY DEF TypeOK, IrqCall
    <3>2. /\ priv' = priv /\ con' = con /\ rel' = rel /\ open' = open
          /\ poller' = poller \/ poller' = Woken(irq.m)
      BY <2>3 DEF Irq, IrqFinds, IrqChecks, IrqNotifies, IrqAppends, IrqAdvances, IrqAt
    <3> QED BY <2>1, <2>2, <3>1, <3>2
  <2>4. ASSUME NEW p \in Ports, CardSends(p) PROVE Handled'
    BY <2>1, <2>4 DEF CardSends, users
  <2>5. ASSUME NEW f \in Files, Read(f) \/ Write(f) PROVE Handled'
    BY <2>1, <2>5 DEF Read, Write, users
  <2>6. ASSUME NEW f \in Files, Open(f) \/ ConnectFails(f) PROVE Handled'
    <3>1. /\ con' = con /\ rel' = rel /\ poller' = poller /\ open \subseteq open'
          /\ priv'[f] = 0 /\ \A g \in Files : g # f => priv'[g] = priv[g]
          /\ rel[f] = "none" /\ (con.pc # "none" => con.file # f)
      BY <1>0, <1>1, <2>6 DEF Open, ConnectFails, Works, Handled, Releasing, Connecting
    <3>2. HasHandle'
      BY <1>0, <2>0, <3>1 DEF Handled, HasHandle, Given
    <3>3. Releasing'
      BY <3>1 DEF Handled, Releasing
    <3>4. Polling'
      BY <1>0, <2>0, <3>1 DEF Handled, Polling, Given
    <3>5. Connecting'
      <4>1. open \subseteq Files
        BY DEF TypeOK
      <4> QED BY <1>0, <2>0, <3>1, <4>1 DEF Handled, Connecting, Given
    <3> QED BY <3>2, <3>3, <3>4, <3>5 DEF Handled
  <2>7. ASSUME ConnectAttaches PROVE Handled'
    <3>1. /\ con.pc = "attach" /\ rel' = rel /\ poller' = poller /\ open' = open
          /\ con'.pc = "listen" /\ con'.file = con.file /\ con'.m = con.m /\ con'.h = con.h
      BY <1>0, <2>7 DEF ConnectAttaches, ConnectCall
    <3>2. con.file \in Files /\ con.file \in open /\ con.m # 0 /\ Given(con.m) /\ con.h = msg[con.m].pci
      BY <3>1 DEF Handled, Connecting, TypeOK
    <3>3. priv'[con.file] = con.m /\ \A g \in Files : g # con.file => priv'[g] = priv[g]
      BY <1>0, <2>7, <3>2 DEF ConnectAttaches
    <3>4. HasHandle'
      BY <1>0, <2>0, <3>2, <3>3 DEF Handled, HasHandle, Given
    <3>5. Releasing'
      BY <3>1, <3>2, <3>3 DEF Handled, Releasing
    <3>6. Polling'
      BY <1>0, <2>0, <3>1 DEF Handled, Polling, Given
    <3>7. Connecting'
      BY <1>0, <2>0, <3>1, <3>2, <3>3 DEF Connecting, Given
    <3> QED BY <3>4, <3>5, <3>6, <3>7 DEF Handled
  <2>8. ASSUME ConnectListens \/ ConnectEnds PROVE Handled'
    <3>1. /\ priv' = priv /\ rel' = rel /\ poller' = poller /\ open' = open
          /\ \/ con.pc = "listen" /\ con'.pc = "data" /\ con'.file = con.file /\ con'.m = con.m /\ con'.h = con.h
             \/ con'.pc = "none" /\ con'.file = None
      BY <1>0, <2>8 DEF ConnectListens, ConnectEnds, ConnectCall, NoCon
    <3>2. HasHandle' /\ Polling'
      BY <1>0, <2>0, <3>1 DEF Handled, HasHandle, Polling, Given
    <3>3. Releasing'
      BY <1>2, <3>1 DEF Handled, Releasing
    <3>4. Connecting'
      BY <1>0, <2>0, <3>1 DEF Handled, Connecting, Given
    <3> QED BY <3>2, <3>3, <3>4 DEF Handled
  <2>9. ASSUME NEW f \in Files, Stop(f) PROVE Handled'
    BY <1>0, <2>2, <2>9 DEF Stop
  <2>10. ASSUME NEW f \in Files, Poll(f) \/ PollLooks(f) \/ PollGivesUp(f) PROVE Handled'
    <3>1. /\ priv' = priv /\ con' = con /\ rel' = rel /\ open' = open
          /\ \A g \in Files : g # f => poller'[g] = poller[g]
          /\ \/ poller'[f].pc = "look" /\ poller'[f].m = priv[f] /\ priv[f] # 0
             \/ poller'[f].pc = "none" /\ poller'[f].m = 0
             \/ poller'[f].pc = "sleep" /\ poller'[f].m = poller[f].m /\ poller[f].pc # "none"
      BY <1>0, <2>10 DEF Poll, PollLooks, PollGivesUp, NoPoll, PollCall
    <3>2. HasHandle'
      BY <1>0, <2>0, <3>1 DEF Handled, HasHandle, Given
    <3>3. Releasing'
      BY <3>1 DEF Handled, Releasing
    <3>4. Polling'
      BY <1>0, <2>0, <3>1 DEF Handled, HasHandle, Polling, Given
    <3>5. Connecting'
      <4>1. con.pc = "attach" => poller'[f].m # con.m
        BY <3>1 DEF Handled, Connecting
      <4> QED BY <1>0, <2>0, <3>1, <4>1 DEF Handled, Connecting, Given
    <3> QED BY <3>2, <3>3, <3>4, <3>5 DEF Handled
  <2>11. ASSUME NEW f \in Files, Release(f) \/ ReleaseEmpties(f) PROVE Handled'
    <3>1. /\ priv' = priv /\ con' = con /\ poller' = poller
          /\ con.file # f
          /\ \/ open' = open \ {f} /\ rel' = rel /\ rel[f] = "none"
             \/ open' = open /\ rel'[f] # "none" /\ priv[f] # 0 /\ f \in open
                /\ \A g \in Files : g # f => rel'[g] = rel[g]
      BY <1>0, <2>11 DEF Release, ReleaseEmpties, Works, Handled, Releasing
    <3>2. HasHandle' /\ Polling'
      BY <1>0, <2>0, <3>1 DEF Handled, HasHandle, Polling, Given
    <3>3. Releasing'
      BY <3>1 DEF Handled, Releasing
    <3>4. Connecting'
      BY <1>0, <2>0, <3>1 DEF Handled, Connecting, Given
    <3> QED BY <3>2, <3>3, <3>4 DEF Handled
  <2>12. ASSUME NEW f \in Files, ReleaseCloses(f) PROVE Handled'
    <3>1. /\ con' = con /\ poller' = poller /\ con.file # f
          /\ open' = open \ {f} /\ rel'[f] = "none" /\ priv'[f] = 0
          /\ \A g \in Files : g # f => rel'[g] = rel[g] /\ priv'[g] = priv[g]
      BY <1>0, <2>12 DEF ReleaseCloses, Handled, Releasing
    <3>2. HasHandle' /\ Polling'
      BY <1>0, <2>0, <3>1 DEF Handled, HasHandle, Polling, Given
    <3>3. Releasing'
      BY <3>1 DEF Handled, Releasing
    <3>4. Connecting'
      <4>1. open \subseteq Files
        BY DEF TypeOK
      <4> QED BY <1>0, <2>0, <3>1, <4>1 DEF Handled, Connecting, Given
    <3> QED BY <3>2, <3>3, <3>4 DEF Handled
  <2> QED
    BY <1>4, <2>3, <2>4, <2>5, <2>6, <2>7, <2>8, <2>9, <2>10, <2>11, <2>12 DEF Step
<1>5. ASSUME UNCHANGED vars PROVE Handled'
  BY <1>5, PollersWait DEF vars
<1> QED BY <1>3, <1>4, <1>5 DEF Next

-----------------------------------------------------------------------------
(* Sleeping polls                                                          *)

LEMMA IrqSleeps ==
  ASSUME TypeOK, Irq, NEW f \in Files, poller[f].pc = "sleep" => Sleeps(f), poller'[f].pc = "sleep"
  PROVE  Sleeps(f)'
<1>1. /\ priv' = priv /\ irq.m \in Ids /\ poller[f].m \in Ids
      /\ irq \in IrqCall /\ poller \in [Files -> PollCall]
  BY DEF TypeOK, IrqCall, PollCall, Irq, IrqFinds, IrqChecks, IrqNotifies, IrqAppends, IrqAdvances, IrqAt
<1>2. CASE IrqAppends
  <2>1. /\ poller' = poller /\ irq'.pc = "wake" /\ irq'.m = irq.m /\ irq.pc = "append"
        /\ \A m \in Ids : m # irq.m => msg'[m] = msg[m]
    BY <1>1, <1>2 DEF IrqAppends, IrqAt, IrqCall, TypeOK
  <2> QED BY <1>1, <2>1 DEF Sleeps
<1>3. CASE IrqAdvances
  <2>1. msg' = msg
    BY <1>3 DEF IrqAdvances
  <2>2. poller[f].pc = "sleep" /\ poller[f].m # irq.m /\ poller'[f].m = poller[f].m
    BY <1>1, <1>3, WokenFields DEF IrqAdvances
  <2> QED BY <1>1, <2>1, <2>2 DEF Sleeps
<1>4. ASSUME IrqFinds \/ IrqChecks \/ IrqNotifies PROVE Sleeps(f)'
  <2>1. msg' = msg /\ poller' = poller /\ irq.pc # "wake"
    BY <1>4 DEF IrqFinds, IrqChecks, IrqNotifies, IrqAt
  <2> QED BY <1>1, <2>1 DEF Sleeps
<1> QED BY <1>2, <1>3, <1>4 DEF Irq

LEMMA StepSleeps ==
  ASSUME TypeOK, Handled, [Next]_vars, NEW g \in Files,
         poller[g].pc = "sleep" => Sleeps(g), poller'[g].pc = "sleep"
  PROVE  Sleeps(g)'
<1> DEFINE m == poller[g].m
<1>0. /\ priv \in [Files -> Ids] /\ poller \in [Files -> PollCall] /\ 0 \in Ids
      /\ msg \in [Ids -> MsgHandle] /\ m \in Ids
      /\ poller[g].pc # "none" => m # 0
  BY IdsType DEF TypeOK, PollCall, Handled, Polling
\* The poll slept, and what it sleeps for is as it was.
<1>1. ASSUME irq' = irq, poller'[g] = poller[g], priv'[g] = priv[g] \/ priv'[g] # m,
             \/ msg'[m].list = msg[m].list /\ msg'[m].stop = msg[m].stop
             \/ msg'[m].list = <<>> /\ msg'[m].stop = msg[m].stop
      PROVE  Sleeps(g)'
  BY <1>1 DEF Sleeps
<1>2. \A p \in Ports : CardSends(p) => Sleeps(g)'
  BY <1>1 DEF CardSends, handles, users
<1>3. Irq => Sleeps(g)'
  BY IrqSleeps
<1>4. ASSUME NEW f \in Files, Open(f) \/ ConnectFails(f) PROVE Sleeps(g)'
  <2>1. /\ irq' = irq /\ msg' = msg /\ poller' = poller
        /\ priv'[g] = priv[g] \/ priv'[g] = 0
    BY <1>0, <1>4 DEF Open, ConnectFails, handles
  <2> QED BY <1>0, <1>1, <2>1
<1>5. ASSUME NEW f \in Files, NEW p \in Ports, Connect(f, p) PROVE Sleeps(g)'
  <2>1. msg'[m] = msg[m]
    BY <1>0, <1>5, FreshIsNew
  <2> QED BY <1>1, <1>5, <2>1 DEF Connect
<1>6. ASSUME ConnectAttaches PROVE Sleeps(g)'
  <2>1. m # con.m
    BY <1>6 DEF Handled, Connecting, ConnectAttaches
  <2>2. /\ irq' = irq /\ msg' = msg /\ poller' = poller
        /\ priv'[g] = priv[g] \/ priv'[g] = con.m
    BY <1>0, <1>6 DEF ConnectAttaches, handles
  <2> QED BY <1>1, <2>1, <2>2
<1>7. ASSUME ConnectListens \/ ConnectEnds PROVE Sleeps(g)'
  BY <1>1, <1>7 DEF ConnectListens, ConnectEnds
<1>8. ASSUME NEW f \in Files, Stop(f) PROVE Sleeps(g)'
  <2>1. poller[g].pc = "sleep" /\ m # priv[f] /\ poller'[g].m = m
    BY <1>0, <1>8, WokenFields DEF Stop
  <2>2. msg'[m] = msg[m] /\ irq' = irq /\ priv' = priv
    BY <1>0, <1>8, <2>1 DEF Stop
  <2> QED BY <2>1, <2>2 DEF Sleeps
<1>9. ASSUME NEW f \in Files, Read(f) PROVE Sleeps(g)'
  <2>1. irq' = irq /\ poller' = poller /\ priv' = priv
    BY <1>9 DEF Read, users
  <2>2. CASE m = priv[f]
    <3>1. msg[m].list # <<>>
      BY <1>9, <2>2 DEF Read
    <3> QED BY <2>1, <3>1 DEF Sleeps
  <2>3. CASE m # priv[f]
    <3>1. msg'[m] = msg[m]
      BY <1>0, <1>9, <2>3 DEF Read
    <3> QED BY <1>1, <2>1, <3>1
  <2> QED BY <2>2, <2>3
<1>10. ASSUME NEW f \in Files, Write(f) \/ Release(f) PROVE Sleeps(g)'
  BY <1>1, <1>10 DEF Write, Release, handles, users
<1>11. ASSUME NEW f \in Files, Poll(f) \/ PollLooks(f) \/ PollGivesUp(f) PROVE Sleeps(g)'
  <2>1. irq' = irq /\ msg' = msg /\ priv' = priv
    BY <1>11 DEF Poll, PollLooks, PollGivesUp, handles
  <2>2. CASE f # g
    <3>1. poller'[g] = poller[g]
      BY <1>0, <1>11, <2>2 DEF Poll, PollLooks, PollGivesUp
    <3> QED BY <1>1, <2>1, <3>1
  <2>3. CASE f = g
    <3>1. PollLooks(g)
      BY <1>0, <1>11, <2>3 DEF Poll, PollGivesUp, NoPoll
    <3> DEFINE k == IF poller[g].pc = "look" THEN m ELSE priv[g]
    <3>2. /\ poller' = [poller EXCEPT ![g] = IF k = 0 \/ Ready(msg[k]) THEN NoPoll
                                             ELSE [poller[g] EXCEPT !.pc = "sleep"]]
      BY <3>1 DEF PollLooks
    <3>3. ~Ready(msg[k]) /\ poller'[g].m = m
      BY <1>0, <3>2 DEF NoPoll, PollCall
    <3> QED BY <2>1, <3>3 DEF Sleeps, Ready
  <2> QED BY <2>2, <2>3
<1>12. ASSUME NEW f \in Files, ReleaseEmpties(f) PROVE Sleeps(g)'
  <2>1. irq' = irq /\ poller' = poller /\ priv' = priv
    BY <1>12 DEF ReleaseEmpties
  <2>2. msg'[m].stop = msg[m].stop /\ (msg'[m].list = msg[m].list \/ msg'[m].list = <<>>)
    BY <1>0, <1>12 DEF ReleaseEmpties, MsgHandle
  <2> QED BY <1>1, <2>1, <2>2
<1>13. ASSUME NEW f \in Files, ReleaseCloses(f) PROVE Sleeps(g)'
  <2>1. irq' = irq /\ poller' = poller /\ (priv'[g] = priv[g] \/ priv'[g] = 0)
    BY <1>0, <1>13 DEF ReleaseCloses
  <2>2. msg'[m].stop = msg[m].stop /\ msg'[m].list = msg[m].list
    BY <1>0, <1>13 DEF ReleaseCloses, MsgHandle
  <2> QED BY <1>0, <1>1, <2>1, <2>2
<1>14. CASE UNCHANGED vars
  BY <1>1, <1>14 DEF vars
<1> HIDE DEF m
<1> QED
  BY <1>2, <1>3, <1>4, <1>5, <1>6, <1>7, <1>8, <1>9, <1>10, <1>11, <1>12, <1>13, <1>14
  DEF Next, Step

-----------------------------------------------------------------------------
(* As long as no two files have one transfer handle                        *)

LEMMA HandleFacts ==
  ASSUME TypeOK, Handled
  PROVE  /\ con.m \in Ids /\ con.h \in Ids /\ priv \in [Files -> Ids]
         /\ \A m \in Ids : msg[m].pci \in Ids
         /\ con.pc # "none" => con.file \in Files /\ con.m # 0 /\ Given(con.m) /\ con.h = msg[con.m].pci
         /\ con.pc \in {"listen", "data"} => priv[con.file] = con.m
         /\ \A f \in Files : rel[f] # "none" => con.file # f
         /\ con.pc = "none" => \A f \in Files : con.file # f
         /\ \A f \in Files : priv[f] # 0 => Given(priv[f])
<1>1. con.m \in Ids /\ con.h \in Ids /\ priv \in [Files -> Ids] /\ open \subseteq Files
  BY DEF TypeOK, ConnectCall
<1>2. \A m \in Ids : msg[m].pci \in Ids
  BY MsgSet DEF TypeOK
<1> QED BY <1>1, <1>2, UserDevAssumption DEF Handled, HasHandle, Connecting, Releasing

\* Then no other file, and no connect of another, has the one of f.
LEMMA Apart ==
  ASSUME TypeOK, Handled, ~Shares, NEW f \in Files
  PROVE  /\ \A g \in Files : f # g /\ priv[f] # 0 /\ priv[g] # 0 =>
              msg[priv[f]].pci # msg[priv[g]].pci
         /\ con.pc # "none" /\ con.file # f /\ priv[f] # 0 => msg[priv[f]].pci # con.h
<1>1. \A g \in Files : f # g => Holds(f) \cap Holds(g) = {}
  BY DEF Shares
<1>2. \A g \in Files : priv[g] # 0 => msg[priv[g]].pci \in Holds(g)
  BY DEF Holds
<1>3. con.pc # "none" => con.file \in Files /\ con.h \in Holds(con.file)
  BY HandleFacts DEF Holds
<1> QED BY <1>1, <1>2, <1>3

\* The handles and the connect stay, and no file gets one.
LEMMA UnsharedKept ==
  ASSUME TypeOK, Handled, Unshared, table' = table, hnd' = hnd, con' = con,
         \A m \in Ids : msg'[m].pci = msg[m].pci /\ msg'[m].port = msg[m].port /\ msg'[m].live = msg[m].live,
         \A f \in Files : priv'[f] = priv[f] \/ priv'[f] = 0,
         \A f \in Files : rel'[f] = "none" => rel[f] = "none",
         ~Shares', bad' # "file"
  PROVE  Unshared'
<1>1. /\ con.m \in Ids /\ \A f \in Files : priv[f] \in Ids
  BY HandleFacts
<1>2. Listed'
  BY DEF Unshared, Listed
<1>3. Reached'
  BY <1>1 DEF Unshared, Reached, Reaches
<1>4. Heard'
  BY <1>1 DEF Unshared, Heard, Hears
<1> QED BY <1>2, <1>3, <1>4 DEF Unshared

\* A port that has none gets a transfer handle nobody has.
LEMMA ConnectUnshared ==
  ASSUME TypeOK, Handled, Unshared, NEW f \in Files, NEW p \in Ports, Connect(f, p), ~Shares'
  PROVE  Unshared'
<1>1. PICK i \in Ids, h \in Ids :
        /\ i # 0 /\ h # 0 /\ h = (IF table[p] # 0 THEN table[p] ELSE i)
        /\ con' = [pc |-> "attach", file |-> f, m |-> i, h |-> h]
        /\ msg'[i].live /\ msg'[i].pci = h /\ msg'[i].port = p
        /\ \A m \in Ids : m # i => msg'[m] = msg[m]
        /\ hnd' = IF h = i THEN [hnd EXCEPT ![h] = [Gone EXCEPT !.live = TRUE]] ELSE hnd
        /\ table' = [table EXCEPT ![p] = h]
        /\ ~Given(i) /\ ~hnd[i].live
        /\ \A g \in Files : priv[g] # i /\ poller[g].m # i
  BY FreshIsNew
<1>2. /\ priv' = priv /\ rel' = rel /\ bad' = bad /\ con.pc = "none"
      /\ con'.pc = "attach" /\ con'.file = f /\ con'.m = i
  BY <1>1 DEF Connect, hist, SemFree, NoCon
<1>3. /\ table \in [Ports -> Ids] /\ hnd \in [Ids -> PciHandle]
      /\ \A q \in Ports : table'[q] = IF q = p THEN h ELSE table[q]
      /\ \A q \in Ports : table[q] # 0 => table[q] # i /\ table'[q] = table[q]
  BY <1>1 DEF TypeOK, Unshared, Listed
<1>4. /\ \A j \in Ids : hnd[j].live => hnd'[j] = hnd[j]
      /\ hnd'[h].live
  <2>1. [Gone EXCEPT !.live = TRUE].live
    BY DEF Gone
  <2>2. h # i => hnd[h].live
    BY <1>1 DEF Unshared, Listed
  <2> QED BY <1>1, <1>3, <2>1, <2>2
<1>5. Listed'
  <2>1. \A q \in Ports : table'[q] # 0 => hnd'[table'[q]].live
    BY <1>3, <1>4 DEF Unshared, Listed
  <2>2. \A q, o \in Ports : q # o /\ table'[q] # 0 => table'[q] # table'[o]
    BY <1>1, <1>3 DEF Unshared, Listed
  <2> QED BY <2>1, <2>2 DEF Listed
<1>6. \A m \in Ids : m # i /\ Given(m) /\ Reaches(m) =>
        /\ msg'[m] = msg[m] /\ hnd'[msg[m].pci] = hnd[msg[m].pci]
        /\ msg'[m].live /\ table'[msg'[m].port] = msg'[m].pci /\ hnd'[msg'[m].pci].live
  <2>1. \A m \in Ids : msg[m].pci \in Ids
    BY HandleFacts
  <2> QED BY <1>1, <1>3, <1>4, <2>1 DEF Given, Reaches
<1>7. \A g \in Files : priv[g] # 0 => priv[g] \in Ids /\ priv[g] # i /\ Given(priv[g]) /\ Reaches(priv[g])
  BY <1>1, HandleFacts DEF Unshared, Reached
<1>8. Reached'
  <2>1. \A g \in Files : priv[g] # 0 =>
          msg'[priv[g]].live /\ table'[msg'[priv[g]].port] = msg'[priv[g]].pci /\ hnd'[msg'[priv[g]].pci].live
    BY <1>6, <1>7
  <2>2. msg'[i].live /\ table'[msg'[i].port] = msg'[i].pci /\ hnd'[msg'[i].pci].live
    BY <1>1, <1>3, <1>4
  <2> QED BY <1>2, <2>1, <2>2 DEF Reached, Reaches
<1>9. Heard'
  <2>1. \A g \in Files : con.file # g
    BY <1>2, HandleFacts
  <2>2. \A g \in Files : priv[g] # 0 /\ rel[g] = "none" =>
          hnd'[msg'[priv[g]].pci] = [live |-> TRUE, notifier |-> TRUE, data |-> priv[g]]
    BY <1>6, <1>7, <2>1 DEF Unshared, Heard, Hears
  <2> QED BY <1>2, <2>2 DEF Heard, Hears
<1> QED BY <1>2, <1>5, <1>8, <1>9 DEF Unshared

LEMMA AttachUnshared ==
  ASSUME TypeOK, Handled, Unshared, ConnectAttaches, ~Shares'
  PROVE  Unshared'
<1>1. /\ table' = table /\ hnd' = hnd /\ msg' = msg /\ rel' = rel /\ bad' = bad
      /\ con'.pc = "listen" /\ con'.file = con.file /\ con'.m = con.m /\ con.pc = "attach"
  BY DEF ConnectAttaches, handles, hist, TypeOK, ConnectCall
<1>2. /\ con.file \in Files /\ priv'[con.file] = con.m
      /\ \A g \in Files : g # con.file => priv'[g] = priv[g]
  BY <1>1, HandleFacts DEF ConnectAttaches
<1>3. Listed'
  BY <1>1 DEF Unshared, Listed
<1>4. Reached'
  <2>1. Reaches(con.m) /\ \A g \in Files : priv[g] # 0 => Reaches(priv[g])
    BY <1>1 DEF Unshared, Reached
  <2>2. \A g \in Files : priv'[g] # 0 => priv'[g] = con.m \/ priv'[g] = priv[g]
    BY <1>2
  <2> QED BY <1>1, <2>1, <2>2 DEF Reached, Reaches
<1>5. Heard'
  BY <1>1, <1>2 DEF Unshared, Heard, Hears
<1> QED BY <1>1, <1>3, <1>4, <1>5 DEF Unshared

\* The transfer handle of the connect is set up; the others are not touched.
LEMMA ListenUnshared ==
  ASSUME TypeOK, Handled, Unshared, ConnectListens \/ ConnectEnds, ~Shares'
  PROVE  Unshared'
<1>1. /\ table' = table /\ msg' = msg /\ rel' = rel /\ priv' = priv
      /\ con.pc \in {"listen", "data"} /\ con.pc # "none"
  BY DEF ConnectListens, ConnectEnds
<1>2. /\ con.file \in Files /\ con.m # 0 /\ con.m \in Ids /\ con.h = msg[con.m].pci /\ con.h \in Ids
      /\ priv[con.file] = con.m /\ Reaches(con.m)
      /\ \A g \in Files : g # con.file /\ priv[g] # 0 => msg[priv[g]].pci # con.h
      /\ \A g \in Files : msg[priv[g]].pci \in Ids
  BY <1>1, HandleFacts, Apart DEF Unshared, Reached
<1>3. hnd[con.h] \in PciHandle /\ hnd[con.h].live /\ hnd \in [Ids -> PciHandle]
  BY <1>2 DEF Reaches, TypeOK
<1>4. bad' # "file"
  BY <1>3 DEF ConnectListens, ConnectEnds, Blame, Unshared
<1>5. /\ hnd'[con.h].live
      /\ \A j \in Ids : j # con.h => hnd'[j] = hnd[j]
      /\ \A j \in Ids : hnd[j].live => hnd'[j].live
  <2>1. [hnd[con.h] EXCEPT !.notifier = TRUE].live /\ [hnd[con.h] EXCEPT !.data = con.m].live
    BY <1>3 DEF PciHandle
  <2>2. \/ hnd' = [hnd EXCEPT ![con.h] = [hnd[con.h] EXCEPT !.notifier = TRUE]]
        \/ hnd' = [hnd EXCEPT ![con.h] = [hnd[con.h] EXCEPT !.data = con.m]]
    BY DEF ConnectListens, ConnectEnds, ConnectData
  <2> QED BY <1>2, <1>3, <2>1, <2>2
<1>6. Listed'
  BY <1>1, <1>5 DEF Unshared, Listed, TypeOK
<1>7. Reached'
  <2>1. con'.pc # "none" => con'.m = con.m
    BY DEF ConnectListens, ConnectEnds, NoCon, TypeOK, ConnectCall
  <2>2. \A m \in Ids : Reaches(m) => msg[m].live /\ table[msg[m].port] = msg[m].pci /\ hnd'[msg[m].pci].live
    BY <1>5, HandleFacts DEF Reaches
  <2>3. \A g \in Files : priv[g] # 0 => priv[g] \in Ids /\ Reaches(priv[g])
    BY HandleFacts DEF Unshared, Reached
  <2> QED BY <1>1, <1>2, <2>1, <2>2, <2>3 DEF Reached, Reaches
<1>8. Heard'
  <2>1. \A g \in Files : g # con.file /\ priv[g] # 0 /\ rel[g] = "none" =>
          hnd'[msg[priv[g]].pci] = [live |-> TRUE, notifier |-> TRUE, data |-> priv[g]]
    BY <1>2, <1>5 DEF Unshared, Heard, Hears
  <2>2. CASE ConnectListens
    <3>1. con'.file = con.file /\ con'.h = con.h /\ hnd'[con.h].notifier
      BY <1>2, <1>3, <2>2 DEF ConnectListens, TypeOK, ConnectCall, PciHandle
    <3> QED BY <1>1, <1>2, <2>1, <3>1 DEF Heard, Hears
  <2>3. CASE ConnectEnds
    <3>1. hnd[con.h].notifier /\ con'.pc = "none"
      BY <2>3 DEF ConnectEnds, NoCon, Unshared, Heard
    <3>2. hnd'[con.h] = [live |-> TRUE, notifier |-> TRUE, data |-> con.m]
      <4>1. hnd'[con.h] = [hnd[con.h] EXCEPT !.data = con.m]
        BY <1>2, <1>3, <2>3 DEF ConnectEnds, ConnectData
      <4>2. hnd[con.h].live = TRUE /\ hnd[con.h].notifier = TRUE
        BY <1>3, <3>1 DEF PciHandle
      <4> QED BY <1>3, <4>1, <4>2 DEF PciHandle
    <3> QED BY <1>1, <1>2, <2>1, <3>1, <3>2 DEF Heard, Hears
  <2> QED BY <2>2, <2>3
<1> QED BY <1>4, <1>6, <1>7, <1>8 DEF Unshared

\* A release silences the transfer handle of its file.
LEMMA ReleaseUnshared ==
  ASSUME TypeOK, Handled, Unshared, NEW f \in Files, Release(f), priv[f] # 0, ~Shares'
  PROVE  Unshared'
<1> PICK h : h = msg[priv[f]].pci
  OBVIOUS
<1>1. /\ table' = table /\ msg' = msg /\ priv' = priv /\ con' = con
      /\ con.file # f /\ rel'[f] # "none" /\ \A g \in Files : g # f => rel'[g] = rel[g]
      /\ hnd' = [hnd EXCEPT ![h].notifier = FALSE, ![h].data = 0]
      /\ bad' = IF hnd[h].live THEN bad ELSE "file"
  BY DEF Release, Blame, TypeOK
<1>2. /\ h \in Ids /\ hnd[h].live /\ hnd \in [Ids -> PciHandle] /\ hnd[h] \in PciHandle
      /\ \A g \in Files : g # f /\ priv[g] # 0 => msg[priv[g]].pci # h
      /\ con.pc # "none" => con.h # h /\ con.h \in Ids
      /\ \A g \in Files : msg[priv[g]].pci \in Ids
  BY <1>1, HandleFacts, Apart DEF Unshared, Reached, Reaches, TypeOK
<1>3. /\ \A j \in Ids : j # h => hnd'[j] = hnd[j]
      /\ \A j \in Ids : hnd[j].live => hnd'[j].live
  BY <1>1, <1>2 DEF PciHandle
<1>4. Listed'
  BY <1>1, <1>3 DEF Unshared, Listed, TypeOK
<1>5. Reached'
  <2>1. \A m \in Ids : Reaches(m) => msg[m].live /\ table[msg[m].port] = msg[m].pci /\ hnd'[msg[m].pci].live
    BY <1>3, HandleFacts DEF Reaches
  <2>2. /\ \A g \in Files : priv[g] # 0 => priv[g] \in Ids /\ Reaches(priv[g])
        /\ con.pc # "none" => con.m \in Ids /\ Reaches(con.m)
    BY HandleFacts DEF Unshared, Reached
  <2> QED BY <1>1, <2>1, <2>2 DEF Reached, Reaches
<1>6. Heard'
  <2>1. \A g \in Files : rel'[g] = "none" => g # f /\ rel[g] = "none"
    BY <1>1
  <2>2. \A g \in Files : priv[g] # 0 /\ rel'[g] = "none" /\ con.file # g =>
          hnd'[msg[priv[g]].pci] = [live |-> TRUE, notifier |-> TRUE, data |-> priv[g]]
    BY <1>2, <1>3, <2>1 DEF Unshared, Heard, Hears
  <2>3. con.pc = "data" => hnd'[con.h].notifier
    BY <1>2, <1>3 DEF Unshared, Heard
  <2> QED BY <1>1, <2>2, <2>3 DEF Heard, Hears
<1> QED BY <1>1, <1>2, <1>4, <1>5, <1>6 DEF Unshared

\* The end of a release frees it and takes it out of the table.
LEMMA CloseUnshared ==
  ASSUME TypeOK, Handled, Unshared, NEW f \in Files, ReleaseCloses(f), ~Shares'
  PROVE  Unshared'
<1> PICK k : k = priv[f]
  OBVIOUS
<1> PICK h, p : h = msg[k].pci /\ p = msg[k].port
  OBVIOUS
<1>0. k # 0 /\ k \in Ids /\ con.file # f
  BY HandleFacts DEF ReleaseCloses, Handled, Releasing
<1>1. /\ table' = [table EXCEPT ![p] = 0]
      /\ hnd' = [hnd EXCEPT ![h].live = FALSE] /\ msg' = [msg EXCEPT ![k].live = FALSE]
      /\ con' = con /\ priv'[f] = 0
      /\ \A g \in Files : g # f => priv'[g] = priv[g] /\ rel'[g] = rel[g]
      /\ bad' = IF hnd[h].live THEN bad ELSE "file"
  BY DEF ReleaseCloses, Unlisted, Blame, TypeOK
<1>2. /\ h \in Ids /\ h # 0 /\ p \in Ports /\ table[p] = h /\ hnd[h].live
      /\ \A g \in Files : g # f /\ priv[g] # 0 => msg[priv[g]].pci # h
      /\ con.pc # "none" => con.h # h /\ con.h = msg[con.m].pci
  BY <1>0, HandleFacts, Apart DEF Unshared, Reached, Reaches, Given
<1>3. /\ \A j \in Ids : j # h => hnd'[j] = hnd[j]
      /\ \A m \in Ids : m # k => msg'[m] = msg[m]
      /\ \A q \in Ports : table'[q] = IF q = p THEN 0 ELSE table[q]
  BY <1>1 DEF TypeOK
<1>4. Listed'
  <2>1. \A q \in Ports : table'[q] # 0 => table[q] = table'[q] /\ table[q] # h /\ table[q] \in Ids
    BY <1>2, <1>3 DEF Unshared, Listed, TypeOK
  <2>2. \A q \in Ports : table'[q] # 0 => hnd'[table'[q]].live
    BY <1>3, <2>1 DEF Unshared, Listed
  <2>3. \A q, o \in Ports : q # o /\ table'[q] # 0 => table'[q] # table'[o]
    BY <1>3, <2>1 DEF Unshared, Listed
  <2> QED BY <2>2, <2>3 DEF Listed
<1>5. \A m \in Ids : Given(m) /\ Reaches(m) /\ msg[m].pci # h =>
        /\ msg'[m] = msg[m] /\ hnd'[msg[m].pci] = hnd[msg[m].pci]
        /\ msg'[m].live /\ table'[msg'[m].port] = msg'[m].pci /\ hnd'[msg'[m].pci].live
  <2>1. \A m \in Ids : msg[m].pci \in Ids
    BY HandleFacts
  <2> QED BY <1>2, <1>3, <2>1 DEF Given, Reaches
<1>6. /\ \A g \in Files : g # f /\ priv[g] # 0 =>
           priv[g] \in Ids /\ Given(priv[g]) /\ Reaches(priv[g]) /\ msg[priv[g]].pci # h
      /\ con.pc # "none" => con.m \in Ids /\ Given(con.m) /\ Reaches(con.m) /\ msg[con.m].pci # h
  BY <1>2, HandleFacts DEF Unshared, Reached
<1>7. Reached'
  <2>1. \A g \in Files : priv'[g] # 0 => g # f /\ priv'[g] = priv[g]
    BY <1>1
  <2>2. \A g \in Files : priv'[g] # 0 =>
          msg'[priv'[g]].live /\ table'[msg'[priv'[g]].port] = msg'[priv'[g]].pci /\ hnd'[msg'[priv'[g]].pci].live
    BY <1>5, <1>6, <2>1
  <2>3. con.pc # "none" =>
          msg'[con.m].live /\ table'[msg'[con.m].port] = msg'[con.m].pci /\ hnd'[msg'[con.m].pci].live
    BY <1>5, <1>6
  <2> QED BY <1>1, <2>2, <2>3 DEF Reached, Reaches
<1>8. Heard'
  <2>1. \A g \in Files : priv'[g] # 0 => g # f /\ priv'[g] = priv[g] /\ rel'[g] = rel[g]
    BY <1>1
  <2>2. \A g \in Files : priv'[g] # 0 /\ rel'[g] = "none" /\ con.file # g =>
          hnd'[msg'[priv'[g]].pci] = [live |-> TRUE, notifier |-> TRUE, data |-> priv'[g]]
    BY <1>5, <1>6, <2>1 DEF Unshared, Heard, Hears
  <2>3. con.pc = "data" => hnd'[con.h].notifier
    BY <1>2, <1>3, HandleFacts DEF Unshared, Heard
  <2> QED BY <1>1, <2>2, <2>3 DEF Heard, Hears
<1> QED BY <1>1, <1>2, <1>4, <1>7, <1>8 DEF Unshared

LEMMA StepUnshared ==
  ASSUME TypeOK, Handled, ~shared => Unshared, [Next]_vars, ~shared'
  PROVE  Unshared'
<1>1. CASE UNCHANGED vars
  <2>1. Shares' <=> Shares
    BY <1>1 DEF vars, Shares, Holds
  <2> QED BY <1>1, <2>1, UnsharedKept DEF vars, Unshared
<1>2. ASSUME Next PROVE Unshared'
  <2>0. Unshared /\ ~Shares' /\ Step
    BY <1>2 DEF Next, TypeOK
  <2>1. ASSUME NEW f \in Files, NEW p \in Ports, Connect(f, p) PROVE Unshared'
    BY <2>0, <2>1, ConnectUnshared
  <2>2. ASSUME ConnectAttaches \/ ConnectListens \/ ConnectEnds PROVE Unshared'
    BY <2>0, <2>2, AttachUnshared, ListenUnshared
  <2>3. ASSUME NEW f \in Files, ReleaseCloses(f) PROVE Unshared'
    BY <2>0, <2>3, CloseUnshared
  <2>4. ASSUME \A f \in Files, p \in Ports : ~Connect(f, p), \A f \in Files : ~ReleaseCloses(f) ,
               table' = table, hnd' = hnd, con' = con,
               \A f \in Files : priv'[f] = priv[f] \/ priv'[f] = 0,
               \A f \in Files : rel'[f] = "none" => rel[f] = "none",
               bad' # "file"
        PROVE  Unshared'
    BY <2>0, <2>4, StepFields, UnsharedKept
  <2> DEFINE Else == (\A f \in Files, p \in Ports : ~Connect(f, p)) /\ \A f \in Files : ~ReleaseCloses(f)
  <2>5. ASSUME Irq, Else PROVE Unshared'
    <3>1. /\ table' = table /\ hnd' = hnd /\ con' = con /\ priv' = priv /\ rel' = rel
          /\ bad' \in {"irq", bad}
      BY <2>5 DEF Irq, IrqFinds, IrqChecks, IrqNotifies, IrqAppends, IrqAdvances, IrqAt, Blame
    <3> QED BY <2>0, <2>4, <2>5, <3>1 DEF Unshared
  <2>6. ASSUME NEW p \in Ports, CardSends(p), Else PROVE Unshared'
    BY <2>0, <2>4, <2>6 DEF CardSends, handles, users, hist, Unshared
  <2>7. ASSUME NEW f \in Files, Open(f) \/ ConnectFails(f), Else PROVE Unshared'
    <3>1. \A g \in Files : priv'[g] = priv[g] \/ priv'[g] = 0
      BY <2>7 DEF Open, ConnectFails, TypeOK
    <3> QED BY <2>0, <2>4, <2>7, <3>1 DEF Open, ConnectFails, handles, hist, Unshared
  <2>8. ASSUME NEW f \in Files, Stop(f) \/ Read(f), Else PROVE Unshared'
    BY <2>0, <2>4, <2>8 DEF Stop, Read, users, Blame, Unshared
  <2>9. ASSUME NEW f \in Files, Write(f), Else PROVE Unshared'
    <3>1. hnd[msg[priv[f]].pci].live
      BY <2>0, <2>9 DEF Write, Unshared, Reached, Reaches
    <3> QED BY <2>0, <2>4, <2>9, <3>1 DEF Write, handles, users, Blame, Unshared
  <2>10. ASSUME NEW f \in Files, Poll(f) \/ PollLooks(f) \/ PollGivesUp(f), Else PROVE Unshared'
    BY <2>0, <2>4, <2>10 DEF Poll, PollLooks, PollGivesUp, handles, hist, Unshared
  <2>11. ASSUME NEW f \in Files, Release(f), Else PROVE Unshared'
    <3>1. CASE priv[f] # 0
      BY <2>0, <2>11, <3>1, ReleaseUnshared
    <3>2. CASE priv[f] = 0
      BY <2>0, <2>4, <2>11, <3>2 DEF Release, Unshared
    <3> QED BY <3>1, <3>2
  <2>12. ASSUME NEW f \in Files, ReleaseEmpties(f), Else PROVE Unshared'
    <3>1. \A g \in Files : rel'[g] = "none" => rel[g] = "none"
      BY <2>12 DEF ReleaseEmpties, TypeOK
    <3> QED BY <2>0, <2>4, <2>12, <3>1 DEF ReleaseEmpties, hist, Unshared
  <2> HIDE DEF Else
  <2>13. Else \/ (\E f \in Files, p \in Ports : Connect(f, p)) \/ \E f \in Files : ReleaseCloses(f)
    BY DEF Else
  <2> QED
    BY <2>0, <2>1, <2>2, <2>3, <2>5, <2>6, <2>7, <2>8, <2>9, <2>10, <2>11, <2>12, <2>13 DEF Step
<1> QED BY <1>1, <1>2

-----------------------------------------------------------------------------
(* The theorems                                                            *)

LEMMA InitInv == Init => UserInv
<1> SUFFICES ASSUME Init PROVE UserInv
  OBVIOUS
<1>1. TypeOK
  BY InitType
<1>2. \A m \in Ids : msg[m].list = <<>>
  BY DEF Init, GoneMsg
<1>3. Dealt
  <2>1. Rising(<<>>) /\ Members(<<>>) = {}
    BY DEF Rising, Members
  <2>2. InRing /\ HasRead /\ OnceInOrder
    BY DEF Init, InRing, HasRead, OnceInOrder, NoIrq
  <2>3. InQueues
    BY <1>2, <2>1 DEF InQueues, Queue
  <2> QED BY <2>2, <2>3 DEF Dealt
<1>4. Handled
  BY DEF Init, Handled, HasHandle, Releasing, Polling, Connecting, NoCon, NoPoll
<1>5. \A f \in Files : poller[f].pc # "sleep"
  BY DEF Init, NoPoll
<1>6. Unshared
  <2>1. con.file = None /\ con.pc = "none" /\ bad = "none"
    BY DEF Init, NoCon
  <2>2. \A f \in Files : priv[f] = 0 /\ con.file # f
    BY <2>1, UserDevAssumption DEF Init
  <2>3. \A f \in Files : Holds(f) = {}
    BY <2>2 DEF Holds
  <2>4. Listed /\ Reached /\ Heard
    BY <2>1, <2>2 DEF Init, Listed, Reached, Heard
  <2> QED BY <2>1, <2>3, <2>4 DEF Unshared, Shares
<1> QED BY <1>1, <1>3, <1>4, <1>5, <1>6 DEF UserInv

LEMMA StepInv == UserInv /\ [Next]_vars => UserInv'
<1> SUFFICES ASSUME UserInv, [Next]_vars PROVE UserInv'
  OBVIOUS
<1>1. TypeOK'
  BY StepType DEF UserInv, Dealt
<1>2. Dealt'
  BY StepDealt DEF UserInv
<1>3. Handled'
  BY StepHandled DEF UserInv
<1>4. \A f \in Files : poller'[f].pc = "sleep" => Sleeps(f)'
  BY StepSleeps DEF UserInv
<1>5. ~shared' => Unshared'
  BY StepUnshared DEF UserInv
<1> QED BY <1>1, <1>2, <1>3, <1>4, <1>5 DEF UserInv

LEMMA Inductive == Spec => []UserInv
BY InitInv, StepInv, PTL DEF Spec

\* The variables keep their types, whoever uses a freed handle.
THEOREM UserTypeCorrect == Spec => []TypeOK
BY Inductive, PTL DEF UserInv

\* Readers get each message once, and each connection in the order of the
\* card (ax_pcie_msg_notifier_recv, ax_pcie_msg_read).
THEOREM ReadsOnceInOrder == Spec => []OnceInOrder
BY Inductive, PTL DEF UserInv, Dealt

\* A file that is connected is found by the interrupt handler, unless two
\* files had the transfer handle of one port (ax_pcie_open).
THEOREM ConnectedFilesHear == Spec => []HeardUnlessShared
<1>1. UserInv => HeardUnlessShared
  <2> SUFFICES ASSUME UserInv, ~shared, NEW f \in Files, Works(f), priv[f] # 0, con.file # f
               PROVE  /\ table[msg[priv[f]].port] = msg[priv[f]].pci
                      /\ hnd[msg[priv[f]].pci] = [live |-> TRUE, notifier |-> TRUE, data |-> priv[f]]
    BY DEF HeardUnlessShared
  <2> QED BY DEF UserInv, Unshared, Reached, Reaches, Heard, Hears, Works
<1> QED BY <1>1, Inductive, PTL

\* No call of a file uses a freed transfer handle but by such sharing.
THEOREM FreedOnlyBySharing == Spec => []FilesUseFreedOnlyIfShared
<1>1. UserInv => FilesUseFreedOnlyIfShared
  BY DEF UserInv, Unshared, FilesUseFreedOnlyIfShared
<1> QED BY <1>1, Inductive, PTL

\* poll_wait before the look at the queue, and wake_up after the message is
\* queued: no wakeup is lost, but to a poll whose queue a CONNECT has replaced
\* since it began.
THEOREM NoLostWakeup == Spec => []OversleepsOnlyReconnected
<1>1. UserInv => OversleepsOnlyReconnected
  BY DEF UserInv, Sleeps, Reconnected, OversleepsOnlyReconnected
<1> QED BY <1>1, Inductive, PTL
=============================================================================
