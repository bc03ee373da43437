---------------------------- MODULE AxclHeartbeat ----------------------------
(***************************************************************************)
(* Who is alive: the heartbeat threads of axcl_pcie_host.c, the status of  *)
(* each card, and the RESET and BOOT ioctls that set the same status.      *)
(*                                                                         *)
(* A running card counts up in a packet in the shared memory.  One kernel  *)
(* thread per card waits for the count to pass the value it read last.  If *)
(* that takes too long it declares the card dead under ioctl_mutex: every  *)
(* process loses its handle on the card and is signalled through poll.  It *)
(* reads the status, and sets it to ALIVE, without the mutex.  BOOT holds  *)
(* the mutex while the card restarts, which may take longer than the       *)
(* thread waits for a beat.                                                *)
(***************************************************************************)
EXTENDS Integers, FiniteSets

CONSTANTS
  Procs,        \* openers of the device file
  Devices,      \* cards
  NoFirmware,   \* cards whose firmware load failed when the driver started
  NoHandshake,  \* cards whose handshake failed then
  MaxBeats,     \* bound: beats of a card between two boots
  MaxStarts,    \* bound: BOOT and RESET ioctls
  MaxEvents,    \* bound: events the wake-up ioctl raises
  Prompt,       \* TRUE: a running card beats within the thread's timeout
  None

ASSUME HeartbeatAssumption ==
  /\ NoFirmware \subseteq Devices
  /\ NoHandshake \subseteq Devices \ NoFirmware
  /\ MaxBeats \in Nat /\ MaxStarts \in Nat /\ MaxEvents \in Nat
  /\ Prompt \in BOOLEAN
  /\ None \notin Devices \X {"restarting", "connected", "alive", "oops"}

VARIABLES
  status,   \* heartbeat_status.status[d]
  htcond,   \* htcondition[d]
  pc,       \* where the thread of d is; "none" if there is no thread
  count,    \* its last count
  misled,   \* cards whose thread has its packet pointer in the wrong window
  packet,   \* the packet in shared memory: [valid, count]
  up,       \* up[d]: the card runs and has shaken hands
  boot,     \* the BOOT that holds ioctl_mutex and how far it is, or None
  starts,   \* BOOT and RESET ioctls so far
  handles,  \* <<p, d>> for every device_handle_t
  event,    \* process_info_t.event
  beaten,   \* history: the card beat since its thread began to wait (and since
            \* its packet was overwritten)
  booted,   \* history: since the thread's count was set the card was booted
            \* although the thread had not declared it dead
  unseen    \* history: cards p lost and no poll has told it about

statusVars == <<status, htcond>>
threadVars == <<pc, count, misled, beaten, booted>>
cardVars == <<packet, up>>
userVars == <<handles, event, unseen>>
ioctlVars == <<boot, starts>>
vars == <<statusVars, threadVars, cardVars, userVars, ioctlVars>>

Silent == [valid |-> FALSE, count |-> 0]

\* axcl_pcie_host_init: a card without firmware is DEAD and gets no thread; a
\* card that did not shake hands is ALIVE like the others.  If it gave up in
\* step 0 of the handshake, shm_base_virt is still the BAR window, and that is
\* the address its thread remembers for good.
Init ==
  /\ status = [d \in Devices |-> IF d \in NoFirmware THEN "DEAD" ELSE "ALIVE"]
  /\ htcond = [d \in Devices |-> d \notin NoFirmware]
  /\ pc = [d \in Devices |-> IF d \in NoFirmware THEN "none" ELSE "top"]
  /\ count = [d \in Devices |-> 0]
  /\ misled \in SUBSET NoHandshake
  /\ packet = [d \in Devices |-> Silent]
  /\ up = [d \in Devices |-> d \notin NoFirmware \cup NoHandshake]
  /\ boot = None
  /\ starts = 0
  /\ handles = {}
  /\ event = [p \in Procs |-> 0]
  /\ beaten = [d \in Devices |-> FALSE]
  /\ booted = [d \in Devices |-> FALSE]
  /\ unseen = [p \in Procs |-> {}]

MutexFree == boot = None

-----------------------------------------------------------------------------
(* The heartbeat thread of d.                                              *)

Step(d, from, to) == pc[d] = from /\ pc' = [pc EXCEPT ![d] = to]

\* axcl_heartbeat_status: the packet is there and its count has passed.
MutReady(d) == d \notin misled /\ packet[d].valid
Ready(d) ==
  /\ d \notin misled
  /\ packet[d].valid
  /\ packet[d].count >= count[d] + 1

BeginsWait(d) == beaten' = [beaten EXCEPT ![d] = FALSE]

\* The thread takes n for its count, 0 after it has declared the card dead.
MutCounts(d, n) ==
  /\ count' = [count EXCEPT ![d] = IF n = 0 THEN @ ELSE n]
  /\ booted' = [booted EXCEPT ![d] = FALSE]

Counts(d, n) ==
  /\ count' = [count EXCEPT ![d] = n]
  /\ booted' = [booted EXCEPT ![d] = FALSE]

\* The top of the loop looks at the status.
Look(d) ==
  /\ \/ status[d] = "ALIVE" /\ Step(d, "top", "recv") /\ BeginsWait(d)
     \/ status[d] = "DEAD" /\ Step(d, "top", "wait") /\ UNCHANGED beaten
  /\ UNCHANGED <<statusVars, count, booted, misled, cardVars, userVars, ioctlVars>>

\* wait_event_timeout returns, for the condition or after 5000 jiffies; in either
\* case only the status counts.
MutWake(d) ==
  /\ Step(d, "wait", "recv")
  /\ BeginsWait(d)
  /\ UNCHANGED <<statusVars, count, booted, misled, cardVars, userVars, ioctlVars>>

Wake(d) ==
  /\ \/ status[d] = "ALIVE" /\ Step(d, "wait", "recv") /\ BeginsWait(d)
     \/ status[d] = "DEAD" /\ Step(d, "wait", "top") /\ UNCHANGED beaten
  /\ UNCHANGED <<statusVars, count, booted, misled, cardVars, userVars, ioctlVars>>

\* axcl_heartbeat_recv_timeout sees a new count.
SeeBeat(d) ==
  /\ Ready(d)
  /\ Step(d, "recv", "beat")
  /\ Counts(d, packet[d].count)
  /\ UNCHANGED <<statusVars, misled, beaten, cardVars, userVars, ioctlVars>>

\* It gives up.  A card that is prompt has beaten by then if it runs.
GiveUp(d) ==
  /\ ~Ready(d)
  /\ Prompt => ~up[d] \/ beaten[d]
  /\ Step(d, "recv", "lost")
  /\ UNCHANGED <<statusVars, count, misled, beaten, booted, cardVars, userVars, ioctlVars>>

\* The card is declared dead, as soon as the mutex is free.  A process is
\* signalled if it loses a handle or has no handle at all; one that only uses
\* other cards is not.
MutSignalled(p, d) == \A e \in Devices : <<p, e>> \notin handles
Signalled(p, d) == <<p, d>> \in handles \/ \A e \in Devices : <<p, e>> \notin handles

DeclareDead(d) ==
  /\ status' = [status EXCEPT ![d] = "DEAD"]
  /\ htcond' = [htcond EXCEPT ![d] = FALSE]

Lost(d) ==
  /\ MutexFree
  /\ Step(d, "lost", "top")
  /\ DeclareDead(d)
  /\ Counts(d, 0)
  /\ event' = [p \in Procs |-> event[p] + (IF Signalled(p, d) THEN 1 ELSE 0)]
  /\ unseen' = [p \in Procs |-> unseen[p] \cup {e \in {d} : <<p, e>> \in handles}]
  /\ handles' = handles \ (Procs \X {d})
  /\ UNCHANGED <<misled, beaten, cardVars, ioctlVars>>

\* After a beat the status is set without the mutex.
SetAlive(d) ==
  /\ Step(d, "beat", "top")
  /\ status' = [status EXCEPT ![d] = "ALIVE"]
  /\ UNCHANGED <<htcond, count, misled, beaten, booted, cardVars, userVars, ioctlVars>>

-----------------------------------------------------------------------------
(* The control device.                                                     *)

\* A create the card confirms; what else a create does is in AxclPorts.
Create(p, d) ==
  /\ MutexFree
  /\ up[d]
  /\ <<p, d>> \notin handles
  /\ handles' = handles \cup {<<p, d>>}
  /\ unseen' = [unseen EXCEPT ![p] = @ \ {d}]
  /\ UNCHANGED <<event, statusVars, threadVars, cardVars, ioctlVars>>

Destroy(p, d) ==
  /\ MutexFree
  /\ <<p, d>> \in handles
  /\ handles' = handles \ {<<p, d>>}
  /\ UNCHANGED <<event, unseen, statusVars, threadVars, cardVars, ioctlVars>>

\* poll reports one event at a time.
HasEvent(p) == event[p] > 0

Poll(p) ==
  /\ MutexFree
  /\ HasEvent(p)
  /\ event' = [event EXCEPT ![p] = @ - 1]
  /\ unseen' = [unseen EXCEPT ![p] = {}]
  /\ UNCHANGED <<handles, statusVars, threadVars, cardVars, ioctlVars>>

WakeUpPoll(p) ==
  /\ MutexFree
  /\ event[p] < MaxEvents
  /\ event' = [event EXCEPT ![p] = @ + 1]
  /\ UNCHANGED <<handles, unseen, statusVars, threadVars, cardVars, ioctlVars>>

\* host_reset_device stops the card; only the caller loses its handle.
StopCard(p, d) ==
  /\ MutexFree
  /\ starts < MaxStarts
  /\ starts' = starts + 1
  /\ up' = [up EXCEPT ![d] = FALSE]
  /\ handles' = handles \ {<<p, d>>}

ResetDevice(p, d) ==
  /\ StopCard(p, d)
  /\ status' = [status EXCEPT ![d] = "DEAD"]
  /\ UNCHANGED <<htcond, boot, packet, event, unseen, threadVars>>

BootStart(p, d) ==
  /\ StopCard(p, d)
  /\ boot' = <<d, "restarting">>
  /\ UNCHANGED <<statusVars, packet, event, unseen, threadVars>>

\* The firmware load or the handshake fails.  A handshake that fails late has
\* cleared the packet.
BootFails(d) ==
  /\ boot = <<d, "restarting">>
  /\ boot' = None
  /\ status' = [status EXCEPT ![d] = "DEAD"]
  /\ packet' \in {packet, [packet EXCEPT ![d] = Silent]}
  /\ UNCHANGED <<htcond, threadVars, up, userVars, starts>>

\* The handshake finds no memory for the record of a ring and follows the NULL
\* pointer, with the mutex locked, before or after it has cleared the packet.
BootCrashes(d) ==
  /\ boot = <<d, "restarting">>
  /\ boot' = <<d, "oops">>
  /\ packet' \in {packet, [packet EXCEPT ![d] = Silent]}
  /\ UNCHANGED <<statusVars, threadVars, up, userVars, starts>>

\* The handshake succeeds.  Its words lie where the packet lies, so the packet
\* of the card's earlier life is gone.
BootConnects(d) ==
  /\ boot = <<d, "restarting">>
  /\ boot' = <<d, "connected">>
  /\ up' = [up EXCEPT ![d] = TRUE]
  /\ packet' = [packet EXCEPT ![d] = Silent]
  /\ booted' = [booted EXCEPT ![d] = htcond[d]]
  /\ UNCHANGED <<statusVars, pc, count, misled, beaten, userVars, starts>>

BootSetsAlive(d) ==
  /\ boot = <<d, "connected">>
  /\ boot' = <<d, "alive">>
  /\ status' = [status EXCEPT ![d] = "ALIVE"]
  /\ UNCHANGED <<htcond, threadVars, cardVars, userVars, starts>>

\* The time stamp for the card overwrites the word that says whose packet it is.
TimestampSync(d) ==
  /\ packet' = [packet EXCEPT ![d] = [valid |-> FALSE, count |-> @.count]]
  /\ beaten' = [beaten EXCEPT ![d] = FALSE]

\* Then the thread is woken and the mutex released.  A card that was DEAD when
\* the driver started has a wait queue that was never initialised: the wake-up
\* follows a null pointer, and the mutex stays locked.
BootEnds(d) ==
  /\ boot = <<d, "alive">>
  /\ boot' = IF pc[d] = "none" THEN <<d, "oops">> ELSE None
  /\ TimestampSync(d)
  /\ htcond' = [htcond EXCEPT ![d] = TRUE]
  /\ UNCHANGED <<status, pc, count, misled, booted, up, userVars, starts>>

-----------------------------------------------------------------------------
(* The card.                                                               *)

Beat(d) ==
  /\ up[d]
  /\ packet[d].count < MaxBeats
  /\ packet' = [packet EXCEPT ![d] = [valid |-> TRUE, count |-> @.count + 1]]
  /\ beaten' = [beaten EXCEPT ![d] = TRUE]
  /\ UNCHANGED <<statusVars, pc, count, misled, booted, up, userVars, ioctlVars>>

Crash(d) ==
  /\ up[d]
  /\ up' = [up EXCEPT ![d] = FALSE]
  /\ UNCHANGED <<statusVars, threadVars, packet, userVars, ioctlVars>>

Thread(d) == Look(d) \/ Wake(d) \/ SeeBeat(d) \/ GiveUp(d) \/ Lost(d) \/ SetAlive(d)

BootGoesOn(d) ==
  BootFails(d) \/ BootCrashes(d) \/ BootConnects(d) \/ BootSetsAlive(d) \/ BootEnds(d)

Next ==
  \/ \E d \in Devices : Thread(d) \/ BootGoesOn(d) \/ Beat(d) \/ Crash(d)
  \/ \E p \in Procs : Poll(p) \/ WakeUpPoll(p)
  \/ \E p \in Procs, d \in Devices :
       Create(p, d) \/ Destroy(p, d) \/ ResetDevice(p, d) \/ BootStart(p, d)

\* The threads are scheduled, their timeouts expire, and a BOOT ends: each of
\* its loops has a timeout.  Nothing else has to happen.
Spec ==
  /\ Init /\ [][Next]_vars
  /\ \A d \in Devices : WF_vars(Thread(d)) /\ WF_vars(BootGoesOn(d))

-----------------------------------------------------------------------------
(* Properties.                                                             *)

Phases == {"restarting", "connected", "alive", "oops"}

\* The variables have their types.
TypeOK ==
  /\ status \in [Devices -> {"DEAD", "ALIVE"}]
  /\ htcond \in [Devices -> BOOLEAN]
  /\ pc \in [Devices -> {"none", "top", "wait", "recv", "beat", "lost"}]
  /\ count \in [Devices -> Nat]
  /\ misled \subseteq Devices
  /\ packet \in [Devices -> [valid : BOOLEAN, count : Nat]]
  /\ up \in [Devices -> BOOLEAN]
  /\ boot \in (Devices \X Phases) \cup {None}
  /\ starts \in Nat
  /\ handles \subseteq Procs \X Devices
  /\ event \in [Procs -> Nat]
  /\ beaten \in [Devices -> BOOLEAN]
  /\ booted \in [Devices -> BOOLEAN]
  /\ unseen \in [Procs -> SUBSET Devices]

\* Once the thread has declared a card dead (htcondition is false), the card
\* stays DEAD until a BOOT is through: no beat the thread saw earlier, no
\* timed wake-up and no late beat of the card brings it back.
VerdictStands ==
  \A d \in Devices :
    ~htcond[d] => status[d] = "DEAD" \/ boot = <<d, "alive">>

\* A thread that watches the right window gives up a running card that beat
\* while it waited only if the card was booted behind its back: before the
\* thread had declared it dead, so that it waits with the count of the card's
\* earlier life.  A card that was booted after the verdict is not given up.
GivenUpForCause ==
  [][\A d \in Devices \ misled :
       pc[d] # "lost" /\ pc'[d] = "lost" => ~up[d] \/ ~beaten[d] \/ booted[d]]_vars

\* A process that lost a handle to the thread has an event waiting for it
\* until a poll has told it, whatever polls and other losses come between.
LossSignalled == \A p \in Procs : unseen[p] # {} => event[p] > 0

\* A BOOT has followed a null pointer: that of a card that failed when the
\* driver started, which is ALIVE then with nobody to watch it, or one that had
\* no memory for a ring.  No thread, of whatever card, gets the mutex for a
\* verdict again.
Stuck == \E d \in Devices : boot = <<d, "oops">>

\* A card that has stopped for good is declared dead and stays so, although
\* the thread sets ALIVE without the mutex.  One exception, for every card of
\* the host: a BOOT that crashes (Stuck), be it one that succeeds with a card
\* that has no thread or one without memory for a ring.  Without that a card
\* without a thread is never taken for ALIVE.
DeathNoticed ==
  \A d \in Devices : <>[]~up[d] => <>[](status[d] = "DEAD") \/ <>Stuck

=============================================================================
