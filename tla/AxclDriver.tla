----------------------------- MODULE AxclDriver -----------------------------
(***************************************************************************)
(* The life of the driver axcl_pcie_host.c on top of the device map: its   *)
(* init function takes all cards through firmware, ports, handshake, time  *)
(* and heartbeat thread, phase by phase; a BOOT or RESET takes one card    *)
(* there again; its exit function stops the threads and resets the cards.  *)
(* All the while cards may be plugged and unplugged (AxDevMap), firmware   *)
(* goes to a card that answers when it likes (AxclFirmware), and each      *)
(* thread looks at the heartbeat in its card's shared memory.              *)
(*                                                                         *)
(* Processes and their ports are AxclPorts, verdicts and events of the     *)
(* threads AxclHeartbeat, the steps of a handshake Handshake.  Here a use  *)
(* of memory that is gone stops everything and is recorded in bad.         *)
(***************************************************************************)
EXTENDS AxclFirmware

CONSTANTS
  MaxThreads, \* entries of heartbeat[], 32 in the code; the map has MaxDev places
  MaxProbes,  \* bound: probes
  MaxEvents   \* bound: removes, calls of processes, missed heartbeats, failed chunks, together

ASSUME DriverAssumption == MaxThreads \in Nat

VARIABLES
  host,      \* the call of the driver under way: init, an ioctl, exit
  status,    \* heartbeat_status of each card
  ports,     \* common ports of a card that are open; the table is in its record
  queues,    \* cards whose heart_waitqueue is initialised
  heartbeat, \* heartbeat[], and the memory behind it: the card of the thread at each
             \* place of the map
  thread,    \* where each card's thread is
  stops,     \* cards whose thread kthread_stop waits for
  dangling,  \* who points to a record that was freed: threads, by card, or "host"
  bad,       \* the first use of what is not there
  cause,     \* history: what happened that may explain it
  used       \* history: probes and events so far, for the bounds

drvVars == <<status, ports, queues, heartbeat, thread, stops>>
vars == <<mapVars, fwVars, host, drvVars, dangling, bad, cause, used>>

AtHost(pc) == host.pc = pc
Idle == [pc |-> "up", i |-> 0, card |-> None, op |-> "up", next |-> "out", walk |-> 0]
Enters(pc) == host' = [Idle EXCEPT !.pc = pc, !.op = host.op]
NextCard(pc) == host' = [Idle EXCEPT !.pc = pc, !.op = host.op, !.i = host.i + 1]
d1 == host.card
Loaded == host.pc \notin {"out", "gone", "failed"}
Ioctl == host.op \in {"reset", "boot"}
Holds(d) == Usable(d) /\ "host" \notin dangling
Dies(d) == status' = [status EXCEPT ![d] = "dead"]
Probed == used.probes < MaxProbes /\ used' = [used EXCEPT !.probes = @ + 1]
Happens == used.events + fails < MaxEvents /\ used' = [used EXCEPT !.events = @ + 1]

Breaks(how) ==
  bad' = how /\ UNCHANGED <<mapVars, fwVars, host, drvVars, dangling, cause, used>>

Init ==
  /\ MapInit /\ FwInit
  /\ host = [Idle EXCEPT !.pc = "out", !.op = "init"]
  /\ status = [d \in Cards |-> "none"] /\ ports = [d \in Cards |-> 0]
  /\ queues = {} /\ heartbeat = [i \in Slots |-> None]
  /\ thread = [d \in Cards |-> "none"] /\ stops = {} /\ dangling = {}
  /\ bad = "no" /\ cause = {}
  /\ used = [probes |-> 0, events |-> 0]

-----------------------------------------------------------------------------
(* Cards come and go, and answer *)

Probe(d) ==
  /\ Probed /\ ProbeCard(d)
  /\ boot' = [boot EXCEPT ![d].on = TRUE]
  /\ cause' = cause \cup {c \in {"late"} : number' > number /\ ~AtHost("out")}
                   \cup {c \in {"many"} : number' > MaxThreads}
  /\ UNCHANGED <<load, buf, fails, lateDump, host, drvVars, dangling, bad>>

\* Without power a card loses its program; unbound by hand it runs on.
Remove(d) ==
  /\ Happens /\ RemoveBegins(d)
  /\ boot' \in {boot, [boot EXCEPT ![d] = [Reset EXCEPT !.on = FALSE]]}
  /\ cause' = IF Loaded /\ bound[d] = "bound" THEN cause \cup {"unplugged"} ELSE cause
  /\ UNCHANGED <<load, buf, fails, lateDump, host, drvVars, dangling, bad>>

\* A record that is freed takes the port table with it.
RemoveGoesOn ==
  /\ RemoveStep
  /\ LET freed == {d \in Cards : "record" \in has[d] /\ "record" \notin has'[d]} IN
       /\ ports' = [d \in Cards |-> IF d \in freed THEN 0 ELSE ports[d]]
       /\ dangling' = dangling \cup {d \in freed : thread[d] # "none"}
                               \cup {h \in {"host"} : d1 \in freed}
  /\ UNCHANGED <<fwVars, host, status, queues, heartbeat, thread, stops, bad, cause, used>>

CardStep(d) ==
  Card(d) /\ UNCHANGED <<mapVars, host, drvVars, dangling, bad, cause, used>>

-----------------------------------------------------------------------------
(* axcl_pcie_host_init: one loop over the map per phase *)

InitBegins ==
  /\ AtHost("out") /\ Enters("fw")
  /\ cause' = IF CoreAt("idle") THEN cause ELSE cause \cup {"unplugged"}
  /\ UNCHANGED <<mapVars, fwVars, drvVars, dangling, bad, used>>

\* for (i = 0; i < remote_device_number; i++) target = map[i]->slot_index ...
Ends(pc, next) ==
  /\ AtHost(pc) /\ host.i >= number /\ Enters(next)
  /\ UNCHANGED <<mapVars, fwVars, drvVars, dangling, bad, cause, used>>
NullEntry(pc) == AtHost(pc) /\ host.i < number /\ map[host.i] = None /\ Breaks("null")
Entry(pc, d) == AtHost(pc) /\ host.i < number /\ map[host.i] = d

InitLoads(d) ==
  /\ Entry("fw", d) /\ LoadBegins(d)
  /\ host' = [host EXCEPT !.pc = "loading", !.card = d]
  /\ dangling' = dangling \ {"host"}
  /\ UNCHANGED <<mapVars, boot, drvVars, bad, cause, used>>

\* The copy to the buffer needs neither record nor BAR.
LoadStep ==
  /\ AtHost("loading")
  /\ \/ /\ Holds(d1) \/ LoadAt("copy")
        /\ Loading
        /\ UNCHANGED <<mapVars, host, drvVars, dangling, bad, cause, used>>
     \/ /\ ~Holds(d1) /\ load.pc \notin {"copy", "done"}
        /\ Breaks("freed")

\* A card that init has failed with is dead and is left out from then on; a
\* BOOT that fails ends.
InitLoaded ==
  /\ AtHost("loading") /\ LoadAt("done") /\ host.op = "init"
  /\ load' = NoLoad /\ NextCard("fw")
  /\ IF load.ok THEN UNCHANGED <<status, cause>>
                ELSE Dies(d1) /\ cause' = cause \cup {"failed"}
  /\ UNCHANGED <<mapVars, buf, boot, fails, lateDump, ports, queues, heartbeat, thread, stops,
                 dangling, bad, used>>

Skips(pc, d) ==
  /\ Entry(pc, d) /\ status[d] = "dead" /\ NextCard(pc)
  /\ UNCHANGED <<mapVars, fwVars, drvVars, dangling, bad, cause, used>>

\* axcl_pcie_host_port_open, n times: the table of the card then has n handles,
\* their notifier is set; one that fails leaves nothing.
PortsOpen(d, n) == ports' = [ports EXCEPT ![d] = n]

\* axcl_common_prot_create: the first port stays open when the second fails.
OpensPorts(d) ==
  /\ Entry("ports", d) /\ status[d] # "dead" /\ NextCard("ports")
  /\ \E n \in 0..2 :
       /\ PortsOpen(d, n)
       /\ IF n = 2 THEN UNCHANGED <<status, cause>>
                   ELSE Dies(d) /\ cause' = cause \cup {"failed"}
  /\ UNCHANGED <<mapVars, fwVars, queues, heartbeat, thread, stops, dangling, bad, used>>

\* The card is ALIVE however the handshake ends.
Shakes(d) ==
  /\ Entry("shake", d) /\ status[d] # "dead"
  /\ IF Usable(d)
     THEN /\ status' = [status EXCEPT ![d] = "alive"] /\ NextCard("shake")
          /\ UNCHANGED <<mapVars, fwVars, ports, queues, heartbeat, thread, stops,
                         dangling, bad, cause, used>>
     ELSE Breaks("freed")

\* A handshake, of init or of a BOOT, that finds no memory for a ring's record
\* and follows the NULL pointer.
RingFails ==
  /\ \/ \E d \in Cards : Entry("shake", d) /\ status[d] # "dead" /\ Usable(d)
     \/ AtHost("check") /\ Holds(d1)
  /\ bad' = "ring" /\ cause' = cause \cup {"nomem"}
  /\ UNCHANGED <<mapVars, fwVars, host, drvVars, dangling, used>>

\* axcl_timestamp_sync
Syncs(d) ==
  /\ Entry("time", d) /\ status[d] # "dead"
  /\ IF Usable(d)
     THEN NextCard("time") /\ UNCHANGED <<mapVars, fwVars, drvVars, dangling, bad, cause, used>>
     ELSE Breaks("freed")

\* kmalloc of axcl_handle.  What fails from here on fails the init function,
\* and the kernel frees the module.
InitFails ==
  /\ AtHost("alloc") \/ \E d \in Cards : Entry("spawn", d) /\ status[d] # "dead"
  /\ Enters("failed") /\ cause' = cause \cup {"initfailed"}
  /\ UNCHANGED <<mapVars, fwVars, drvVars, dangling, bad, used>>
Allocates ==
  /\ AtHost("alloc") /\ Enters("spawn")
  /\ UNCHANGED <<mapVars, fwVars, drvVars, dangling, bad, cause, used>>

\* The place of a card in the map is its index into heartbeat[] too, which has
\* fewer entries: what is written or read past its end is anybody's.  (Or
\* nobody's: then Spawns and ExitStops find there what they have put there.)
Overruns(d) ==
  /\ host.i >= MaxThreads
  /\ \/ Entry("spawn", d) /\ status[d] # "dead"
     \/ Entry("exit", d)
  /\ Breaks("array")

\* The thread is kept by the place of its card in the map.
Spawns(d) ==
  /\ Entry("spawn", d) /\ status[d] # "dead" /\ NextCard("spawn")
  /\ queues' = queues \cup {d}
  /\ heartbeat' = [heartbeat EXCEPT ![host.i] = d]
  /\ thread' = [thread EXCEPT ![d] = "new"]
  /\ dangling' = dangling \ {d}
  /\ UNCHANGED <<mapVars, fwVars, status, ports, stops, bad, cause, used>>

InitEnds ==
  \/ Ends("fw", "ports") \/ Ends("ports", "shake") \/ Ends("shake", "time")
  \/ Ends("time", "alloc") \/ Ends("spawn", "up")

-----------------------------------------------------------------------------
(* slot_to_axdev, entry by entry *)

Finds(next) == host' = [host EXCEPT !.pc = "find", !.next = next, !.walk = 0]
NotThere(status1, host1) ==
  /\ status' = status1 /\ host' = host1
  /\ UNCHANGED <<mapVars, fwVars, ports, queues, heartbeat, thread, stops, dangling,
                 bad, cause, used>>

Walks ==
  /\ AtHost("find") /\ host.walk < number
  /\ \/ map[host.walk] = None /\ Breaks("null")
     \/ /\ map[host.walk] = d1
        /\ host' = [host EXCEPT !.pc = host.next] /\ dangling' = dangling \ {"host"}
        /\ UNCHANGED <<mapVars, fwVars, drvVars, bad, cause, used>>
     \/ /\ map[host.walk] \notin {None, d1}
        /\ host' = [host EXCEPT !.walk = @ + 1]
        /\ UNCHANGED <<mapVars, fwVars, drvVars, dangling, bad, cause, used>>

\* A card that is not found: host_reset_device returns, and a RESET goes on to
\* say that it is dead, a BOOT to load the firmware over a NULL pointer.
WalkFails ==
  /\ AtHost("find") /\ host.walk >= number
  /\ \/ /\ host.next = "reset" /\ host.op = "reset"
        /\ NotThere([status EXCEPT ![d1] = "dead"], Idle)
     \/ /\ host.next = "reset" /\ host.op = "boot" /\ Finds("load")
        /\ UNCHANGED <<mapVars, fwVars, drvVars, dangling, bad, cause, used>>
     \/ /\ host.next = "reset" /\ host.op = "exit" /\ NextCard("exit")
        /\ UNCHANGED <<mapVars, fwVars, drvVars, dangling, bad, cause, used>>
     \/ host.next = "load" /\ Breaks("null")
     \/ host.next = "check" /\ NotThere([status EXCEPT ![d1] = "dead"], Idle)
     \/ host.next = "sync" /\ NotThere(status, [host EXCEPT !.pc = "wake"])

-----------------------------------------------------------------------------
(* IOC_AXCL_DEVICE_RESET and IOC_AXCL_DEVICE_BOOT, under ioctl_mutex *)

\* Mutant: a BOOT does not reset the card first.
MutCall(d) ==
  /\ AtHost("up") /\ Happens
  /\ host' = [Idle EXCEPT !.pc = "find", !.next = "load", !.card = d, !.op = "boot"]
  /\ cause' = IF d \in {map[i] : i \in 0..(number - 1)} THEN cause ELSE cause \cup {"absent"}
  /\ UNCHANGED <<mapVars, fwVars, drvVars, dangling, bad>>

Call(d) ==
  /\ AtHost("up") /\ Happens
  /\ \E op \in {"reset", "boot"} :
       host' = [Idle EXCEPT !.pc = "find", !.next = "reset", !.card = d, !.op = op]
  /\ cause' = IF d \in {map[i] : i \in 0..(number - 1)} THEN cause ELSE cause \cup {"absent"}
  /\ UNCHANGED <<mapVars, fwVars, drvVars, dangling, bad>>

\* host_reset_slave_device: a card that does not get its configuration space
\* back answers no more.  It may come out of it with a boot reason that asks
\* for a dump.
Resets ==
  /\ AtHost("reset")
  /\ IF Holds(d1)
     THEN /\ \E crashed \in {FALSE, host.op = "boot"} :
               boot' = [boot EXCEPT ![d1] = [Reset EXCEPT !.on = boot[d1].on /\ Restorable(d1),
                                                          !.crashed = crashed]]
          /\ CASE host.op = "reset" -> Dies(d1) /\ host' = Idle
               [] host.op = "boot" -> Finds("load") /\ UNCHANGED status
               [] host.op = "exit" -> NextCard("exit") /\ UNCHANGED status
          /\ UNCHANGED <<mapVars, load, buf, fails, lateDump, ports, queues, heartbeat, thread,
                         stops, dangling, bad, cause, used>>
     ELSE Breaks("freed")

BootLoads ==
  /\ AtHost("load")
  /\ IF Holds(d1)
     THEN /\ LoadBegins(d1) /\ host' = [host EXCEPT !.pc = "loading"]
          /\ UNCHANGED <<mapVars, boot, drvVars, dangling, bad, cause, used>>
     ELSE Breaks("freed")

BootLoaded ==
  /\ AtHost("loading") /\ LoadAt("done") /\ host.op = "boot"
  /\ load' = NoLoad
  /\ IF load.ok THEN Finds("check") /\ UNCHANGED status
                ELSE Dies(d1) /\ host' = Idle
  /\ UNCHANGED <<mapVars, buf, boot, fails, lateDump, ports, queues, heartbeat, thread, stops,
                 dangling, bad, cause, used>>

\* ax_pcie_msg_check_remote; a card that does not run does not shake hands.
BootChecks ==
  /\ AtHost("check")
  /\ IF Holds(d1)
     THEN /\ \/ /\ boot[d1].started
                /\ status' = [status EXCEPT ![d1] = "alive"] /\ Finds("sync")
             \/ Dies(d1) /\ host' = Idle
          /\ UNCHANGED <<mapVars, fwVars, ports, queues, heartbeat, thread, stops,
                         dangling, bad, cause, used>>
     ELSE Breaks("freed")

BootSyncs ==
  /\ AtHost("sync")
  /\ IF Holds(d1)
     THEN /\ host' = [host EXCEPT !.pc = "wake"]
          /\ UNCHANGED <<mapVars, fwVars, drvVars, dangling, bad, cause, used>>
     ELSE Breaks("freed")

\* wake_up of a queue that is all zero follows a NULL pointer.
BootWakes ==
  /\ AtHost("wake")
  /\ IF d1 \in queues
     THEN /\ host' = Idle
          /\ UNCHANGED <<mapVars, fwVars, drvVars, dangling, bad, cause, used>>
     ELSE Breaks("queue")

-----------------------------------------------------------------------------
(* heartbeat_recv_thread *)

ThreadGoes(d, pc) == thread' = [thread EXCEPT ![d] = pc]

\* The argument points into the record, and the lookup is another walk.
ThreadStarts(d) ==
  /\ thread[d] = "new" /\ Loaded
  /\ CASE d \in dangling -> Breaks("freed")
       [] d \notin dangling /\ \E i \in WalkEnd(d) : map[i] = None -> Breaks("null")
       [] OTHER -> /\ ThreadGoes(d, IF WalkEnd(d) = {} THEN "ended" ELSE "loop")
                   /\ UNCHANGED <<mapVars, fwVars, host, status, ports, queues, heartbeat, stops,
                                  dangling, bad, cause, used>>

\* A thread whose card is dead waits and touches nothing.  One that finds its
\* card's heartbeat says again that the card is ALIVE; that a RESET may come in
\* between is AxclHeartbeat's matter.
ThreadLooks(d) ==
  /\ thread[d] = "loop" /\ d \notin stops /\ status[d] # "dead" /\ Loaded
  /\ IF d \notin dangling /\ "shm" \in has[d]
     THEN /\ \/ status' = [status EXCEPT ![d] = "alive"] /\ UNCHANGED <<thread, used>>
             \/ ThreadGoes(d, "missed") /\ Happens /\ UNCHANGED status
          /\ UNCHANGED <<mapVars, fwVars, host, ports, queues, heartbeat, stops,
                         dangling, bad, cause>>
     ELSE Breaks("freed")

ThreadGivesUp(d) ==
  /\ Loaded /\ thread[d] = "missed" /\ ~Ioctl
  /\ Dies(d) /\ ThreadGoes(d, "loop")
  /\ UNCHANGED <<mapVars, fwVars, host, ports, queues, heartbeat, stops, dangling, bad, cause,
                 used>>

ThreadStops(d) ==
  /\ thread[d] = "loop" /\ d \in stops /\ Loaded /\ ThreadGoes(d, "ended")
  /\ UNCHANGED <<mapVars, fwVars, host, status, ports, queues, heartbeat, stops, dangling, bad,
                 cause, used>>

\* The code of the thread is gone with the module.
ThreadLost(d) == ~Loaded /\ thread[d] \notin {"none", "ended"} /\ Breaks("code")

-----------------------------------------------------------------------------
(* axcl_pcie_host_exit *)

\* All files are closed.
ExitBegins ==
  /\ AtHost("up") /\ host' = [Idle EXCEPT !.pc = "exit", !.op = "exit"]
  /\ UNCHANGED <<mapVars, fwVars, drvVars, dangling, bad, cause, used>>

\* Mutant: a card without a thread is not reset.
MutExitStops(d) ==
  /\ Entry("exit", d)
  /\ IF heartbeat[host.i] = None
     THEN NextCard("exit") /\ UNCHANGED stops
     ELSE /\ host' = [host EXCEPT !.pc = "stopping", !.card = d]
          /\ stops' = stops \cup {heartbeat[host.i]}
  /\ UNCHANGED <<mapVars, fwVars, status, ports, queues, heartbeat, thread, dangling, bad, cause,
                 used>>

\* The thread that is found at the card's place in the map; it may be another
\* card's, or none.
ExitStops(d) ==
  /\ Entry("exit", d)
  /\ LET t == heartbeat[host.i] IN
     IF t = None
     THEN /\ host' = [host EXCEPT !.pc = "find", !.next = "reset", !.walk = 0, !.card = d]
          /\ UNCHANGED <<mapVars, fwVars, drvVars, dangling, bad, cause, used>>
     ELSE IF d \notin queues THEN Breaks("queue")
     ELSE IF thread[t] = "ended" THEN Breaks("ended")
     ELSE /\ stops' = stops \cup {t}
          /\ host' = [host EXCEPT !.pc = "stopping", !.card = d]
          /\ UNCHANGED <<mapVars, fwVars, status, ports, queues, heartbeat, thread, dangling, bad,
                         cause, used>>

\* Mutant: the thread is told to stop and not waited for.
MutExitStopped ==
  /\ AtHost("stopping") /\ Finds("reset")
  /\ UNCHANGED <<mapVars, fwVars, drvVars, dangling, bad, cause, used>>

ExitStopped ==
  /\ AtHost("stopping") /\ \A t \in stops : thread[t] = "ended"
  /\ Finds("reset")
  /\ UNCHANGED <<mapVars, fwVars, drvVars, dangling, bad, cause, used>>

\* axcl_del_mem_list and the end of the module
ExitEnds == Ends("exit", "gone")

-----------------------------------------------------------------------------
Phases == {"fw", "ports", "shake", "time", "spawn", "exit"}

Driver ==
  \/ InitBegins \/ InitEnds \/ InitLoaded \/ InitFails \/ Allocates
  \/ \E pc \in Phases : NullEntry(pc)
  \/ \E d \in Cards : \/ InitLoads(d) \/ OpensPorts(d) \/ Shakes(d) \/ Syncs(d) \/ Spawns(d)
                      \/ Overruns(d) \/ Call(d) \/ ExitStops(d)
                      \/ \E pc \in {"ports", "shake", "time", "spawn"} : Skips(pc, d)
  \/ LoadStep \/ Walks \/ WalkFails \/ Resets \/ BootLoads \/ BootLoaded
  \/ BootChecks \/ RingFails \/ BootSyncs \/ BootWakes
  \/ ExitBegins \/ ExitStopped \/ ExitEnds

Thread(d) ==
  ThreadStarts(d) \/ ThreadLooks(d) \/ ThreadGivesUp(d) \/ ThreadStops(d) \/ ThreadLost(d)

Next ==
  /\ bad = "no"
  /\ \/ Driver \/ RemoveGoesOn
     \/ \E d \in Cards : Probe(d) \/ Remove(d) \/ CardStep(d) \/ Thread(d)

Spec == Init /\ [][Next]_vars

-----------------------------------------------------------------------------
(* Properties *)

\* A card is started only with the whole image in its memory, each part where
\* it belongs, whatever answers come late from commands that the host gave
\* up: a BOOT resets the card first.  Two exceptions: a dump that was given
\* up, after which the load goes on with the same buffer and the same status
\* word; and a card that init meets twice, without a reset in between, because
\* another one is removed: for a moment it is in the map at two places.
StartedWhole ==
  \A d \in Cards : boot[d].started =>
    \/ \A p \in Image : boot[d].mem[p] = p
    \/ lateDump \/ "unplugged" \in cause

\* What is not there is used only for a cause.  A NULL entry of the map and
\* freed memory: only if a card was unplugged under the driver, or a BOOT
\* names a card that is not there; a wait queue that nobody initialised: only
\* if a card failed in init, came later, or another one left and the places
\* in the map moved; a thread that outlives the module or ended before it: only
\* for an unplugged card or an init that failed half-way; what lies behind the
\* array of the threads: only after the map had more cards than the array has
\* entries; a ring that was never made: only if there was no memory for it.
Causes == [no |-> {}, null |-> {"unplugged", "absent"}, freed |-> {"unplugged"},
           queue |-> {"failed", "late", "unplugged"},
           code |-> {"unplugged", "initfailed"}, ended |-> {"unplugged"},
           array |-> {"many"}, ring |-> {"nomem"}]
BadForCause == bad # "no" => cause \cap Causes[bad] # {}

\* Once the module is gone no card runs that could send to the ports it left
\* open (their notifiers are its code): exit has reset every card that
\* was not unplugged meanwhile, also those that were dead.
QuietAfterExit ==
  AtHost("gone") /\ "unplugged" \notin cause =>
    \A d \in Cards : boot[d].started => ports[d] = 0
=============================================================================
