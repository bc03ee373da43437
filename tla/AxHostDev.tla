----------------------------- MODULE AxHostDev -----------------------------
(***************************************************************************)
(* The module ax_pcie_host_dev around the device map: its init and exit,   *)
(* its proc files, and the calls that other modules and readers of the     *)
(* proc files make: lists of cards (axcl, user message device), addresses  *)
(* for peer-to-peer, statistics, and the connect, send and receive of      *)
(* messages as far as they concern the ring records and the statistics.    *)
(* All of them walk the map without a lock, while cards come and go.       *)
(*                                                                         *)
(* What the ring holds is MsgRing, the handshake Handshake.  A use of what *)
(* is not there stops everything and is recorded in bad.                   *)
(***************************************************************************)
EXTENDS AxDevMap

CONSTANTS
  Callers,   \* contexts in which calls run
  P2PMax,    \* P2P_DEVICE_NUMBER_MAX
  MaxProbes, \* bound: probes that do not fail
  MaxCalls,  \* bound: calls and events together
  MaxEvents  \* bound, for each of the clients below: events, which are removes,
             \* failures and writes of the policy 0

Clients == {"net", "rest"}
ASSUME HostAssumption ==
  {MaxProbes, MaxCalls, P2PMax} \subseteq Nat /\ MaxEvents \in [Clients -> Nat]

VARIABLES
  clients, \* which modules use the map: "net" (AxNetDevice) or "rest"
  module,  \* ax_pcie_host_init or exit, and how many files it has made
  files,   \* the proc files there are, and those whose read function is set
  hook,    \* pcie_proc.get_rp_wp is set, which is as long as usrdev is loaded
  level,   \* pcie_proc.proc_level
  total,   \* msg_bandwidth.total_time
  fifo,    \* ax_pcie_kfifo of each card's rings: "none", "live", "freed", or
           \* "stale" if it points into memory of a record that is gone
  linked,  \* cards whose record says kfifo_init_checked
  call,    \* the call of each context
  bad,     \* the first use of what is not there
  cause,   \* history: what happened that may explain it
  used     \* history: probes, calls and events so far, for the bounds

hostVars == <<module, files, hook, level, total, fifo, linked>>
hdVars == <<clients, mapVars, hostVars, call, bad, cause, used>>

Files == <<"host_transfer_info", "policy", "path", "size", "debug">>
\* A call; its kind is "ids", "show", "p2p", "send", "recv", "connect" or "unload".
NoWalk == [pc |-> "idle", kind |-> "ids", round |-> 0, target |-> None, i |-> 0,
           entry |-> None, dev |-> None, last |-> 0, timed |-> FALSE, time |-> 0]

Up == module.pc = "up"
Breaks(how) == bad' = how /\ UNCHANGED <<clients, mapVars, hostVars, call, cause, used>>
Few == used.calls + used.events < MaxCalls
Happens ==
  Few /\ used.events < MaxEvents[clients] /\ used' = [used EXCEPT !.events = @ + 1]
IsCalled == Few /\ used' = [used EXCEPT !.calls = @ + 1]
Quiet == UNCHANGED <<clients, bad>>

HostInit ==
  /\ MapInit /\ clients \in Clients
  /\ IF clients = "net"
     THEN module = [pc |-> "up", n |-> Len(Files)] /\ files = [made |-> {}, ready |-> {}]
     ELSE module = [pc |-> "out", n |-> 0] /\ files = [made |-> {}, ready |-> {}]
  /\ hook = FALSE /\ level = FALSE /\ total = 0
  /\ fifo = [d \in Cards |-> "none"] /\ linked = {}
  /\ call = [c \in Callers |-> NoWalk]
  /\ bad = "no" /\ cause = {} /\ used = [probes |-> 0, calls |-> 0, events |-> 0]

-----------------------------------------------------------------------------
(* Cards come and go while the driver is registered. *)

Registered == module.pc \in {"made", "filled", "up"}

Probe(d) ==
  /\ Registered
  /\ \/ (ProbeBinds(d) \/ ProbeRefused(d)) /\ used.probes < MaxProbes
        /\ used' = [used EXCEPT !.probes = @ + 1]
     \/ ProbeFails(d) /\ Happens
  /\ cause' = IF number' > P2PMax THEN cause \cup {"many"} ELSE cause
  /\ UNCHANGED <<hostVars, call>> /\ Quiet

Remove(d) ==
  /\ Registered /\ Happens /\ RemoveBegins(d)
  /\ cause' = IF bound[d] = "bound" THEN cause \cup {"unplugged"} ELSE cause
  /\ UNCHANGED <<hostVars, call>> /\ Quiet

\* Freeing the interrupt waits for its handler.  Pointers to a record that is
\* freed are dead, also if the card comes again.
RemoveGoesOn ==
  /\ RemoveStep
  /\ CoreAt("release") => \A c \in Callers : ~(call[c].kind = "recv" /\ call[c].dev = c0)
  /\ LET freed == {d \in Cards : "record" \in has[d] /\ "record" \notin has'[d]} IN
       /\ linked' = linked \ freed
       /\ fifo' = [d \in Cards |-> IF d \in freed /\ fifo[d] = "live" THEN "stale" ELSE fifo[d]]
       /\ call' = [c \in Callers |->
                     LET Kept(d) == IF d \in freed THEN None ELSE d IN
                     [call[c] EXCEPT !.entry = Kept(@), !.dev = Kept(@)]]
  /\ UNCHANGED <<module, files, hook, level, total, cause, used>> /\ Quiet

-----------------------------------------------------------------------------
(* ax_pcie_host_init and ax_pcie_host_exit; ax_pcie_proc.c *)

ModuleGoes(pc, n) == module' = [pc |-> pc, n |-> n]

\* ax_pcie_proc_init, ax_pcie_proc_transfer_init: the directory may not be made.
ProcInit ==
  \/ ModuleGoes("filled", 0) /\ hook' = FALSE /\ level' = TRUE /\ total' = 0 /\ UNCHANGED used
  \/ Happens /\ ModuleGoes("undo", 0) /\ UNCHANGED <<hook, level, total>>

\* axdev_host_init, pci_register_driver, and the proc files; without their directory
\* the driver is unregistered again.
HostLoads ==
  /\ module.pc = "out" /\ ProcInit
  /\ fifo' = [d \in Cards |-> "none"]
  /\ UNCHANGED <<mapVars, files, linked, call, cause>> /\ Quiet

\* Mutant: the module is done as soon as all files are there.
MutCreatesFile ==
  /\ module.pc = "filled" /\ module.n < Len(Files)
  /\ files' = [files EXCEPT !.made = @ \cup {Files[module.n + 1]}]
  /\ ModuleGoes(IF module.n + 1 = Len(Files) THEN "up" ELSE "made", module.n + 1)
  /\ UNCHANGED <<mapVars, hook, level, total, fifo, linked, call, cause, used>> /\ Quiet

\* proc_create_data shows a file, or fails, and only then the functions of its
\* item are set.  A sysdump directory that is not made leaves its files out.
CreatesFile ==
  /\ module.pc = "filled" /\ module.n < Len(Files)
  /\ \/ files' = [files EXCEPT !.made = @ \cup {Files[module.n + 1]}]
        /\ ModuleGoes("made", module.n + 1) /\ UNCHANGED used
     \/ Happens /\ ModuleGoes("made", module.n + 1) /\ UNCHANGED files
     \/ Happens /\ module.n = 2 /\ ModuleGoes("up", 2) /\ UNCHANGED files
  /\ UNCHANGED <<mapVars, hook, level, total, fifo, linked, call, cause>> /\ Quiet

FillsItem ==
  /\ module.pc = "made"
  /\ files' = [files EXCEPT !.ready = @ \cup {Files[module.n]}]
  /\ ModuleGoes(IF module.n = Len(Files) THEN "up" ELSE "filled", module.n)
  /\ UNCHANGED <<mapVars, hook, level, total, fifo, linked, call, cause, used>> /\ Quiet

\* ax_pcie_proc_remove, with the entries that were made.
RemovesFiles == files' = [made |-> {}, ready |-> {}]

\* No module that uses this one is loaded, and remove_proc_entry waits for
\* calls on the file.
HostExits ==
  /\ Up /\ clients = "rest" /\ ~hook /\ \A c \in Callers : call[c] = NoWalk
  /\ RemovesFiles /\ ModuleGoes("undo", 0)
  /\ UNCHANGED <<mapVars, hook, level, total, fifo, linked, call, cause, used>> /\ Quiet

\* pci_unregister_driver removes every card.
Unregisters ==
  /\ module.pc = "undo"
  /\ IF \E d \in Cards : bound[d] # "no"
     THEN /\ \E d \in Cards : RemoveBegins(d)
          /\ UNCHANGED module
     ELSE CoreAt("idle") /\ ModuleGoes("out", 0) /\ UNCHANGED mapVars
  /\ UNCHANGED <<files, hook, level, total, fifo, linked, call, cause, used>> /\ Quiet

Host == HostLoads \/ CreatesFile \/ FillsItem \/ HostExits \/ Unregisters

\* The init function of the user message device; its exit is the call "unload".
UserLoads ==
  /\ Up /\ clients = "rest" /\ ~hook /\ hook' = TRUE
  /\ \A c \in Callers : call[c].kind # "unload"
  /\ UNCHANGED <<mapVars, module, files, level, total, fifo, linked, call, cause, used>> /\ Quiet

\* policy_proc_write; it takes two characters at most.
SetsPolicy ==
  /\ "policy" \in files.ready /\ level' = ~level
  /\ IF level THEN Happens ELSE UNCHANGED used
  /\ UNCHANGED <<mapVars, module, files, hook, total, fifo, linked, call, cause>> /\ Quiet

\* single_open takes the read function as it finds it, and the read calls it.
OpensUnready ==
  /\ files.made \ files.ready # {}
  /\ bad' = "call" /\ cause' = IF Up THEN cause ELSE cause \cup {"early"}
  /\ UNCHANGED <<clients, mapVars, hostVars, call, used>>

-----------------------------------------------------------------------------
(* A walk over the map: an entry is loaded, then what it points to is used. *)

At(c, pc) == call[c].pc = pc
Goes(c, pc) == call' = [call EXCEPT ![c].pc = pc]
Done(c) == call' = [call EXCEPT ![c] = NoWalk]
Walks(c, round) ==
  call' = [call EXCEPT ![c].pc = "walk", ![c].round = round, ![c].i = 0, ![c].entry = None,
                       ![c].last = IF call[c].kind = "p2p" THEN number ELSE 0]
OnlyCall == UNCHANGED <<mapVars, hostVars, cause, used>> /\ Quiet

\* Who walks to find the card it is about.
Targeted(r) == r.kind \in {"send", "recv", "connect"}
Found(r) == Targeted(r) /\ r.entry = r.target

\* ax_pcie_p2p_device_info_get copies the count, the others look at it again.
Limit(r) == IF r.kind = "p2p" /\ r.round = 1 THEN r.last ELSE number

AtEnd(c) == At(c, "end") \/ (At(c, "walk") /\ call[c].i >= Limit(call[c]))

Begins(c, kind, d, pc) ==
  /\ Up /\ clients = "rest" /\ At(c, "idle") /\ IsCalled
  /\ call' = [call EXCEPT ![c] = [NoWalk EXCEPT !.pc = pc, !.kind = kind, !.target = d,
                                                !.timed = level /\ kind = "send"]]
  /\ UNCHANGED <<mapVars, hostVars>> /\ Quiet
NobodyElse(kind) == \A c \in Callers : call[c].kind # kind \/ At(c, "idle")

\* axcl_get_devices and axcl_get_bus_info; ax_pcie_msg_getremoteids is the same.
GetsIds(c) == Begins(c, "ids", None, "walk") /\ UNCHANGED cause

\* A read of the proc file: pcie_proc_read.
ReadsProc(c) ==
  Files[1] \in files.made /\ Begins(c, "show", None, "hook") /\ UNCHANGED cause

\* ax_pcie_p2p_ioctl, under ioctl_sem.
P2pIoctl(c) == NobodyElse("p2p") /\ Begins(c, "p2p", None, "walk") /\ UNCHANGED cause

\* ax_pcie_msg_send, by whoever has a handle; nobody looks if the card is connected.
MsgSend(c, d) ==
  /\ Begins(c, "send", d, "walk")
  /\ cause' = IF d \in linked THEN cause ELSE cause \cup {"unconnected"}

\* ax_pcie_msg_check_remote, of axcl at a boot under ioctl_mutex, of the user
\* message device under its ioctl_sem: two at a time if that is loaded.
\* msg_checked_success may have been reset meanwhile, kfifo_init_checked stays.
CheckRemote(c, d) ==
  (hook \/ NobodyElse("connect")) /\ Begins(c, "connect", d, "walk") /\ UNCHANGED cause

\* The exit function of the user message device; its files are closed.
UserUnloads(c) ==
  /\ hook /\ NobodyElse("unload") /\ Begins(c, "unload", None, "walk")
  /\ cause' = cause \cup {"userexit"}

\* host_message_irq_handler has the record as its argument.
RecvBegins(c, d) ==
  /\ Up /\ clients = "rest" /\ At(c, "idle") /\ IsCalled
  /\ d \in linked /\ "vectors" \in has[d]
  /\ call' = [call EXCEPT ![c] = [NoWalk EXCEPT !.pc = "ring", !.kind = "recv", !.target = d,
                                                !.dev = d]]
  /\ UNCHANGED <<mapVars, hostVars, cause>> /\ Quiet

Loads(c) ==
  /\ At(c, "walk") /\ call[c].i < Limit(call[c])
  /\ IF map[call[c].i] = None
     THEN Breaks("null")
     ELSE call' = [call EXCEPT ![c].pc = "use", ![c].entry = map[call[c].i]] /\ OnlyCall

\* update_proc_rp_wp looks into the shared memory of connected cards.
LooksAtGone(r) == r.kind = "show" /\ r.round = 0 /\ r.entry \in linked /\ "shm" \notin has[r.entry]

\* ax_pcie_p2p_device_info_get has room for P2PMax cards on the stack.
Overflows(r) == r.kind = "p2p" /\ r.round = 1 /\ r.i >= P2PMax

\* ax_pcie_shmem_kfifo_free frees the rings and leaves the pointers.
FreedTwice(r) == r.kind = "unload" /\ fifo[r.entry] = "freed"
FreesRing(r) == r.kind = "unload" /\ fifo[r.entry] # "none"

Uses(c) ==
  LET r == call[c] IN
  /\ At(c, "use")
  /\ IF r.entry = None \/ LooksAtGone(r) THEN Breaks("freed")
     ELSE CASE Overflows(r) -> Breaks("stack")
            [] FreedTwice(r) -> Breaks("ring")
            [] OTHER ->
                 /\ call' = [call EXCEPT ![c].pc = IF Found(r) THEN "end" ELSE "walk",
                                         ![c].entry = IF Found(r) THEN @ ELSE None, ![c].i = @ + 1]
                 /\ fifo' = IF FreesRing(r) THEN [fifo EXCEPT ![r.entry] = "freed"] ELSE fifo
                 /\ UNCHANGED <<mapVars, module, files, hook, level, total, linked, cause, used>>
                 /\ Quiet

-----------------------------------------------------------------------------
(* What follows a walk *)

\* pcie_proc_read tests the hook, and calls it.
Hooks(c) ==
  /\ At(c, "hook") /\ OnlyCall
  /\ IF hook THEN Goes(c, "call") ELSE Walks(c, 1)
CallsHook(c) ==
  /\ At(c, "call")
  /\ \/ Walks(c, 0) /\ OnlyCall
     \/ ~hook /\ Breaks("call")

\* The next round: both tables of the proc file, the check of p2p and its result.
EndsRound(c) ==
  /\ AtEnd(c) /\ OnlyCall
  /\ IF call[c].round = 0 /\ call[c].kind \in {"show", "p2p"} THEN Walks(c, 1)
     ELSE call[c].kind \in {"ids", "show", "p2p"} /\ Done(c)

\* axcl_get_bus_info is through with the card that it is about.
FindsBus(c) ==
  At(c, "walk") /\ call[c].kind = "ids" /\ call[c].i > 0 /\ Done(c) /\ OnlyCall

\* ax_pcie_p2p_check: a bridge that does not let cards reach each other.
P2pRefuses(c) ==
  At(c, "walk") /\ call[c].kind = "p2p" /\ call[c].round = 0 /\ Done(c) /\ OnlyCall

\* A card that is not found ends the call; the place for the statistics is
\* used as it is, one past the last card if need be.
EndsFind(c) ==
  LET r == call[c] IN
  /\ AtEnd(c) /\ Targeted(r) /\ OnlyCall
  /\ IF r.round = 0 /\ r.entry = None
     THEN Done(c)
     ELSE call' = [call EXCEPT ![c].pc = IF r.round = 0 THEN "ring" ELSE "count", ![c].entry = None,
                               ![c].dev = IF r.round = 0 THEN r.entry ELSE @]

\* ax_pcie_msg_exit
EndsUnload(c) ==
  /\ AtEnd(c) /\ call[c].kind = "unload" /\ Done(c) /\ hook' = FALSE
  /\ UNCHANGED <<mapVars, module, files, level, total, fifo, linked, cause, used>> /\ Quiet

\* ax_send_data_irq and ax_pcie_recv_irq_mem look at the ring record first, and
\* what it points to.
UsesRing(c) ==
  LET r == call[c] IN
  /\ At(c, "ring") /\ r.kind \in {"send", "recv"}
  /\ CASE r.dev = None \/ "shm" \notin has[r.target] \/ fifo[r.target] = "stale" -> Breaks("freed")
       [] r.dev # None /\ fifo[r.target] = "none" -> Breaks("noring")
       [] r.dev # None /\ fifo[r.target] = "freed" -> Breaks("ring")
       [] OTHER -> (IF level THEN Walks(c, 1) ELSE Done(c)) /\ OnlyCall

\* init_mem makes a ring at each connect until one has succeeded, and resets it.
InitRing(d) == IF d \in linked THEN fifo[d] ELSE "live"

\* ax_pcie_kfifo_init finds no memory; init_mem does not look at its result and
\* follows the NULL pointer.
RingFails(c) ==
  LET r == call[c] IN
  /\ At(c, "ring") /\ r.kind = "connect"
  /\ Usable(r.target) /\ r.dev # None /\ r.target \notin linked
  /\ Happens /\ bad' = "noring" /\ cause' = cause \cup {"nomem"}
  /\ UNCHANGED <<clients, mapVars, hostVars, call>>

\* host_check_slv: step 0 may fail; then there is memory for the ring.
Connects(c) ==
  LET r == call[c] IN
  /\ At(c, "ring") /\ r.kind = "connect"
  /\ CASE ~Usable(r.target) \/ r.dev = None -> Breaks("freed")
       [] Usable(r.target) /\ r.dev # None /\ InitRing(r.target) = "freed" -> Breaks("ring")
       [] OTHER ->
            \/ Done(c) /\ OnlyCall
            \/ /\ fifo' = [fifo EXCEPT ![r.target] = InitRing(r.target)]
               /\ Goes(c, IF level THEN "count" ELSE "shake")
               /\ UNCHANGED <<mapVars, module, files, hook, level, total, linked, cause, used>>
               /\ Quiet

\* clear_proc_record_info compares pointers and follows none; it may run under
\* a send to another card.
Clears(c) ==
  /\ At(c, "count") /\ call[c].kind = "connect"
  /\ total' = 0 /\ Goes(c, "shake")
  /\ cause' = IF \E o \in Callers : call[o].kind = "send" THEN cause \cup {"overlap"} ELSE cause
  /\ UNCHANGED <<mapVars, module, files, hook, level, fifo, linked, used>> /\ Quiet

\* Step 1, and the marks of success.
Shakes(c) ==
  /\ At(c, "shake")
  /\ IF call[c].dev = None
     THEN Breaks("freed")
     ELSE /\ Done(c)
          /\ linked' \in {linked, linked \cup {call[c].target}}
          /\ UNCHANGED <<mapVars, module, files, hook, level, total, fifo, cause, used>> /\ Quiet

\* The total time after a message of no or of one microsecond; if the start was
\* not taken, because the level was 0, a wild number is added.
Totals(r) == IF r.timed THEN {total, total + 1} ELSE 0..(total + 1)
Counts(c) ==
  /\ At(c, "count") /\ call[c].kind \in {"send", "recv"}
  /\ IF call[c].kind = "recv" THEN Done(c) /\ OnlyCall
     ELSE \E t \in Totals(call[c]) :
            /\ call' = [call EXCEPT ![c].pc = "divide", ![c].time = t]
            /\ total' = t
            /\ cause' = IF t > 0 THEN cause
                        ELSE cause \cup {IF call[c].timed THEN "instant" ELSE "policy"}
            /\ UNCHANGED <<mapVars, module, files, hook, level, fifo, linked, used>> /\ Quiet

\* The bandwidth; the divisor is the value just written, or read again.
Divides(c) ==
  /\ At(c, "divide")
  /\ \/ 0 \in {call[c].time, total} /\ Breaks("divide")
     \/ {call[c].time, total} # {0} /\ Done(c) /\ OnlyCall

Calling(c) ==
  \/ GetsIds(c) \/ ReadsProc(c) \/ P2pIoctl(c) \/ UserUnloads(c)
  \/ \E d \in Cards : MsgSend(c, d) \/ CheckRemote(c, d) \/ RecvBegins(c, d)
  \/ Loads(c) \/ Uses(c) \/ Hooks(c) \/ CallsHook(c) \/ EndsRound(c) \/ FindsBus(c)
  \/ P2pRefuses(c) \/ EndsFind(c)
  \/ EndsUnload(c) \/ UsesRing(c) \/ Connects(c) \/ RingFails(c) \/ Clears(c)
  \/ Shakes(c) \/ Counts(c) \/ Divides(c)

HostNext ==
  \/ Host \/ UserLoads \/ SetsPolicy \/ OpensUnready \/ RemoveGoesOn
  \/ \E d \in Cards : Probe(d) \/ Remove(d)
  \/ \E c \in Callers : Calling(c)
-----------------------------------------------------------------------------
(* Properties *)

\* What is not there is used only for a cause.  A NULL entry, a record or shared
\* memory that is freed: only if a card was unplugged meanwhile (a module is
\* unloaded only when no call is under way).  A ring record that was never
\* made: only by a send to a card that was not connected, or by a connect that
\* had no memory for it; one that was freed: only after the user message device
\* was unloaded, which frees the rings that everybody uses and says so to
\* nobody.  A function that is not set: only by a read while init or that unload
\* is under way.  Room on the stack for one card more than there is: only if
\* there are more cards than p2p expects.  The total time is 0 in the division:
\* only if a message took no microsecond, a card was booted under a send to
\* another, or the level was switched on under it.
CallCauses == [null |-> {"unplugged"}, freed |-> {"unplugged"},
               noring |-> {"unconnected", "nomem"}, ring |-> {"userexit"},
               call |-> {"early", "userexit"}, stack |-> {"many"},
               divide |-> {"overlap", "instant", "policy"}]
CallsForCause ==
  clients = "rest" /\ bad # "no" => cause \cap CallCauses[bad] # {}

\* A module that is not loaded has left nothing: no file, no entry in the map,
\* no card, and of what probe acquires only BARs that a failed probe left mapped.
UnloadClean ==
  module.pc = "out" =>
    /\ files.made = {} /\ number = 0 /\ \A i \in Slots : map[i] = None
    /\ \A d \in Cards : bound[d] = "no" /\ has[d] \subseteq Bars
=============================================================================
