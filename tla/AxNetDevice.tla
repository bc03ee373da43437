---------------------------- MODULE AxNetDevice ----------------------------
(***************************************************************************)
(* The network driver (ax_pcie_net.c) around its interfaces: its init and  *)
(* exit make one for every card of the map, lend the card memory of the    *)
(* host, and take both back, while cards come and go, users open and close *)
(* the interfaces, and cards answer the handshake late or never.           *)
(*                                                                         *)
(* What open, close and the interrupt say about the link is AxNetLink, the *)
(* packets are AxNetTx.  Interfaces are opened, closed and unregistered    *)
(* under rtnl, each in one step here.  The driver of the card is not in    *)
(* the repository.                                                         *)
(***************************************************************************)
EXTENDS AxHostDev

VARIABLES
  npc,  \* where axnet_pci_init or axnet_pci_exit is: pc, index and card
  net   \* the interface of each card, and the card's part of the handshake

netVars == <<npc, net>>
ndVars == <<hdVars, netVars>>

NoNet == [
  registered |-> FALSE, \* it exists, with its struct axnet_priv
  priv |-> "null",      \* priv_data of the card: "null", "live", or freed: "old"
  irq |-> FALSE,        \* its interrupt handler is requested
  mem |-> "none",       \* org_addr: "none", "live" or "old"
  up |-> FALSE, checked |-> FALSE, napi |-> FALSE,
  lock |-> "free",      \* mailbox_lock; "kept" if nobody will release it
  asked |-> FALSE,      \* BAR0 + 0x20: DEVICE_CHECKED_FLAG
  told |-> "none",      \* BAR0 + 0x30: which memory
  answer |-> FALSE,     \* BAR0 + 0x24: DEVICE_HANDSHAKE_FLAG
  knows |-> "none"]     \* the memory that the card uses

NetInit == npc = [pc |-> "out", i |-> 0, card |-> None] /\ net = [d \in Cards |-> NoNet]

n0 == npc.card
NetGoes(pc) == npc' = [npc EXCEPT !.pc = pc]
NetNextCard == npc' = [npc EXCEPT !.pc = IF npc.pc = "free" THEN "exit" ELSE "init",
                                  !.i = @ + 1, !.card = None]
Because(why) == cause' = cause \cup {why}
NetOnly == UNCHANGED <<mapVars, hostVars, call>> /\ Quiet
NetBreaks(how) == Breaks(how) /\ UNCHANGED netVars

\* One step of several may fail; failures are bounded.
Fails == Happens

-----------------------------------------------------------------------------
(* Users, the card, and its interrupt *)

\* The interface reaches the card it was made for, through that card's record.
Reachable(d) == net[d].priv = "live" /\ Bars \cup {"record"} \subseteq has[d]

Unsent(d, after, npc1, why) ==
  /\ net' = [net EXCEPT ![d] = after] /\ npc' = npc1
  /\ cause' = cause \cup why /\ UNCHANGED used /\ NetOnly

\* axnet_check_mailbox_cnt: a card that does not read what it was sent is sent
\* no more.  Before the memory is set up nobody counts.
HasRoom(r) == IF r.checked THEN BOOLEAN ELSE {TRUE}

\* axnet_pcie_host_irq_to_slave: the mailbox lock is not released if the card
\* grants no mailbox; who finds it kept spins.
Mails(d, after, npc1, why) ==
  IF ~Reachable(d) THEN NetBreaks("freed")
  ELSE \/ FALSE \in HasRoom(after) /\ Unsent(d, after, npc1, why)
       \/ net[d].lock = "kept" /\ NetBreaks("spin")
       \/ net[d].lock = "free" /\ Unsent(d, after, npc1, why)
       \/ /\ net[d].lock = "free" /\ Fails /\ cause' = cause \cup why \cup {"refused"}
          /\ net' = [net EXCEPT ![d] = [after EXCEPT !.lock = "kept"]] /\ npc' = npc1
          /\ NetOnly

\* axnet_pcie_link_is_ok: the card has written its magic to the memory.
LinkIsOk(r) == IF r.knows = "none" THEN {FALSE} ELSE BOOLEAN

\* axnet_host_raise_ep_ctrl_irq and axnet_host_raise_ep_data_irq
Raises(d, after, npc1, why) ==
  \/ FALSE \in LinkIsOk(net[d]) /\ Unsent(d, after, npc1, why)
  \/ TRUE \in LinkIsOk(net[d]) /\ Mails(d, after, npc1, why)

\* axnet_handshake_slave_step0: the buffers for packets are allocated after the
\* card is told, and without them the interface stays down.
Tells(d) ==
  LET told == [net[d] EXCEPT !.asked = TRUE, !.told = net[d].mem] IN
  \/ Mails(d, [told EXCEPT !.up = TRUE], npc, {})
  \/ /\ Reachable(d) /\ Fails /\ Because("halfopen") /\ net' = [net EXCEPT ![d] = told]
     /\ UNCHANGED npc /\ NetOnly

\* axnet_host_setup_bar0_md reads in the memory where everything lies in it, and
\* resets the host's side; ob_base_virt is NULL as long as there is none.
SetsUp(r) == [live |-> "no", none |-> "null", old |-> "memory"][r.mem]

\* axnet_host_open, by a user or by the interrupt that ends the handshake;
\* napi_enable does not bear to be called twice.
Opens(d, after) ==
  CASE SetsUp(after) # "no" -> NetBreaks(SetsUp(after))
    [] SetsUp(after) = "no" /\ after.napi -> NetBreaks("bug")
    [] OTHER -> Raises(d, [after EXCEPT !.napi = TRUE], npc, {})

IfUp(d) ==
  /\ net[d].registered /\ ~net[d].up
  /\ CASE npc.pc = "out" -> NetBreaks("code")
       [] npc.pc # "out" /\ ~net[d].checked -> Tells(d)
       [] OTHER -> Opens(d, [net[d] EXCEPT !.up = TRUE])

\* Mutant: NAPI stays enabled.
MutClosed(r) == [r EXCEPT !.up = FALSE]
Closed(r) == [r EXCEPT !.up = FALSE, !.napi = FALSE]

\* axnet_host_close: napi_disable waits for ever if NAPI was not enabled, and
\* the messages about a link that is up lie in the memory.
Closes(d, after, npc1, why) ==
  IF ~net[d].napi THEN NetBreaks("hang")
  ELSE (net[d].mem # "live" /\ NetBreaks("memory")) \/ Raises(d, after, npc1, why)

IfDown(d) ==
  /\ net[d].registered /\ net[d].up
  /\ IF npc.pc = "out" THEN NetBreaks("code") ELSE Closes(d, Closed(net[d]), npc, {})

\* Packets: axnet_host_start_xmit and axnet_host_poll.
Carries(d) ==
  /\ net[d].registered /\ net[d].up /\ net[d].checked
  /\ CASE npc.pc = "out" -> NetBreaks("code")
       [] npc.pc # "out" /\ net[d].mem # "live" -> NetBreaks("memory")
       [] OTHER -> Raises(d, net[d], npc, {})

CardTakesUp(d) ==
  /\ bound[d] # "no" /\ net[d].asked /\ bad = "no"
  /\ net' = [net EXCEPT ![d].asked = FALSE, ![d].answer = TRUE, ![d].knows = net[d].told]
  /\ cause' = IF net[d].told = "none" THEN cause \cup {"early"} ELSE cause
  /\ UNCHANGED <<npc, used>> /\ NetOnly

\* axnet_handshake_slave_step1: an answer opens the interface.
Step1(d) == [net[d] EXCEPT !.answer = FALSE, !.checked = TRUE]

\* Mutant: the flag of the card is not looked at.
MutAnswered(d) == TRUE
Answered(d) == net[d].answer

\* axnet_irq_handler, on a vector of its own; the card may raise it at any time.
NetIrq(d) ==
  LET r == net[d] IN
  /\ r.irq /\ "vectors" \in has[d]
  /\ CASE ~r.registered -> NetBreaks("freed")
       [] r.registered /\ npc.pc = "out" -> NetBreaks("code")
       [] r.registered /\ npc.pc # "out" /\ ~r.checked ->
            IF ~Reachable(d) THEN NetBreaks("freed") ELSE Answered(d) /\ Opens(d, Step1(d))
       [] OTHER -> r.mem # "live" /\ NetBreaks("memory")

-----------------------------------------------------------------------------
(* axnet_pci_init and axnet_pci_exit *)

NetLoads ==
  /\ npc.pc = "out" /\ npc' = [pc |-> "init", i |-> 0, card |-> None]
  /\ UNCHANGED <<net, cause, used>> /\ NetOnly

\* axnet_pci_init_one up to register_netdev: from there on users can open the
\* interface.  What fails before leaves priv_data at what was freed.
InitOne ==
  /\ npc.pc = "init" /\ npc.i < number
  /\ LET d == map[npc.i] IN
     CASE d = None -> NetNextCard /\ UNCHANGED <<net, cause, used>> /\ NetOnly
       [] d # None /\ net[d].registered -> NetBreaks("twice")
       [] OTHER ->
            /\ \/ /\ npc' = [npc EXCEPT !.pc = "irq", !.card = d]
                  /\ net' = [net EXCEPT ![d] =
                        [NoNet EXCEPT !.registered = TRUE, !.priv = "live", !.irq = net[d].irq,
                           !.asked = net[d].asked, !.told = net[d].told,
                           !.answer = net[d].answer, !.knows = net[d].knows]]
                  /\ UNCHANGED <<cause, used>>
               \/ /\ Fails /\ NetNextCard /\ Because("initfailed")
                  /\ \E left \in {"null", "old"} : net' = [net EXCEPT ![d].priv = left]
            /\ NetOnly

\* The interface goes, and is closed before if it is up.  A requested interrupt
\* belongs to the card, and stays.
Unregistered(r) == [r EXCEPT !.registered = FALSE, !.up = FALSE, !.napi = FALSE, !.priv = "old"]
Unanswered(d) == IF net[d].asked \/ net[d].answer THEN {"stale"} ELSE {}
InitGivesUp ==
  IF net[n0].up THEN used.events < MaxEvents[clients] /\ NetBreaks("hang")
  ELSE /\ Fails /\ cause' = cause \cup {"initfailed"} \cup Unanswered(n0)
       /\ net' = [net EXCEPT ![n0] = Unregistered(@)]
       /\ NetNextCard /\ NetOnly

\* The locks are initialised, and the interrupt requested; many platforms grant
\* only the vector of the messages, and then this fails.
RequestsIrq ==
  /\ npc.pc = "irq"
  /\ IF "record" \notin has[n0] THEN NetBreaks("freed")
     ELSE \/ /\ "vectors" \in has[n0] /\ NetGoes("mem")
             /\ net' = [net EXCEPT ![n0].irq = TRUE, ![n0].lock = "free"]
             /\ UNCHANGED <<cause, used>> /\ NetOnly
          \/ InitGivesUp

\* axnet_pci_alloc_shmem
AllocShmem ==
  /\ npc.pc = "mem"
  /\ \/ /\ net' = [net EXCEPT ![n0].mem = "live"] /\ NetNextCard
        /\ UNCHANGED <<cause, used>> /\ NetOnly
     \/ InitGivesUp

\* The init function returns 0 whatever happened.
NetInitEnds ==
  /\ npc.pc = "init" /\ npc.i >= number /\ NetGoes("up")
  /\ UNCHANGED <<net, cause, used>> /\ NetOnly

NetExits ==
  /\ npc.pc = "up" /\ npc' = [pc |-> "exit", i |-> 0, card |-> None]
  /\ UNCHANGED <<net, cause, used>> /\ NetOnly

\* Mutant: the memory is not freed.
MutFreesMemory(d) == UNCHANGED <<net, cause>>

\* axnet_pci_exit_one, first the memory, which the card may go on using ...
Freed(what) == IF what = "live" THEN "old" ELSE what
FreesMemory(d) ==
  /\ net' = [net EXCEPT ![d].mem = Freed(@), ![d].told = Freed(@), ![d].knows = Freed(@)]
  /\ Because("exit")
ExitOne ==
  /\ npc.pc = "exit" /\ npc.i < number
  /\ LET d == map[npc.i] IN
     CASE d = None -> NetBreaks("null")
       [] d # None /\ net[d].priv = "old" -> NetBreaks("freed")
       [] d # None /\ net[d].priv = "null" ->
            npc' = [npc EXCEPT !.i = @ + 1] /\ UNCHANGED <<net, cause, used>> /\ NetOnly
       [] OTHER ->
            /\ npc' = [npc EXCEPT !.pc = "free", !.card = d]
            /\ FreesMemory(d) /\ UNCHANGED used /\ NetOnly

\* ... and then the interface, which closes it, and the interrupt.
ExitUnregisters ==
  LET after == [Unregistered(net[n0]) EXCEPT !.irq = FALSE] IN
  /\ npc.pc = "free"
  /\ IF net[n0].up
     THEN Closes(n0, after, [pc |-> "exit", i |-> npc.i + 1, card |-> None], Unanswered(n0))
     ELSE /\ net' = [net EXCEPT ![n0] = after]
          /\ cause' = cause \cup Unanswered(n0)
          /\ NetNextCard /\ UNCHANGED used /\ NetOnly

NetExitEnds ==
  /\ npc.pc = "exit" /\ npc.i >= number /\ NetGoes("out")
  /\ UNCHANGED <<net, cause, used>> /\ NetOnly

NetModule ==
  \/ NetLoads \/ InitOne \/ RequestsIrq \/ AllocShmem \/ NetInitEnds
  \/ NetExits \/ ExitOne \/ ExitUnregisters \/ NetExitEnds

\* A removed card takes its interrupt and its record, priv_data with it.
Unplugs ==
  /\ RemoveGoesOn /\ UNCHANGED npc
  /\ net' = [d \in Cards |->
               [net[d] EXCEPT !.irq = @ /\ ~(bound[d] = "bound" /\ bound'[d] = "no"),
                              !.priv = IF "record" \in has'[d] THEN @ ELSE "null"]]

NetNext ==
  \/ NetModule \/ Unplugs
  \/ \E d \in Cards : \/ (Probe(d) \/ Remove(d)) /\ UNCHANGED netVars
                      \/ IfUp(d) \/ IfDown(d) \/ Carries(d) \/ CardTakesUp(d) \/ NetIrq(d)

-----------------------------------------------------------------------------
(* The clients of the map: the network driver, or the others *)

ClientsInit == HostInit /\ NetInit
ClientsNext ==
  /\ bad = "no"
  /\ \/ clients = "rest" /\ HostNext /\ UNCHANGED netVars
     \/ clients = "net" /\ NetNext
ClientsSpec == ClientsInit /\ [][ClientsNext]_ndVars

-----------------------------------------------------------------------------
(* Properties *)

\* The network driver breaks only for a cause.  It looks into memory that it
\* freed: because exit frees it before the interface is closed.  It uses what is
\* freed: after an unplug, or when init failed for a card, which leaves priv_data
\* or the interrupt behind.  It follows NULL: after an unplug, or if a card
\* answers before there is memory, because the interface was opened during init
\* or the answer is to an earlier load.  It makes a second interface for a card
\* and loses the first, or its code is run after its exit: after an unplug.  A
\* lock is waited for that nobody releases: only after a card refused a mailbox.
\* NAPI is enabled twice: only if an answer found the interface down, because
\* the open that asked for it had failed.  A close waits for ever: only for a
\* card that has not answered.
NetCauses == [memory |-> {"exit"}, freed |-> {"unplugged", "initfailed"},
              null |-> {"unplugged", "early", "stale"}, twice |-> {"unplugged"},
              code |-> {"unplugged"}, spin |-> {"refused"}, bug |-> {"halfopen"}, hang |-> {}]
NetForCause ==
  clients = "net" /\ bad # "no" =>
    \/ cause \cap NetCauses[bad] # {}
    \/ bad = "hang" /\ \E d \in Cards : net[d].up /\ ~net[d].checked

\* When host and card have shaken hands, the card uses the memory that the host
\* uses: unless it was told before there was any, or answers an earlier load.
SameMemory ==
  \A d \in Cards : net[d].registered /\ net[d].checked /\ net[d].mem = "live" =>
    net[d].knows = "live" \/ cause \cap {"early", "stale"} # {}

\* An exit leaves nothing of the driver behind: no interface, no handler, no
\* memory, if no card was unplugged and init did not fail for one.
NetUnloadClean ==
  npc.pc = "out" /\ cause \cap {"unplugged", "initfailed"} = {} =>
    \A d \in Cards : ~net[d].registered /\ ~net[d].irq /\ net[d].mem # "live"

\* Neither of the two modules leaves anything behind.
NothingLeft == UnloadClean /\ NetUnloadClean

\* The memory of an interface is freed only when it is closed, as the comment
\* at the top of the exit has it.
ExitClosesFirst ==
  [][\A d \in Cards : net[d].mem = "live" /\ net'[d].mem = "old" => ~net[d].up]_net
=============================================================================
