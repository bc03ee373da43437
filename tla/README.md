# Verification of the axcl_host PCIe driver

The repository packages the host side of Axera's AXCL: a set of Linux kernel
modules that let processes on a host use AI cards behind PCIe, and the headers
and binaries of a closed library above them.  All source that has behaviour of
its own is under `src/usr/src/axcl/drv/pcie/driver/`; paths below are relative
to that directory.  This directory holds TLA+ models of that code, TLC
configurations that check them on small instances, and TLAPS proofs.

Contents: 1 the system, 2 the plan, 3 modules and code, 4 the runs, 5 bounds,
6 fairness, 7 proofs, 8 what is only model-checked, 9 what is not modelled,
10 where code and comments disagree, 11 how to run.

## 1. The system

A process talks to a card in three ways: ioctls on the control device
(`axcl_host/`), messages over ports (`msg/`, `host_dev/`) and packets over a
virtual network device (`net/`).  All three end in memory that both sides map
and in interrupts: the card interrupts the host by MSI, the host writes into
the card's mailbox.

```
 process            process                      network stack
    | ioctl, poll      | read, write, poll            | ndo_open, start_xmit
 axcl_pcie_host.c   ax_pcie_msg_usrdev.c         ax_pcie_net.c
    |   heartbeat threads      |                      |  NAPI, MSI handler
    +--------- ax_pcie_msg_transfer.c                 |
               rings, handshake                       |  rings of its own
    +--------- ax_pcie_opt.c (mailbox) ---------------+
                              |  PCIe
                            card
```

| component | source | state | operations | hard behaviour | what makes it correct |
|---|---|---|---|---|---|
| port table, control device | `axcl_host/axcl_pcie_host.c` | `process_list`, each with `dev_list` and `usr_port_list`; `port_info`; all under `ioctl_mutex` | open, release, PORT_MANAGE (create, destroy, request, recycle), RESET, BOOT | a create waits for the card's answer, which may be late, refuse or never come; cards are lost and booted in between | a port has one holder; nobody frees another's port; what a handle holds is open on the card |
| liveness of cards | same file | `heartbeat_status`, `htcondition`, `event`, `heart_waitqueue`, one thread per card | thread, poll, WAKEUP, RESET, BOOT | the thread reads and writes the status outside the mutex | a verdict stands until a BOOT; processes hear of a loss; a dead card is found dead |
| firmware download, dump | same file | boot reason, command and status words behind BAR 0, one DMA buffer | firmware_load, load_fwfile, sysdump | timeouts and late completion words; dump and download share buffer and status | a card is started with the whole image |
| start and exit of the driver | same file | `heartbeat[]`, `heart_waitqueue[]`, the common ports | init phase by phase, exit | cards are plugged and unplugged under loops over the map; a step that fails half-way | nothing that is gone is used; after exit no card sends to code that is gone |
| message ring | `host_dev/ax_pcie_msg_transfer.c` | a kfifo per direction in shared memory, `ax_handle_table` | send, interrupt, open, close | two sides without a common lock; wrap-around; a notifier that fails | every accepted message arrives once, whole, in order |
| handshake | same file | flags behind BAR 0 and in the "ob" window, `msg_checked_success` | check_remote; steps 0 and 1 of host and card | flags survive a restart; both sides clear them; timeouts | the host sends only to a card whose rings are initialised |
| doorbell | `host_dev/ax_pcie_opt.c` | counts at 0x20 and 0x28, mailbox slots | trigger, reset | refused doorbells, restarts of the card | no message is left unread; the mailbox does not overflow |
| device map | `host_dev/ax_pcie_dev_host.c` | `g_axera_dev_map`, `remote_device_number`, what is acquired for each card | probe, remove, lookup | error paths of probe; walks without a lock while remove closes the gap | the entries are the bound cards, each once, and each holds what it needs |
| user message device | `msg/ax_pcie_msg_usrdev.c` | a queue per connected file, a transfer handle per port | connect, read, write, poll, stop, release | interrupts against release; two files on one port | messages are read once and in order; a connected file hears its port; poll does not oversleep |
| media memory buffer | `mmb/ax_mmb.c` | one DMA buffer per file | alloc, scatter, mmap, free | check-then-act without a lock, failing steps | pages are freed once and all |
| network link | `net/rc-net/ax_pcie_net.c` | `rx_`, `tx_`, `os_link_state`, control rings, NAPI | ifup, ifdown, MTU, MSI handler, poll | process and handler write the same state; timeouts | both sides agree on the link; buffers outlive the card's use of them |
| network transmit | same file | `h2ep_empty`, `h2ep_full`, the transmit queue | start_xmit, MSI handler | buffers come back in any order; the interface is reopened underneath | a buffer is not written before the card has read it; a stopped queue is woken |
| network device | same file | `priv_data`, the memory lent to the card, `mailbox_lock`, handshake words behind BAR 0 | init, exit, handshake, raising interrupts | interfaces are open to users before init is through; failing steps; answers to an earlier load | host and card share one memory; nothing is left behind |
| peer-to-peer, proc, lists of cards | `p2p_rc/`, `host_dev/ax_pcie_proc.c`, others | the proc files, `proc_level`, statistics | ioctls, reads, module init and exit | walks over the map; statistics that divide; a hook that goes with its module | what a walk uses is there |
| versions | `version.c` | none | | none | |
| user library, packaging | `usr/include`, `debian` | closed or none | | | |

Interaction.  BOOT (`axcl_pcie_ioctl`) resets the card, downloads its firmware,
runs the handshake, initialises the rings and wakes the heartbeat thread; so
the port table, the handshake, the rings, the doorbell counts and the status
all change in one ioctl.  The heartbeat thread takes the ports of a lost card
from all processes.  A create sends over the ring, rings the doorbell and reads
the answer from the notify port's `mem_list`, which the interrupt handler
fills.  The network device is a second PCI function and shares no state with
the rest but the mailbox of the card.

`PROJECT.json` lists the hazards, each at its line with the properties that
would notice.

## 2. Plan

Order, most important behaviour first.  All of it is modelled and checked, and
every safety property of the passing runs is a theorem.

1. `AxclPorts`: who owns which port.
2. `MsgChannel` (abstract: FIFO with once-only delivery) and `MsgRing`, which
   implements it.
3. `AxclHeartbeat`: the verdict about a card.
4. `Handshake`: two flag areas, two sides, timeouts.
5. `MsgDoorbell`: counts, retries, restarts.
6. `AxNetLink`: link state machine, buffers, NAPI.
7. `AxNetTx`: transmit buffers.
8. `AxDevMap`, then on top of it `AxclFirmware` and `AxclDriver`: cards that come
   and go under the life of the driver and its firmware download.
9. `AxHostDev` and `AxNetDevice`, on the same map: the modules that walk it.
10. `MsgUserDev`: the queue between interrupt and read.
11. `AxMmb`: the pages of a buffer under calls that interleave and fail.

Left: the composition of a boot (`Handshake`, `init_mem`) with a ring that
somebody sends on; the unlocked count of the network mailbox.

## 3. Modules and code

Every module names its constants, variables and actions after the functions,
fields and steps of the code; `map` in `PROJECT.json` gives the lines of each
definition.  Definitions called `Mut...` are broken variants that are not part
of the specifications: each property has one that must violate it.  The `MC...`
modules and the `.cfg` files instantiate the models for TLC; `...Proofs`
modules hold the theorems.

**AxclPorts** (`axcl_pcie_host.c`).  `procs` is `process_list`, `handles` the
`device_handle_t`s, `devPorts` and `usrPorts` their ports, `portInfo` the marks.
Every ioctl runs under `ioctl_mutex` and is one action; only a create is two,
`CreateSend` and `CreateAnswered`/`CreateTimeout`, because the card acts while
it waits.  Both returns of `axcl_pcie_port_create` that leave marks behind are
modelled as they are.  A send may fail with its message in the ring
(`SendFails`).  A DESTROY carries the list of ports that its caller gives,
which may be anybody's, while on the host the caller's own are freed; `known`
are the handles of which no such DESTROY has named a port.  A BOOT is
`BootDevice` from the point where it empties the rings, whether its handshake
then succeeds or not, and `ResetDevice` if it fails before.  The card's port service is external: it serves messages in
order and answers each CREATE once.

**MsgChannel, MsgRing** (`ax_pcie_msg_transfer.c`).  The ring is modelled at the
level of accesses to shared memory: load of both pointers, space check, body,
header, publication of the write pointer; on the other side the check, the
header, the notifier and the new read pointer.  Cells hold labels (message
number, byte number) instead of bytes.  The message of a port that nobody has
open is stepped over, as the handler does (`Discard`); a notifier that fails
ends the drain with the message still first (`NotifyFails`).  `MsgChannel` promises that each accepted message is given to
its port once and in order, or dropped if the port is closed; `MsgRing`
instantiates it as `Channel`, and the property `ImplementsChannel` is its
specification.

**AxclHeartbeat** (`heartbeat_recv_thread`, `axcl_pcie_poll`, RESET, BOOT).  The
thread's loop is cut where it reads or writes shared state: look at status and
condition (`Look`), wake-up, count read (`SeeBeat`), timeout (`GiveUp`), the
critical section (`Lost`), the unprotected `SetAlive`.  BOOT holds the mutex and
is cut at restart, connection, status and wake-up.  `NoFirmware` and
`NoHandshake` are the cards for which start-up failed; a card of the first kind
has no thread, and its BOOT, if it succeeds, follows a null pointer and keeps
the mutex (`BootEnds`), as does one without memory for a ring (`BootCrashes`).  `misled` is a thread
that keeps the pointer it computed before the handshake moved the window.

**Handshake** (`host_check_slv`, `slave_check_host`: both sides are in the
source).  `bar` and `ob` are the two memories with their flags; each poll, write
and clear is a step.  The host's 100 ms sleep, after which the time stamp
overwrites the flag, is a step that may come before the card has looked.

**MsgDoorbell** (`ax_pcie_send_message`, `mailbox_requst_count_check`,
`slave_message_irq_handler`).  `req` and `clr` are the counts; the ring is a
number.  The retry loops are modelled with their limits, also the success that
is reported after the last refusal.  The card's handler drains the ring, or
ends early because a notifier failed (`DrainFails`); `failing` keeps that until
a later drain has come to the end.

**AxNetLink** (`ax_pcie_net.c`).  `ifup`, `ifdown` and a change of the MTU are
sequences of steps at the pace of their accesses to state that the interrupt
handler shares; the handler is cut after each read and each update.  A ring
whose read counter has passed its write counter is represented as such
(`past`), since an ifup resets rings under the handler.  Arriving packets are
one flag; a poll takes them all.

**AxNetTx** (`axnet_host_start_xmit`).  Each critical section of `h2ep_lock` is
one step, and nothing else is atomic.  Buffers are pairs of a memory block and
a slot, so that a buffer of a freed block can be told from its successor.

**AxDevMap** (`ax_pcie_dev_host.c`).  `map` and `number` are
`g_axera_dev_map` and `remote_device_number`, `has` what probe acquired for each
card, `bound` the kernel's view.  A probe is one step, since its entry counts
only when the count does; which of its steps fails is a choice, and what the
labels at its end then release is what they release in the code: a BAR that
fails is unwound from the wrong label and leaves 0 to be returned.  A remove is
five steps, because others walk the map while it closes the gap.

**AxclFirmware, AxclDriver** (`axcl_pcie_host.c`).  `AxclFirmware` is the download and
the dump, chunk by chunk: the host copies, commands and waits, the card takes,
moves and reports, and either may be late.  Memory is modelled by the place of
the image it came from.  `AxclDriver` is init with its five loops over the map,
RESET and BOOT as the lookups and steps they consist of, each thread's start,
look, verdict and stop, and exit.  `dangling` says whose pointer to a record was
freed; a use of what is not there sets `bad` and ends the behaviour.  The map has
more places than `heartbeat[]` has entries, so a thread may be kept behind its end
(`Overruns`), and a handshake may find no memory for a ring (`RingFails`).  It abstracts
what the modules 1 to 5 detail: processes, handshake and beats are single steps.

**AxHostDev, AxNetDevice**.  `AxHostDev` is the module around the map
(`ax_pcie_host_init`, `ax_pcie_proc.c`) and the calls that walk it: lists of cards,
p2p, reads of the proc file, and connect, send and receive as far as they touch
the ring records and the statistics.  A connect whose allocation of a ring fails
crashes, since the result is ignored (`RingFails`).  A walk loads an entry in one step and uses
it in the next.  `AxNetDevice` is `axnet_pci_init` and `axnet_pci_exit` step by step,
with users, cards and interrupts in between; the variable `clients` says
whether a behaviour is about the one or the other, since they share the map and
nothing else.  `cause` keeps which of the named events have happened.

**MsgUserDev** (`ax_pcie_msg_usrdev.c`, handles of `ax_pcie_msg_transfer.c`).  Files
connect, reconnect, read, write, poll, stop and release; the handler is cut at
lookup, check, notifier, append and wake-up.  Handles are numbered and never
reused, so that the use of a freed one is seen.

**AxMmb** (`ax_mmb.c`).  The descriptor of one open file with its two scatter
tables, which are objects of their own, since `sg_alloc_table` overwrites the
pointer to them.  Each allocation is cut at check, device, table, backup, page,
copy and mapping, because nothing serialises the calls.

Code that is not built is not modelled: the build defines `MSG_PROC_ENABLE` and
`SHMEM_FROM_MASTER`, and neither `IS_THIRD_PARTY_PLATFORM` nor `MEM_LIST_PARTITION`.

External in all modules: the card's own programs (port service, heartbeat
sender, network driver).  They do what the host's code relies on, at any time,
and may stop at any time where the host handles that.

## 4. Runs

| run | properties | what it shows |
|---|---|---|
| `ports` | `PortsDisjoint HandleBacked OnlyHolderFrees LeakOnlyByFailedCreate SkewNeverHeals` | Ports have one holder and are freed by it alone, whatever the card does.  The marks that leak are exactly those of failed creates.  A create that was given up shifts the answers of all later ones until a boot.  What a handle holds is open on the card unless an answer was owed or a DESTROY, whose list may name anybody's ports, named one. |
| `ring` | `UnreadWhole ImplementsChannel` | Without a common lock, no unread byte is overwritten; the ring is a channel. |
| `heartbeat` | `VerdictStands LossSignalled GivenUpForCause DeathNoticed` | Two cards, one of which has no thread, two processes: the unprotected ALIVE never undoes a verdict; a card is given up for a reason; each loss of a handle is signalled; a card that stops is noticed, unless a BOOT has crashed under the mutex (`Stuck`). |
| `handshake` | `HostTrustsReadySlave SlaveTrustsReadyHost EveryBootEnds` | Trust is justified while nobody was hasty, and every BOOT ends. |
| `doorbell` | `MailboxBounded StrandedForCause DeafForGood GetsThrough` | The mailbox stays within its limit; every send ends, and messages whose doorbell was refused are read all the same, unless a notifier failed and no doorbell came since, or too many doorbells were lost to restarts, after which the card stays deaf. |
| `net_link` | `BuffersRight LinkKnown NapiPaired InterruptLostOnlyAroundClose CloseEnds` | Link states agree when all is handled (unless `missed` or `torn`, which say why not); buffers outlive the card's use of them unless a close timed out. |
| `net_tx` | `PacketsIntact QueueWoken` | No buffer is overwritten or freed under the card, unless the MTU changes during a start_xmit (`torn`); a stopped queue is woken. |
| `mmb` | `AloneIsSafe LeakOnlyHalfway FailedForGood` | As long as no allocation runs into another call past its check, tables, blocks and mappings are right; pages leak only when an allocation fails before its copy; a failed allocation makes the file useless. |
| `usrdev` | `OnceInOrder HeardUnlessShared FilesUseFreedOnlyIfShared OversleepsOnlyReconnected` | Reads come once and in order; two files on one port are the only way a file goes deaf or uses a freed handle; a poll sleeps over messages only if it began before its file was connected anew. |
| `driver` | `MapSound StartedWhole BadForCause QuietAfterExit` | Two cards that come, go and answer late, under init, BOOT, RESET and exit: the map is right whenever no remove closes a gap, cards start with the whole image, and what is not there is used only for one of the causes that the property names. |
| `clients` | `CallsForCause NetForCause SameMemory NothingLeft` | The same for the modules that walk the map and for the network driver: each crash has one of the named causes; host and card share one memory; an unload leaves nothing. |
| `netdev_exit` | `ExitClosesFirst` violated | Section 10. |

Many properties carry an exception: a history variable (`known`, `hasty`, `lost`,
`failing`, `unacked`, `missed`, `torn`, `overlap`, `shared`, `lateDump`) or an element of
`cause`.  Each marks one precise event of the code that really breaks what the
property says, so that the run shows that nothing else does.  The ones a
maintainer would look at:

* The thread decides that a card is dead, waits for `ioctl_mutex` and does not
  look again: a BOOT that held the mutex is undone (`GivenUpForCause`).
* A DESTROY may name ports of another process; the card then closes them under
  that process's handle (`known` in `HandleBacked`).
* A BOOT of a card that had no firmware when the driver started wakes a queue
  that was never initialised, and nobody gets `ioctl_mutex` again: from then on
  no card that stops is declared dead (`Stuck` in `DeathNoticed`).
* With more cards in the map than `heartbeat[]` has entries (32, the map has 256),
  init writes and exit reads past its end (`many` in `BadForCause`).
* A handshake with no memory for a ring follows a NULL pointer, in init, in a
  BOOT and in a connect of the user message device (`nomem`).
* A notifier without memory ends the drain: the message, and all behind it, wait
  for the next doorbell (`failing` in `StrandedForCause` and `GetsThrough`).
* A poll that began before a reconnect is registered with the old queue and
  sleeps over the messages of the new one (`OversleepsOnlyReconnected`).
* The flag of a card that came up after the host's timeout is taken for that of
  the next BOOT (`hasty` in `HostTrustsReadySlave`).
* The doorbell counts survive RESET and BOOT: after a hang with too many
  outstanding, the rebooted card is never told of a message (`lost` in
  `StrandedForCause`, `DeafForGood`).
* A LINK_UP between open's look at the card and its reset of the rings is lost,
  and the link with it (`missed`).
* While a remove closes the gap, a card is in the map twice: init may load it
  twice, and the network driver makes it a second interface and loses the first.
* The unload of the user message device frees the rings that axcl goes on to
  use; a second unload frees them again (`userexit`).
* An interface whose first open failed for memory is opened by the card's
  answer; the next ifup enables NAPI twice (`halfopen`).  Closing an interface
  whose card has not answered waits for ever (`hang`).
* A platform that grants fewer vectors than the network interrupt, which is
  vector 1, makes `axnet_pci_init_one` fail after the interface was visible.

## 5. Bounds

Every bound is a constant marked "bound" in its module.

* `ports`: two processes, one card, three ports, handles of up to two ports,
  two messages in the ring and two owed answers.  Two holders and a third port
  are what fragmentation, overlap and a wrong free need; two answers are what a
  skew needs.  Cards share nothing in this code but the mutex, so one is enough.
  A DESTROY may name the caller's ports or a list of the first port, which is
  another process's in many states.
* `ring`: 24 bytes, header of 3, alignment 4, payloads of 0, 1 and 5, three
  messages by two senders.  The third message wraps in some orders and meets
  the second unread in others; the gap in front of a header occurs with every
  remainder.  The proofs are for all sizes.
* `heartbeat`: two cards, one of which had no firmware and the other no
  handshake when the driver started, two starts, two beats per start, one event
  that the wake-up ioctl raises.  Two beats tell a first count from a later one; two starts
  are a BOOT of each card, or a RESET and a BOOT of one.  Cards meet only in the
  mutex and in a process's events; the theorems are for any number of cards.
* `handshake`: four boots; a flag can survive one boot and fool the next, twice.
* `doorbell`: limit 1, three slots, two restarts, six messages: the limit is
  exceeded by doorbells lost in two restarts and not in one.  Notifiers fail
  without a bound, at most once for each doorbell that the card handles.
* `net_link`: rings of two, two ifups and two changes of the card's link; the
  same holds with three ifups (1.1 million states).
* `net_tx`: rings of two, four packets, two reopenings: every slot is used twice.
* `mmb`: two threads, three blocks, tables of two entries, sizes of nothing and
  of three pages, so that orders 0 and 1 occur and a table overflows; the file
  is opened twice, since what a file leaves behind is seen by the next.
* `usrdev`: two files on one port, two messages, three connects: enough for a
  shared port, a reconnect, and a message that outlives a handle.
* `driver`: two cards in a map of two, an image of an empty file and one of one
  chunk, one chunk that fails, two probes and two events (removes, calls,
  missed beats) in any order, and one entry in `heartbeat[]`, so that the second
  card is past its end.  The gap is closed by another card's entry, a
  card leaves and comes again, and a BOOT follows an unplug.
* `clients`: two cards, two contexts, two probes; three calls, up to two of
  them replaced by failures or removals, or the network driver with two; p2p has
  room for one card less than there are, as the code has for eight of 256.
* `netdev_exit`: one card, no failures.

`CHECK_DEADLOCK FALSE` is set where all parties may really be at rest: all
messages sent, all packets gone, the interface closed for the last time, the
module unloaded, a behaviour that ended with `bad`, or, in `heartbeat`, a BOOT that
crashed with the mutex that everybody else then waits for.

## 6. Fairness

* Kernel threads, interrupts, polls and ioctls that have begun are scheduled,
  and waits with a timeout end: weak fairness of `Thread`, `BootGoesOn`, `Host`,
  `Slave`, `Card`, `User`, `Handler`, `Poll`, `Transmit`, `Reopen`, `Irq`.
  Nobody is obliged to begin anything, to crash or to restart.
* Strong fairness of `HostClears` and `HostGivesUp` in `Handshake`: step 0 writes
  its flag again and again between looks, so its exits are enabled time after
  time but not continuously; the code does look each time round.
* Strong fairness of `CloseNapi` and `CloseFrees` in `AxNetLink`: `napi_disable`
  keeps later polls off and `synchronize_irq` does not wait for later
  interrupts, so a card that interrupts all the time cannot starve them.
* `AxNetTx` assumes that the card takes what it is sent and gives buffers back:
  without that the host has nothing to send with.  The other modules need no
  fairness of the card's programs but that of `Card` in `MsgDoorbell`, its
  interrupt handler, which is in the repository.

## 7. Proofs

All theorems are checked by TLAPS for every value of the constants, from the
named `ASSUME` of the module alone (sizes are natural numbers or positive, the
size of a ring is a multiple of the alignment, `None` is none of the others).
`PowersAssumption` of `AxMmb` is the defining equation of powers of two, spelled
out because `^` has no definition a prover could expand.

* **AxclProofs**, the control device: `TypeCorrect`, `PortsSafe` (`PortsDisjoint`,
  with `OwnedMarked` and `PortsNeedHandle`), `OnlyHolderFreesHolds`,
  `LeaksOnlyByFailedCreate`, `HandlesAreBacked`, `SkewStays`.  `PortsDisjoint`
  is not inductive: an answer replaces what the process holds on the card.
  `PortInv` adds that a waiting create belongs to an open process that has no
  handle yet (`PendingFresh`).  With it, every step but a create that gives up
  unmarks what it takes from holders and marks what it gives them, so nothing
  leaks.  `HandleBacked` is about the card, so its proof follows the messages:
  a create sent when nothing was owed is the only one in the queue and the
  last message of it, or its answer is the only one in the mailbox
  (`OwnAnswer`), and no DESTROY in the queue names a port of a handle that is
  backed (`Backed`): a DESTROY carries the caller's list, whoever's ports these
  are, and every handle with a port in it ceases to be `known` in that step.  The surplus of answers (`Skew`) is a count of CREATEs in the
  queue and answers in the mailbox, and the proof counts what each step adds.
* **HostDevProofs**, the rings: `RingTypeCorrect`, `RingPointers`, `RingKeepsUnread`,
  `RingImplementsChannel`.  `RingInv` says what a sender has done by each of its
  steps (`SenderInv`), that the messages between the pointers follow each other
  without a gap (`ChainInv`) and which of them the receiver is at
  (`ReceiverInv`).  The refinement maps `taken` and `sent` to the channel's
  queue; `Publish` is the channel's send, `Notify` its delivery, `Discard` the
  message it throws away, and every other step but the opening or closing of a
  port a stutter.
* **CardProofs**, the heartbeat: `HeartbeatTypeCorrect`, `VerdictStandsHolds`,
  `LossSignalledHolds`, `GivenUpForCauseHolds`.  `HInv` adds that a thread that
  has declared its card dead is before its look and has forgotten its count
  (`Verdict`), that a restarting card does not run, and that a thread never
  waits for a count its card has passed (`Counting`, `Waiting`).
* **CardProofs**, the handshake: `HandshakeTypeCorrect`, `SlaveTrustHolds`,
  `HostTrustHolds`, by where each flag can come from (`FlagFresh`; `AckFresh`
  while nobody was hasty).
* **MsgProofs**, the doorbell: `DoorbellTypeCorrect`, `CountsHold`,
  `MailboxHolds`, `StrandedHolds`, `DeafHolds`.  `DoorInv` adds that the one who
  rings holds the lock, and who will come for an unread message (`Awaited`).
* **MsgProofs**, the user device: `UserTypeCorrect`, `ReadsOnceInOrder`,
  `ConnectedFilesHear`, `FreedOnlyBySharing`, `NoLostWakeup`.  `OnceInOrder` is
  about what was read; what is inductive follows a message all the way
  (`Dealt`): it is still in the ring, in one queue, or read, each queue rises,
  and what has left the ring is older than what is in it.  `Handled` says which
  transfer handle a file, a release, a poll and a connect have in hand.  The
  rest holds while no two files have shared a port (`Unshared`): a port's entry
  in the table leads to the handle of the file that connected it, and back.
  A poll that sleeps has an empty queue, or a file that has been given another
  handle since, or a handler that is about to wake it (`Sleeps`).
* **AxNetLinkProofs**: `NetTypeCorrect`, `NapiIsPaired`, `BuffersAreRight`,
  `LinkIsKnown`, `InterruptIsKept`.  `Switching` adds in which state open and
  close run, and that only an ifup begins a handshake.  The other three need
  what is under way between host and card: `LinkInv` says where the host's link
  and its buffers may stand at each step of open and close (`Places`, `Held`),
  which messages may then lie in the two rings and in what order, the one in
  the handler's hand included (`InOrder`, `Told`, `Heard`), and that a host that
  has been let go has no packets it has not seen (`Flow`).  The ring to the
  card is always in order; the one to the host only while no ring is reset under
  the handler (`torn`), and from then on `LinkInv` claims no more of it.
* **AxNetTxProofs**: `TxTypeCorrect`; `Bounded` says that slots and blocks stay
  within their bounds.  `PacketsStayIntact`: `PacketsIntact` speaks of buffers
  the card has yet to read, and its inductive form of every place a buffer can
  be (free, in the hands of start_xmit, in the ring, with the card): each is in
  one place, and within the block that is allocated.
* **AxclProofs**, the driver, on **AxDevMapProofs**: `MapIsSound`,
  `BadOnlyForCause`, `ExitIsQuiet`, `StartsWhole`.  `MapSound` speaks only of
  the times when no remove closes a gap.  `MapInv` says what holds in between:
  the entry of the last card does not count any more once it is copied, the
  card that goes is none of the map's, and what is still held for it follows from the step its remove has reached
  (`Holdings`).  `AxDevMapProofs` proves it of probe and remove, once for all
  modules that use the map; `NextIsMap` shows that every other step of the
  driver, its threads and the cards leaves the map alone.
  The other three rest on `DriverInv`.  As long as no card is unplugged the map
  only grows, so whatever was found is found again (`Kept`), the thread of a card
  is at the card's place in the map (`InPlace`), the card of a call under way is
  still there (`CardOfCall`), init loads each card once (`LoadsOnce`) and exit has
  stopped the places it is through with (`ExitSoFar`).  `LoadInv` follows the image: the
  parts before the one that is being copied are in the card's memory, the
  command on its way is for that part, and what the status says belongs to it,
  unless a dump was given up and its late answer can be taken for another.
  Every other `bad` must come with its cause in the step that sets it
  (`BreaksForCause`).  That more cards than `heartbeat[]` has entries were found
  stays known after they are gone (`ManyKnown`).
* **HostDevProofs**, what walks the map: `ClientsAreSafe`, `CallsBreakForCause`,
  `NetBreaksForCause`, `MemoryIsShared`, `UnloadLeavesNothing`.  A crash is no
  part of the state before it, so `ClientsInv` says what holds without it.  Of an
  interface, what its fields say of each other, each time with the causes that
  excuse it (`Right`): its host waits for an answer only if it is up, and card
  and host agree on the memory unless an early or stale answer has come.  Of
  the network driver while no card was unplugged, which places of the map its
  init and its exit have served (`InPlace`, `Whole`).  Of a call (`CallInv`), what
  belongs to its step (`Shape`), what must have happened for it to be there
  (`Caused`), that the records it holds exist (`Held`), and that the cards it
  holds are bound if none was unplugged (`Steady`).  Of the module, that a proc
  file is visible only when its functions are set, but for the one being made
  (`ModuleInv`), and of a ring that its state is as its record says (`RingsInv`).
  TLC agrees on the instance of `clients`.
* **AxMmbProofs**: `MmbTypeCorrect`, `BufferIsSound`, `FailureIsFinal`,
  `LeaksOnlyHalfway`.  `AloneIsSafe` speaks of the use of a buffer; `Sound` says
  for each point of an allocation what the descriptor and its two tables hold,
  and that at rest they hold the whole buffer or nothing, as long as no
  allocation has run into another call.  That `get_order` finds the order of a
  block again in the length of its entry is arithmetic of powers of two, by
  induction over the order.  On `Sound`, `LeaksOnlyHalfway` compares the blocks in
  use with those the tables know, step by step; `FailureIsFinal` needs no more
  than the types.

## 8. Only model-checked

* Liveness (`DeathNoticed`, `EveryBootEnds`, `GetsThrough`, `CloseEnds`,
  `QueueWoken`): liveness under fairness and ENABLED are out of the prover's
  reach.  So are the library's theorems of induction, which take an operator as
  a parameter; `LeastElement` in `AxMmbProofs` gets induction over numbers from
  a set that has a least element instead.  RECURSIVE operators are avoided.
* `ExitClosesFirst` (run `netdev_exit`), which the code violates.
* Type correctness and the pointer and count invariants (`TypeOK`,
  `PointersSane`, `CountsAddUp`, `OwnedMarked`, `PortsNeedHandle`) are the other way
  round: they are part of the inductive invariants that are proved, and no run
  repeats them.

## 9. Not modelled

* What happens after freed memory was used (a second file of one thread, a
  handle that is closed under the interrupt handler): the models stop there.
* Contexts: that the end of the network handshake runs code that may sleep in
  an interrupt handler (`ax_pcie_net.c:1104`) is a hazard, not a state.
* A boot under a sender: `MsgRing`, `AxclPorts` and `MsgDoorbell` each model a boot
  as far as their own state goes, and a sender that publishes an old pointer
  into a ring that was reset is left out.
* The count of the network mailbox (`ax_pcie_net.c:139-203`), whose readers and
  writers take no common lock, beyond "a card may be sent no more".
* Two removals at once, by two writes to a driver's `unbind`: the kernel
  serialises hotplug, and the model serialises both.  Cards in two PCI domains
  with the same bus number, which this code takes for one card.
* The interrupt request of probe, whose result it ignores, and what the kernel
  does when vectors are freed that somebody still has requested.
* A module parameter that places the shared memory at a misaligned address
  (`ax_pcie_dev_host.c:205-213`), and messages longer than a ring that was made
  smaller by the parameter for its size.
* A ring whose record could not be allocated, in `MsgRing`, `AxclPorts`,
  `MsgDoorbell` and `Handshake`: what follows is the crash of the caller, which
  `AxHostDev`, `AxclDriver` and `AxclHeartbeat` model.
* Queries by process id (`axcl_pcie_host.c:1051-1143`), statistics, DMA and address
  map helpers, the address windows of p2p, texts.
* `usr/include` and `debian`: headers of a closed library and packaging.

## 10. Where code and comments disagree

`netdev_exit`: the comment at the top of `axnet_pci_exit_one` says "call this
first, it will call net close func", but what comes first is the release of the
memory that the interface, its interrupt and the card work on.  `PROJECT.json`
quotes the lines.

## 11. How to run

```
tlc -workers 2 -config AxclPorts.cfg MCAxclPorts     # and so on
tlapm AxclProofs.tla
```

The longest runs are `ports` and `clients` (two to three minutes with two workers).
