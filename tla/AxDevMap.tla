------------------------------ MODULE AxDevMap ------------------------------
(***************************************************************************)
(* The device map of ax_pcie_dev_host.c: an array of the records of the    *)
(* cards and a count.  probe acquires what a card needs, one after the     *)
(* other, unwinds when one fails, and enters the record; remove releases   *)
(* all, and closes the gap with the last entry.  Every lookup of the       *)
(* drivers walks the array without a lock.                                 *)
(*                                                                         *)
(* The kernel runs one probe or remove at a time (cards come and go by a   *)
(* bus walk or hotplug, both under pci_lock_rescan_remove).  The bus       *)
(* number, which names a card, differs from card to card here.             *)
(***************************************************************************)
EXTENDS Naturals, Sequences, FiniteSets

CONSTANTS Cards, None,
          MaxDev  \* MAX_PCIE_DEVICES

ASSUME MapAssumption == None \notin Cards /\ MaxDev \in Nat \ {0}

VARIABLES
  map,      \* g_axera_dev_map
  number,   \* remote_device_number
  has,      \* what the driver holds for each card
  saved,    \* cards whose configuration space is in their record
  bound,    \* the kernel's view: "no", "bound", or bound by a failed probe
  core      \* the remove under way

mapVars == <<map, number, has, saved, bound, core>>

Bars == {"bar0", "bar1", "bar4"}
\* What probe acquires, in its order; the record is struct axera_dev.
Steps == <<"enabled", "regions", "vectors", "record", "bar0", "bar1", "bar4", "shm">>
All == {Steps[n] : n \in 1..Len(Steps)}

Slots == 0..(MaxDev - 1)
NoCall == [pc |-> "idle", card |-> None]

MapInit ==
  /\ map = [i \in Slots |-> None] /\ number = 0
  /\ has = [d \in Cards |-> {}] /\ saved = {}
  /\ bound = [d \in Cards |-> "no"] /\ core = NoCall

CoreAt(pc) == core.pc = pc
CoreGoes(pc) == core' = [core EXCEPT !.pc = pc]
c0 == core.card

-----------------------------------------------------------------------------
(* ax_pcie_dev_probe.  Nobody can tell its steps apart: the new entry counts  *)
(* only when the count does.                                                  *)

\* The labels at the end of probe free what comes before the step that failed.
\* Those before bar_ioremap_err, which unmap what was mapped, are not passed
\* by a BAR that fails.
LeftBy(n) == IF Steps[n] \in Bars THEN {Steps[k] : k \in 1..(n - 1)} \cap Bars ELSE {}

\* ret is still 0 when the vectors or a BAR fail: the probe has "succeeded".
ProbeFails(d) ==
  /\ CoreAt("idle") /\ bound[d] = "no"
  /\ \E n \in 1..Len(Steps) :
       /\ has' = [has EXCEPT ![d] = @ \cup LeftBy(n)]
       /\ bound' = [bound EXCEPT ![d] =
                      IF Steps[n] \in Bars \cup {"vectors"} THEN "hollow" ELSE "no"]
  /\ UNCHANGED <<map, number, saved, core>>

\* An entry that is not NULL, or none left: -1, and all is freed.
Full == number >= MaxDev \/ map[number] # None
ProbeRefused(d) ==
  /\ CoreAt("idle") /\ bound[d] = "no" /\ Full
  /\ UNCHANGED mapVars

\* ax_pcie_config_store, and what ax_pcie_config_restore can write back.
Stores(d) == saved' = saved \cup {d}
Restorable(d) == d \in saved

\* The entry, the stored configuration, the count.  Whether the interrupt is granted
\* makes no difference: host_request_message_irq returns false, which is 0, when
\* it is not.
ProbeBinds(d) ==
  /\ CoreAt("idle") /\ bound[d] = "no" /\ ~Full
  /\ map' = [map EXCEPT ![number] = d]
  /\ Stores(d)
  /\ number' = number + 1
  /\ has' = [has EXCEPT ![d] = All]
  /\ bound' = [bound EXCEPT ![d] = "bound"]
  /\ UNCHANGED core

ProbeCard(d) == ProbeFails(d) \/ ProbeRefused(d) \/ ProbeBinds(d)

-----------------------------------------------------------------------------
(* ax_pcie_dev_remove *)

\* A card without drvdata is left as it is.
RemoveBegins(d) ==
  /\ CoreAt("idle") /\ bound[d] # "no"
  /\ IF bound[d] = "hollow"
     THEN bound' = [bound EXCEPT ![d] = "no"] /\ UNCHANGED core
     ELSE core' = [pc |-> "release", card |-> d] /\ UNCHANGED bound
  /\ UNCHANGED <<map, number, has, saved>>

Releases ==
  /\ CoreAt("release") /\ CoreGoes("move")
  /\ has' = [has EXCEPT ![c0] = @ \ (All \ {"record"})]
  /\ UNCHANGED <<map, number, saved, bound>>

\* Mutant: no entry takes its place.
MutMovesLast == CoreAt("move") /\ CoreGoes("clear") /\ UNCHANGED <<map, number, has, saved, bound>>

\* The last entry takes the place of the card's ...
MovesLast ==
  /\ CoreAt("move") /\ CoreGoes("clear")
  /\ \E i \in 0..(number - 1) :
       map[i] = c0 /\ map' = [map EXCEPT ![i] = map[number - 1]]
  /\ UNCHANGED <<number, has, saved, bound>>

\* ... and leaves its own, and the record goes ...
ClearsLast ==
  /\ CoreAt("clear") /\ CoreGoes("uncount")
  /\ map' = [map EXCEPT ![number - 1] = None]
  /\ has' = [has EXCEPT ![c0] = @ \ {"record"}] /\ saved' = saved \ {c0}
  /\ UNCHANGED <<number, bound>>

\* ... and only then the count.
Uncounts ==
  /\ CoreAt("uncount") /\ core' = NoCall
  /\ bound' = [bound EXCEPT ![c0] = "no"]
  /\ number' = number - 1
  /\ UNCHANGED <<map, has, saved>>

RemoveStep == Releases \/ MovesLast \/ ClearsLast \/ Uncounts

-----------------------------------------------------------------------------
(* What the other drivers do with the map *)

\* Everything that reaches the card goes through its BARs and its record,
\* and messages and heartbeats through the shared memory.
Usable(d) == Bars \cup {"record", "shm"} \subseteq has[d]

\* slot_to_axdev in one step: the entry at which the walk ends.
WalkEnd(d) == {i \in 0..(number - 1) :
                 /\ map[i] \in {d, None}
                 /\ \A j \in 0..(i - 1) : map[j] \notin {d, None}}

-----------------------------------------------------------------------------
(* Properties *)

\* The entries below the count are the bound cards, each once, with its
\* memory and with a configuration space that a reset can restore; the one
\* above is empty.  While a remove closes the gap this need not hold, and
\* readers that run into that are what BadForCause of AxclDriver is about.
MapRight ==
  core.pc \notin {"clear", "uncount"} =>
    /\ \A i \in 0..(number - 1) : map[i] \in saved /\ "record" \in has[map[i]]
    /\ \A i, j \in 0..(number - 1) : map[i] = map[j] => i = j
    /\ \A i \in Slots : i >= number => map[i] = None
    /\ {map[i] : i \in 0..(number - 1)} = {d \in Cards : bound[d] = "bound"}

\* When no call is under way, a card that is not bound, or that only the
\* kernel believes to be, holds nothing of the driver's but mappings of BARs;
\* a bound one holds all it needs.
NothingHeld ==
  CoreAt("idle") =>
    \A d \in Cards : IF bound[d] = "bound" THEN All \subseteq has[d]
                                           ELSE has[d] \subseteq Bars

\* The map, the kernel and what is held for the cards agree.
MapSound == MapRight /\ NothingHeld
=============================================================================
