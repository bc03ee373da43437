------------------------------ MODULE Handshake ------------------------------
(***************************************************************************)
(* How host and card find each other after a BOOT                          *)
(* (ax_pcie_msg_transfer.c, host_check_slv and slave_check_host).          *)
(*                                                                         *)
(* Step 0 uses the memory behind BAR 0 of the card: the host leaves there  *)
(* the address of a window of its own memory, and each side a flag.  Then  *)
(* both move to that window, "ob", initialise the message rings in it and  *)
(* repeat the exchange of flags there (step 1).  Neither side has another  *)
(* way to learn what the other one does, and the flags survive a restart:  *)
(* ob is host memory, and the memory behind BAR 0 may keep its contents.   *)
(* Every wait ends after 120 seconds.                                      *)
(***************************************************************************)
EXTENDS Naturals

CONSTANT MaxBoots  \* bound: BOOT ioctls

ASSUME HandshakeAssumption == MaxBoots \in Nat

VARIABLES
  hpc,     \* where the host is
  window,  \* which memory its shm_base_virt points to
  spc,     \* where the card is
  mapped,  \* the card has mapped ob (and not some other address)
  bar,     \* the memory behind BAR 0: both flags, and the address of ob
  ob,      \* both flags in ob
  boots,   \* BOOTs so far
  hasty    \* history: a side has given up on a peer that was still on its way,
           \* or the 100 ms the host sleeps were too short for the card

hostVars == <<hpc, window>>
slaveVars == <<spc, mapped>>
handshakeVars == <<hostVars, slaveVars, bar, ob, boots, hasty>>

Clear == [flag |-> "none", ack |-> "none"]
ClearBar == [flag |-> "none", ack |-> "none", addr |-> FALSE]

HandshakeInit ==
  /\ hpc = "idle"
  /\ window = "bar"
  /\ spc = "off"
  /\ mapped = FALSE
  /\ bar = ClearBar
  /\ ob = Clear
  /\ boots = 0
  /\ hasty = FALSE

-----------------------------------------------------------------------------
(* The host.                                                               *)

HostStep(from, to) == hpc = from /\ hpc' = to

\* IOC_AXCL_DEVICE_BOOT: the card is reset and its firmware loaded; the host
\* goes on with step 0, the card does when it is up.
Boot ==
  /\ hpc \in {"idle", "done", "failed"}
  /\ boots < MaxBoots
  /\ boots' = boots + 1
  /\ hpc' = "flag"
  /\ window' = "bar"
  /\ spc' = "poll0"
  /\ mapped' = FALSE
  /\ bar' \in {bar, ClearBar}
  /\ UNCHANGED <<ob, hasty>>

\* IOC_AXCL_DEVICE_RESET
Reset ==
  /\ hpc \in {"idle", "done", "failed"}
  /\ hpc' = "idle"
  /\ spc' = "off"
  /\ UNCHANGED <<window, mapped, bar, ob, boots, hasty>>

\* Step 0 writes its flag, then the address, then looks for the card's flag.
HostFlag ==
  /\ HostStep("flag", "addr")
  /\ bar' = [bar EXCEPT !.flag = "CHECKED"]
  /\ UNCHANGED <<window, slaveVars, ob, boots, hasty>>

HostAddress ==
  /\ HostStep("addr", "ack")
  /\ bar' = [bar EXCEPT !.addr = TRUE]
  /\ UNCHANGED <<window, slaveVars, ob, boots, hasty>>

HostTriesAgain ==
  /\ HostStep("ack", "flag")
  /\ bar.ack # "HANDSHAKE"
  /\ UNCHANGED <<window, slaveVars, bar, ob, boots, hasty>>

\* memset32(shm_base_virt, 0, 8) clears 32 bytes: the flags, and the address
\* at 0x10.
HostClears ==
  /\ HostStep("ack", "init")
  /\ bar.ack = "HANDSHAKE"
  /\ bar' = ClearBar
  /\ UNCHANGED <<window, slaveVars, ob, boots, hasty>>

\* The rings are initialised from offset 64 on: the flags stay.
HostInit ==
  /\ HostStep("init", "poll1")
  /\ window' = "ob"
  /\ UNCHANGED <<slaveVars, bar, ob, boots, hasty>>

HostSeesSlave ==
  /\ HostStep("poll1", "flag1")
  /\ ob.ack = "HANDSHAKE"
  /\ ob' = Clear
  /\ UNCHANGED <<window, slaveVars, bar, boots, hasty>>

HostConfirms ==
  /\ HostStep("flag1", "sleep")
  /\ ob' = [ob EXCEPT !.flag = "CHECKED"]
  /\ UNCHANGED <<window, slaveVars, bar, boots, hasty>>

\* After 100 ms the BOOT goes on and writes the time stamp over the flag.
HostReturns ==
  /\ HostStep("sleep", "done")
  /\ ob' = [ob EXCEPT !.flag = "stamp"]
  /\ hasty' = (hasty \/ spc = "poll1")
  /\ UNCHANGED <<window, slaveVars, bar, boots>>

\* A card that will not get any further.
Hopeless == spc \in {"off", "failed", "assumed"}

MutFlagMissing == hpc = "ack" /\ bar.ack # "HANDSHAKE"
FlagMissing ==
  \/ hpc = "ack" /\ bar.ack # "HANDSHAKE"
  \/ hpc = "poll1" /\ ob.ack # "HANDSHAKE"

HostGivesUp ==
  /\ hpc \in {"ack", "poll1"}
  /\ FlagMissing
  /\ hpc' = "failed"
  /\ hasty' = (hasty \/ ~Hopeless)
  /\ UNCHANGED <<window, slaveVars, bar, ob, boots>>

-----------------------------------------------------------------------------
(* The card.                                                               *)

SlaveStep(from, to) == spc = from /\ spc' = to

SlaveSeesHost ==
  /\ SlaveStep("poll0", "read")
  /\ bar.flag = "CHECKED"
  /\ bar' = [bar EXCEPT !.ack = "HANDSHAKE"]
  /\ UNCHANGED <<hostVars, mapped, ob, boots, hasty>>

\* The card reads the address of the window, and maps what it has read.
SlaveMaps ==
  /\ SlaveStep("read", "init")
  /\ mapped' = bar.addr
  /\ UNCHANGED <<hostVars, bar, ob, boots, hasty>>

MutSlaveInit ==
  /\ SlaveStep("init", "ack1")
  /\ ob' = IF mapped THEN [ob EXCEPT !.ack = "HANDSHAKE"] ELSE ob
  /\ UNCHANGED <<hostVars, mapped, bar, boots, hasty>>

\* It sets both pointers of both rings to 0.
SlaveInit ==
  /\ SlaveStep("init", "ack1")
  /\ UNCHANGED <<hostVars, mapped, bar, ob, boots, hasty>>

SlaveConfirms ==
  /\ SlaveStep("ack1", "poll1")
  /\ ob' = IF mapped THEN [ob EXCEPT !.ack = "HANDSHAKE"] ELSE ob
  /\ UNCHANGED <<hostVars, mapped, bar, boots, hasty>>

MutHostThere == TRUE
HostThere == ob.flag = "CHECKED"

SlaveDone ==
  /\ SlaveStep("poll1", "done")
  /\ mapped
  /\ HostThere
  /\ ob' = Clear
  /\ UNCHANGED <<hostVars, mapped, bar, boots, hasty>>

\* In step 0 a timeout is an error; in step 1 the card goes on as if it had
\* seen the host.
SlaveGivesUp ==
  /\ \/ /\ SlaveStep("poll0", "failed")
        /\ bar.flag # "CHECKED"
        /\ hasty' = (hasty \/ hpc \in {"flag", "addr", "ack"})
     \/ /\ SlaveStep("poll1", "assumed")
        /\ ~(mapped /\ ob.flag = "CHECKED")
        /\ hasty' = (hasty \/ (mapped /\ hpc \in {"flag", "addr", "ack", "init", "poll1",
                                               "flag1"}))
  /\ UNCHANGED <<hostVars, mapped, bar, ob, boots>>

\* The heartbeat packet lies where the flags are.
SlaveBeats ==
  /\ spc \in {"done", "assumed"}
  /\ mapped
  /\ ob' = [flag |-> "packet", ack |-> "packet"]
  /\ UNCHANGED <<hostVars, slaveVars, bar, boots, hasty>>

SlaveCrashes ==
  /\ spc # "off"
  /\ spc' = "off"
  /\ UNCHANGED <<hostVars, mapped, bar, ob, boots, hasty>>

Host ==
  \/ HostFlag \/ HostAddress \/ HostTriesAgain \/ HostClears \/ HostInit
  \/ HostSeesSlave \/ HostConfirms \/ HostReturns \/ HostGivesUp

Slave ==
  \/ SlaveSeesHost \/ SlaveMaps \/ SlaveInit \/ SlaveConfirms \/ SlaveDone
  \/ SlaveGivesUp

HandshakeNext == Boot \/ Reset \/ Host \/ Slave \/ SlaveBeats \/ SlaveCrashes

\* Both sides keep polling until they see what they wait for or give up.  That
\* step 0 of the host polls between its writes needs strong fairness for the
\* exits of its loop.
HandshakeSpec ==
  /\ HandshakeInit /\ [][HandshakeNext]_handshakeVars
  /\ WF_handshakeVars(Host) /\ WF_handshakeVars(Slave)
  /\ SF_handshakeVars(HostClears) /\ SF_handshakeVars(HostGivesUp)

-----------------------------------------------------------------------------
(* Properties.                                                             *)

\* The variables have their types.
HandshakeTypeOK ==
  /\ hpc \in {"idle", "flag", "addr", "ack", "init", "poll1", "flag1", "sleep",
              "done", "failed"}
  /\ window \in {"bar", "ob"}
  /\ spc \in {"off", "poll0", "read", "init", "ack1", "poll1", "done", "assumed",
              "failed"}
  /\ mapped \in BOOLEAN
  /\ bar \in [flag : {"none", "CHECKED"}, ack : {"none", "HANDSHAKE"},
              addr : BOOLEAN]
  /\ ob \in [flag : {"none", "CHECKED", "stamp", "packet"},
             ack : {"none", "HANDSHAKE", "packet"}]
  /\ boots \in Nat
  /\ hasty \in BOOLEAN

\* The host takes the card for ready.
Trusting == hpc \in {"flag1", "sleep", "done"} /\ spc # "off"

\* The card has mapped the window and reset the pointers of the rings.
SlaveReady == mapped /\ spc \in {"poll1", "done", "assumed"}

\* When the handshake has succeeded for the host, which then starts to send,
\* the card of this BOOT (if it still runs) has mapped the right window and
\* has reset the pointers of the rings: it will not reset them under the
\* host's first messages.  So long as no side was ever hasty: the flag of a
\* card the host did not wait for is taken for that of the next BOOT.
HostTrustsReadySlave == Trusting /\ ~hasty => SlaveReady

\* A card that has seen the host's flag in step 1 has not mistaken a flag of
\* an earlier BOOT for it: the host has succeeded in this one.
SlaveTrustsReadyHost == spc = "done" => hpc \in {"sleep", "done"} /\ window = "ob"

\* Every BOOT ends: the two sides never wait for each other for ever, even if
\* one of them has cleared a flag the other one still waits for.
EveryBootEnds == hpc = "flag" ~> hpc \in {"done", "failed"}
=============================================================================
