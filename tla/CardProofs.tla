----------------------------- MODULE CardProofs -----------------------------
(***************************************************************************)
(* Theorems about the life of a card: how it comes up (Handshake), for any *)
(* number of boots, and how it is watched (AxclHeartbeat), for any         *)
(* processes, cards and bounds.                                            *)
(*                                                                         *)
(* Flags have no owner and no date, so what the handshake needs is where a *)
(* flag can come from: FlagFresh for the host's flag in ob, and AckFresh,  *)
(* while nobody was hasty, for the card's.                                 *)
(*                                                                         *)
(* VerdictStands is not inductive: it says nothing of a thread that is     *)
(* already past its look at the status and about to set ALIVE.  Verdict    *)
(* adds that a thread that has declared its card dead has not got past the *)
(* look, and has forgotten its count, unless a BOOT is on its last step.   *)
(***************************************************************************)
EXTENDS AxclHeartbeat, Handshake, TLAPS

-----------------------------------------------------------------------------
(* The handshake                                                           *)

\* The host's flag in ob is there only while the host sleeps after it.
FlagFresh ==
  /\ ob.flag = "CHECKED" => hpc = "sleep"
  /\ hpc \in {"poll1", "flag1", "sleep", "done"} => window = "ob"

\* The card's flag in ob is from the card of this BOOT, and there is none when
\* no handshake is under way.
AckFresh ==
  /\ hpc \in {"failed", "idle"} => Hopeless
  /\ hpc \in {"idle", "flag1", "sleep", "done", "failed"} => ob.ack # "HANDSHAKE"
  /\ ob.ack = "HANDSHAKE" /\ spc # "off" =>
       mapped /\ spc \in {"poll1", "done", "assumed"}
  /\ ob.ack = "HANDSHAKE" /\ hpc \in {"flag", "addr", "ack"} => bar.ack = "HANDSHAKE"
  /\ hpc \in {"flag", "addr", "ack"} /\ spc \in {"read", "init", "ack1"} =>
       bar.ack = "HANDSHAKE"

LEMMA HastyStep == HandshakeTypeOK /\ [HandshakeNext]_handshakeVars => hasty' \in BOOLEAN
<1> SUFFICES ASSUME HandshakeTypeOK, [HandshakeNext]_handshakeVars PROVE hasty' \in BOOLEAN
  OBVIOUS
<1>0. hasty \in BOOLEAN
  BY DEF HandshakeTypeOK
<1>1. CASE HostReturns \/ HostGivesUp \/ SlaveGivesUp
  BY <1>1, <1>0, Zenon DEF HostReturns, HostGivesUp, SlaveGivesUp
<1>2. CASE Boot \/ Reset \/ UNCHANGED handshakeVars
  BY <1>2, <1>0, Zenon DEF Boot, Reset, handshakeVars
<1>3. CASE HostFlag \/ HostAddress \/ HostTriesAgain \/ HostClears \/ HostInit
           \/ HostSeesSlave \/ HostConfirms
  BY <1>3, <1>0, Zenon DEF HostFlag, HostAddress, HostTriesAgain, HostClears, HostInit,
     HostSeesSlave, HostConfirms
<1>4. CASE SlaveSeesHost \/ SlaveMaps \/ SlaveInit \/ SlaveConfirms \/ SlaveDone
           \/ SlaveBeats \/ SlaveCrashes
  BY <1>4, <1>0, Zenon DEF SlaveSeesHost, SlaveMaps, SlaveInit, SlaveConfirms, SlaveDone,
     SlaveBeats, SlaveCrashes
<1> QED
  BY <1>1, <1>2, <1>3, <1>4 DEF HandshakeNext, Host, Slave

LEMMA TypeStep == HandshakeTypeOK /\ [HandshakeNext]_handshakeVars => HandshakeTypeOK'
<1> SUFFICES ASSUME HandshakeTypeOK, [HandshakeNext]_handshakeVars PROVE HandshakeTypeOK'
  OBVIOUS
<1>h. hasty' \in BOOLEAN
  BY HastyStep
<1> USE <1>h DEF HandshakeTypeOK, hostVars, slaveVars, Clear, ClearBar
<1>1. CASE Boot \/ Reset
  <2>1. bar' = bar \/ bar' = ClearBar
    BY <1>1, Zenon DEF Boot, Reset
  <2>2. ClearBar \in [flag : {"none", "CHECKED"}, ack : {"none", "HANDSHAKE"}, addr : BOOLEAN]
    OBVIOUS
  <2>3. bar' \in [flag : {"none", "CHECKED"}, ack : {"none", "HANDSHAKE"}, addr : BOOLEAN]
    BY <2>1, <2>2, Zenon
  <2>4. mapped' \in BOOLEAN /\ ob' = ob /\ window' \in {"bar", "ob"}
    BY <1>1, Zenon DEF Boot, Reset
  <2>5. hpc' \in {"flag", "idle"} /\ spc' \in {"poll0", "off"} /\ boots' \in Nat
    BY <1>1, SMT DEF Boot, Reset
  <2> QED
    BY <2>3, <2>4, <2>5
<1>2. CASE HostFlag \/ HostAddress
  <2>1. CASE HostFlag
    BY <2>1 DEF HostFlag, HostStep
  <2>2. CASE HostAddress
    BY <2>2 DEF HostAddress, HostStep
  <2> QED
    BY <1>2, <2>1, <2>2
<1>7. CASE HostTriesAgain \/ HostClears \/ HostInit
  <2>1. ClearBar \in [flag : {"none", "CHECKED"}, ack : {"none", "HANDSHAKE"}, addr : BOOLEAN]
    OBVIOUS
  <2>2. bar' = bar \/ bar' = ClearBar
    BY <1>7, Zenon DEF HostTriesAgain, HostClears, HostInit
  <2>3. bar' \in [flag : {"none", "CHECKED"}, ack : {"none", "HANDSHAKE"}, addr : BOOLEAN]
    BY <2>1, <2>2, Zenon
  <2>4. mapped' = mapped /\ ob' = ob /\ window' \in {"bar", "ob"} /\ spc' = spc /\ boots' = boots
    BY <1>7, Zenon DEF HostTriesAgain, HostClears, HostInit
  <2>5. hpc' \in {"flag", "init", "poll1"}
    BY <1>7 DEF HostTriesAgain, HostClears, HostInit, HostStep
  <2> QED
    BY <2>3, <2>4, <2>5
<1>3. CASE HostSeesSlave \/ HostConfirms \/ HostReturns \/ HostGivesUp
  BY <1>3 DEF HostSeesSlave, HostConfirms, HostReturns, HostGivesUp, HostStep
<1>4. CASE SlaveSeesHost \/ SlaveMaps \/ SlaveInit \/ SlaveConfirms
  BY <1>4 DEF SlaveSeesHost, SlaveMaps, SlaveInit, SlaveConfirms, SlaveStep
<1>5. CASE SlaveDone \/ SlaveGivesUp \/ SlaveBeats \/ SlaveCrashes
  BY <1>5 DEF SlaveDone, SlaveGivesUp, SlaveBeats, SlaveCrashes, SlaveStep
<1>6. CASE UNCHANGED handshakeVars
  BY <1>6 DEF handshakeVars
<1> QED
  BY <1>1, <1>2, <1>3, <1>4, <1>5, <1>6, <1>7 DEF HandshakeNext, Host, Slave

LEMMA FlagStep ==
  HandshakeTypeOK /\ FlagFresh /\ SlaveTrustsReadyHost /\ [HandshakeNext]_handshakeVars
    => (FlagFresh /\ SlaveTrustsReadyHost)'
<1> SUFFICES ASSUME HandshakeTypeOK, FlagFresh, SlaveTrustsReadyHost, [HandshakeNext]_handshakeVars
             PROVE  (FlagFresh /\ SlaveTrustsReadyHost)'
  OBVIOUS
<1> USE DEF HandshakeTypeOK, FlagFresh, SlaveTrustsReadyHost, hostVars, slaveVars, Clear
<1>1. CASE Boot \/ Reset
  BY <1>1 DEF Boot, Reset
<1>2. CASE HostFlag \/ HostAddress \/ HostTriesAgain \/ HostClears \/ HostInit
  BY <1>2 DEF HostFlag, HostAddress, HostTriesAgain, HostClears, HostInit, HostStep
<1>3. CASE HostSeesSlave \/ HostConfirms \/ HostReturns \/ HostGivesUp
  BY <1>3 DEF HostSeesSlave, HostConfirms, HostReturns, HostGivesUp, HostStep
<1>4. CASE SlaveSeesHost \/ SlaveMaps \/ SlaveInit \/ SlaveConfirms
  BY <1>4 DEF SlaveSeesHost, SlaveMaps, SlaveInit, SlaveConfirms, SlaveStep
<1>5. CASE SlaveDone \/ SlaveGivesUp \/ SlaveBeats \/ SlaveCrashes
  BY <1>5 DEF SlaveDone, HostThere, SlaveGivesUp, SlaveBeats, SlaveCrashes, SlaveStep
<1>6. CASE UNCHANGED handshakeVars
  BY <1>6 DEF handshakeVars
<1> QED
  BY <1>1, <1>2, <1>3, <1>4, <1>5, <1>6 DEF HandshakeNext, Host, Slave

LEMMA AckStep ==
  /\ HandshakeTypeOK /\ [HandshakeNext]_handshakeVars
  /\ ~hasty => AckFresh /\ HostTrustsReadySlave
  => (~hasty => AckFresh /\ HostTrustsReadySlave)'
<1> SUFFICES ASSUME HandshakeTypeOK, [HandshakeNext]_handshakeVars, ~hasty => AckFresh /\ HostTrustsReadySlave,
                    ~hasty'
             PROVE  (AckFresh /\ HostTrustsReadySlave)'
  OBVIOUS
<1>h. ~hasty
  <2> USE DEF HandshakeTypeOK
  <2>1. CASE HostReturns \/ HostGivesUp \/ SlaveGivesUp
    BY <2>1, Zenon DEF HostReturns, HostGivesUp, SlaveGivesUp
  <2>2. CASE Boot \/ Reset \/ UNCHANGED handshakeVars
    BY <2>2, Zenon DEF Boot, Reset, handshakeVars
  <2>3. CASE HostFlag \/ HostAddress \/ HostTriesAgain \/ HostClears \/ HostInit
            \/ HostSeesSlave \/ HostConfirms
    BY <2>3, Zenon DEF HostFlag, HostAddress, HostTriesAgain, HostClears, HostInit,
       HostSeesSlave, HostConfirms
  <2>4. CASE SlaveSeesHost \/ SlaveMaps \/ SlaveInit \/ SlaveConfirms \/ SlaveDone
            \/ SlaveBeats \/ SlaveCrashes
    BY <2>4, Zenon DEF SlaveSeesHost, SlaveMaps, SlaveInit, SlaveConfirms, SlaveDone,
       SlaveBeats, SlaveCrashes
  <2> QED
    BY <2>1, <2>2, <2>3, <2>4 DEF HandshakeNext, Host, Slave
<1>a. AckFresh /\ HostTrustsReadySlave
  BY <1>h
<1> USE <1>a, <1>h DEF HandshakeTypeOK, AckFresh, HostTrustsReadySlave, Trusting, SlaveReady, Hopeless, hostVars, slaveVars,
            Clear, ClearBar
<1>1. CASE Boot \/ Reset
  BY <1>1 DEF Boot, Reset
<1>2. CASE HostFlag \/ HostAddress \/ HostTriesAgain \/ HostClears \/ HostInit
  <2>1. CASE HostFlag
    BY <2>1 DEF HostFlag, HostStep
  <2>2. CASE HostAddress
    BY <2>2 DEF HostAddress, HostStep
  <2>3. CASE HostTriesAgain \/ HostInit
    BY <2>3 DEF HostTriesAgain, HostInit, HostStep
  <2>4. CASE HostClears
    BY <2>4 DEF HostClears, HostStep
  <2> QED
    BY <1>2, <2>1, <2>2, <2>3, <2>4
<1>3. CASE HostSeesSlave \/ HostConfirms \/ HostReturns
  BY <1>3 DEF HostSeesSlave, HostConfirms, HostReturns, HostStep
<1>4. CASE HostGivesUp
  BY <1>4 DEF HostGivesUp, FlagMissing
<1>5. CASE SlaveSeesHost \/ SlaveMaps \/ SlaveInit \/ SlaveConfirms
  BY <1>5 DEF SlaveSeesHost, SlaveMaps, SlaveInit, SlaveConfirms, SlaveStep
<1>6. CASE SlaveDone \/ SlaveGivesUp \/ SlaveBeats \/ SlaveCrashes
  BY <1>6 DEF SlaveDone, SlaveGivesUp, SlaveBeats, SlaveCrashes, SlaveStep
<1>7. CASE UNCHANGED handshakeVars
  BY <1>7 DEF handshakeVars
<1> QED
  BY <1>1, <1>2, <1>3, <1>4, <1>5, <1>6, <1>7 DEF HandshakeNext, Host, Slave

-----------------------------------------------------------------------------
\* The state of the handshake has its types.
THEOREM HandshakeTypeCorrect == HandshakeSpec => []HandshakeTypeOK
<1>1. HandshakeInit => HandshakeTypeOK
  <2>1. ClearBar \in [flag : {"none", "CHECKED"}, ack : {"none", "HANDSHAKE"}, addr : BOOLEAN]
    BY DEF ClearBar
  <2>2. Clear \in [flag : {"none", "CHECKED", "stamp", "packet"},
                   ack : {"none", "HANDSHAKE", "packet"}]
    BY DEF Clear
  <2>3. HandshakeInit => mapped \in BOOLEAN /\ hasty \in BOOLEAN /\ bar = ClearBar /\ ob = Clear
    BY Zenon DEF HandshakeInit
  <2>4. HandshakeInit => /\ hpc = "idle" /\ spc = "off"
                /\ window \in {"bar", "ob"} /\ boots \in Nat
    BY SMT DEF HandshakeInit
  <2> QED
    BY <2>1, <2>2, <2>3, <2>4 DEF HandshakeTypeOK
<1> QED
  BY <1>1, TypeStep, PTL DEF HandshakeSpec

\* Whatever is left over from earlier boots and whoever gives up when, a card
\* that has seen the host's flag in step 1 has seen the one of this BOOT.
THEOREM SlaveTrustHolds == HandshakeSpec => []SlaveTrustsReadyHost
<1>1. HandshakeInit => FlagFresh /\ SlaveTrustsReadyHost
  BY DEF HandshakeInit, FlagFresh, SlaveTrustsReadyHost, Clear
<1> QED
  BY <1>1, FlagStep, HandshakeTypeCorrect, PTL DEF HandshakeSpec

\* So long as nobody gives up on a peer that is on its way, the host starts to
\* send only to a card that has mapped the window and initialised the rings.
THEOREM HostTrustHolds == HandshakeSpec => []HostTrustsReadySlave
<1>1. HandshakeInit => (~hasty => AckFresh /\ HostTrustsReadySlave)
  BY DEF HandshakeInit, AckFresh, HostTrustsReadySlave, Trusting, Hopeless, Clear, ClearBar
<1>2. (~hasty => AckFresh /\ HostTrustsReadySlave) => HostTrustsReadySlave
  BY DEF HostTrustsReadySlave
<1> QED
  BY <1>1, <1>2, AckStep, HandshakeTypeCorrect, PTL DEF HandshakeSpec

-----------------------------------------------------------------------------
(* The heartbeat                                                           *)

Verdict(d) ==
  ~htcond[d] =>
    \/ boot = <<d, "alive">>
    \/ status[d] = "DEAD" /\ pc[d] \in {"none", "top", "wait"} /\ count[d] = 0

\* A card that is restarting does not run.
Restarting(d) == boot = <<d, "restarting">> => ~up[d]

\* Unless the card was booted behind the thread's back, the packet of a card
\* that runs is never behind the thread's count.
Counting(d) == up[d] /\ ~booted[d] => packet[d].count >= count[d]

\* A thread that waits has something to see as soon as its card has beaten.
Waiting(d) ==
  pc[d] = "recv" /\ up[d] /\ ~booted[d] /\ beaten[d] =>
    packet[d].valid /\ packet[d].count > count[d]

HInv ==
  /\ TypeOK
  /\ LossSignalled
  /\ \A d \in Devices : Verdict(d) /\ Restarting(d) /\ Counting(d) /\ Waiting(d)

Groups == <<statusVars, threadVars, cardVars, userVars, ioctlVars>>

LEMMA HInvInit == Init => HInv
<1> SUFFICES ASSUME Init PROVE HInv
  OBVIOUS
<1> USE HeartbeatAssumption DEF Init
<1>1. TypeOK
  BY DEF TypeOK, Silent
<1>2. LossSignalled
  BY DEF LossSignalled
<1>3. ASSUME NEW d \in Devices
      PROVE  Verdict(d) /\ Restarting(d) /\ Counting(d) /\ Waiting(d)
  <2>1. up[d] => packet[d].count = 0 /\ count[d] = 0
    BY SMT DEF Silent
  <2>2. ~htcond[d] => status[d] = "DEAD" /\ pc[d] = "none" /\ count[d] = 0
    BY Zenon
  <2>3. boot # <<d, "restarting">>
    BY SMT
  <2>4. beaten[d] = FALSE
    BY Zenon
  <2> QED
    BY <2>1, <2>2, <2>3, <2>4, SMT DEF Verdict, Restarting, Counting, Waiting
<1> QED
  BY <1>1, <1>2, <1>3 DEF HInv

LEMMA HInvStep == HInv /\ [Next]_vars => HInv'
<1> SUFFICES ASSUME HInv, [Next]_vars PROVE HInv'
  OBVIOUS
<1> USE HeartbeatAssumption
<1>1. ASSUME NEW d \in Devices, Look(d) PROVE HInv'
  <2> USE <1>1 DEF Look, Step, BeginsWait, HInv, TypeOK, statusVars, cardVars, userVars,
                   ioctlVars
  <2>1. pc' \in [Devices -> {"none", "top", "wait", "recv", "beat", "lost"}]
    BY SMT
  <2>2. beaten' \in [Devices -> BOOLEAN]
    BY Zenon
  <2>3. LossSignalled'
    BY SMT DEF LossSignalled
  <2>4. ASSUME NEW e \in Devices
        PROVE  Verdict(e)' /\ Restarting(e)' /\ Counting(e)' /\ Waiting(e)'
    <3>1. CASE status[d] = "ALIVE" /\ pc' = [pc EXCEPT ![d] = "recv"] /\ BeginsWait(d)
      BY <3>1, SMT DEF Verdict, Restarting, Counting, Waiting
    <3>2. CASE pc' = [pc EXCEPT ![d] = "wait"] /\ pc[d] = "top" /\ UNCHANGED beaten
      BY <3>2, SMT DEF Verdict, Restarting, Counting, Waiting
    <3> QED
      BY <3>1, <3>2
  <2> QED
    BY <2>1, <2>2, <2>3, <2>4
<1>2. ASSUME NEW d \in Devices, Wake(d) PROVE HInv'
  <2> USE <1>2 DEF Wake, Step, BeginsWait, HInv, TypeOK, statusVars, cardVars, userVars,
                   ioctlVars
  <2>1. pc' \in [Devices -> {"none", "top", "wait", "recv", "beat", "lost"}]
    BY SMT
  <2>2. beaten' \in [Devices -> BOOLEAN]
    BY Zenon
  <2>3. LossSignalled'
    BY SMT DEF LossSignalled
  <2>4. ASSUME NEW e \in Devices
        PROVE  Verdict(e)' /\ Restarting(e)' /\ Counting(e)' /\ Waiting(e)'
    <3>1. CASE status[d] = "ALIVE" /\ pc' = [pc EXCEPT ![d] = "recv"] /\ BeginsWait(d)
      BY <3>1, SMT DEF Verdict, Restarting, Counting, Waiting
    <3>2. CASE pc' = [pc EXCEPT ![d] = "top"] /\ pc[d] = "wait" /\ UNCHANGED beaten
      BY <3>2, SMT DEF Verdict, Restarting, Counting, Waiting
    <3> QED
      BY <3>1, <3>2
  <2> QED
    BY <2>1, <2>2, <2>3, <2>4
<1>3. ASSUME NEW d \in Devices, SeeBeat(d) PROVE HInv'
  BY <1>3, SMT DEF SeeBeat, Ready, Step, Counts, HInv, TypeOK, LossSignalled,
      Verdict, Restarting, Counting, Waiting, statusVars, cardVars, userVars, ioctlVars
<1>4. ASSUME NEW d \in Devices, GiveUp(d) PROVE HInv'
  BY <1>4, SMT DEF GiveUp, Step, HInv, TypeOK, LossSignalled, Verdict, Restarting,
      Counting, Waiting, statusVars, cardVars, userVars, ioctlVars
<1>5. ASSUME NEW d \in Devices, Lost(d) PROVE HInv'
  <2> USE <1>5 DEF Lost, Step, MutexFree, DeclareDead, Counts, HInv, TypeOK,
                   cardVars, ioctlVars
  <2>1. TypeOK'
    <3>1. unseen' \in [Procs -> SUBSET Devices]
      OBVIOUS
    <3>2. event' \in [Procs -> Nat]
      BY SMT
    <3>3. handles' \subseteq Procs \X Devices
      OBVIOUS
    <3> QED
      BY <3>1, <3>2, <3>3, SMT
  <2>2. LossSignalled'
    <3> SUFFICES ASSUME NEW p \in Procs, unseen'[p] # {} PROVE event'[p] > 0
      BY DEF LossSignalled
    <3>1. CASE <<p, d>> \in handles
      BY <3>1, SMT DEF Signalled
    <3>2. CASE <<p, d>> \notin handles
      <4>1. unseen[p] # {}
        BY <3>2
      <4> QED
        BY <4>1, SMT DEF LossSignalled
    <3> QED
      BY <3>1, <3>2
  <2>3. \A e \in Devices : Verdict(e)' /\ Restarting(e)' /\ Counting(e)' /\ Waiting(e)'
    BY SMT DEF Verdict, Restarting, Counting, Waiting
  <2> QED
    BY <2>1, <2>2, <2>3
<1>6. ASSUME NEW d \in Devices, SetAlive(d) PROVE HInv'
  BY <1>6, SMT DEF SetAlive, Step, HInv, TypeOK, LossSignalled, Verdict, Restarting,
      Counting, Waiting, cardVars, userVars, ioctlVars
<1>7. ASSUME NEW p \in Procs, NEW d \in Devices, Create(p, d) \/ Destroy(p, d)
      PROVE HInv'
  <2> USE <1>7 DEF Create, Destroy, HInv, TypeOK, statusVars, threadVars, cardVars,
                   ioctlVars
  <2>1. LossSignalled'
    BY SMT DEF LossSignalled
  <2> QED
    BY <2>1, SMT DEF Verdict, Restarting, Counting, Waiting
<1>8. ASSUME NEW p \in Procs, Poll(p) \/ WakeUpPoll(p) PROVE HInv'
  <2> USE <1>8 DEF Poll, HasEvent, WakeUpPoll, HInv, TypeOK, statusVars, threadVars,
                   cardVars, ioctlVars
  <2>1. LossSignalled'
    BY SMT DEF LossSignalled
  <2> QED
    BY <2>1, SMT DEF Verdict, Restarting, Counting, Waiting
<1>9. ASSUME NEW p \in Procs, NEW d \in Devices, ResetDevice(p, d) PROVE HInv'
  BY <1>9, SMT DEF ResetDevice, StopCard, MutexFree, HInv, TypeOK, LossSignalled,
      Verdict, Restarting, Counting, Waiting, threadVars
<1>10. ASSUME NEW p \in Procs, NEW d \in Devices, BootStart(p, d) PROVE HInv'
  BY <1>10, SMT DEF BootStart, StopCard, MutexFree, HInv, TypeOK, LossSignalled,
      Verdict, Restarting, Counting, Waiting, statusVars, threadVars, Phases
<1>11. ASSUME NEW d \in Devices, BootFails(d) PROVE HInv'
  <2> USE <1>11 DEF BootFails, HInv, TypeOK, threadVars, userVars
  <2>1. TypeOK'
    <3>1. packet' \in [Devices -> [valid : BOOLEAN, count : Nat]]
      <4>1. CASE packet' = packet
        BY <4>1
      <4>2. CASE packet' = [packet EXCEPT ![d] = Silent]
        BY <4>2, SMT DEF Silent
      <4> QED
        BY <4>1, <4>2
    <3>2. status' \in [Devices -> {"DEAD", "ALIVE"}]
      BY Zenon
    <3> QED
      BY <3>1, <3>2
  <2>2. LossSignalled'
    BY SMT DEF LossSignalled
  <2>3. ASSUME NEW e \in Devices
        PROVE  Verdict(e)' /\ Restarting(e)' /\ Counting(e)' /\ Waiting(e)'
    <3>1. ~up[d]
      BY DEF Restarting
    <3>2. e # d => packet'[e] = packet[e]
      BY Zenon
    <3> QED
      BY <3>1, <3>2, SMT DEF Verdict, Restarting, Counting, Waiting
  <2> QED
    BY <2>1, <2>2, <2>3
<1>17. ASSUME NEW d \in Devices, BootCrashes(d) PROVE HInv'
  <2> USE <1>17 DEF BootCrashes, HInv, TypeOK, statusVars, threadVars, userVars
  <2>1. packet' \in [Devices -> [valid : BOOLEAN, count : Nat]]
    <3>1. Silent \in [valid : BOOLEAN, count : Nat]
      BY DEF Silent
    <3> QED
      BY <3>1
  <2>2. ~up[d] /\ \A e \in Devices : e # d => packet'[e] = packet[e]
    BY DEF Restarting
  <2>3. ASSUME NEW e \in Devices
        PROVE  Verdict(e)' /\ Restarting(e)' /\ Counting(e)' /\ Waiting(e)'
    BY <2>2, SMT DEF Verdict, Restarting, Counting, Waiting
  <2> QED
    BY <2>1, <2>3, SMT DEF LossSignalled, Phases
<1>12. ASSUME NEW d \in Devices, BootConnects(d) PROVE HInv'
  BY <1>12, SMT DEF BootConnects, Silent, HInv, TypeOK, LossSignalled, Verdict,
      Restarting, Counting, Waiting, statusVars, userVars, Phases
<1>13. ASSUME NEW d \in Devices, BootSetsAlive(d) PROVE HInv'
  BY <1>13, SMT DEF BootSetsAlive, HInv, TypeOK, LossSignalled, Verdict, Restarting,
      Counting, Waiting, threadVars, cardVars, userVars, Phases
<1>14. ASSUME NEW d \in Devices, BootEnds(d) PROVE HInv'
  <2> USE <1>14 DEF BootEnds, TimestampSync, HInv, TypeOK, userVars
  <2>1. packet' \in [Devices -> [valid : BOOLEAN, count : Nat]]
    BY SMT
  <2>2. beaten' \in [Devices -> BOOLEAN] /\ htcond' \in [Devices -> BOOLEAN]
    BY Zenon
  <2>3. boot' \in (Devices \X Phases) \cup {None}
    BY DEF Phases
  <2>4. LossSignalled'
    BY DEF LossSignalled
  <2>5. ASSUME NEW e \in Devices
        PROVE  Verdict(e)' /\ Restarting(e)' /\ Counting(e)' /\ Waiting(e)'
    <3>1. packet'[e].count = packet[e].count
      BY SMT
    <3>2. beaten'[d] = FALSE /\ htcond'[d] = TRUE
      BY Zenon
    <3>3. e # d => packet'[e] = packet[e] /\ beaten'[e] = beaten[e] /\ htcond'[e] = htcond[e]
      BY Zenon
    <3>4. boot' # <<e, "restarting">>
      BY SMT
    <3> QED
      BY <3>1, <3>2, <3>3, <3>4, SMT DEF Verdict, Restarting, Counting, Waiting
  <2> QED
    BY <2>1, <2>2, <2>3, <2>4, <2>5
<1>15. ASSUME NEW d \in Devices, Beat(d) \/ Crash(d) PROVE HInv'
  <2>1. CASE Beat(d)
    <3> USE <2>1 DEF Beat, HInv, TypeOK, statusVars, userVars, ioctlVars
    <3>1. packet' \in [Devices -> [valid : BOOLEAN, count : Nat]]
      BY SMT
    <3>2. beaten' \in [Devices -> BOOLEAN]
      BY Zenon
    <3>3. ASSUME NEW e \in Devices, e # d
          PROVE  packet'[e] = packet[e] /\ beaten'[e] = beaten[e]
      BY <3>3, Zenon
    <3>4. packet'[d].valid /\ packet'[d].count = packet[d].count + 1
      BY SMT
    <3>5. ASSUME NEW e \in Devices
          PROVE  Verdict(e)' /\ Restarting(e)' /\ Counting(e)' /\ Waiting(e)'
      <4>1. CASE e = d
        <5>1. up[d] /\ ~booted[d] => packet[d].count >= count[d]
          BY DEF Counting
        <5>2. Counting(e)' /\ Waiting(e)'
          BY <4>1, <3>4, <5>1, SMT DEF Counting, Waiting
        <5> QED
          BY <4>1, <5>2, SMT DEF Verdict, Restarting
      <4>2. CASE e # d
        BY <4>2, <3>3, SMT DEF Verdict, Restarting, Counting, Waiting
      <4> QED
        BY <4>1, <4>2
    <3>6. LossSignalled'
      BY DEF LossSignalled
    <3> QED
      BY <3>1, <3>2, <3>5, <3>6
  <2>2. CASE Crash(d)
    BY <2>2, SMT DEF Crash, HInv, TypeOK, LossSignalled, Verdict, Restarting, Counting,
        Waiting, statusVars, threadVars, userVars, ioctlVars
  <2> QED
    BY <1>15, <2>1, <2>2
<1>16. CASE UNCHANGED vars
  BY <1>16 DEF vars, HInv, TypeOK, LossSignalled, Verdict, Restarting, Counting,
      Waiting, statusVars, threadVars, cardVars, userVars, ioctlVars
<1> QED
  BY <1>1, <1>2, <1>3, <1>4, <1>5, <1>6, <1>7, <1>8, <1>9, <1>10, <1>11, <1>12,
     <1>13, <1>14, <1>15, <1>16, <1>17
  DEF Next, Thread, BootGoesOn

LEMMA HInvHolds == Spec => []HInv
  BY HInvInit, HInvStep, PTL DEF Spec

-----------------------------------------------------------------------------
\* The state of the heartbeat threads, the status and the ioctls has its types.
THEOREM HeartbeatTypeCorrect == Spec => []TypeOK
<1>1. HInv => TypeOK
  BY DEF HInv
<1> QED
  BY <1>1, HInvHolds, PTL

\* A verdict of a heartbeat thread is only ever undone by a BOOT: the unlocked
\* accesses to the status cannot bring a card back that was declared dead.
THEOREM VerdictStandsHolds == Spec => []VerdictStands
<1>1. HInv => VerdictStands
  BY DEF HInv, Verdict, VerdictStands
<1> QED
  BY <1>1, HInvHolds, PTL

\* No process loses a handle to a heartbeat thread without an event that poll
\* still has to report.
THEOREM LossSignalledHolds == Spec => []LossSignalled
<1>1. HInv => LossSignalled
  BY DEF HInv
<1> QED
  BY <1>1, HInvHolds, PTL

\* A running card that beats while its thread waits is given up only by a
\* thread that waits with the count of an earlier life of the card, or that
\* looks at the wrong window.
THEOREM GivenUpForCauseHolds == Spec => GivenUpForCause
<1>1. HInv /\ [Next]_vars =>
        [\A d \in Devices \ misled :
           pc[d] # "lost" /\ pc'[d] = "lost" => ~up[d] \/ ~beaten[d] \/ booted[d]]_vars
  <2> SUFFICES ASSUME HInv, [Next]_vars, NEW d \in Devices, d \notin misled,
                      pc[d] # "lost", pc'[d] = "lost"
               PROVE  ~up[d] \/ ~beaten[d] \/ booted[d]
    BY Zenon
  <2> USE DEF HInv, TypeOK
  <2>1. ASSUME NEW e \in Devices, GiveUp(e) PROVE ~up[d] \/ ~beaten[d] \/ booted[d]
    BY <2>1 DEF GiveUp, Ready, Step, Waiting, Counting
  <2>2. ASSUME NEW e \in Devices, BootConnects(e) \/ BootFails(e) \/ BootCrashes(e) \/ BootSetsAlive(e) \/ BootEnds(e)
        PROVE  FALSE
    BY <2>2 DEF BootConnects, BootFails, BootCrashes, BootSetsAlive, BootEnds, TimestampSync, threadVars
  <2>3. ASSUME NEW e \in Devices, Look(e) \/ Wake(e) \/ SetAlive(e) \/ SeeBeat(e) \/ Lost(e)
        PROVE  FALSE
    BY <2>3 DEF Look, Wake, SetAlive, SeeBeat, Lost, Step
  <2>4. ASSUME NEW p \in Procs, NEW e \in Devices,
               ResetDevice(p, e) \/ BootStart(p, e) \/ Create(p, e) \/ Destroy(p, e)
        PROVE  FALSE
    BY <2>4 DEF ResetDevice, BootStart, StopCard, Create, Destroy, threadVars
  <2>5. ASSUME NEW e \in Devices, Beat(e) \/ Crash(e) PROVE FALSE
    BY <2>5 DEF Beat, Crash, threadVars
  <2>6. ASSUME NEW p \in Procs, Poll(p) \/ WakeUpPoll(p) PROVE FALSE
    BY <2>6 DEF Poll, WakeUpPoll, threadVars
  <2>7. CASE UNCHANGED vars
    BY <2>7 DEF vars, threadVars
  <2> QED
    BY <2>1, <2>2, <2>3, <2>4, <2>5, <2>6, <2>7
    DEF Next, Thread, BootGoesOn
<1> QED
  BY <1>1, HInvHolds, PTL DEF Spec, GivenUpForCause
=============================================================================
