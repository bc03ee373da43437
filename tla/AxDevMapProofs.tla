--------------------------- MODULE AxDevMapProofs ---------------------------
(***************************************************************************)
(* Proofs about AxDevMap.  A probe and the steps of the one remove keep    *)
(* the map in agreement with the kernel and with what is held for the      *)
(* cards.  The proofs about the drivers on top of the map, which change it *)
(* by nothing else, rest on this invariant.                                *)
(***************************************************************************)
EXTENDS AxDevMap, TLAPS

\* The device map on its own.
MapNext ==
  RemoveStep \/ \E d \in Cards : ProbeCard(d) \/ RemoveBegins(d)

-----------------------------------------------------------------------------
(* The inductive invariant *)

\* While the gap is closed the last entry does not count any more, and the
\* card that goes is none of the map's.
Closing == core.pc \in {"clear", "uncount"}
Count == IF Closing THEN number - 1 ELSE number
Present(d) == bound[d] = "bound" /\ ~(Closing /\ d = c0)
Leaving(d) == core.pc \in {"move", "clear", "uncount"} /\ d = c0

MapType ==
  /\ map \in [Slots -> Cards \cup {None}]
  /\ number \in 0..MaxDev
  /\ bound \in [Cards -> {"no", "bound", "hollow"}]
  /\ has \in [Cards -> SUBSET (All \cup Bars)]
  /\ saved \subseteq Cards
  /\ core \in [pc : {"idle", "release", "move", "clear", "uncount"}, card : Cards \cup {None}]

\* A remove is about a bound card, and the map has an entry to give up.
CoreRight ==
  core.pc # "idle" => c0 \in Cards /\ bound[c0] = "bound" /\ number > 0

\* The entries that count are the present cards, each once; the others are
\* empty, but for the last while the gap is closed.
Entered == \A i \in 0..(Count - 1) : map[i] \in Cards /\ Present(map[i])
Once == \A i, j \in 0..(Count - 1) : map[i] = map[j] => i = j
Listed == \A d \in Cards : Present(d) => \E i \in 0..(Count - 1) : map[i] = d
Empty == \A i \in Slots : i >= Count /\ ~(core.pc = "clear" /\ i = Count) => map[i] = None
Entries == Entered /\ Once /\ Listed /\ Empty

\* What is held for a card, by where its probe or remove is.
Holdings ==
  \A d \in Cards :
    /\ Leaving(d) => has[d] = (IF core.pc = "uncount" THEN {} ELSE {"record"})
    /\ ~Leaving(d) /\ bound[d] = "bound" => has[d] = All
    /\ bound[d] # "bound" => has[d] \subseteq Bars
    /\ Present(d) => d \in saved

MapInv == MapType /\ CoreRight /\ Entries /\ Holdings

-----------------------------------------------------------------------------
(* The map on its own *)

LEMMA AllHoldsRecord == "record" \in All
<1>1. Len(Steps) = 8 /\ Steps[4] = "record"
  BY DEF Steps
<1> QED BY <1>1 DEF All

LEMMA MapInitInv == MapInit => MapInv
BY MapAssumption
  DEF MapInit, MapInv, MapType, CoreRight, Entries, Entered, Once, Listed, Empty, Holdings,
      Closing, Count,
   Present, Leaving, Slots, NoCall, c0

\* A probe that fails leaves at most BARs, and one that is refused nothing.
LEMMA ProbeFailsInv ==
  ASSUME MapInv, NEW d \in Cards, ProbeFails(d)
  PROVE  MapInv'
<1>1. /\ core.pc = "idle" /\ bound[d] = "no"
      /\ \E n \in 1..Len(Steps) : has' = [has EXCEPT ![d] = @ \cup LeftBy(n)]
      /\ \E b \in {"no", "hollow"} : bound' = [bound EXCEPT ![d] = b]
      /\ UNCHANGED <<map, number, saved, core>>
  BY DEF ProbeFails, CoreAt
<1>2. PICK n \in 1..Len(Steps) : has' = [has EXCEPT ![d] = @ \cup LeftBy(n)]
  BY <1>1
<1>3. LeftBy(n) \subseteq Bars
  BY DEF LeftBy
<1>4. MapType'
  BY <1>1, <1>2, <1>3 DEF MapInv, MapType
<1>5. \A e \in Cards : Present(e)' <=> Present(e)
  BY <1>1 DEF MapInv, MapType, Present, Closing, c0
<1>6. CoreRight' /\ Entries'
  BY <1>1, <1>5 DEF MapInv, MapType, CoreRight, Entries, Entered, Once, Listed, Empty, Present,
                   Count, Closing, c0
<1>7. Holdings'
  BY <1>1, <1>2, <1>3, <1>5 DEF MapInv, MapType, Holdings, Leaving, c0
<1> QED BY <1>4, <1>6, <1>7 DEF MapInv

LEMMA ProbeBindsInv ==
  ASSUME MapInv, NEW d \in Cards, ProbeBinds(d)
  PROVE  MapInv'
<1>1. /\ core.pc = "idle" /\ bound[d] = "no" /\ number < MaxDev /\ map[number] = None
      /\ map' = [map EXCEPT ![number] = d] /\ saved' = saved \cup {d}
      /\ number' = number + 1 /\ has' = [has EXCEPT ![d] = All]
      /\ bound' = [bound EXCEPT ![d] = "bound"] /\ core' = core
  BY MapAssumption DEF ProbeBinds, CoreAt, Full, Stores, MapInv, MapType
<1>2. number \in Slots /\ number \in Nat
  BY <1>1, MapAssumption DEF MapInv, MapType, Slots
<1>3. MapType'
  BY <1>1, <1>2, MapAssumption DEF MapInv, MapType
<1>4. CoreRight'
  BY <1>1 DEF CoreRight
<1>5. Count = number /\ Count' = number + 1
  BY <1>1 DEF Count, Closing
<1>6. /\ \A e \in Cards : Present(e) <=> bound[e] = "bound"
      /\ \A e \in Cards : Present(e)' <=> (e = d \/ Present(e))
  BY <1>1 DEF Present, Closing, c0, MapInv, MapType
<1>7. Entries'
  <2>1. map'[number] = d /\ \A i \in Slots : i # number => map'[i] = map[i]
    BY <1>1, <1>2 DEF MapInv, MapType
  <2>2. \A i \in 0..(number - 1) : i \in Slots /\ map[i] \in Cards /\ Present(map[i]) /\ map[i] # d
    BY <1>1, <1>2, <1>5, <1>6, MapAssumption DEF MapInv, MapType, Entries, Entered, Slots
  <2>3. Entered'
    <3>1. SUFFICES ASSUME NEW i \in 0..number
                   PROVE  map'[i] \in Cards /\ bound'[map'[i]] = "bound"
      BY <1>1, <1>2, <1>5 DEF Entered, Present, Closing
    <3>2. CASE i = number
      BY <3>2, <2>1, <1>1 DEF MapInv, MapType
    <3>3. CASE i # number
      <4>1. i \in 0..(number - 1) BY <3>3, <1>2
      <4>2. map'[i] = map[i] /\ map[i] \in Cards /\ bound[map[i]] = "bound" /\ map[i] # d
        BY <4>1, <2>1, <2>2, <1>6, <3>3
      <4> QED BY <4>2, <1>1 DEF MapInv, MapType
    <3> QED BY <3>2, <3>3
  <2>4. Once'
    BY <2>1, <2>2, <1>2, <1>5 DEF MapInv, Entries, Once
  <2>5. Listed'
    <3>1. SUFFICES ASSUME NEW e \in Cards, e = d \/ Present(e)
                   PROVE  \E i \in 0..number : map'[i] = e
      BY <1>2, <1>5, <1>6 DEF Listed
    <3>2. CASE e = d BY <3>2, <2>1, <1>2
    <3>3. CASE Present(e)
      <4>1. PICK i \in 0..(number - 1) : map[i] = e
        BY <3>3, <1>5 DEF MapInv, Entries, Listed
      <4>2. i \in 0..number /\ map'[i] = e BY <4>1, <2>1, <2>2, <1>2
      <4> QED BY <4>2
    <3> QED BY <3>1, <3>2, <3>3
  <2>6. Empty'
    BY <2>1, <1>1, <1>2, <1>5 DEF MapInv, Entries, Empty, Slots
  <2> QED BY <2>3, <2>4, <2>5, <2>6 DEF Entries
<1>8. Holdings'
  BY <1>1, <1>6 DEF MapInv, MapType, Holdings, Leaving, Closing, c0
<1> QED BY <1>3, <1>4, <1>7, <1>8 DEF MapInv

\* The first step of a remove; a hollow card is done with it.
LEMMA RemoveBeginsInv ==
  ASSUME MapInv, NEW d \in Cards, RemoveBegins(d)
  PROVE  MapInv'
<1>1. core.pc = "idle" /\ bound[d] # "no" /\ UNCHANGED <<map, number, has, saved>>
  BY DEF RemoveBegins, CoreAt
<1>2. CASE bound[d] = "hollow"
  <2>1. bound' = [bound EXCEPT ![d] = "no"] /\ core' = core
    BY <1>2 DEF RemoveBegins
  <2>2. \A e \in Cards : bound'[e] = "bound" <=> bound[e] = "bound"
    BY <1>2, <2>1 DEF MapInv, MapType
  <2>3. MapType'
    BY <1>1, <2>1 DEF MapInv, MapType
  <2>4. CoreRight'
    BY <1>1, <2>1 DEF CoreRight
  <2>5. Entries'
    BY <1>1, <2>1, <2>2
      DEF MapInv, Entries, Entered, Once, Listed, Empty, Present, Count, Closing, c0
  <2>6. Holdings'
    BY <1>1, <2>1, <2>2 DEF MapInv, Holdings, Present, Closing, Leaving, c0
  <2> QED BY <2>3, <2>4, <2>5, <2>6 DEF MapInv
<1>3. CASE bound[d] # "hollow"
  <2>1. bound[d] = "bound" /\ bound' = bound /\ core' = [pc |-> "release", card |-> d]
    BY <1>1, <1>3 DEF RemoveBegins, MapInv, MapType
  <2>2. MapType'
    BY <1>1, <2>1 DEF MapInv, MapType
  <2>3. number > 0
    <3>1. PICK i \in 0..(number - 1) : map[i] = d
      BY <1>1, <2>1 DEF MapInv, Entries, Listed, Present, Count, Closing
    <3> QED BY <3>1 DEF MapInv, MapType
  <2>4. CoreRight'
    BY <1>1, <2>1, <2>3 DEF CoreRight, c0
  <2>5. Entries'
    BY <1>1, <2>1 DEF MapInv, Entries, Entered, Once, Listed, Empty, Present, Count, Closing, c0
  <2>6. Holdings'
    BY <1>1, <2>1 DEF MapInv, Holdings, Present, Closing, Leaving, c0
  <2> QED BY <2>2, <2>4, <2>5, <2>6 DEF MapInv
<1> QED BY <1>2, <1>3

LEMMA ReleasesInv ==
  ASSUME MapInv, Releases
  PROVE  MapInv'
<1>1. /\ core.pc = "release" /\ core' = [core EXCEPT !.pc = "move"]
      /\ has' = [has EXCEPT ![core.card] = @ \ (All \ {"record"})]
      /\ UNCHANGED <<map, number, saved, bound>>
  BY DEF Releases, CoreAt, CoreGoes, c0
<1>2. /\ core'.pc = "move" /\ core'.card = core.card /\ core.card \in Cards
      /\ bound[core.card] = "bound" /\ number > 0
  BY <1>1 DEF MapInv, MapType, CoreRight, c0
<1>3. has[core.card] = All
  BY <1>1, <1>2 DEF MapInv, Holdings, Leaving
<1>4. has'[core.card] = {"record"}
  BY <1>1, <1>2, <1>3, AllHoldsRecord DEF MapInv, MapType
<1>5. MapType'
  BY <1>1, <1>2 DEF MapInv, MapType
<1>6. CoreRight'
  BY <1>1, <1>2 DEF CoreRight, c0
<1>7. Entries'
  BY <1>1, <1>2 DEF MapInv, Entries, Entered, Once, Listed, Empty, Present, Count, Closing, c0
<1>8. Holdings'
  BY <1>1, <1>2, <1>4 DEF MapInv, MapType, Holdings, Present, Closing, Leaving, c0
<1> QED BY <1>5, <1>6, <1>7, <1>8 DEF MapInv

\* The card's place goes to the last one.
LEMMA MovesLastInv ==
  ASSUME MapInv, MovesLast
  PROVE  MapInv'
<1>1. PICK k \in 0..(number - 1) : map[k] = core.card /\ map' = [map EXCEPT ![k] = map[number - 1]]
  BY DEF MovesLast, c0
<1>2. /\ core.pc = "move" /\ core' = [core EXCEPT !.pc = "clear"]
      /\ UNCHANGED <<number, has, saved, bound>>
  BY DEF MovesLast, CoreAt, CoreGoes
<1>3. /\ core'.pc = "clear" /\ core'.card = core.card /\ core.card \in Cards
      /\ bound[core.card] = "bound" /\ number > 0 /\ number \in Nat /\ number <= MaxDev
  BY <1>2, MapAssumption DEF MapInv, MapType, CoreRight, c0
<1>4. Count = number /\ Count' = number - 1
  BY <1>2, <1>3 DEF Count, Closing
<1>5. /\ \A e \in Cards : Present(e) <=> bound[e] = "bound"
      /\ \A e \in Cards : Present(e)' <=> bound[e] = "bound" /\ e # core.card
  BY <1>2, <1>3 DEF Present, Closing, c0
<1>6. \A i \in 0..(number - 1) : i \in Slots /\ map[i] \in Cards /\ bound[map[i]] = "bound"
  BY <1>3, <1>4, <1>5, MapAssumption DEF MapInv, Entries, Entered, Slots
<1>7. \A i, j \in 0..(number - 1) : map[i] = map[j] => i = j
  BY <1>4 DEF MapInv, Entries, Once
<1>8. map'[k] = map[number - 1] /\ \A i \in Slots : i # k => map'[i] = map[i]
  BY <1>1, <1>6 DEF MapInv, MapType
<1>9. MapType'
  <2>1. map[number - 1] \in Cards BY <1>3, <1>6
  <2>2. map' \in [Slots -> Cards \cup {None}] BY <2>1, <1>1 DEF MapInv, MapType
  <2> QED BY <2>2, <1>2 DEF MapInv, MapType
<1>10. CoreRight'
  BY <1>2, <1>3 DEF CoreRight, c0
<1>11. Entries'
  <2>1. Entered'
    <3>1. SUFFICES ASSUME NEW i \in 0..(number - 2)
                   PROVE  map'[i] \in Cards /\ bound'[map'[i]] = "bound" /\ map'[i] # core.card
      BY <1>2, <1>3, <1>4 DEF Entered, Present, Closing, c0
    <3>2. i \in 0..(number - 1) /\ i # number - 1 /\ number - 1 \in 0..(number - 1)
      BY <1>3
    <3>3. CASE i = k
      BY <3>2, <3>3, <1>1, <1>2, <1>6, <1>7, <1>8
    <3>4. CASE i # k
      BY <3>2, <3>4, <1>1, <1>2, <1>6, <1>7, <1>8
    <3> QED BY <3>3, <3>4
  <2>2. Once'
    <3>1. SUFFICES ASSUME NEW i \in 0..(number - 2), NEW j \in 0..(number - 2), map'[i] = map'[j]
                   PROVE  i = j
      BY <1>3, <1>4 DEF Once
    <3>2. i \in 0..(number - 1) /\ j \in 0..(number - 1) /\ number - 1 \in 0..(number - 1)
          /\ i # number - 1 /\ j # number - 1
      BY <1>3
    <3> QED BY <3>1, <3>2, <1>6, <1>7, <1>8
  <2>3. Listed'
    <3>1. SUFFICES ASSUME NEW e \in Cards, bound[e] = "bound", e # core.card
                   PROVE  \E i \in 0..(number - 2) : map'[i] = e
      BY <1>3, <1>4, <1>5 DEF Listed
    <3>2. PICK i \in 0..(number - 1) : map[i] = e
      BY <3>1, <1>4, <1>5 DEF MapInv, Entries, Listed
    <3>3. i # k BY <3>1, <3>2, <1>1
    <3>4. CASE i = number - 1
      <4>1. k \in 0..(number - 2) /\ map'[k] = e BY <3>2, <3>3, <3>4, <1>3, <1>8
      <4> QED BY <4>1
    <3>5. CASE i # number - 1
      <4>1. i \in 0..(number - 2) /\ map'[i] = e BY <3>2, <3>3, <3>5, <1>3, <1>6, <1>8
      <4> QED BY <4>1
    <3> QED BY <3>4, <3>5
  <2>4. Empty'
    <3>1. SUFFICES ASSUME NEW i \in Slots, i >= number
                   PROVE  map'[i] = None
      BY <1>3, <1>4 DEF Empty, Slots
    <3>2. map[i] = None /\ i # k
      BY <3>1, <1>1, <1>2, <1>3, <1>4 DEF MapInv, Entries, Empty
    <3> QED BY <3>2, <1>8
  <2> QED BY <2>1, <2>2, <2>3, <2>4 DEF Entries
<1>12. Holdings'
  BY <1>2, <1>3, <1>5 DEF MapInv, Holdings, Present, Closing, Leaving, c0
<1> QED BY <1>9, <1>10, <1>11, <1>12 DEF MapInv

LEMMA ClearsLastInv ==
  ASSUME MapInv, ClearsLast
  PROVE  MapInv'
<1>1. /\ core.pc = "clear" /\ core' = [core EXCEPT !.pc = "uncount"]
      /\ map' = [map EXCEPT ![number - 1] = None]
      /\ has' = [has EXCEPT ![core.card] = @ \ {"record"}] /\ saved' = saved \ {core.card}
      /\ UNCHANGED <<number, bound>>
  BY DEF ClearsLast, CoreAt, CoreGoes, c0
<1>2. /\ core'.pc = "uncount" /\ core'.card = core.card /\ core.card \in Cards
      /\ bound[core.card] = "bound" /\ number > 0 /\ number \in Nat /\ number <= MaxDev
  BY <1>1, MapAssumption DEF MapInv, MapType, CoreRight, c0
<1>3. Count = number - 1 /\ Count' = number - 1
  BY <1>1, <1>2 DEF Count, Closing
<1>4. \A e \in Cards : Present(e)' <=> Present(e)
  BY <1>1, <1>2 DEF Present, Closing, c0
<1>5. map' \in [Slots -> Cards \cup {None}] /\ \A i \in 0..(number - 2) : map'[i] = map[i]
  <2>1. \A i \in 0..(number - 2) : i \in Slots /\ i # number - 1
    BY <1>2, MapAssumption DEF Slots
  <2> QED BY <2>1, <1>1 DEF MapInv, MapType
<1>6. MapType'
  BY <1>1, <1>5 DEF MapInv, MapType
<1>7. CoreRight'
  BY <1>1, <1>2 DEF CoreRight, c0
<1>8. Entries'
  <2>1. Entered'
    <3>1. \A i \in 0..(number - 2) :
            map[i] \in Cards /\ bound[map[i]] = "bound" /\ map[i] # core.card
      BY <1>1, <1>2, <1>3 DEF MapInv, Entries, Entered, Present, Closing, c0
    <3> QED BY <3>1, <1>1, <1>2, <1>3, <1>5 DEF Entered, Present, Closing, c0
  <2>2. Once' /\ Listed'
    BY <1>2, <1>3, <1>4, <1>5 DEF MapInv, Entries, Once, Listed
  <2>3. Empty'
    BY <1>1, <1>2, <1>3 DEF MapInv, MapType, Entries, Empty, Slots
  <2> QED BY <2>1, <2>2, <2>3 DEF Entries
<1>9. Holdings'
  BY <1>1, <1>2, <1>4 DEF MapInv, MapType, Holdings, Present, Closing, Leaving, c0
<1> QED BY <1>6, <1>7, <1>8, <1>9 DEF MapInv

LEMMA UncountsInv ==
  ASSUME MapInv, Uncounts
  PROVE  MapInv'
<1>1. /\ core.pc = "uncount" /\ core' = [pc |-> "idle", card |-> None]
      /\ bound' = [bound EXCEPT ![core.card] = "no"] /\ number' = number - 1
      /\ UNCHANGED <<map, has, saved>>
  BY DEF Uncounts, CoreAt, NoCall, c0
<1>2. /\ core.card \in Cards /\ bound[core.card] = "bound" /\ number > 0 /\ number \in Nat
      /\ number <= MaxDev
  BY <1>1, MapAssumption DEF MapInv, MapType, CoreRight, c0
<1>3. Count = number - 1 /\ Count' = number - 1
  BY <1>1, <1>2 DEF Count, Closing
<1>4. \A e \in Cards : bound'[e] = "bound" <=> bound[e] = "bound" /\ e # core.card
  BY <1>1, <1>2 DEF MapInv, MapType
<1>5. \A e \in Cards : Present(e)' <=> Present(e)
  BY <1>1, <1>4 DEF Present, Closing, c0
<1>6. MapType'
  BY <1>1, <1>2, MapAssumption DEF MapInv, MapType
<1>7. CoreRight'
  BY <1>1 DEF CoreRight
<1>8. Entries'
  <2>1. \A i \in 0..(number - 2) : map[i] \in Cards /\ Present(map[i])
    BY <1>2, <1>3 DEF MapInv, Entries, Entered
  <2>2. Entered'
    BY <2>1, <1>1, <1>2, <1>3, <1>4 DEF Entered, Present, Closing, c0
  <2>3. Once' /\ Listed'
    BY <1>1, <1>3, <1>5 DEF MapInv, Entries, Once, Listed
  <2>4. Empty'
    BY <1>1, <1>2, <1>3 DEF MapInv, Entries, Empty
  <2> QED BY <2>2, <2>3, <2>4 DEF Entries
<1>9. Holdings'
  BY <1>1, <1>2, <1>4, <1>5 DEF MapInv, MapType, Holdings, Closing, Leaving, c0
<1> QED BY <1>6, <1>7, <1>8, <1>9 DEF MapInv

LEMMA MapStepInv ==
  ASSUME MapInv, [MapNext]_mapVars
  PROVE  MapInv'
<1>1. CASE UNCHANGED mapVars
  BY <1>1 DEF mapVars, MapInv, MapType, CoreRight, Entries, Entered, Once, Listed, Empty, Holdings,
              Present, Leaving, Count, Closing, c0
<1>2. CASE RemoveStep
  BY <1>2, ReleasesInv, MovesLastInv, ClearsLastInv, UncountsInv DEF RemoveStep
<1>3. ASSUME NEW d \in Cards, RemoveBegins(d)
      PROVE  MapInv'
  BY <1>3, RemoveBeginsInv
<1>4. ASSUME NEW d \in Cards, ProbeCard(d)
      PROVE  MapInv'
  <2>1. CASE ProbeFails(d) BY <2>1, ProbeFailsInv
  <2>2. CASE ProbeRefused(d) BY <2>2, <1>1 DEF ProbeRefused
  <2>3. CASE ProbeBinds(d) BY <2>3, ProbeBindsInv
  <2> QED BY <1>4, <2>1, <2>2, <2>3 DEF ProbeCard
<1> QED BY <1>1, <1>2, <1>3, <1>4 DEF MapNext

LEMMA MapInvIsSound == MapInv => MapSound
<1> SUFFICES ASSUME MapInv PROVE MapSound
  OBVIOUS
<1>1. MapRight
  <2>1. SUFFICES ASSUME ~Closing PROVE
          /\ \A i \in 0..(number - 1) : map[i] \in saved /\ "record" \in has[map[i]]
          /\ \A i, j \in 0..(number - 1) : map[i] = map[j] => i = j
          /\ \A i \in Slots : i >= number => map[i] = None
          /\ {map[i] : i \in 0..(number - 1)} = {d \in Cards : bound[d] = "bound"}
    BY DEF MapRight, Closing
  <2>2. Count = number /\ \A d \in Cards : Present(d) <=> bound[d] = "bound"
    BY <2>1 DEF Count, Present
  <2>3. \A i \in 0..(number - 1) : map[i] \in Cards /\ bound[map[i]] = "bound"
    BY <2>2 DEF MapInv, Entries, Entered
  <2>4. \A i \in 0..(number - 1) : map[i] \in saved /\ "record" \in has[map[i]]
    BY <2>1, <2>2, <2>3, AllHoldsRecord DEF MapInv, Holdings, Leaving, Closing
  <2>5. \A i, j \in 0..(number - 1) : map[i] = map[j] => i = j
    BY <2>2 DEF MapInv, Entries, Once
  <2>6. \A i \in Slots : i >= number => map[i] = None
    BY <2>1, <2>2 DEF MapInv, Entries, Empty, Closing
  <2>7. \A d \in Cards : bound[d] = "bound" => \E i \in 0..(number - 1) : map[i] = d
    BY <2>2 DEF MapInv, Entries, Listed
  <2>8. {map[i] : i \in 0..(number - 1)} = {d \in Cards : bound[d] = "bound"}
    BY <2>3, <2>7
  <2> QED BY <2>4, <2>5, <2>6, <2>8
<1>2. NothingHeld
  BY DEF MapInv, Holdings, Leaving, NothingHeld, CoreAt
<1> QED BY <1>1, <1>2 DEF MapSound
=============================================================================
