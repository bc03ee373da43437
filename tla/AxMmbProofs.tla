---------------------------- MODULE AxMmbProofs ----------------------------
(***************************************************************************)
(* Proofs about AxMmb.  Everything here rests on one invariant, Sound,     *)
(* that holds as long as no allocation ran into another call: it says for  *)
(* every point of an allocation what the descriptor and its two tables     *)
(* hold, and that the descriptor holds a whole buffer or none when nobody  *)
(* allocates.  That get_order finds the order of a block again in the      *)
(* length of its entry is arithmetic of powers of two, proved first.       *)
(***************************************************************************)
EXTENDS AxMmb, WellFoundedInduction, TLAPS

-----------------------------------------------------------------------------
(* Orders *)

\* Induction over numbers: a set of them has a least element.
LEMMA LeastElement ==
  ASSUME NEW S \in SUBSET Nat, S # {}
  PROVE  \E m \in S : \A n \in S : m <= n
<1> DEFINE R == OpToRel(<, Nat)
<1>1. R = {ss \in Nat \X Nat : ss[1] < ss[2]}
  BY DEF OpToRel
<1>2. IsWellFoundedOn(R, Nat)
  BY NatLessThanWellFounded
<1>3. PICK m \in S : \A n \in S : <<n, m>> \notin R
  BY <1>2, WFMin
<1> HIDE DEF R
<1>4. \A n \in S : ~(n < m)
  BY <1>1, <1>3
<1> QED BY <1>4

\* An order is less than the memory it stands for, which grows with it.
LEMMA PowersGrow ==
  ASSUME NEW size \in Sizes, NEW p \in 0..(size + PageSize + 1)
  PROVE  2^p \in Nat /\ p < 2^p /\ \A o \in 0..p - 1 : 2^o < 2^p
<1> DEFINE K == size + PageSize + 1
           W(n) == 2^n \in Nat /\ n < 2^n /\ \A o \in 0..n - 1 : 2^o < 2^n
           S == {n \in 0..K : ~W(n)}
<1>1. size \in Nat /\ PageSize \in Nat \ {0}
  BY MmbAssumption
<1>2. K \in Nat
  BY <1>1
<1>3. ASSUME S # {} PROVE FALSE
  <2>0. S \in SUBSET Nat
    BY <1>2
  <2>1. PICK n \in S : \A m \in S : n <= m
    <3> HIDE DEF S
    <3> QED BY <2>0, <1>3, LeastElement
  <2>2. CASE n = 0
    <3>1. 2^0 \in Nat \ {0}
      BY <1>1, PowersAssumption
    <3> QED BY <2>1, <2>2, <3>1
  <2>3. CASE n # 0
    <3>1. n - 1 \in 0..(size + PageSize) /\ n - 1 + 1 = n
      BY <1>1, <1>2, <2>1, <2>3
    <3>2. 2^(n - 1) \in Nat \ {0} /\ 2^(n - 1 + 1) = 2 * 2^(n - 1)
      BY <3>1, PowersAssumption
    <3>3. W(n - 1)
      BY <1>1, <1>2, <2>1, <2>3, <3>1
    <3> HIDE DEF W
    <3>4. \A o \in 0..(n - 1) - 1 : 2^o < 2^(n - 1)
      BY <3>3 DEF W
    <3>5. 2^n = 2 * 2^(n - 1)
      BY <3>1, <3>2
    <3>6. 2^n \in Nat /\ 2^(n - 1) < 2^n /\ n < 2^n
      BY <3>1, <3>2, <3>3, <3>5 DEF W
    <3>7. \A o \in 0..n - 1 : 2^o < 2^n
      <4> SUFFICES ASSUME NEW o \in 0..n - 1 PROVE 2^o < 2^n
        OBVIOUS
      <4>1. o = n - 1 \/ o \in 0..(n - 1) - 1
        BY <3>1
      <4>2. ASSUME o \in 0..(n - 1) - 1 PROVE 2^o < 2^n
        <5>1. 2^o \in Nat
          <6>1. o \in 0..size + PageSize
            BY <3>1, <4>2, <1>1
          <6> QED BY <6>1, PowersAssumption
        <5> QED BY <3>2, <3>4, <3>6, <4>2, <5>1
      <4> QED BY <3>6, <4>1, <4>2
    <3> QED BY <2>1, <3>6, <3>7 DEF W
  <2> QED BY <2>2, <2>3
<1>4. p \in 0..K
  OBVIOUS
<1> HIDE DEF W, K
<1>5. W(p)
  BY <1>3, <1>4
<1> QED BY <1>5 DEF W

\* The same of the memory of an order.
LEMMA CapacityGrows ==
  ASSUME NEW size \in Sizes, NEW p \in 0..(size + PageSize + 1)
  PROVE  /\ Capacity(p) \in Nat /\ p < Capacity(p)
         /\ \A o \in 0..p - 1 : Capacity(o) < Capacity(p)
<1>1. size \in Nat /\ PageSize \in Nat \ {0}
  BY MmbAssumption
<1>2. 2^p \in Nat /\ p < 2^p /\ \A o \in 0..p - 1 : 2^o < 2^p
  BY PowersGrow
<1>3. \A a, b \in Nat : a < b => a < b * PageSize /\ a * PageSize < b * PageSize
  BY <1>1
<1>4. \A o \in 0..p - 1 : 2^o \in Nat
  <2>1. \A o \in 0..p - 1 : o \in 0..(size + PageSize + 1)
    BY <1>1
  <2> QED BY <2>1, PowersGrow
<1> QED BY <1>1, <1>2, <1>3, <1>4 DEF Capacity

\* Rounding a length up to pages does not pass the memory of an order.
LEMMA AlignedFits ==
  ASSUME NEW len \in Nat
  PROVE  /\ PageAlign(len) \in Nat /\ len <= PageAlign(len)
         /\ PageAlign(len) < len + PageSize
         /\ \A m \in Nat : len <= m * PageSize => PageAlign(len) <= m * PageSize
<1> DEFINE q == (len + PageSize - 1) \div PageSize
<1>1. PageSize \in Nat \ {0}
  BY MmbAssumption
<1>2. q \in Nat /\ q * PageSize <= len + PageSize - 1
      /\ len + PageSize - 1 < (q + 1) * PageSize
  BY <1>1
<1>3. PageAlign(len) = q * PageSize
  BY DEF PageAlign
<1> HIDE DEF q
<1>4. (q + 1) * PageSize = q * PageSize + PageSize /\ q * PageSize \in Nat
  BY <1>1, <1>2
<1>5. ASSUME NEW m \in Nat, len <= m * PageSize
      PROVE  q * PageSize <= m * PageSize
  <2>1. m * PageSize \in Nat
    BY <1>1
  <2>2. CASE q <= m
    BY <1>1, <1>2, <2>2
  <2>3. CASE q > m
    <3>1. (m + 1) * PageSize <= q * PageSize /\ (m + 1) * PageSize = m * PageSize + PageSize
      BY <1>1, <1>2, <2>3
    <3> QED BY <1>1, <1>2, <1>4, <1>5, <2>1, <3>1
  <2> QED BY <1>2, <2>2, <2>3
<1>6. len <= q * PageSize /\ q * PageSize < len + PageSize
  BY <1>1, <1>2, <1>4
<1> QED BY <1>3, <1>4, <1>5, <1>6

\* What CHOOSE finds: the least order whose memory is enough.
LEMMA OrderIsLeast ==
  ASSUME NEW size \in Sizes, NEW len \in 0..(size + PageSize)
  PROVE  /\ GetOrder(len) \in 0..len /\ len <= Capacity(GetOrder(len))
         /\ \A p \in 0..len : len <= Capacity(p) => GetOrder(len) <= p
<1> DEFINE S == {o \in 0..len : len <= Capacity(o)}
<1>1. size \in Nat /\ PageSize \in Nat \ {0}
  BY MmbAssumption
<1>2. len \in Nat /\ len \in 0..(size + PageSize + 1)
  BY <1>1
<1>3. len < Capacity(len) /\ Capacity(len) \in Nat
  BY <1>2, CapacityGrows
<1>4. len \in S
  BY <1>2, <1>3
<1>5. S \in SUBSET Nat
  BY <1>2
<1>6. PICK o \in S : \A p \in S : o <= p
  <2> HIDE DEF S
  <2> QED BY <1>4, <1>5, LeastElement
<1>7. o \in 0..len /\ len <= Capacity(o) /\ \A p \in 0..len : len <= Capacity(p) => o <= p
  BY <1>6
<1> QED BY <1>7 DEF GetOrder

\* The order that fits is the order get_order finds.
LEMMA OrderFound ==
  ASSUME NEW size \in Sizes, NEW len \in 0..(size + PageSize), NEW o \in 0..len,
         len <= Capacity(o), \A p \in 0..o - 1 : Capacity(p) < len
  PROVE  GetOrder(len) = o
<1>1. size \in Nat /\ PageSize \in Nat \ {0}
  BY MmbAssumption
<1>2. GetOrder(len) \in 0..len /\ len <= Capacity(GetOrder(len))
  BY OrderIsLeast
<1>3. GetOrder(len) <= o
  BY OrderIsLeast
<1>4. GetOrder(len) \in 0..(size + PageSize + 1)
  BY <1>1, <1>2
<1>5. Capacity(GetOrder(len)) \in Nat
  BY <1>4, CapacityGrows
<1> QED BY <1>1, <1>2, <1>3, <1>5

\* What ax_sglist_alloc_mem asks alloc_pages for, get_order finds again in the
\* length of the entry it makes of it.
LEMMA OrderRecovered ==
  ASSUME NEW size \in Sizes, NEW left \in 0..size, NEW o \in 0..FirstOrder(left)
  PROVE  /\ o \in Nat /\ EntryLen(left, o) \in 0..left
         /\ left > 0 => EntryLen(left, o) > 0
         /\ GetOrder(EntryLen(left, o)) = o
<1> DEFINE len == PageAlign(left)
           g == GetOrder(len)
<1>1. /\ size \in Nat /\ PageSize \in Nat \ {0} /\ MAX_ORDER \in Nat \ {0}
      /\ left \in Nat
  BY MmbAssumption
<1>2. len \in Nat /\ left <= len /\ len < left + PageSize
  BY <1>1, AlignedFits
<1>3. len \in 0..(size + PageSize)
  BY <1>1, <1>2
<1>4. g \in 0..len /\ len <= Capacity(g) /\ \A p \in 0..len : len <= Capacity(p) => g <= p
  BY <1>3, OrderIsLeast
<1>5. o \in 0..g
  BY <1>1, <1>2, <1>4 DEF FirstOrder, Least
<1> HIDE DEF g, len
<1>6. o \in 0..(size + PageSize + 1) /\ o \in Nat
  BY <1>1, <1>3, <1>4, <1>5
<1>7. Capacity(o) \in Nat /\ o < Capacity(o) /\ \A p \in 0..o - 1 : Capacity(p) < Capacity(o)
  BY <1>6, CapacityGrows
<1>8. EntryLen(left, o) \in 0..left /\ (left > 0 => EntryLen(left, o) > 0)
  BY <1>1, <1>6, <1>7 DEF EntryLen, Least
<1>9. CASE Capacity(o) <= left
  <2>1. EntryLen(left, o) = Capacity(o)
    BY <1>1, <1>7, <1>9 DEF EntryLen, Least
  <2>2. Capacity(o) \in 0..(size + PageSize) /\ o \in 0..Capacity(o)
    BY <1>1, <1>6, <1>7, <1>9
  <2>3. GetOrder(Capacity(o)) = o
    BY <1>7, <2>2, OrderFound
  <2> QED BY <1>6, <1>8, <2>1, <2>3
<1>10. CASE left < Capacity(o)
  <2>1. EntryLen(left, o) = left
    BY <1>1, <1>7, <1>10 DEF EntryLen, Least
  <2>2. ASSUME NEW p \in 0..o - 1 PROVE Capacity(p) < left /\ p < left
    <3>1. p \in 0..(size + PageSize + 1) /\ p \in Nat /\ p \in 0..len /\ p < g
      BY <1>1, <1>2, <1>4, <1>5, <1>6
    <3>2. Capacity(p) \in Nat /\ p < Capacity(p)
      BY <3>1, CapacityGrows
    <3>3. ~(len <= Capacity(p))
      BY <1>4, <3>1
    <3>4. 2^p \in Nat /\ Capacity(p) = 2^p * PageSize
      BY <3>1, PowersGrow DEF Capacity
    <3>5. ~(left <= Capacity(p))
      BY <1>1, <3>3, <3>4, AlignedFits DEF len
    <3> QED BY <1>1, <3>1, <3>2, <3>5
  <2>3. o \in 0..left
    <3>1. CASE o = 0
      BY <1>1, <3>1
    <3>2. CASE o > 0
      <4>1. o - 1 \in 0..o - 1
        BY <1>6, <3>2
      <4>2. o - 1 < left
        BY <2>2, <4>1
      <4> QED BY <1>1, <1>6, <4>2
    <3> QED BY <1>6, <3>1, <3>2
  <2>4. left \in 0..(size + PageSize)
    BY <1>1
  <2>5. GetOrder(left) = o
    BY <1>1, <1>7, <1>10, <2>2, <2>3, <2>4, OrderFound
  <2> QED BY <1>6, <1>8, <2>1, <2>5
<1> QED BY <1>1, <1>7, <1>9, <1>10

-----------------------------------------------------------------------------
(* The invariant *)

\* The first n entries of table s have a block each, with the order it was
\* allocated with; the others were never set.
Filled(s, n) ==
  \A j \in 1..MaxEntry :
    IF j <= n
    THEN tab[s][j].blk \in Blocks /\ block[tab[s][j].blk] = Pages(GetOrder(tab[s][j].len))
    ELSE tab[s][j] = Empty

\* The two tables of a scatter buffer, and the backup once it is a copy.
TwoTables == mmb.scatter /\ Alive(mmb.sgt) /\ Alive(mmb.bak) /\ mmb.sgt # mmb.bak
Copy(n) == /\ n \in 1..MaxEntry /\ mmb.bakN = n
           /\ tab[mmb.bak] = tab[mmb.sgt] /\ Filled(mmb.sgt, n)
NoBuffer == mmb.sgt = 0 /\ mmb.bak = 0
Untouched == NoBuffer /\ mmb.bakN = 0 /\ mmb.nents = 0
OneTable == /\ mmb.dev /\ Alive(mmb.sgt) /\ tab[mmb.sgt] = FreshTable
            /\ mmb.bak = 0 /\ mmb.bakN = 0 /\ mmb.nents = 0

\* What the descriptor holds at each point of an allocation.
AtDev(t) == thr[t].pc = "dev" => ~mmb.dev
AtTable(t) == thr[t].pc = "table" =>
  mmb.dev /\ Untouched /\ mmb.scatter = thr[t].sg
AtBak(t) == thr[t].pc = "bak" => OneTable /\ mmb.scatter
AtBuf(t) == thr[t].pc = "buf" => OneTable /\ ~mmb.scatter
AtPage(t) == thr[t].pc = "page" =>
  /\ mmb.dev /\ TwoTables /\ tab[mmb.bak] = FreshTable /\ mmb.bakN = 0
  /\ thr[t].table = mmb.sgt /\ thr[t].i = mmb.nents + 1 /\ mmb.nents <= MaxEntry
  /\ Filled(mmb.sgt, mmb.nents)
AtMap(t) == thr[t].pc = "map" => mmb.dev /\ TwoTables /\ Copy(mmb.nents)
AtErr(t) == thr[t].pc = "err1" =>
  mmb.dev /\ TwoTables /\ (mmb.bakN = 0 \/ Copy(mmb.bakN))
Allocation(t) == AtDev(t) /\ AtTable(t) /\ AtBak(t) /\ AtBuf(t) /\ AtPage(t)
                 /\ AtMap(t) /\ AtErr(t)

\* The whole buffer: two tables of pages, or one with a block of coherent
\* memory.
Whole ==
  /\ mmb.dev /\ Alive(mmb.sgt)
  /\ IF mmb.scatter
     THEN TwoTables /\ Copy(mmb.bakN)
     ELSE /\ mmb.bak = 0 /\ tab[mmb.sgt][1].blk \in Blocks
          /\ block[tab[mmb.sgt][1].blk] = Coherent
          /\ \A j \in 2..MaxEntry : tab[mmb.sgt][j] = Empty

NoAllocation == \A t \in Threads : ~Allocating(t)
AtRest == NoAllocation => NoBuffer \/ Whole
Fresh == ~mmb.dev => Untouched /\ ~mmb.scatter
Mapped ==
  /\ vma # {} => file /\ NoAllocation /\ mmb.sgt # 0
  /\ \A b \in vma : InUse(b)
  /\ \A t \in Threads : thr[t].pc = "remap" => NoAllocation /\ mmb.sgt # 0
Closed == ~file => NoBuffer /\ \A t \in Threads : thr[t] = Idle

Sound ==
  /\ ~oops /\ ~wrong /\ ~Overlaps
  /\ \A t \in Threads : Allocation(t)
  /\ AtRest /\ Fresh /\ Mapped /\ Closed
MmbInv == ~overlap => Sound

-----------------------------------------------------------------------------
(* Types *)

Pcs == {"idle", "check", "dev", "table", "bak", "page", "map", "err1", "buf",
        "maps", "remap"}

LEMMA CallerMoves ==
  ASSUME NEW r \in Callers, NEW pc \in Pcs
  PROVE  [r EXCEPT !.pc = pc] \in Callers
BY DEF Callers, Pcs

LEMMA CallerStarts ==
  ASSUME NEW r \in Callers, NEW s \in Tables \cup {0}
  PROVE  [r EXCEPT !.pc = "page", !.table = s, !.i = 1] \in Callers
BY DEF Callers

LEMMA CallerGoesOn ==
  ASSUME NEW r \in Callers, NEW l \in Lengths, NEW n \in Nat
  PROVE  [r EXCEPT !.left = l, !.i = n] \in Callers
BY DEF Callers

LEMMA IdleCaller == Idle \in Callers
BY DEF Idle, Callers, Lengths

LEMMA Starting ==
  ASSUME NEW size \in Sizes
  PROVE  /\ [Idle EXCEPT !.pc = "check", !.left = size, !.sg = TRUE] \in Callers
         /\ [Idle EXCEPT !.pc = "check", !.left = size] \in Callers
         /\ [Idle EXCEPT !.pc = "maps"] \in Callers
<1>1. size \in Lengths /\ 0 \in Lengths
  BY MmbAssumption DEF Lengths
<1> QED BY <1>1 DEF Idle, Callers

LEMMA StepsTyped ==
  ASSUME TypeOK, NEW t \in Threads
  PROVE  /\ \A pc \in Pcs : Goes(t, pc) => thr' \in [Threads -> Callers]
         /\ Returns(t) => thr' \in [Threads -> Callers]
<1>1. thr[t] \in Callers /\ thr \in [Threads -> Callers]
  BY DEF TypeOK
<1>2. \A pc \in Pcs : [thr[t] EXCEPT !.pc = pc] \in Callers
  BY <1>1, CallerMoves
<1>3. Idle \in Callers
  BY IdleCaller
<1>4. \A r \in Callers : [thr EXCEPT ![t] = r] \in [Threads -> Callers]
  BY <1>1
<1> HIDE DEF Callers
<1> QED BY <1>1, <1>2, <1>3, <1>4 DEF Goes, Returns

LEMMA TypeInit == Init => TypeOK
<1> SUFFICES ASSUME Init PROVE TypeOK
  OBVIOUS
<1>1. mmb \in Buffers /\ mmb.bakN = 0
  BY DEF Init, Zeroed, Buffers
<1>2. thr \in [Threads -> Callers]
  BY IdleCaller DEF Init
<1>3. block \in [Blocks -> [kind : {"free", "coherent"}] \cup [kind : {"pages"}, order : Nat]]
  BY DEF Init, Free
<1>4. /\ file \in BOOLEAN /\ opens \in Nat /\ vma \in SUBSET Blocks
      /\ oops \in BOOLEAN /\ overlap \in BOOLEAN /\ wrong \in BOOLEAN
      /\ tab \in [Tables -> {NoTable} \cup [1..MaxEntry -> Entry]]
  BY DEF Init
<1>5. mmb.bakN <= MaxEntry
  BY <1>1, MmbAssumption
<1> QED BY <1>1, <1>2, <1>3, <1>4, <1>5 DEF TypeOK

LEMMA FreeMemTyped ==
  ASSUME TypeOK, FreeMem
  PROVE  /\ mmb' \in Buffers /\ oops' \in BOOLEAN /\ wrong' \in BOOLEAN
         /\ tab' \in [Tables -> {NoTable} \cup [1..MaxEntry -> Entry]]
         /\ block' \in [Blocks -> [kind : {"free", "coherent"}]
                                  \cup [kind : {"pages"}, order : Nat]]
         /\ mmb'.bakN = mmb.bakN
<1>1. oops' \in BOOLEAN
  BY DEF FreeMem
<1>2. CASE ~FreeIsSound
  BY <1>1, <1>2 DEF FreeMem, TypeOK
<1>3. CASE FreeIsSound
  <2>1. FreedBuf \in Buffers /\ FreedBuf.bakN = mmb.bakN
    BY DEF FreedBuf, TypeOK, Buffers
  <2>2. mmb' = FreedBuf
    BY <1>3 DEF FreeMem
  <2>3. tab' \in [Tables -> {NoTable} \cup [1..MaxEntry -> Entry]]
    BY <1>3 DEF FreeMem, DropTables, TypeOK
  <2>4. Free \in [kind : {"free", "coherent"}]
    BY DEF Free
  <2>5. wrong' \in BOOLEAN
    BY <1>3 DEF FreeMem, Frees, TypeOK
  <2>6. block' \in [Blocks -> [kind : {"free", "coherent"}]
                                  \cup [kind : {"pages"}, order : Nat]]
    BY <1>3, <2>4 DEF FreeMem, Frees, TypeOK
  <2> QED BY <1>1, <2>1, <2>2, <2>3, <2>5, <2>6
<1> QED BY <1>2, <1>3

LEMMA TypeRelease ==
  ASSUME TypeOK, Open \/ Release \/ Munmap
  PROVE  TypeOK'
<1>1. CASE Open
  <2>1. Zeroed \in Buffers /\ Zeroed.bakN = 0
    BY DEF Zeroed, Buffers
  <2> QED BY <1>1, <2>1, MmbAssumption DEF Open, TypeOK
<1>2. CASE Release
  <2>1. /\ mmb' \in Buffers /\ oops' \in BOOLEAN /\ wrong' \in BOOLEAN
        /\ tab' \in [Tables -> {NoTable} \cup [1..MaxEntry -> Entry]]
        /\ block' \in [Blocks -> [kind : {"free", "coherent"}]
                                 \cup [kind : {"pages"}, order : Nat]]
        /\ mmb'.bakN = mmb.bakN
    BY <1>2, FreeMemTyped DEF Release
  <2>2. ~oops
    BY <1>2 DEF Release
  <2> QED BY <1>2, <2>1, <2>2 DEF Release, TypeOK
<1>3. CASE Munmap
  BY <1>3 DEF Munmap, Files, TypeOK
<1> QED BY <1>1, <1>2, <1>3

LEMMA TypeCall ==
  ASSUME TypeOK, NEW t \in Threads, Call(t), overlap' \in BOOLEAN
  PROVE  TypeOK'
<1>1. ASSUME NEW r \in Callers, Enter(t, r) PROVE thr' \in [Threads -> Callers]
  BY <1>1 DEF Enter, TypeOK
<1>2. thr' \in [Threads -> Callers]
  <2>1. ASSUME NEW size \in Sizes, Scatter(t, size) PROVE thr' \in [Threads -> Callers]
    BY <1>1, <2>1, Starting DEF Scatter
  <2>2. ASSUME NEW size \in Sizes, AllocMem(t, size) PROVE thr' \in [Threads -> Callers]
    BY <1>1, <2>2, Starting DEF AllocMem
  <2>3. ASSUME Mmap(t) PROVE thr' \in [Threads -> Callers]
    <3>1. Enter(t, [Idle EXCEPT !.pc = "maps"])
      BY <2>3 DEF Mmap
    <3>2. [Idle EXCEPT !.pc = "maps"] \in Callers
      BY Zenon, IdleCaller, CallerMoves DEF Pcs
    <3> QED BY <1>1, <3>1, <3>2
  <2> QED BY <2>1, <2>2, <2>3 DEF Call
<1>3. UNCHANGED <<mmb, file, opens, tab, block, vma, oops, wrong>>
  BY DEF Call, Scatter, AllocMem, Mmap
<1> QED BY <1>2, <1>3 DEF TypeOK

LEMMA BufferMarks ==
  ASSUME NEW b \in Buffers, NEW v \in BOOLEAN, NEW any \in BOOLEAN
  PROVE  /\ [b EXCEPT !.dev = v, !.scatter = @ \/ any] \in Buffers
         /\ [b EXCEPT !.dev = v, !.scatter = @ \/ any].bakN = b.bakN
<1>1. (b.scatter \/ any) \in BOOLEAN
  OBVIOUS
<1>2. [b EXCEPT !.dev = v, !.scatter = @ \/ any] \in Buffers
  BY Zenon, <1>1 DEF Buffers
<1>3. [b EXCEPT !.dev = v, !.scatter = @ \/ any].bakN = b.bakN
  BY DEF Buffers
<1> QED BY <1>2, <1>3

LEMMA BufferMaps ==
  ASSUME NEW b \in Buffers, NEW n \in Nat, NEW any \in BOOLEAN
  PROVE  /\ [b EXCEPT !.nents = n, !.mapped = @ \/ any] \in Buffers
         /\ [b EXCEPT !.nents = n, !.mapped = @ \/ any].bakN = b.bakN
<1>1. (b.mapped \/ any) \in BOOLEAN
  OBVIOUS
<1>2. [b EXCEPT !.nents = n, !.mapped = @ \/ any] \in Buffers
  BY Zenon, <1>1 DEF Buffers
<1>3. [b EXCEPT !.nents = n, !.mapped = @ \/ any].bakN = b.bakN
  BY DEF Buffers
<1> QED BY <1>2, <1>3

LEMMA BufferTables ==
  ASSUME NEW b \in Buffers, NEW s \in Tables \cup {0}
  PROVE  /\ [b EXCEPT !.sgt = s] \in Buffers /\ [b EXCEPT !.sgt = s].bakN = b.bakN
         /\ [b EXCEPT !.bak = s, !.bakN = 0] \in Buffers
         /\ [b EXCEPT !.bak = s, !.bakN = 0].bakN = 0
         /\ [b EXCEPT !.sgt = 0, !.bak = 0, !.bakN = 0] \in Buffers
         /\ [b EXCEPT !.sgt = 0, !.bak = 0, !.bakN = 0].bakN = 0
BY DEF Buffers

LEMMA BufferCounts ==
  ASSUME NEW b \in Buffers, NEW n \in Nat
  PROVE  /\ [b EXCEPT !.nents = n] \in Buffers /\ [b EXCEPT !.nents = n].bakN = b.bakN
         /\ [b EXCEPT !.bakN = n] \in Buffers /\ [b EXCEPT !.bakN = n].bakN = n
         /\ [b EXCEPT !.nents = n, !.scatter = FALSE] \in Buffers
         /\ [b EXCEPT !.nents = n, !.scatter = FALSE].bakN = b.bakN
BY DEF Buffers

LEMMA TypeStart ==
  ASSUME TypeOK, NEW t \in Threads, overlap' \in BOOLEAN,
         Checks(t) \/ FindsDev(t) \/ TakesTable(t) \/ MmapChecks(t) \/ PagesFail(t)
  PROVE  TypeOK'
<1>1. /\ \A pc \in Pcs : Goes(t, pc) => thr' \in [Threads -> Callers]
      /\ Returns(t) => thr' \in [Threads -> Callers]
  BY StepsTyped
<1> USE DEF Pcs
<1>2. CASE Checks(t) \/ MmapChecks(t) \/ PagesFail(t)
  BY <1>1, <1>2 DEF Checks, MmapChecks, PagesFail, TypeOK, Files
<1>3. CASE FindsDev(t)
  <2>1. thr' \in [Threads -> Callers]
    BY <1>1, <1>3 DEF FindsDev
  <2>2. mmb' \in Buffers /\ mmb'.bakN = mmb.bakN
    <3>1. PICK found \in BOOLEAN, any \in BOOLEAN :
            mmb' = [mmb EXCEPT !.dev = found, !.scatter = @ \/ any]
      BY <1>3 DEF FindsDev
    <3>2. mmb \in Buffers
      BY DEF TypeOK
    <3> QED BY Zenon, <3>1, <3>2, BufferMarks
  <2> QED BY <1>3, <2>1, <2>2 DEF FindsDev, TypeOK, Files
<1>4. CASE TakesTable(t)
  <2>1. thr' \in [Threads -> Callers]
    BY <1>1, <1>4 DEF TakesTable
  <2>2. mmb' \in Buffers /\ mmb'.bakN = mmb.bakN
    <3>1. PICK s \in Tables \cup {0} : mmb' = [mmb EXCEPT !.sgt = s]
      BY <1>4 DEF TakesTable, SpareTables
    <3>2. mmb \in Buffers
      BY DEF TypeOK
    <3> QED BY <3>1, <3>2, BufferTables
  <2>3. tab' \in [Tables -> {NoTable} \cup [1..MaxEntry -> Entry]]
    <3>1. FreshTable \in [1..MaxEntry -> Entry]
      BY DEF FreshTable, Empty, Entry
    <3> QED BY <1>4, <3>1 DEF TakesTable, TypeOK
  <2> QED BY <1>4, <2>1, <2>2, <2>3 DEF TakesTable, TypeOK, Files
<1> QED BY <1>2, <1>3, <1>4

LEMMA TypeBackup ==
  ASSUME TypeOK, NEW t \in Threads, overlap' \in BOOLEAN, TakesBackup(t)
  PROVE  TypeOK'
<1>1. mmb \in Buffers /\ thr[t] \in Callers /\ mmb.sgt \in Tables \cup {0}
      /\ thr \in [Threads -> Callers]
  BY DEF TypeOK, Buffers
<1>2. FreshTable \in [1..MaxEntry -> Entry]
  BY DEF FreshTable, Empty, Entry
<1>3. UNCHANGED <<file, opens, block, vma, oops, wrong>>
  BY DEF TakesBackup, Files
<1>4. ASSUME NEW s \in SpareTables, mmb' = [mmb EXCEPT !.bak = s, !.bakN = 0],
             tab' = [tab EXCEPT ![s] = FreshTable],
             thr' = [thr EXCEPT ![t].pc = "page", ![t].table = mmb.sgt, ![t].i = 1]
      PROVE  TypeOK'
  <2>1. [thr[t] EXCEPT !.pc = "page", !.table = mmb.sgt, !.i = 1] \in Callers
    BY <1>1, CallerStarts
  <2>2. thr' \in [Threads -> Callers]
    BY <1>1, <1>4, <2>1
  <2>3. mmb' \in Buffers /\ mmb'.bakN = 0
    <3>1. s \in Tables \cup {0}
      BY DEF SpareTables
    <3> QED BY Zenon, <1>1, <1>4, <3>1, BufferTables
  <2>4. tab' \in [Tables -> {NoTable} \cup [1..MaxEntry -> Entry]]
    BY <1>2, <1>4 DEF TypeOK
  <2>5. mmb'.bakN <= MaxEntry
    BY <2>3, MmbAssumption
  <2> QED BY <1>3, <2>2, <2>3, <2>4, <2>5 DEF TypeOK
<1>5. ASSUME mmb' = [mmb EXCEPT !.sgt = 0, !.bak = 0, !.bakN = 0],
             DropTables({mmb.sgt}), Returns(t)
      PROVE  TypeOK'
  <2>1. thr' \in [Threads -> Callers]
    BY <1>5, StepsTyped
  <2>2. mmb' \in Buffers /\ mmb'.bakN = 0
    BY <1>1, <1>5, BufferTables
  <2>3. tab' \in [Tables -> {NoTable} \cup [1..MaxEntry -> Entry]]
    BY <1>5 DEF DropTables, TypeOK
  <2>4. mmb'.bakN <= MaxEntry
    BY <2>2, MmbAssumption
  <2> QED BY <1>3, <2>1, <2>2, <2>3, <2>4 DEF TypeOK
<1> QED BY <1>4, <1>5 DEF TakesBackup

\* What one round of the page loop takes.
LEMMA PageTyped ==
  ASSUME TypeOK, NEW t \in Threads, thr[t].left > 0, NEW o \in 0..FirstOrder(thr[t].left)
  PROVE  /\ o \in Nat /\ EntryLen(thr[t].left, o) \in Nat
         /\ EntryLen(thr[t].left, o) > 0
         /\ thr[t].left - EntryLen(thr[t].left, o) \in Lengths
         /\ GetOrder(EntryLen(thr[t].left, o)) = o
<1>1. thr[t].left \in Lengths
  BY DEF TypeOK, Callers
<1>2. PICK size \in Sizes : thr[t].left \in 0..size
  BY <1>1 DEF Lengths
<1>3. size \in Nat
  BY MmbAssumption
<1> DEFINE left == thr[t].left
           len == EntryLen(left, o)
<1>4. left \in 0..size /\ o \in 0..FirstOrder(left) /\ left > 0
  BY <1>2
<1>5. o \in Nat /\ len \in 0..left /\ len > 0 /\ GetOrder(len) = o
  BY <1>4, OrderRecovered
<1> HIDE DEF len, left
<1>6. left - len \in 0..size /\ len \in Nat
  BY <1>3, <1>4, <1>5
<1>7. left - len \in Lengths
  BY <1>6 DEF Lengths
<1> QED BY <1>5, <1>6, <1>7 DEF len, left

LEMMA TypePages ==
  ASSUME TypeOK, NEW t \in Threads, overlap' \in BOOLEAN, TakesPages(t)
  PROVE  TypeOK'
<1>1. /\ mmb \in Buffers /\ thr[t] \in Callers /\ thr \in [Threads -> Callers]
      /\ thr[t].table \in Tables \cup {0} /\ thr[t].i \in Nat /\ mmb.nents \in Nat
  BY DEF TypeOK, Buffers, Callers
<1>2. UNCHANGED <<file, opens, vma, wrong>> /\ ~oops /\ thr[t].left > 0 /\ ~NoEntry(t)
  BY DEF TakesPages, Files, At
<1>3. PICK o \in 0..FirstOrder(thr[t].left), b \in Spare :
        LET len == EntryLen(thr[t].left, o) IN
        /\ block' = [block EXCEPT ![b] = Pages(o)]
        /\ oops' = ~Alive(thr[t].table)
        /\ tab' = IF oops' THEN tab
                  ELSE [tab EXCEPT ![thr[t].table][thr[t].i] = [blk |-> b, len |-> len]]
        /\ mmb' = [mmb EXCEPT !.nents = @ + 1]
        /\ thr' = [thr EXCEPT ![t].left = @ - len, ![t].i = @ + 1]
  BY DEF TakesPages
<1> DEFINE len == EntryLen(thr[t].left, o)
           rest == thr[t].left - len
           next == thr[t].i + 1
           nents == mmb.nents + 1
<1>4. o \in Nat /\ len \in Nat /\ rest \in Lengths /\ next \in Nat /\ nents \in Nat
  BY <1>1, <1>2, PageTyped
<1>5. /\ thr' = [thr EXCEPT ![t] = [@ EXCEPT !.left = rest, !.i = next]]
      /\ mmb' = [mmb EXCEPT !.nents = nents]
      /\ block' = [block EXCEPT ![b] = Pages(o)]
      /\ oops' = ~Alive(thr[t].table)
      /\ tab' = IF oops' THEN tab
                ELSE [tab EXCEPT ![thr[t].table][thr[t].i] = [blk |-> b, len |-> len]]
  BY <1>1, <1>3
<1> HIDE DEF len, rest, next, nents
<1>6. thr' \in [Threads -> Callers]
  <2>1. [thr[t] EXCEPT !.left = rest, !.i = next] \in Callers
    BY <1>1, <1>4, CallerGoesOn
  <2> QED BY <1>1, <1>5, <2>1
<1>7. mmb' \in Buffers /\ mmb'.bakN = mmb.bakN
  BY <1>1, <1>4, <1>5, BufferCounts
<1>8. block' \in [Blocks -> [kind : {"free", "coherent"}] \cup [kind : {"pages"}, order : Nat]]
  <2>1. Pages(o) \in [kind : {"pages"}, order : Nat]
    BY <1>4 DEF Pages
  <2> QED BY <1>5, <2>1 DEF TypeOK
<1>9. tab' \in [Tables -> {NoTable} \cup [1..MaxEntry -> Entry]]
  <2>1. CASE oops'
    BY <1>5, <2>1 DEF TypeOK
  <2>2. CASE ~oops'
    <3>1. thr[t].table \in Tables /\ tab[thr[t].table] \in [1..MaxEntry -> Entry]
      BY <1>1, <1>5, <2>2 DEF Alive, TypeOK
    <3>2. [blk |-> b, len |-> len] \in Entry
      BY <1>4 DEF Entry, Spare
    <3>3. [tab[thr[t].table] EXCEPT ![thr[t].i] = [blk |-> b, len |-> len]]
            \in [1..MaxEntry -> Entry]
      BY <3>1, <3>2
    <3> QED BY <1>5, <2>2, <3>1, <3>3 DEF TypeOK
  <2> QED BY <2>1, <2>2
<1>10. oops' \in BOOLEAN /\ mmb'.bakN <= MaxEntry
  BY <1>2, <1>5, <1>7 DEF TypeOK
<1> QED BY <1>2, <1>6, <1>7, <1>8, <1>9, <1>10 DEF TypeOK

LEMMA TypeCopies ==
  ASSUME TypeOK, NEW t \in Threads, overlap' \in BOOLEAN, CopiesTable(t)
  PROVE  TypeOK'
<1>1. /\ mmb \in Buffers /\ mmb.nents \in Nat
      /\ mmb.sgt \in Tables \cup {0} /\ mmb.bak \in Tables \cup {0}
  BY DEF TypeOK, Buffers
<1>2. UNCHANGED <<file, opens, block, vma, wrong>> /\ ~oops
  BY DEF CopiesTable, Files, At
<1>3. thr' \in [Threads -> Callers]
  BY StepsTyped DEF CopiesTable, Pcs
<1>4. CASE mmb.nents = 0
  BY <1>1, <1>2, <1>3, <1>4 DEF CopiesTable, TypeOK
<1>5. CASE mmb.nents > 0
  <2>1. /\ oops' = ~(Alive(mmb.sgt) /\ Alive(mmb.bak) /\ mmb.nents <= MaxEntry)
        /\ tab' = IF oops' THEN tab ELSE [tab EXCEPT ![mmb.bak] = Copied]
        /\ mmb' = [mmb EXCEPT !.bakN = mmb.nents]
    BY <1>5 DEF CopiesTable
  <2>2. mmb' \in Buffers /\ mmb'.bakN = mmb.nents
    BY <1>1, <2>1, BufferCounts
  <2>3. tab' \in [Tables -> {NoTable} \cup [1..MaxEntry -> Entry]]
    <3>1. CASE oops'
      BY <2>1, <3>1 DEF TypeOK
    <3>2. CASE ~oops'
      <4>1. tab[mmb.sgt] \in [1..MaxEntry -> Entry] /\ tab[mmb.bak] \in [1..MaxEntry -> Entry]
        BY <1>1, <2>1, <3>2 DEF Alive, TypeOK
      <4>2. Copied \in [1..MaxEntry -> Entry]
        BY <4>1 DEF Copied
      <4> QED BY <2>1, <3>2, <4>2 DEF TypeOK
    <3> QED BY <3>1, <3>2
  <2>4. oops' \in BOOLEAN /\ (oops' \/ mmb'.bakN <= MaxEntry)
    BY <2>1, <2>2
  <2> QED BY <1>2, <1>3, <2>2, <2>3, <2>4 DEF TypeOK
<1> QED BY <1>1, <1>4, <1>5

LEMMA TypeEnd ==
  ASSUME TypeOK, NEW t \in Threads, overlap' \in BOOLEAN,
         MapsDma(t) \/ AllocFails(t) \/ AllocsBuf(t)
  PROVE  TypeOK'
<1>1. /\ mmb \in Buffers /\ mmb.nents \in Nat /\ mmb.sgt \in Tables \cup {0}
      /\ thr[t] \in Callers /\ thr[t].left \in Nat
  BY MmbAssumption DEF TypeOK, Buffers, Callers, Lengths
<1>2. /\ \A pc \in Pcs : Goes(t, pc) => thr' \in [Threads -> Callers]
      /\ Returns(t) => thr' \in [Threads -> Callers]
  BY StepsTyped
<1>3. CASE MapsDma(t)
  <2>1. thr' \in [Threads -> Callers]
    BY <1>2, <1>3 DEF MapsDma, Pcs
  <2>2. mmb' \in Buffers /\ mmb'.bakN = mmb.bakN
    <3>1. PICK n \in Nat, any \in BOOLEAN :
            mmb' = [mmb EXCEPT !.nents = n, !.mapped = @ \/ any]
      <4>1. PICK n \in 0..mmb.nents :
              mmb' = [mmb EXCEPT !.nents = n, !.mapped = @ \/ (n > 0)]
        BY <1>3 DEF MapsDma
      <4>2. n \in Nat /\ (n > 0) \in BOOLEAN
        BY <1>1
      <4> QED BY <4>1, <4>2
    <3> QED BY Zenon, <1>1, <3>1, BufferMaps
  <2>3. oops' \in BOOLEAN /\ ~oops
    BY <1>3 DEF MapsDma, At
  <2> QED BY <1>3, <2>1, <2>2, <2>3 DEF MapsDma, TypeOK, Files
<1>4. CASE AllocFails(t)
  <2>1. thr' \in [Threads -> Callers]
    BY <1>2, <1>4 DEF AllocFails
  <2>2. /\ mmb' \in Buffers /\ oops' \in BOOLEAN /\ wrong' \in BOOLEAN
        /\ tab' \in [Tables -> {NoTable} \cup [1..MaxEntry -> Entry]]
        /\ block' \in [Blocks -> [kind : {"free", "coherent"}]
                                 \cup [kind : {"pages"}, order : Nat]]
        /\ mmb'.bakN = mmb.bakN
    BY <1>4, FreeMemTyped DEF AllocFails
  <2>3. ~oops
    BY <1>4 DEF AllocFails, At
  <2> QED BY <1>4, <2>1, <2>2, <2>3 DEF AllocFails, TypeOK, Files
<1>5. CASE AllocsBuf(t)
  <2>1. thr' \in [Threads -> Callers]
    BY <1>2, <1>5 DEF AllocsBuf
  <2>2. UNCHANGED <<file, opens, vma, wrong>> /\ ~oops
    BY <1>5 DEF AllocsBuf, Files, At
  <2>3. ASSUME NEW b \in Spare, block' = [block EXCEPT ![b] = Coherent],
               oops' = ~Alive(mmb.sgt),
               tab' = IF oops' THEN tab
                      ELSE [tab EXCEPT ![mmb.sgt][1] = [blk |-> b, len |-> thr[t].left]],
               mmb' = [mmb EXCEPT !.nents = 1, !.scatter = FALSE]
        PROVE  TypeOK'
    <3>1. mmb' \in Buffers /\ mmb'.bakN = mmb.bakN
      BY <1>1, <2>3, BufferCounts
    <3>2. block' \in [Blocks -> [kind : {"free", "coherent"}]
                                \cup [kind : {"pages"}, order : Nat]]
      <4>1. Coherent \in [kind : {"free", "coherent"}]
        BY DEF Coherent
      <4> QED BY <2>3, <4>1 DEF TypeOK
    <3>3. tab' \in [Tables -> {NoTable} \cup [1..MaxEntry -> Entry]]
      <4>1. CASE oops'
        BY <2>3, <4>1 DEF TypeOK
      <4>2. CASE ~oops'
        <5>1. mmb.sgt \in Tables /\ tab[mmb.sgt] \in [1..MaxEntry -> Entry]
          BY <1>1, <2>3, <4>2 DEF Alive, TypeOK
        <5>2. [blk |-> b, len |-> thr[t].left] \in Entry
          BY <1>1 DEF Entry, Spare
        <5>3. [tab[mmb.sgt] EXCEPT ![1] = [blk |-> b, len |-> thr[t].left]]
                \in [1..MaxEntry -> Entry]
          BY <5>1, <5>2
        <5> QED BY <2>3, <4>2, <5>1, <5>3 DEF TypeOK
      <4> QED BY <4>1, <4>2
    <3> QED BY <2>1, <2>2, <2>3, <3>1, <3>2, <3>3 DEF TypeOK
  <2>4. ASSUME DropTables({mmb.sgt}), mmb' = [mmb EXCEPT !.sgt = 0],
               UNCHANGED <<block, oops>>
        PROVE  TypeOK'
    <3>1. mmb' \in Buffers /\ mmb'.bakN = mmb.bakN
      BY <1>1, <2>4, BufferTables
    <3>2. tab' \in [Tables -> {NoTable} \cup [1..MaxEntry -> Entry]]
      BY <2>4 DEF DropTables, TypeOK
    <3> QED BY <2>1, <2>2, <2>4, <3>1, <3>2 DEF TypeOK
  <2> QED BY <1>5, <2>3, <2>4 DEF AllocsBuf
<1> QED BY <1>3, <1>4, <1>5

\* Nothing is mapped but blocks of the file's tables.
LEMMA TypeRemaps ==
  ASSUME TypeOK, NEW t \in Threads, overlap' \in BOOLEAN, Remaps(t)
  PROVE  TypeOK'
<1>1. /\ mmb \in Buffers /\ mmb.sgt \in Tables \cup {0} /\ mmb.bak \in Tables \cup {0}
      /\ mmb.bakN \in Nat /\ MaxEntry \in Nat \ {0}
  BY MmbAssumption DEF TypeOK, Buffers
<1>2. UNCHANGED <<mmb, file, opens, tab, block, wrong>> /\ ~oops /\ oops' \in BOOLEAN
  BY DEF Remaps, Files, At
<1>3. thr' \in [Threads -> Callers]
  BY StepsTyped DEF Remaps
<1>4. vma' \in SUBSET Blocks
  <2> DEFINE bs == IF oops' THEN {}
                   ELSE IF mmb.scatter THEN Kept ELSE {tab[mmb.sgt][1].blk}
  <2>1. PICK done \in SUBSET (bs \ {0}) : vma' = vma \cup done
    BY DEF Remaps
  <2>2. oops' = IF mmb.scatter THEN mmb.bakN > 0 /\ ~Alive(mmb.bak) ELSE ~Alive(mmb.sgt)
    BY DEF Remaps
  <2>3. bs \subseteq Blocks \cup {0}
    <3>1. CASE ~oops' /\ mmb.scatter /\ mmb.bakN # 0
      <4>1. tab[mmb.bak] \in [1..MaxEntry -> Entry]
        <5>1. Alive(mmb.bak)
          <6>1. mmb.bakN > 0
            BY <1>1, <3>1
          <6>2. oops' = (mmb.bakN > 0 /\ ~Alive(mmb.bak))
            BY <2>2, <3>1
          <6> QED BY <3>1, <6>1, <6>2
        <5> QED BY <1>1, <5>1 DEF Alive, TypeOK
      <4>2. 1..mmb.bakN \subseteq 1..MaxEntry
        BY <1>1, <1>2 DEF TypeOK
      <4>3. Backup \subseteq Entry
        BY <3>1, <4>1, <4>2 DEF Backup
      <4>4. Kept \subseteq Blocks \cup {0}
        BY <4>3 DEF Kept, Entry
      <4> QED BY <3>1, <4>4
    <3>2. CASE ~oops' /\ mmb.scatter /\ mmb.bakN = 0
      BY <3>2 DEF Kept, Backup
    <3>3. CASE ~oops' /\ ~mmb.scatter
      <4>1. tab[mmb.sgt] \in [1..MaxEntry -> Entry]
        BY <1>1, <2>2, <3>3 DEF Alive, TypeOK
      <4>2. tab[mmb.sgt][1].blk \in Blocks \cup {0}
        BY <1>1, <4>1 DEF Entry
      <4> QED BY <3>3, <4>2
    <3>4. CASE oops'
      BY <3>4
    <3> QED BY <3>1, <3>2, <3>3, <3>4
  <2> QED BY <2>1, <2>3 DEF TypeOK
<1> QED BY <1>2, <1>3, <1>4 DEF TypeOK

\* The variables always have their types.
THEOREM MmbTypeCorrect == Spec => []TypeOK
<1>1. Init => TypeOK
  BY TypeInit
<1>2. TypeOK /\ [Next]_vars => TypeOK'
  <2> SUFFICES ASSUME TypeOK, [Next]_vars PROVE TypeOK'
    OBVIOUS
  <2>1. CASE UNCHANGED vars
    BY <2>1 DEF vars, TypeOK
  <2>2. CASE Open \/ Release \/ Munmap
    BY <2>2, TypeRelease
  <2>3. ASSUME NEW t \in Threads, Call(t) \/ Step(t), overlap' = (overlap \/ Overlaps')
        PROVE  TypeOK'
    <3>1. overlap' \in BOOLEAN
      BY <2>3 DEF TypeOK
    <3> QED BY <2>3, <3>1, TypeCall, TypeStart, TypeBackup, TypePages, TypeCopies,
               TypeEnd, TypeRemaps DEF Step
  <2> QED BY <2>1, <2>2, <2>3 DEF Next
<1> QED BY <1>1, <1>2, PTL DEF Spec

-----------------------------------------------------------------------------
(* Sound is inductive *)

Others(t) == \A u \in Threads \ {t} : thr'[u] = thr[u]

LEMMA SoundInit == Init => Sound
<1> SUFFICES ASSUME Init PROVE Sound
  OBVIOUS
<1>1. \A t \in Threads : thr[t] = Idle /\ thr[t].pc = "idle"
  BY DEF Init, Idle
<1>2. mmb.sgt = 0 /\ mmb.bak = 0 /\ mmb.bakN = 0 /\ mmb.nents = 0 /\ ~mmb.scatter
  BY DEF Init, Zeroed
<1>3. ~oops /\ ~wrong /\ vma = {}
  BY DEF Init
<1>4. ~Overlaps /\ \A t \in Threads : Allocation(t)
  BY <1>1 DEF Overlaps, Allocating, Allocation, AtDev, AtTable, AtBak, AtBuf, AtPage,
              AtMap, AtErr
<1>5. AtRest /\ Fresh /\ Mapped /\ Closed
  BY <1>1, <1>2, <1>3 DEF AtRest, Fresh, Mapped, Closed, NoBuffer, Untouched
<1> QED BY <1>3, <1>4, <1>5 DEF Sound

\* A thread that allocates is the only one past its check, in an open file
\* of which nothing is mapped.
LEMMA AloneInThere ==
  ASSUME Sound, NEW t \in Threads, Allocating(t)
  PROVE  /\ vma = {} /\ file /\ ~NoAllocation
         /\ \A u \in Threads \ {t} : ~Allocating(u) /\ thr[u].pc # "remap"
<1>1. \A u \in Threads \ {t} : ~Allocating(u) /\ thr[u].pc # "remap"
  BY DEF Sound, Overlaps
<1>2. ~NoAllocation
  BY DEF NoAllocation
<1>3. vma = {}
  BY <1>2 DEF Sound, Mapped
<1>4. thr[t] # Idle
  BY DEF Allocating, Idle
<1> QED BY <1>1, <1>2, <1>3, <1>4 DEF Sound, Closed

\* So a step of its has to account for its own point only.
LEMMA AllocatingStep ==
  ASSUME Sound, NEW t \in Threads, Allocating(t), Others(t), UNCHANGED <<file, vma>>,
         ~oops', ~wrong', Allocation(t)', Fresh', thr'[t].pc # "remap",
         Allocating(t)' \/ NoBuffer' \/ Whole'
  PROVE  Sound'
<1>1. /\ vma = {} /\ file
      /\ \A u \in Threads \ {t} : ~Allocating(u) /\ thr[u].pc # "remap"
  BY AloneInThere
<1>2. \A u \in Threads \ {t} : ~Allocating(u)' /\ thr'[u].pc # "remap"
  BY <1>1 DEF Others, Allocating
<1>3. ~Overlaps'
  BY <1>2 DEF Overlaps
<1>4. \A u \in Threads : Allocation(u)'
  <2> SUFFICES ASSUME NEW u \in Threads, u # t PROVE Allocation(u)'
    OBVIOUS
  <2>1. thr'[u].pc \in {"idle", "check", "maps", "remap"}
    BY <1>2 DEF Allocating
  <2> QED BY <2>1 DEF Allocation, AtDev, AtTable, AtBak, AtBuf, AtPage, AtMap, AtErr
<1>5. AtRest'
  BY DEF AtRest, NoAllocation
<1>6. Mapped' /\ Closed'
  BY <1>1, <1>2 DEF Mapped, Closed
<1> QED BY <1>3, <1>4, <1>5, <1>6 DEF Sound

\* A call that starts or ends without a change.
LEMMA QuietStep ==
  ASSUME Sound, NEW t \in Threads, ~Allocating(t), Others(t),
         UNCHANGED <<mmb, file, tab, block, vma, oops, wrong>>,
         thr'[t].pc \in {"idle", "check", "maps"}, file \/ thr'[t] = Idle
  PROVE  Sound'
<1>1. \A u \in Threads : Allocating(u)' <=> Allocating(u)
  BY DEF Others, Allocating
<1>2. \A u \in Threads : thr'[u].pc = "remap" => thr[u].pc = "remap"
  BY DEF Others
<1>3. ~Overlaps'
  BY <1>1, <1>2 DEF Overlaps, Sound
<1>4. NoAllocation' <=> NoAllocation
  BY <1>1 DEF NoAllocation
<1>5. Mapped'
  BY <1>2, <1>4 DEF Mapped, Sound, InUse
<1>6. Closed'
  BY DEF Closed, Sound, Others, NoBuffer
<1>7. AtRest' /\ Fresh'
  BY <1>4 DEF AtRest, Fresh, Sound, NoBuffer, Untouched, Whole, TwoTables, Copy, Filled, Alive
<1>8. \A u \in Threads : Allocation(u)'
  <2> SUFFICES ASSUME NEW u \in Threads PROVE Allocation(u)'
    OBVIOUS
  <2>1. CASE u = t
    BY <2>1 DEF Allocation, AtDev, AtTable, AtBak, AtBuf, AtPage, AtMap, AtErr
  <2>2. CASE u # t
    <3>1. thr'[u] = thr[u] /\ Allocation(u)
      BY <2>2 DEF Others, Sound
    <3>2. AtDev(u)' /\ AtTable(u)' /\ AtBak(u)' /\ AtBuf(u)'
      BY <3>1 DEF Allocation, AtDev, AtTable, AtBak, AtBuf, OneTable, Untouched, NoBuffer, Alive
    <3>3. AtPage(u)' /\ AtMap(u)' /\ AtErr(u)'
      BY <3>1 DEF Allocation, AtPage, AtMap, AtErr, TwoTables, Copy, Filled, Alive
    <3> QED BY <3>2, <3>3 DEF Allocation
  <2> QED BY <2>1, <2>2
<1> QED BY <1>3, <1>5, <1>6, <1>7, <1>8 DEF Sound

LEMMA Moves ==
  ASSUME TypeOK, NEW t \in Threads
  PROVE  /\ \A pc \in Pcs : Goes(t, pc) =>
              /\ Others(t) /\ thr'[t].pc = pc /\ thr'[t].sg = thr[t].sg
              /\ thr'[t].i = thr[t].i /\ thr'[t].table = thr[t].table
         /\ Returns(t) => Others(t) /\ thr'[t] = Idle /\ thr'[t].pc = "idle"
<1>1. thr \in [Threads -> Callers]
  BY DEF TypeOK
<1>2. thr[t] \in Callers
  BY <1>1
<1>3. ASSUME NEW pc \in Pcs, Goes(t, pc)
      PROVE  /\ Others(t) /\ thr'[t].pc = pc /\ thr'[t].sg = thr[t].sg
             /\ thr'[t].i = thr[t].i /\ thr'[t].table = thr[t].table
  <2>1. Others(t) /\ thr'[t] = [thr[t] EXCEPT !.pc = pc]
    BY <1>1, <1>3 DEF Goes, Others
  <2> QED BY <1>2, <2>1 DEF Callers
<1>4. ASSUME Returns(t) PROVE Others(t) /\ thr'[t] = Idle /\ thr'[t].pc = "idle"
  BY <1>1, <1>4 DEF Returns, Others, Idle
<1> QED BY <1>3, <1>4

LEMMA SoundCall ==
  ASSUME TypeOK, Sound, NEW t \in Threads, Call(t)
  PROVE  Sound'
<1>1. PICK r \in Callers : Enter(t, r) /\ r.pc \in {"check", "maps"}
  <2>1. \A size \in Sizes :
          /\ [Idle EXCEPT !.pc = "check", !.left = size, !.sg = TRUE].pc = "check"
          /\ [Idle EXCEPT !.pc = "check", !.left = size].pc = "check"
    BY DEF Idle
  <2>2. [Idle EXCEPT !.pc = "maps"].pc = "maps"
    BY DEF Idle
  <2>3. [Idle EXCEPT !.pc = "maps"] \in Callers
    BY Zenon, IdleCaller, CallerMoves DEF Pcs
  <2>4. ASSUME NEW size \in Sizes, Scatter(t, size) \/ AllocMem(t, size)
        PROVE  \E r \in Callers : Enter(t, r) /\ r.pc \in {"check", "maps"}
    BY <2>1, <2>4, Starting DEF Scatter, AllocMem
  <2>5. ASSUME Mmap(t) PROVE \E r \in Callers : Enter(t, r) /\ r.pc \in {"check", "maps"}
    BY <2>2, <2>3, <2>5 DEF Mmap
  <2> QED BY <2>4, <2>5 DEF Call
<1>2. UNCHANGED <<mmb, file, opens, tab, block, vma, oops, wrong>>
  BY DEF Call, Scatter, AllocMem, Mmap
<1>3. ~Allocating(t) /\ Others(t) /\ thr'[t] = r /\ file
  BY <1>1 DEF Enter, Others, Allocating, Idle, TypeOK
<1> QED BY <1>1, <1>2, <1>3, QuietStep

LEMMA SoundChecks ==
  ASSUME TypeOK, Sound, NEW t \in Threads, Checks(t), ~Overlaps'
  PROVE  Sound'
<1>1. /\ thr[t].pc = "check" /\ ~Allocating(t)
      /\ UNCHANGED <<mmb, file, tab, block, vma, oops, wrong>>
  BY DEF Checks, At, Files, Allocating
<1>2. file
  BY <1>1 DEF Sound, Closed, Idle
<1>3. CASE Returns(t)
  BY <1>1, <1>2, <1>3, Moves, QuietStep
<1>4. CASE ~Taken /\ Goes(t, "dev")
  <2>1. Others(t) /\ thr'[t].pc = "dev" /\ Allocating(t)'
    BY <1>4, Moves DEF Pcs, Allocating
  <2>2. \A u \in Threads \ {t} : ~Allocating(u)' /\ thr'[u].pc # "remap"
    BY <2>1 DEF Overlaps
  <2>3. ~mmb.dev /\ mmb.sgt = 0
    BY <1>4 DEF Taken
  <2>4. vma = {}
    BY <2>3 DEF Sound, Mapped
  <2>5. \A u \in Threads : Allocation(u)'
    <3> SUFFICES ASSUME NEW u \in Threads PROVE Allocation(u)'
      OBVIOUS
    <3>1. thr'[u].pc \in {"idle", "check", "maps", "remap", "dev"}
      BY <2>1, <2>2 DEF Allocating
    <3> QED BY <1>1, <2>3, <3>1 DEF Allocation, AtDev, AtTable, AtBak, AtBuf, AtPage, AtMap, AtErr
  <2>6. AtRest'
    BY <2>1 DEF AtRest, NoAllocation
  <2>7. Fresh'
    BY <1>1 DEF Fresh, Untouched, NoBuffer, Sound
  <2>8. Mapped' /\ Closed'
    BY <1>1, <1>2, <2>1, <2>2, <2>4 DEF Mapped, Closed
  <2> QED BY <1>1, <2>5, <2>6, <2>7, <2>8 DEF Sound
<1> QED BY <1>3, <1>4 DEF Checks

LEMMA SoundMmapChecks ==
  ASSUME TypeOK, Sound, NEW t \in Threads, MmapChecks(t), ~Overlaps'
  PROVE  Sound'
<1>1. /\ thr[t].pc = "maps" /\ ~Allocating(t)
      /\ UNCHANGED <<mmb, file, tab, block, vma, oops, wrong>>
  BY DEF MmapChecks, At, Files, Allocating
<1>2. file
  BY <1>1 DEF Sound, Closed, Idle
<1>3. CASE Returns(t)
  BY <1>1, <1>2, <1>3, Moves, QuietStep
<1>4. CASE mmb.sgt # 0 /\ Goes(t, "remap")
  <2>1. Others(t) /\ thr'[t].pc = "remap" /\ ~Allocating(t)'
    BY <1>4, Moves DEF Pcs, Allocating
  <2>2. \A u \in Threads \ {t} : ~Allocating(u)'
    BY <2>1 DEF Overlaps
  <2>3. \A u \in Threads : ~Allocating(u)' /\ ~Allocating(u)
    BY <1>1, <2>1, <2>2 DEF Others, Allocating
  <2>4. NoAllocation /\ NoAllocation'
    BY <2>3 DEF NoAllocation
  <2>5. \A u \in Threads : Allocation(u)'
    <3> SUFFICES ASSUME NEW u \in Threads PROVE Allocation(u)'
      OBVIOUS
    <3>1. thr'[u].pc \in {"idle", "check", "maps", "remap"}
      BY <2>3 DEF Allocating
    <3> QED BY <3>1 DEF Allocation, AtDev, AtTable, AtBak, AtBuf, AtPage, AtMap, AtErr
  <2>6. AtRest' /\ Fresh'
    BY <1>1, <2>4 DEF AtRest, Fresh, Sound, NoBuffer, Untouched, Whole, TwoTables, Copy,
                      Filled, Alive
  <2>7. Mapped' /\ Closed'
    BY <1>1, <1>2, <1>4, <2>4 DEF Mapped, Closed, Sound, InUse
  <2> QED BY <1>1, <2>5, <2>6, <2>7 DEF Sound
<1> QED BY <1>3, <1>4 DEF MmapChecks

LEMMA SoundFindsDev ==
  ASSUME TypeOK, Sound, NEW t \in Threads, FindsDev(t)
  PROVE  Sound'
<1>1. thr[t].pc = "dev" /\ ~mmb.dev /\ Allocating(t) /\ thr[t].sg \in BOOLEAN
  BY DEF FindsDev, At, Sound, Allocation, AtDev, Allocating, TypeOK, Callers
<1>2. mmb \in Buffers /\ Untouched /\ ~mmb.scatter
  BY <1>1 DEF Sound, Fresh, TypeOK
<1>3. UNCHANGED <<file, tab, block, vma, oops, wrong>>
  BY DEF FindsDev, Files
<1>4. PICK found \in BOOLEAN :
        LET busy == IsScatter(t) /\ mmb.nents > 0 IN
        /\ mmb' = [mmb EXCEPT !.dev = found,
                              !.scatter = @ \/ (found /\ ~busy /\ IsScatter(t))]
        /\ IF ~found \/ busy THEN Returns(t) ELSE Goes(t, "table")
  BY DEF FindsDev
<1>5. ~(mmb.nents > 0)
  BY <1>2 DEF Untouched
<1>6. CASE ~found
  <2>1. Others(t) /\ thr'[t].pc = "idle"
    BY <1>4, <1>6, Moves
  <2>2. /\ ~mmb'.dev /\ mmb'.scatter = mmb.scatter
        /\ mmb'.sgt = mmb.sgt /\ mmb'.bak = mmb.bak /\ mmb'.bakN = mmb.bakN
        /\ mmb'.nents = mmb.nents
    BY <1>2, <1>4, <1>6 DEF Buffers
  <2>3. Untouched' /\ NoBuffer' /\ Fresh'
    BY <1>2, <2>2 DEF Untouched, NoBuffer, Fresh
  <2>4. Allocation(t)'
    BY <2>1 DEF Allocation, AtDev, AtTable, AtBak, AtBuf, AtPage, AtMap, AtErr
  <2>5. ~oops' /\ ~wrong'
    BY <1>3 DEF Sound
  <2> QED BY <1>1, <1>3, <2>1, <2>3, <2>4, <2>5, AllocatingStep
<1>7. CASE found
  <2>1. Goes(t, "table")
    BY <1>4, <1>5, <1>7
  <2>2. Others(t) /\ thr'[t].pc = "table" /\ thr'[t].sg = thr[t].sg
    BY <2>1, Moves DEF Pcs
  <2>3. mmb'.dev /\ mmb'.scatter = (mmb.scatter \/ (found /\ ~(IsScatter(t) /\ mmb.nents > 0) /\ IsScatter(t)))
    BY <1>2, <1>4, <1>7 DEF Buffers
  <2>4. mmb'.scatter = thr[t].sg
    BY <1>1, <1>2, <1>5, <1>7, <2>3 DEF IsScatter
  <2>5. /\ mmb'.sgt = mmb.sgt /\ mmb'.bak = mmb.bak /\ mmb'.bakN = mmb.bakN
        /\ mmb'.nents = mmb.nents
    BY <1>2, <1>4 DEF Buffers
  <2>6. Allocation(t)'
    BY <1>2, <2>2, <2>3, <2>4, <2>5 DEF Allocation, AtDev, AtTable, AtBak, AtBuf, AtPage,
       AtMap, AtErr, Untouched, NoBuffer
  <2>7. Fresh' /\ Allocating(t)'
    BY <2>2, <2>3 DEF Fresh, Allocating
  <2>8. ~oops' /\ ~wrong'
    BY <1>3 DEF Sound
  <2> QED BY <1>1, <1>3, <2>2, <2>6, <2>7, <2>8, AllocatingStep
<1> QED BY <1>6, <1>7

LEMMA TableKinds ==
  ASSUME TypeOK
  PROVE  /\ FreshTable \in [1..MaxEntry -> Entry] /\ FreshTable # NoTable
         /\ 0 \notin Tables /\ 0 \notin Blocks
         /\ \A s \in Tables : Alive(s) => tab[s] \in [1..MaxEntry -> Entry]
         /\ \A s : Alive(s) <=> s # 0 /\ tab[s] # NoTable
<1>1. FreshTable \in [1..MaxEntry -> Entry]
  BY DEF FreshTable, Empty, Entry
<1>2. 1 \in DOMAIN FreshTable /\ 1 \notin DOMAIN NoTable
  BY MmbAssumption DEF FreshTable, NoTable
<1> QED BY <1>1, <1>2, MmbAssumption DEF Alive, TypeOK

LEMMA SoundTakesTable ==
  ASSUME TypeOK, Sound, NEW t \in Threads, TakesTable(t)
  PROVE  Sound'
<1>1. thr[t].pc = "table" /\ Allocating(t) /\ mmb \in Buffers /\ ~oops /\ ~wrong
  BY DEF TakesTable, At, Allocating, TypeOK, Sound
<1>2. mmb.dev /\ Untouched /\ mmb.scatter = thr[t].sg
  BY <1>1 DEF Sound, Allocation, AtTable
<1>3. UNCHANGED <<file, block, vma, oops, wrong>>
  BY DEF TakesTable, Files
<1>4. ASSUME NEW s \in SpareTables, mmb' = [mmb EXCEPT !.sgt = s],
             tab' = [tab EXCEPT ![s] = FreshTable],
             Goes(t, IF IsScatter(t) THEN "bak" ELSE "buf")
      PROVE  Sound'
  <2>1. Others(t) /\ thr'[t].pc = (IF IsScatter(t) THEN "bak" ELSE "buf")
    BY <1>4, Moves DEF Pcs
  <2>2. /\ mmb'.sgt = s /\ mmb'.dev /\ mmb'.bak = 0 /\ mmb'.bakN = 0 /\ mmb'.nents = 0
        /\ mmb'.scatter = mmb.scatter
    BY <1>1, <1>2, <1>4 DEF Buffers, Untouched, NoBuffer
  <2>3. tab'[s] = FreshTable /\ s # 0 /\ tab'[s] # NoTable
    BY <1>4, TableKinds DEF SpareTables, TypeOK
  <2>4. OneTable'
    BY <2>2, <2>3 DEF OneTable, Alive
  <2>5. Allocation(t)'
    BY <1>2, <2>1, <2>2, <2>4 DEF Allocation, AtDev, AtTable, AtBak, AtBuf, AtPage,
       AtMap, AtErr, IsScatter
  <2>6. Fresh' /\ Allocating(t)' /\ thr'[t].pc # "remap"
    BY <2>1, <2>2 DEF Fresh, Allocating
  <2> QED BY <1>1, <1>3, <2>1, <2>5, <2>6, AllocatingStep
<1>5. ASSUME mmb' = [mmb EXCEPT !.sgt = 0], Returns(t), UNCHANGED tab
      PROVE  Sound'
  <2>1. Others(t) /\ thr'[t].pc = "idle"
    BY <1>5, Moves
  <2>2. NoBuffer' /\ mmb'.dev
    BY <1>1, <1>2, <1>5 DEF Buffers, Untouched, NoBuffer
  <2>3. Allocation(t)' /\ Fresh'
    BY <2>1, <2>2 DEF Allocation, AtDev, AtTable, AtBak, AtBuf, AtPage, AtMap, AtErr, Fresh
  <2> QED BY <1>1, <1>3, <2>1, <2>2, <2>3, AllocatingStep
<1> QED BY <1>4, <1>5 DEF TakesTable

LEMMA SoundTakesBackup ==
  ASSUME TypeOK, Sound, NEW t \in Threads, TakesBackup(t)
  PROVE  Sound'
<1>1. thr[t].pc = "bak" /\ Allocating(t) /\ mmb \in Buffers /\ ~oops /\ ~wrong
  BY DEF TakesBackup, At, Allocating, TypeOK, Sound
<1>2. OneTable /\ mmb.scatter
  BY <1>1 DEF Sound, Allocation, AtBak
<1>3. UNCHANGED <<file, block, vma, oops, wrong>>
  BY DEF TakesBackup, Files
<1>4. ASSUME NEW s \in SpareTables, mmb' = [mmb EXCEPT !.bak = s, !.bakN = 0],
             tab' = [tab EXCEPT ![s] = FreshTable],
             thr' = [thr EXCEPT ![t].pc = "page", ![t].table = mmb.sgt, ![t].i = 1]
      PROVE  Sound'
  <2>1. Others(t) /\ thr'[t].pc = "page" /\ thr'[t].table = mmb.sgt /\ thr'[t].i = 1
    BY <1>4 DEF Others, TypeOK, Callers
  <2>2. /\ mmb'.sgt = mmb.sgt /\ mmb'.dev /\ mmb'.bak = s /\ mmb'.bakN = 0 /\ mmb'.nents = 0
        /\ mmb'.scatter
    BY <1>1, <1>2, <1>4 DEF Buffers, OneTable
  <2>3. s # 0 /\ tab'[s] = FreshTable /\ tab'[s] # NoTable /\ s # mmb.sgt
        /\ tab'[mmb.sgt] = FreshTable /\ tab'[mmb.sgt] # NoTable /\ mmb.sgt # 0
    BY <1>2, <1>4, TableKinds DEF SpareTables, TypeOK, OneTable, Alive
  <2>4. TwoTables'
    BY <2>2, <2>3 DEF TwoTables, Alive
  <2>5. Filled(mmb.sgt, 0)'
    <3> SUFFICES ASSUME NEW j \in 1..MaxEntry PROVE ~(j <= 0) /\ tab'[mmb.sgt'][j] = Empty
      BY <2>2 DEF Filled
    <3> QED BY <2>2, <2>3 DEF FreshTable
  <2>6. AtPage(t)'
    <3>1. 0 <= MaxEntry /\ 1 = mmb'.nents + 1
      BY <2>2, MmbAssumption
    <3> QED BY <2>1, <2>2, <2>3, <2>4, <2>5, <3>1 DEF AtPage, Filled
  <2>7. Allocation(t)' /\ Fresh' /\ Allocating(t)'
    BY <2>1, <2>2, <2>6 DEF Allocation, AtDev, AtTable, AtBak, AtBuf, AtMap, AtErr, Fresh,
       Allocating
  <2> QED BY <1>1, <1>3, <2>1, <2>7, AllocatingStep
<1>5. ASSUME mmb' = [mmb EXCEPT !.sgt = 0, !.bak = 0, !.bakN = 0],
             DropTables({mmb.sgt}), Returns(t)
      PROVE  Sound'
  <2>1. Others(t) /\ thr'[t].pc = "idle"
    BY <1>5, Moves
  <2>2. NoBuffer' /\ mmb'.dev
    BY <1>1, <1>2, <1>5 DEF Buffers, OneTable, NoBuffer
  <2>3. Allocation(t)' /\ Fresh'
    BY <2>1, <2>2 DEF Allocation, AtDev, AtTable, AtBak, AtBuf, AtPage, AtMap, AtErr, Fresh
  <2> QED BY <1>1, <1>3, <2>1, <2>2, <2>3, AllocatingStep
<1> QED BY <1>4, <1>5 DEF TakesBackup

\* What the page loop has at a round, named for the proofs below.
LEMMA PageRound ==
  ASSUME TypeOK, NEW t \in Threads, TakesPages(t)
  PROVE  \E o \in Nat, b \in Spare, len \in Nat :
           /\ o = GetOrder(len) /\ Others(t)
           /\ thr'[t].pc = thr[t].pc /\ thr'[t].table = thr[t].table
           /\ thr'[t].i = thr[t].i + 1
           /\ block' = [block EXCEPT ![b] = Pages(o)]
           /\ oops' = ~Alive(thr[t].table)
           /\ tab' = IF oops' THEN tab
                     ELSE [tab EXCEPT ![thr[t].table][thr[t].i] = [blk |-> b, len |-> len]]
           /\ mmb' = [mmb EXCEPT !.nents = @ + 1]
<1>1. /\ thr[t] \in Callers /\ thr \in [Threads -> Callers] /\ thr[t].left > 0
  BY DEF TypeOK, TakesPages
<1>2. PICK o \in 0..FirstOrder(thr[t].left), b \in Spare :
        LET len == EntryLen(thr[t].left, o) IN
        /\ block' = [block EXCEPT ![b] = Pages(o)]
        /\ oops' = ~Alive(thr[t].table)
        /\ tab' = IF oops' THEN tab
                  ELSE [tab EXCEPT ![thr[t].table][thr[t].i] = [blk |-> b, len |-> len]]
        /\ mmb' = [mmb EXCEPT !.nents = @ + 1]
        /\ thr' = [thr EXCEPT ![t].left = @ - len, ![t].i = @ + 1]
  BY DEF TakesPages
<1> DEFINE len == EntryLen(thr[t].left, o)
           rest == thr[t].left - len
           next == thr[t].i + 1
<1>3. o \in Nat /\ len \in Nat /\ GetOrder(len) = o
  BY <1>1, PageTyped
<1>4. thr' = [thr EXCEPT ![t] = [@ EXCEPT !.left = rest, !.i = next]]
  BY <1>1, <1>2
<1>5. thr'[t] = [thr[t] EXCEPT !.left = rest, !.i = next] /\ Others(t)
  BY <1>1, <1>4 DEF Others
<1> HIDE DEF rest
<1>6. /\ thr'[t].pc = thr[t].pc /\ thr'[t].table = thr[t].table
      /\ thr'[t].i = next
  BY <1>1, <1>5 DEF Callers
<1> QED BY <1>2, <1>3, <1>5, <1>6

LEMMA Kinds ==
  /\ \A o : Pages(o) # Free /\ Pages(o) # Coherent
  /\ Coherent # Free
  /\ \A o, p : Pages(o) = Pages(p) => o = p
<1>1. \A o : Pages(o).kind = "pages" /\ Pages(o).order = o
  BY DEF Pages
<1>2. Coherent.kind = "coherent" /\ Free.kind = "free"
  BY DEF Coherent, Free
<1> QED BY <1>1, <1>2

LEMMA SoundTakesPages ==
  ASSUME TypeOK, Sound, NEW t \in Threads, TakesPages(t)
  PROVE  Sound'
<1>1. /\ thr[t].pc = "page" /\ Allocating(t) /\ mmb \in Buffers /\ ~oops /\ ~wrong
      /\ ~NoEntry(t)
  BY DEF TakesPages, At, Allocating, TypeOK, Sound
<1>2. AtPage(t) /\ mmb.nents \in Nat /\ MaxEntry \in Nat
  BY <1>1, MmbAssumption DEF Sound, Allocation, Buffers
<1>3. UNCHANGED <<file, vma, wrong>>
  BY DEF TakesPages, Files
<1>4. PICK o \in Nat, b \in Spare, len \in Nat :
        /\ o = GetOrder(len) /\ Others(t)
        /\ thr'[t].pc = thr[t].pc /\ thr'[t].table = thr[t].table
        /\ thr'[t].i = thr[t].i + 1
        /\ block' = [block EXCEPT ![b] = Pages(o)]
        /\ oops' = ~Alive(thr[t].table)
        /\ tab' = IF oops' THEN tab
                  ELSE [tab EXCEPT ![thr[t].table][thr[t].i] = [blk |-> b, len |-> len]]
        /\ mmb' = [mmb EXCEPT !.nents = @ + 1]
  BY PageRound
<1>5. PICK s : s = mmb.sgt
  OBVIOUS
<1>6. PICK k : k = mmb.bak
  OBVIOUS
<1>7. PICK n : n = mmb.nents
  OBVIOUS
<1>8. /\ s # k /\ Alive(s) /\ Alive(k) /\ tab[k] = FreshTable /\ mmb.scatter /\ mmb.dev
      /\ thr[t].table = s /\ thr[t].i = n + 1 /\ n \in Nat /\ n + 1 <= MaxEntry
      /\ mmb.bakN = 0 /\ Filled(s, n)
  BY <1>1, <1>2, <1>5, <1>6, <1>7 DEF AtPage, TwoTables, NoEntry
<1>9. s \in Tables /\ k \in Tables /\ tab[s] \in [1..MaxEntry -> Entry]
  BY <1>1, <1>5, <1>6, <1>8, TableKinds DEF Buffers, Alive
<1>10. /\ mmb'.sgt = s /\ mmb'.bak = k /\ mmb'.bakN = 0 /\ mmb'.scatter /\ mmb'.dev
       /\ mmb'.nents = n + 1
  BY <1>1, <1>4, <1>5, <1>6, <1>7, <1>8 DEF Buffers
<1> DEFINE e == [blk |-> b, len |-> len]
<1>11. ~oops' /\ tab' = [tab EXCEPT ![s][n + 1] = e]
  BY <1>4, <1>8
<1>12. n + 1 \in 1..MaxEntry
  BY <1>2, <1>8
<1>13. e \in Entry /\ e.blk = b /\ e.len = len
  BY DEF Spare, Entry
<1> HIDE DEF e
<1>14. /\ tab'[s] = [tab[s] EXCEPT ![n + 1] = e] /\ tab'[k] = tab[k]
       /\ tab'[s] \in [1..MaxEntry -> Entry]
  BY <1>8, <1>9, <1>11, <1>12, <1>13 DEF TypeOK
<1>15. tab'[s] # NoTable /\ s # 0 /\ k # 0 /\ tab'[k] # NoTable
  <2>1. DOMAIN tab'[s] = 1..MaxEntry /\ DOMAIN NoTable = {}
    BY <1>14 DEF NoTable
  <2>2. 1 \in 1..MaxEntry
    BY MmbAssumption
  <2> QED BY <1>8, <1>14, <2>1, <2>2 DEF Alive
<1>16. TwoTables'
  BY <1>8, <1>10, <1>15 DEF TwoTables, Alive
<1>17. Filled(s, n + 1)'
  <2> SUFFICES ASSUME NEW j \in 1..MaxEntry
               PROVE  IF j <= n + 1
                      THEN /\ tab'[s][j].blk \in Blocks
                           /\ block'[tab'[s][j].blk] = Pages(GetOrder(tab'[s][j].len))
                      ELSE tab'[s][j] = Empty
    BY <1>7 DEF Filled
  <2>1. CASE j = n + 1
    <3>1. tab'[s][j] = e
      BY <1>9, <1>12, <1>14, <2>1
    <3>2. b \in Blocks /\ block'[b] = Pages(o)
      BY <1>4 DEF Spare, TypeOK
    <3> QED BY <1>4, <1>8, <1>13, <2>1, <3>1, <3>2
  <2>2. CASE j # n + 1
    <3>1. tab'[s][j] = tab[s][j]
      BY <1>9, <1>12, <1>14, <2>2
    <3>2. CASE j <= n
      <4>1. tab[s][j].blk \in Blocks /\ block[tab[s][j].blk] = Pages(GetOrder(tab[s][j].len))
        BY <1>8, <3>2 DEF Filled
      <4>2. tab[s][j].blk # b
        BY <4>1, Kinds DEF Spare, InUse
      <4>3. block'[tab[s][j].blk] = block[tab[s][j].blk]
        BY <1>4, <4>1, <4>2 DEF TypeOK
      <4> QED BY <1>8, <3>1, <3>2, <4>1, <4>3
    <3>3. CASE ~(j <= n)
      <4>1. ~(j <= n + 1)
        BY <1>8, <2>2, <3>3
      <4> QED BY <1>8, <3>1, <3>3, <4>1 DEF Filled
    <3> QED BY <3>2, <3>3
  <2> QED BY <2>1, <2>2
<1>18. AtPage(t)'
  <2>1. Filled(mmb.sgt, mmb.nents)'
    BY <1>10, <1>17 DEF Filled
  <2>2. thr'[t].i = mmb'.nents + 1 /\ mmb'.nents <= MaxEntry /\ thr'[t].table = mmb'.sgt
        /\ tab'[mmb'.bak] = FreshTable
    BY <1>4, <1>8, <1>10, <1>14
  <2> QED BY <1>10, <1>16, <2>1, <2>2 DEF AtPage
<1>19. Allocation(t)' /\ Fresh' /\ Allocating(t)'
  BY <1>1, <1>4, <1>10, <1>18 DEF Allocation, AtDev, AtTable, AtBak, AtBuf, AtMap, AtErr, Fresh,
     Allocating
<1> QED BY <1>1, <1>3, <1>4, <1>11, <1>19, AllocatingStep

LEMMA SoundPagesFail ==
  ASSUME TypeOK, Sound, NEW t \in Threads, PagesFail(t)
  PROVE  Sound'
<1>1. thr[t].pc = "page" /\ Allocating(t) /\ ~oops /\ ~wrong
  BY DEF PagesFail, At, Allocating, Sound
<1>2. UNCHANGED <<mmb, file, tab, block, vma, oops, wrong>>
  BY DEF PagesFail, Files
<1>3. Others(t) /\ thr'[t].pc = "err1"
  BY Moves DEF PagesFail, Pcs
<1>4. AtPage(t)
  BY DEF Sound, Allocation
<1>5. AtErr(t)'
  BY <1>1, <1>2, <1>4 DEF AtErr, AtPage, TwoTables, Alive
<1>6. Allocation(t)' /\ Fresh' /\ Allocating(t)'
  BY <1>2, <1>3, <1>5 DEF Sound, Allocation, AtDev, AtTable, AtBak, AtBuf, AtPage, AtMap, Fresh,
     Allocating, Untouched, NoBuffer
<1> QED BY <1>1, <1>2, <1>3, <1>6, AllocatingStep

LEMMA SoundCopies ==
  ASSUME TypeOK, Sound, NEW t \in Threads, CopiesTable(t)
  PROVE  Sound'
<1>1. thr[t].pc = "page" /\ Allocating(t) /\ ~oops /\ ~wrong /\ mmb \in Buffers
  BY DEF CopiesTable, At, Allocating, Sound, TypeOK
<1>2. UNCHANGED <<file, block, vma, wrong>>
  BY DEF CopiesTable, Files
<1>3. AtPage(t) /\ mmb.nents \in Nat /\ MaxEntry \in Nat
  BY <1>1, MmbAssumption DEF Sound, Allocation, Buffers
<1>4. CASE mmb.nents = 0
  <2>1. Others(t) /\ thr'[t].pc = "err1" /\ UNCHANGED <<mmb, tab, oops>>
    BY <1>4, Moves DEF CopiesTable, Pcs
  <2>2. AtErr(t)'
    BY <1>1, <1>2, <1>3, <2>1 DEF AtErr, AtPage, TwoTables, Alive
  <2>3. Allocation(t)' /\ Fresh' /\ Allocating(t)'
    BY <1>1, <1>3, <2>1, <2>2 DEF Allocation, AtDev, AtTable, AtBak, AtBuf, AtPage, AtMap, Fresh,
       Allocating, Untouched, NoBuffer
  <2> QED BY <1>1, <1>2, <2>1, <2>3, AllocatingStep
<1>5. CASE mmb.nents # 0
  <2>1. PICK s : s = mmb.sgt
    OBVIOUS
  <2>2. PICK k : k = mmb.bak
    OBVIOUS
  <2>3. PICK n : n = mmb.nents
    OBVIOUS
  <2>4. /\ s # k /\ Alive(s) /\ Alive(k) /\ tab[k] = FreshTable /\ mmb.scatter /\ mmb.dev
        /\ n \in 1..MaxEntry /\ Filled(s, n)
    BY <1>1, <1>3, <1>5, <2>1, <2>2, <2>3 DEF AtPage, TwoTables
  <2>5. s \in Tables /\ k \in Tables /\ tab[s] \in [1..MaxEntry -> Entry]
    BY <1>1, <2>1, <2>2, <2>4, TableKinds DEF Buffers, Alive
  <2>6. /\ oops' = ~(Alive(mmb.sgt) /\ Alive(mmb.bak) /\ mmb.nents <= MaxEntry)
        /\ tab' = IF oops' THEN tab ELSE [tab EXCEPT ![mmb.bak] = Copied]
        /\ mmb' = [mmb EXCEPT !.bakN = mmb.nents]
        /\ Goes(t, "map")
    BY <1>5 DEF CopiesTable
  <2>7. ~oops' /\ tab' = [tab EXCEPT ![k] = Copied]
    <3>1. mmb.nents <= MaxEntry /\ Alive(mmb.sgt) /\ Alive(mmb.bak)
      BY <1>3, <2>1, <2>2, <2>3, <2>4
    <3>2. ~oops'
      BY <2>6, <3>1
    <3> QED BY <2>2, <2>6, <3>2
  <2>8. Copied = tab[s]
    <3>1. ASSUME NEW j \in 1..MaxEntry PROVE Copied[j] = tab[s][j]
      <4>1. CASE j <= n
        BY <2>1, <2>3, <4>1 DEF Copied
      <4>2. CASE ~(j <= n)
        BY <2>2, <2>3, <2>4, <4>2 DEF Copied, Filled, FreshTable
      <4> QED BY <4>1, <4>2
    <3>2. Copied = [j \in 1..MaxEntry |-> Copied[j]]
      BY DEF Copied
    <3>3. tab[s] = [j \in 1..MaxEntry |-> tab[s][j]]
      BY <2>5
    <3> QED BY <3>1, <3>2, <3>3
  <2>9. tab'[k] = tab[s] /\ tab'[s] = tab[s]
    BY <2>4, <2>5, <2>7, <2>8 DEF TypeOK
  <2>10. /\ mmb'.sgt = s /\ mmb'.bak = k /\ mmb'.bakN = n /\ mmb'.scatter /\ mmb'.dev
         /\ mmb'.nents = n
    BY <1>1, <2>1, <2>2, <2>3, <2>4, <2>6 DEF Buffers
  <2>11. TwoTables'
    BY <2>4, <2>9, <2>10 DEF TwoTables, Alive
  <2>12. Filled(mmb.sgt, mmb.nents)'
    BY <1>2, <2>4, <2>9, <2>10 DEF Filled
  <2>13. AtMap(t)'
    BY <2>4, <2>9, <2>10, <2>11, <2>12 DEF AtMap, Copy
  <2>14. Others(t) /\ thr'[t].pc = "map"
    BY <2>6, Moves DEF Pcs
  <2>15. Allocation(t)' /\ Fresh' /\ Allocating(t)'
    BY <2>10, <2>13, <2>14 DEF Allocation, AtDev, AtTable, AtBak, AtBuf, AtPage, AtErr, Fresh,
       Allocating
  <2> QED BY <1>1, <1>2, <2>7, <2>14, <2>15, AllocatingStep
<1> QED BY <1>4, <1>5

LEMMA SoundMapsDma ==
  ASSUME TypeOK, Sound, NEW t \in Threads, MapsDma(t)
  PROVE  Sound'
<1>1. thr[t].pc = "map" /\ Allocating(t) /\ ~oops /\ ~wrong /\ mmb \in Buffers
  BY DEF MapsDma, At, Allocating, Sound, TypeOK
<1>2. UNCHANGED <<file, tab, block, vma, wrong>>
  BY DEF MapsDma, Files
<1>3. /\ mmb.dev /\ TwoTables /\ Copy(mmb.nents) /\ mmb.nents \in 1..MaxEntry
      /\ MaxEntry \in Nat
  BY <1>1, MmbAssumption DEF Sound, Allocation, AtMap, Copy
<1>4. ~oops'
  <2>1. \A i \in 1..mmb.nents : tab[mmb.sgt][i] # Empty
    <3> SUFFICES ASSUME NEW i \in 1..mmb.nents PROVE tab[mmb.sgt][i] # Empty
      OBVIOUS
    <3>1. i \in 1..MaxEntry /\ i <= mmb.nents
      BY <1>3
    <3>2. tab[mmb.sgt][i].blk \in Blocks
      BY <1>3, <3>1 DEF Copy, Filled
    <3>3. Empty.blk \notin Blocks
      BY MmbAssumption DEF Empty
    <3> QED BY <3>2, <3>3
  <2>2. Alive(mmb.sgt) /\ mmb.nents <= MaxEntry
    BY <1>3 DEF TwoTables
  <2>3. oops' = ~(Alive(mmb.sgt) /\ mmb.nents <= MaxEntry
                   /\ \A i \in 1..mmb.nents : tab[mmb.sgt][i] # Empty)
    BY DEF MapsDma
  <2> QED BY <2>1, <2>2, <2>3
<1>5. PICK n \in 0..mmb.nents :
        /\ mmb' = [mmb EXCEPT !.nents = n, !.mapped = @ \/ n > 0]
        /\ IF n = 0 THEN Goes(t, "err1") ELSE Returns(t)
  BY DEF MapsDma
<1>6. /\ mmb'.sgt = mmb.sgt /\ mmb'.bak = mmb.bak /\ mmb'.bakN = mmb.bakN
      /\ mmb'.dev = mmb.dev /\ mmb'.scatter = mmb.scatter
  BY <1>1, <1>5 DEF Buffers
<1>7. TwoTables' /\ Copy(mmb.bakN)' /\ mmb'.dev /\ mmb'.scatter
  BY <1>2, <1>3, <1>6 DEF TwoTables, Copy, Filled, Alive
<1>8. Fresh'
  BY <1>7 DEF Fresh
<1>9. CASE n = 0
  <2>1. Others(t) /\ thr'[t].pc = "err1"
    BY <1>5, <1>9, Moves DEF Pcs
  <2>2. Allocation(t)' /\ Allocating(t)'
    BY <1>7, <2>1 DEF Allocation, AtDev, AtTable, AtBak, AtBuf, AtPage, AtMap, AtErr, Allocating
  <2> QED BY <1>1, <1>2, <1>4, <1>8, <2>1, <2>2, AllocatingStep
<1>10. CASE n # 0
  <2>1. Others(t) /\ thr'[t].pc = "idle"
    BY <1>5, <1>10, Moves
  <2>2. Allocation(t)'
    BY <2>1 DEF Allocation, AtDev, AtTable, AtBak, AtBuf, AtPage, AtMap, AtErr
  <2>3. Whole'
    BY <1>7 DEF Whole, TwoTables
  <2> QED BY <1>1, <1>2, <1>4, <1>8, <2>1, <2>2, <2>3, AllocatingStep
<1> QED BY <1>9, <1>10

\* What ax_mmb_sglist_free_mem finds in the backup table is what the blocks
\* were allocated as.
LEMMA BackupIsRight ==
  ASSUME TypeOK, TwoTables, mmb.bakN = 0 \/ Copy(mmb.bakN)
  PROVE  \A e \in Backup : /\ e.blk \in Blocks /\ block[e.blk] = Pages(GetOrder(e.len))
                           /\ InUse(e.blk) /\ e.blk # 0
<1> SUFFICES ASSUME NEW e \in Backup
             PROVE  /\ e.blk \in Blocks /\ block[e.blk] = Pages(GetOrder(e.len))
                    /\ InUse(e.blk) /\ e.blk # 0
  OBVIOUS
<1>1. mmb.bakN # 0 /\ Copy(mmb.bakN)
  BY DEF Backup
<1>2. PICK i \in 1..mmb.bakN : e = tab[mmb.bak][i]
  BY <1>1 DEF Backup
<1>3. i \in 1..MaxEntry /\ i <= mmb.bakN /\ e = tab[mmb.sgt][i]
  BY <1>1, <1>2, MmbAssumption DEF Copy
<1>4. e.blk \in Blocks /\ block[e.blk] = Pages(GetOrder(e.len))
  BY <1>1, <1>3 DEF Copy, Filled
<1> QED BY <1>4, Kinds, MmbAssumption DEF InUse

\* Freeing a buffer is sound and leaves none.
LEMMA FreesBuffer ==
  ASSUME TypeOK, ~wrong, FreeMem,
         \/ NoBuffer
         \/ Whole
         \/ TwoTables /\ (mmb.bakN = 0 \/ Copy(mmb.bakN))
  PROVE  /\ ~oops' /\ ~wrong' /\ NoBuffer'
         /\ mmb'.dev = mmb.dev /\ mmb'.bakN = mmb.bakN /\ mmb'.scatter = mmb.scatter
<1>1. mmb \in Buffers
  BY DEF TypeOK
<1>2. FreeIsSound
  <2>1. CASE NoBuffer
    BY <2>1 DEF FreeIsSound, NoBuffer
  <2>2. CASE Whole
    BY <2>2 DEF FreeIsSound, Whole, TwoTables
  <2>3. CASE TwoTables
    BY <2>3 DEF FreeIsSound, TwoTables
  <2> QED BY <2>1, <2>2, <2>3
<1>3. ~oops' /\ mmb' = FreedBuf
      /\ Frees(IF mmb.sgt = 0 THEN {}
               ELSE IF mmb.scatter THEN Backup ELSE {tab[mmb.sgt][1]}, mmb.scatter)
  BY <1>2 DEF FreeMem
<1>4. /\ mmb'.sgt = 0 /\ mmb'.bak = 0
      /\ mmb'.dev = mmb.dev /\ mmb'.bakN = mmb.bakN /\ mmb'.scatter = mmb.scatter
  BY <1>1, <1>3 DEF FreedBuf, Buffers
<1>5. ~wrong'
  <2>1. CASE mmb.sgt = 0
    BY <1>3, <2>1 DEF Frees
  <2>2. CASE TwoTables /\ (mmb.bakN = 0 \/ Copy(mmb.bakN))
    <3>1. \A e \in Backup : e.blk # 0 /\ InUse(e.blk) /\ block[e.blk] = Pages(GetOrder(e.len))
      BY <2>2, BackupIsRight
    <3>2. Frees(Backup, TRUE)
      <4>1. mmb.scatter /\ mmb.sgt # 0
        BY <2>2 DEF TwoTables, Alive
      <4>2. (IF mmb.sgt = 0 THEN {}
               ELSE IF mmb.scatter THEN Backup ELSE {tab[mmb.sgt][1]}) = Backup
        BY <4>1
      <4>3. mmb.scatter = TRUE
        BY <1>1, <4>1 DEF Buffers
      <4> QED BY <1>3, <4>2, <4>3
    <3> QED BY <3>1, <3>2 DEF Frees
  <2>3. CASE Whole /\ ~mmb.scatter /\ mmb.sgt # 0
    <3>1. /\ tab[mmb.sgt][1].blk \in Blocks /\ block[tab[mmb.sgt][1].blk] = Coherent
          /\ tab[mmb.sgt][1].blk # 0
      BY <2>3, MmbAssumption DEF Whole
    <3>2. InUse(tab[mmb.sgt][1].blk)
      BY <3>1, Kinds DEF InUse
    <3>3. Frees({tab[mmb.sgt][1]}, FALSE)
      BY <1>1, <1>3, <2>3 DEF Buffers
    <3> QED BY <3>1, <3>2, <3>3 DEF Frees
  <2> QED BY <2>1, <2>2, <2>3 DEF NoBuffer, Whole
<1> QED BY <1>3, <1>4, <1>5 DEF NoBuffer

LEMMA SoundAllocFails ==
  ASSUME TypeOK, Sound, NEW t \in Threads, AllocFails(t)
  PROVE  Sound'
<1>1. thr[t].pc = "err1" /\ Allocating(t) /\ ~oops /\ ~wrong
  BY DEF AllocFails, At, Allocating, Sound
<1>2. FreeMem /\ Returns(t) /\ UNCHANGED <<file, vma>>
  BY DEF AllocFails, Files
<1>3. mmb.dev /\ TwoTables /\ (mmb.bakN = 0 \/ Copy(mmb.bakN))
  BY <1>1 DEF Sound, Allocation, AtErr
<1>4. ~oops' /\ ~wrong' /\ NoBuffer' /\ mmb'.dev
  BY <1>1, <1>2, <1>3, FreesBuffer
<1>5. Others(t) /\ thr'[t].pc = "idle"
  BY <1>2, Moves
<1>6. Allocation(t)' /\ Fresh'
  BY <1>4, <1>5 DEF Allocation, AtDev, AtTable, AtBak, AtBuf, AtPage, AtMap, AtErr, Fresh
<1> QED BY <1>1, <1>2, <1>4, <1>5, <1>6, AllocatingStep

LEMMA SoundAllocsBuf ==
  ASSUME TypeOK, Sound, NEW t \in Threads, AllocsBuf(t)
  PROVE  Sound'
<1>1. thr[t].pc = "buf" /\ Allocating(t) /\ ~oops /\ ~wrong /\ mmb \in Buffers
  BY DEF AllocsBuf, At, Allocating, Sound, TypeOK
<1>2. OneTable /\ ~mmb.scatter
  BY <1>1 DEF Sound, Allocation, AtBuf
<1>3. UNCHANGED <<file, vma, wrong>> /\ Others(t) /\ thr'[t].pc = "idle"
  BY Moves DEF AllocsBuf, Files
<1>4. Allocation(t)'
  BY <1>3 DEF Allocation, AtDev, AtTable, AtBak, AtBuf, AtPage, AtMap, AtErr
<1>5. ASSUME NEW b \in Spare, block' = [block EXCEPT ![b] = Coherent],
             oops' = ~Alive(mmb.sgt),
             tab' = IF oops' THEN tab
                    ELSE [tab EXCEPT ![mmb.sgt][1] = [blk |-> b, len |-> thr[t].left]],
             mmb' = [mmb EXCEPT !.nents = 1, !.scatter = FALSE]
      PROVE  Sound'
  <2>1. PICK s : s = mmb.sgt
    OBVIOUS
  <2>2. /\ mmb'.sgt = s /\ mmb'.bak = 0 /\ mmb'.dev /\ ~mmb'.scatter
    BY <1>1, <1>2, <1>5, <2>1 DEF Buffers, OneTable
  <2>3. s \in Tables /\ s # 0 /\ tab[s] = FreshTable /\ tab[s] \in [1..MaxEntry -> Entry]
        /\ Alive(s)
    BY <1>1, <1>2, <2>1, TableKinds DEF Buffers, OneTable, Alive
  <2> DEFINE e == [blk |-> b, len |-> thr[t].left]
  <2>4. ~oops' /\ tab' = [tab EXCEPT ![s][1] = e]
    BY <1>5, <2>1, <2>3
  <2>5. e.blk = b /\ 1 \in 1..MaxEntry
    BY MmbAssumption
  <2> HIDE DEF e
  <2>6. tab'[s] = [tab[s] EXCEPT ![1] = e]
    BY <2>3, <2>4 DEF TypeOK
  <2>7. tab'[s][1] = e /\ \A j \in 2..MaxEntry : tab'[s][j] = Empty
    <3>1. tab'[s][1] = e
      BY <2>3, <2>5, <2>6
    <3>2. ASSUME NEW j \in 2..MaxEntry PROVE tab'[s][j] = Empty
      <4>1. j \in 1..MaxEntry /\ j # 1
        OBVIOUS
      <4>2. tab'[s][j] = tab[s][j]
        BY <2>3, <2>6, <4>1
      <4> QED BY <2>3, <4>1, <4>2 DEF FreshTable
    <3> QED BY <3>1, <3>2
  <2>8. tab'[s] # NoTable
    <3>1. 1 \in DOMAIN tab'[s] /\ DOMAIN NoTable = {}
      BY <2>3, <2>5, <2>6 DEF NoTable
    <3> QED BY <3>1
  <2>9. block'[b] = Coherent /\ b \in Blocks
    BY <1>5 DEF Spare, TypeOK
  <2>10. Whole'
    BY <2>2, <2>3, <2>5, <2>7, <2>8, <2>9 DEF Whole, Alive
  <2>11. Fresh'
    BY <2>2 DEF Fresh
  <2> QED BY <1>1, <1>3, <1>4, <2>4, <2>10, <2>11, AllocatingStep
<1>6. ASSUME DropTables({mmb.sgt}), mmb' = [mmb EXCEPT !.sgt = 0],
             UNCHANGED <<block, oops>>
      PROVE  Sound'
  <2>1. NoBuffer' /\ mmb'.dev
    BY <1>1, <1>2, <1>6 DEF Buffers, OneTable, NoBuffer
  <2>2. Fresh'
    BY <2>1 DEF Fresh
  <2> QED BY <1>1, <1>3, <1>4, <1>6, <2>1, <2>2, AllocatingStep
<1> QED BY <1>5, <1>6 DEF AllocsBuf

\* A mapping is of blocks the buffer has.
LEMMA SoundRemaps ==
  ASSUME TypeOK, Sound, NEW t \in Threads, Remaps(t)
  PROVE  Sound'
<1>1. thr[t].pc = "remap" /\ ~Allocating(t) /\ ~oops /\ ~wrong
  BY DEF Remaps, At, Allocating, Sound
<1>2. NoAllocation /\ mmb.sgt # 0
  BY <1>1 DEF Sound, Mapped
<1>3. Whole
  BY <1>2 DEF Sound, AtRest, NoBuffer
<1>4. UNCHANGED <<mmb, file, tab, block, wrong>> /\ Others(t) /\ thr'[t].pc = "idle"
  BY Moves DEF Remaps, Files
<1>5. ~oops'
  <2>1. oops' = IF mmb.scatter THEN mmb.bakN > 0 /\ ~Alive(mmb.bak) ELSE ~Alive(mmb.sgt)
    BY DEF Remaps
  <2>2. CASE mmb.scatter
    <3>1. Alive(mmb.bak)
      BY <1>3, <2>2 DEF Whole, TwoTables
    <3> QED BY <2>1, <2>2, <3>1
  <2>3. CASE ~mmb.scatter
    <3>1. Alive(mmb.sgt)
      BY <1>3 DEF Whole
    <3> QED BY <2>1, <2>3, <3>1
  <2> QED BY <2>2, <2>3
<1>6. PICK done : /\ vma' = vma \cup done
                  /\ done \subseteq (IF mmb.scatter THEN Kept ELSE {tab[mmb.sgt][1].blk})
  BY <1>5 DEF Remaps
<1>7. \A b \in done : InUse(b)
  <2>1. CASE mmb.scatter
    <3>1. TwoTables /\ Copy(mmb.bakN)
      BY <1>3, <2>1 DEF Whole
    <3>2. \A e \in Backup : InUse(e.blk)
      BY <3>1, BackupIsRight
    <3> QED BY <1>6, <2>1, <3>2 DEF Kept
  <2>2. CASE ~mmb.scatter
    BY <1>3, <1>6, <2>2, Kinds DEF Whole, InUse
  <2> QED BY <2>1, <2>2
<1>8. file
  BY <1>1 DEF Sound, Closed, Idle
<1>9. \A u \in Threads : ~Allocating(u) /\ ~Allocating(u)'
  BY <1>2, <1>4 DEF NoAllocation, Others, Allocating
<1>10. NoAllocation' /\ ~Overlaps'
  BY <1>9 DEF NoAllocation, Overlaps
<1>11. \A u \in Threads : Allocation(u)'
  <2> SUFFICES ASSUME NEW u \in Threads PROVE Allocation(u)'
    OBVIOUS
  <2>1. thr'[u].pc \in {"idle", "check", "maps", "remap"}
    BY <1>9 DEF Allocating
  <2> QED BY <2>1 DEF Allocation, AtDev, AtTable, AtBak, AtBuf, AtPage, AtMap, AtErr
<1>12. AtRest' /\ Fresh'
  BY <1>3, <1>4 DEF AtRest, Fresh, Sound, Untouched, NoBuffer, Whole, TwoTables, Copy, Filled,
                    Alive
<1>13. Mapped' /\ Closed'
  BY <1>2, <1>4, <1>6, <1>7, <1>8, <1>10 DEF Mapped, Closed, Sound, InUse
<1> QED BY <1>1, <1>4, <1>5, <1>10, <1>11, <1>12, <1>13 DEF Sound

\* Opening, closing and unmapping the file.
LEMMA SoundFile ==
  ASSUME TypeOK, Sound, Open \/ Release \/ Munmap
  PROVE  Sound'
<1>1. CASE Open
  <2>1. /\ ~file /\ UNCHANGED <<tab, block, vma, thr, oops, wrong>> /\ mmb' = Zeroed /\ file'
    BY <1>1 DEF Open
  <2>2. \A t \in Threads : thr[t].pc = "idle" /\ thr'[t].pc = "idle"
    BY <2>1 DEF Sound, Closed, Idle
  <2>3. vma' = {} /\ ~oops' /\ ~wrong'
    BY <2>1 DEF Sound, Mapped
  <2>4. NoBuffer' /\ Untouched' /\ ~mmb'.scatter
    BY <2>1 DEF Zeroed, NoBuffer, Untouched
  <2>5. ~Overlaps' /\ \A t \in Threads : Allocation(t)'
    BY <2>2 DEF Overlaps, Allocating, Allocation, AtDev, AtTable, AtBak, AtBuf, AtPage,
                AtMap, AtErr
  <2>6. AtRest' /\ Fresh' /\ Mapped' /\ Closed'
    BY <2>1, <2>2, <2>3, <2>4 DEF AtRest, Fresh, Mapped, Closed
  <2> QED BY <2>3, <2>5, <2>6 DEF Sound
<1>2. CASE Release
  <2>1. /\ vma = {} /\ FreeMem /\ file' = FALSE /\ UNCHANGED <<vma, thr>>
        /\ \A t \in Threads : thr[t] = Idle
    BY <1>2 DEF Release
  <2>2. \A t \in Threads : thr[t].pc = "idle" /\ thr'[t].pc = "idle"
    BY <2>1 DEF Idle
  <2>3. NoAllocation
    BY <2>2 DEF NoAllocation, Allocating
  <2>4. ~oops' /\ ~wrong' /\ NoBuffer' /\ mmb'.dev = mmb.dev /\ mmb'.bakN = mmb.bakN
        /\ mmb'.scatter = mmb.scatter
    BY <2>1, <2>3, FreesBuffer DEF Sound, AtRest
  <2>5. ~Overlaps' /\ \A t \in Threads : Allocation(t)'
    BY <2>2 DEF Overlaps, Allocating, Allocation, AtDev, AtTable, AtBak, AtBuf, AtPage,
                AtMap, AtErr
  <2>6. Fresh'
    <3>1. mmb'.nents = 0 \/ mmb' = mmb
      <4>1. mmb \in Buffers
        BY DEF TypeOK
      <4> QED BY <2>1, <4>1 DEF FreeMem, FreedBuf, Buffers
    <3> QED BY <2>4, <3>1 DEF Fresh, Sound, Untouched, NoBuffer
  <2>7. AtRest' /\ Mapped' /\ Closed'
    BY <2>1, <2>2, <2>4 DEF AtRest, Mapped, Closed
  <2> QED BY <2>4, <2>5, <2>6, <2>7 DEF Sound
<1>3. CASE Munmap
  <2>1. vma' = {} /\ UNCHANGED <<mmb, file, tab, block, thr, oops, wrong>>
    BY <1>3 DEF Munmap, Files
  <2>2. ~Overlaps' /\ (NoAllocation' <=> NoAllocation)
    BY <2>1 DEF Sound, Overlaps, NoAllocation, Allocating
  <2>3. \A t \in Threads : Allocation(t)'
    <3> SUFFICES ASSUME NEW t \in Threads PROVE Allocation(t)'
      OBVIOUS
    <3>1. Allocation(t)
      BY DEF Sound
    <3>2. AtDev(t)' /\ AtTable(t)' /\ AtBak(t)' /\ AtBuf(t)'
      BY <2>1, <3>1 DEF Allocation, AtDev, AtTable, AtBak, AtBuf, OneTable, Untouched,
                        NoBuffer, Alive
    <3>3. AtPage(t)' /\ AtMap(t)' /\ AtErr(t)'
      BY <2>1, <3>1 DEF Allocation, AtPage, AtMap, AtErr, TwoTables, Copy, Filled, Alive
    <3> QED BY <3>2, <3>3 DEF Allocation
  <2>4. AtRest' /\ Fresh'
    BY <2>1, <2>2 DEF AtRest, Fresh, Sound, Untouched, NoBuffer, Whole, TwoTables, Copy, Filled,
                      Alive
  <2>5. Mapped' /\ Closed'
    BY <2>1, <2>2 DEF Mapped, Closed, Sound, NoBuffer
  <2> QED BY <2>1, <2>2, <2>3, <2>4, <2>5 DEF Sound
<1> QED BY <1>1, <1>2, <1>3

LEMMA SoundNext ==
  ASSUME TypeOK, MmbInv, [Next]_vars
  PROVE  MmbInv'
<1> SUFFICES ASSUME ~overlap' PROVE Sound'
  BY DEF MmbInv
<1>1. CASE UNCHANGED vars
  <2>1. UNCHANGED <<mmb, file, opens, tab, block, vma, thr, oops, overlap, wrong>>
    BY <1>1 DEF vars
  <2>2. Sound
    BY <2>1 DEF MmbInv
  <2>3. ~Overlaps' /\ (NoAllocation' <=> NoAllocation)
    BY <2>1, <2>2 DEF Sound, Overlaps, NoAllocation, Allocating
  <2>4. \A t \in Threads : Allocation(t)'
    <3> SUFFICES ASSUME NEW t \in Threads PROVE Allocation(t)'
      OBVIOUS
    <3>1. Allocation(t)
      BY <2>2 DEF Sound
    <3>2. AtDev(t)' /\ AtTable(t)' /\ AtBak(t)' /\ AtBuf(t)'
      BY <2>1, <3>1 DEF Allocation, AtDev, AtTable, AtBak, AtBuf, OneTable, Untouched,
                        NoBuffer, Alive
    <3>3. AtPage(t)' /\ AtMap(t)' /\ AtErr(t)'
      BY <2>1, <3>1 DEF Allocation, AtPage, AtMap, AtErr, TwoTables, Copy, Filled, Alive
    <3> QED BY <3>2, <3>3 DEF Allocation
  <2>5. AtRest' /\ Fresh'
    BY <2>1, <2>2, <2>3 DEF AtRest, Fresh, Sound, Untouched, NoBuffer, Whole, TwoTables, Copy,
                      Filled, Alive
  <2>6. Mapped' /\ Closed'
    BY <2>1, <2>2, <2>3 DEF Mapped, Closed, Sound, NoBuffer, InUse
  <2> QED BY <2>1, <2>2, <2>3, <2>4, <2>5, <2>6 DEF Sound
<1>2. CASE Open \/ Release \/ Munmap
  <2>1. overlap' = overlap
    BY <1>2 DEF Open, Release, Munmap
  <2> QED BY <1>2, <2>1, SoundFile DEF MmbInv
<1>3. ASSUME NEW t \in Threads, Call(t) \/ Step(t), overlap' = (overlap \/ Overlaps')
      PROVE  Sound'
  <2>1. Sound /\ ~Overlaps'
    BY <1>3 DEF MmbInv
  <2>2. CASE Call(t)
    BY <2>1, <2>2, SoundCall
  <2>3. CASE Checks(t) \/ MmapChecks(t) \/ Remaps(t)
    BY <2>1, <2>3, SoundChecks, SoundMmapChecks, SoundRemaps
  <2>4. CASE FindsDev(t) \/ TakesTable(t) \/ TakesBackup(t)
    BY <2>1, <2>4, SoundFindsDev, SoundTakesTable, SoundTakesBackup
  <2>5. CASE TakesPages(t) \/ PagesFail(t) \/ CopiesTable(t)
    BY <2>1, <2>5, SoundTakesPages, SoundPagesFail, SoundCopies
  <2>6. CASE MapsDma(t) \/ AllocFails(t) \/ AllocsBuf(t)
    BY <2>1, <2>6, SoundMapsDma, SoundAllocFails, SoundAllocsBuf
  <2> QED BY <1>3, <2>2, <2>3, <2>4, <2>5, <2>6 DEF Step
<1> QED BY <1>1, <1>2, <1>3 DEF Next

\* Calls of one file that no allocation runs into never use a table that is
\* gone, free a block twice or with another order, or free what is mapped.
THEOREM BufferIsSound == Spec => []AloneIsSafe
<1>1. Init => MmbInv
  BY SoundInit DEF MmbInv
<1>2. TypeOK /\ MmbInv /\ [Next]_vars => MmbInv'
  BY SoundNext
<1>3. MmbInv => AloneIsSafe
  BY DEF MmbInv, Sound, AloneIsSafe, Mapped, InUse
<1> QED BY <1>1, <1>2, <1>3, MmbTypeCorrect, PTL DEF Spec

-----------------------------------------------------------------------------
(* A failed allocation *)

\* Once the allocation has failed nothing but closing the file changes that.
THEOREM FailureIsFinal == Spec => FailedForGood
<1>1. ASSUME TypeOK, Stuck, [Next]_vars PROVE Stuck' \/ ~file'
  <2>1. file /\ mmb.dev /\ mmb.sgt = 0 /\ \A t \in Threads : ~Allocating(t)
    BY <1>1 DEF Stuck
  <2>2. CASE UNCHANGED vars
    BY <2>1, <2>2 DEF vars, Stuck, Allocating
  <2>3. CASE Open \/ Release \/ Munmap
    BY <2>1, <2>3 DEF Open, Release, Munmap, Stuck, Files, Allocating
  <2>4. ASSUME NEW t \in Threads, Call(t) \/ Step(t) PROVE Stuck' \/ ~file'
    <3>1. ASSUME UNCHANGED <<mmb, file>>, Others(t), ~Allocating(t)' PROVE Stuck'
      BY <2>1, <3>1 DEF Stuck, Others, Allocating
    <3>2. CASE Call(t)
      <4>1. UNCHANGED <<mmb, file>>
        BY <3>2 DEF Call, Scatter, AllocMem, Mmap
      <4>2. Others(t) /\ thr'[t].pc \in {"check", "maps"}
        <5>1. thr \in [Threads -> Callers]
          BY <1>1 DEF TypeOK
        <5>2. ASSUME NEW r, Enter(t, r), r.pc \in {"check", "maps"}
              PROVE  Others(t) /\ thr'[t].pc \in {"check", "maps"}
          BY <5>1, <5>2 DEF Enter, Others
        <5>3. \A size \in Sizes :
                /\ [Idle EXCEPT !.pc = "check", !.left = size, !.sg = TRUE].pc = "check"
                /\ [Idle EXCEPT !.pc = "check", !.left = size].pc = "check"
          BY DEF Idle
        <5>4. [Idle EXCEPT !.pc = "maps"].pc = "maps"
          BY DEF Idle
        <5>5. ASSUME NEW size \in Sizes, Scatter(t, size) \/ AllocMem(t, size)
              PROVE  Others(t) /\ thr'[t].pc \in {"check", "maps"}
          BY <5>2, <5>3, <5>5 DEF Scatter, AllocMem
        <5>6. ASSUME Mmap(t) PROVE Others(t) /\ thr'[t].pc \in {"check", "maps"}
          BY <5>2, <5>4, <5>6 DEF Mmap
        <5> QED BY <3>2, <5>5, <5>6 DEF Call
      <4>3. ~Allocating(t)'
        BY <4>2 DEF Allocating
      <4> QED BY <3>1, <4>1, <4>2, <4>3
    <3>3. CASE Checks(t) \/ MmapChecks(t)
      <4>1. UNCHANGED <<mmb, file>> /\ Returns(t)
        BY <2>1, <3>3 DEF Checks, MmapChecks, Files, Taken
      <4>2. Others(t) /\ ~Allocating(t)'
        BY <1>1, <4>1, Moves DEF Allocating
      <4> QED BY <3>1, <4>1, <4>2
    <3>4. CASE Remaps(t)
      <4>1. UNCHANGED <<mmb, file>> /\ Returns(t)
        BY <3>4 DEF Remaps, Files
      <4>2. Others(t) /\ ~Allocating(t)'
        BY <1>1, <4>1, Moves DEF Allocating
      <4> QED BY <3>1, <4>1, <4>2
    <3>5. ASSUME ~Call(t), ~(Checks(t) \/ MmapChecks(t)), ~Remaps(t) PROVE FALSE
      <4>1. thr[t].pc \in {"dev", "table", "bak", "page", "map", "err1", "buf"}
        BY <2>4, <3>5 DEF Step, FindsDev, TakesTable, TakesBackup, TakesPages, PagesFail,
           CopiesTable, MapsDma, AllocFails, AllocsBuf, At
      <4> QED BY <2>1, <4>1 DEF Allocating
    <3> QED BY <3>2, <3>3, <3>4, <3>5
  <2> QED BY <1>1, <2>2, <2>3, <2>4 DEF Next
<1>2. TypeOK /\ [Next]_vars => [Stuck => Stuck' \/ ~file']_vars
  BY <1>1
<1> QED BY <1>2, MmbTypeCorrect, PTL DEF Spec, FailedForGood

-----------------------------------------------------------------------------
(* Memory nothing can free *)

\* The blocks in the entries of a table.
Listed(s) == {tab[s][i].blk : i \in DOMAIN tab[s]}

LEMMA KnownIsListed ==
  Known = {b \in Listed(mmb.sgt) : mmb.sgt # 0} \cup {b \in Listed(mmb.bak) : mmb.bak # 0}
BY DEF Known, Listed

\* A step that keeps the blocks and loses no known one, or one that is free
\* now, leaks nothing.
LEMMA NoLeak ==
  ASSUME \A b \in Blocks : /\ InUse(b)' => InUse(b) \/ b \in Known'
                           /\ InUse(b)' /\ b \in Known => b \in Known'
  PROVE  Leaked' \subseteq Leaked
BY DEF Leaked, InUse

\* Before anything is entered in a table, nothing can be lost.
NothingKnown == \A b \in Blocks : b \notin Known

LEMMA NothingToLose ==
  ASSUME NothingKnown, UNCHANGED block
  PROVE  Leaked' \subseteq Leaked
BY DEF NothingKnown, Leaked

LEMMA FreshIsEmpty ==
  ASSUME NEW s, tab[s] = FreshTable
  PROVE  \A b \in Blocks : b \notin Listed(s)
BY MmbAssumption DEF Listed, FreshTable, Empty

LEMMA KnowsNothing ==
  ASSUME NoBuffer \/ OneTable
  PROVE  NothingKnown
<1>1. CASE NoBuffer
  BY <1>1, KnownIsListed DEF NoBuffer, NothingKnown
<1>2. CASE OneTable
  <2>1. mmb.bak = 0 /\ \A b \in Blocks : b \notin Listed(mmb.sgt)
    BY <1>2, FreshIsEmpty DEF OneTable
  <2> QED BY <2>1, KnownIsListed DEF NothingKnown
<1> QED BY <1>1, <1>2

\* Freeing a whole buffer frees all that its tables list.
LEMMA FreesAllKnown ==
  ASSUME TypeOK, FreeMem, NoBuffer \/ Whole \/ (TwoTables /\ Copy(mmb.bakN))
  PROVE  Leaked' \subseteq Leaked
<1> DEFINE es == IF mmb.sgt = 0 THEN {}
                 ELSE IF mmb.scatter THEN Backup ELSE {tab[mmb.sgt][1]}
<1>1. mmb \in Buffers /\ MaxEntry \in Nat \ {0} /\ 0 \notin Blocks
  BY MmbAssumption DEF TypeOK
<1>2. FreeIsSound
  <2>1. CASE NoBuffer
    BY <2>1 DEF FreeIsSound, NoBuffer
  <2>2. CASE Whole
    BY <2>2 DEF FreeIsSound, Whole, TwoTables
  <2>3. CASE TwoTables
    BY <2>3 DEF FreeIsSound, TwoTables
  <2> QED BY <2>1, <2>2, <2>3
<1>3. block' = [b \in Blocks |-> IF \E e \in es : e.blk = b THEN Free ELSE block[b]]
  BY <1>2 DEF FreeMem, Frees
<1>4. ASSUME NEW b \in Blocks, b \in Known PROVE \E e \in es : e.blk = b
  <2>1. ~NoBuffer
    BY <1>4, KnowsNothing DEF NothingKnown
  <2>2. CASE TwoTables /\ Copy(mmb.bakN)
    <3>1. es = Backup /\ mmb.bakN \in 1..MaxEntry /\ tab[mmb.bak] = tab[mmb.sgt]
      BY <2>2 DEF TwoTables, Alive, Copy
    <3>2. mmb.sgt \in Tables /\ tab[mmb.sgt] \in [1..MaxEntry -> Entry]
      BY <1>1, <2>2, TableKinds DEF TwoTables, Buffers, Alive
    <3>3. b \in Listed(mmb.sgt)
      BY <1>4, <3>1, KnownIsListed DEF Listed
    <3>4. PICK i \in 1..MaxEntry : b = tab[mmb.sgt][i].blk
      BY <3>2, <3>3 DEF Listed
    <3>5. i <= mmb.bakN
      <4>1. Empty.blk = 0
        BY DEF Empty
      <4>2. Filled(mmb.sgt, mmb.bakN)
        BY <2>2 DEF Copy
      <4> QED BY <1>1, <3>4, <4>1, <4>2 DEF Filled
    <3>6. i \in 1..mmb.bakN /\ mmb.bakN # 0
      BY <1>1, <3>1, <3>4, <3>5
    <3> QED BY <3>1, <3>4, <3>6 DEF Backup
  <2>3. CASE Whole /\ ~mmb.scatter
    <3>1. es = {tab[mmb.sgt][1]} /\ mmb.bak = 0
      BY <2>3 DEF Whole, Alive
    <3>2. mmb.sgt \in Tables /\ tab[mmb.sgt] \in [1..MaxEntry -> Entry]
      BY <1>1, <2>3, TableKinds DEF Whole, Buffers, Alive
    <3>3. b \in Listed(mmb.sgt)
      BY <1>4, <3>1, KnownIsListed
    <3>4. PICK i \in 1..MaxEntry : b = tab[mmb.sgt][i].blk
      BY <3>2, <3>3 DEF Listed
    <3>5. i = 1
      <4>1. Empty.blk = 0
        BY DEF Empty
      <4>2. \A j \in 2..MaxEntry : tab[mmb.sgt][j] = Empty
        BY <2>3 DEF Whole
      <4>3. i = 1 \/ i \in 2..MaxEntry
        BY <1>1
      <4> QED BY <1>1, <3>4, <4>1, <4>2, <4>3
    <3> QED BY <3>1, <3>4, <3>5
  <2> QED BY <2>1, <2>2, <2>3 DEF Whole
<1> HIDE DEF es
<1>5. \A b \in Blocks : /\ InUse(b)' => InUse(b)
                        /\ b \in Known => ~InUse(b)'
  BY <1>3, <1>4 DEF InUse
<1> QED BY <1>5, NoLeak

LEMMA LeakFile ==
  ASSUME TypeOK, Sound, Open \/ Release \/ Munmap
  PROVE  Leaked' \subseteq Leaked
<1>1. CASE Open
  <2>1. NoBuffer /\ UNCHANGED block
    BY <1>1 DEF Open, Sound, Closed
  <2> QED BY <2>1, KnowsNothing, NothingToLose
<1>2. CASE Munmap
  BY <1>2 DEF Munmap, Leaked, Known
<1>3. CASE Release
  <2>1. NoAllocation
    BY <1>3 DEF Release, NoAllocation, Allocating, Idle
  <2>2. NoBuffer \/ Whole
    BY <2>1 DEF Sound, AtRest
  <2>3. FreeMem
    BY <1>3 DEF Release
  <2> QED BY <2>2, <2>3, FreesAllKnown
<1> QED BY <1>1, <1>2, <1>3

\* The steps that leave the tables, the blocks and the pointers alone.
LEMMA LeakQuiet ==
  ASSUME TypeOK, NEW t \in Threads,
         \/ Call(t) \/ Checks(t) \/ MmapChecks(t) \/ Remaps(t)
         \/ FindsDev(t) \/ PagesFail(t) \/ MapsDma(t)
  PROVE  Leaked' \subseteq Leaked
<1>1. UNCHANGED <<tab, block>>
  BY DEF Call, Scatter, AllocMem, Mmap, Checks, MmapChecks, Remaps, FindsDev, PagesFail, MapsDma
<1>2. mmb'.sgt = mmb.sgt /\ mmb'.bak = mmb.bak
  <2>1. mmb \in Buffers
    BY DEF TypeOK
  <2>2. CASE FindsDev(t)
    BY <2>1, <2>2 DEF FindsDev, Buffers
  <2>3. CASE MapsDma(t)
    BY <2>1, <2>3 DEF MapsDma, Buffers
  <2>4. CASE ~FindsDev(t) /\ ~MapsDma(t)
    BY <2>4 DEF Call, Scatter, AllocMem, Mmap, Checks, MmapChecks, Remaps, PagesFail
  <2> QED BY <2>2, <2>3, <2>4
<1> QED BY <1>1, <1>2 DEF Leaked, Known

LEMMA LeakTakes ==
  ASSUME TypeOK, Sound, NEW t \in Threads, TakesTable(t) \/ TakesBackup(t)
  PROVE  Leaked' \subseteq Leaked
<1>1. thr[t].pc \in {"table", "bak"} /\ UNCHANGED block
  BY DEF TakesTable, TakesBackup, At
<1>2. NoBuffer \/ OneTable
  BY <1>1 DEF Sound, Allocation, AtTable, AtBak, Untouched
<1> QED BY <1>1, <1>2, KnowsNothing, NothingToLose

LEMMA LeakBuf ==
  ASSUME TypeOK, Sound, NEW t \in Threads, AllocsBuf(t)
  PROVE  Leaked' \subseteq Leaked
<1>1. thr[t].pc = "buf" /\ mmb \in Buffers
  BY DEF AllocsBuf, At, TypeOK
<1>2. OneTable
  BY <1>1 DEF Sound, Allocation, AtBuf
<1>3. NothingKnown
  BY <1>2, KnowsNothing
<1>4. CASE UNCHANGED block
  BY <1>3, <1>4, NothingToLose
<1>5. ASSUME NEW b \in Spare, block' = [block EXCEPT ![b] = Coherent],
             oops' = ~Alive(mmb.sgt),
             tab' = IF oops' THEN tab
                    ELSE [tab EXCEPT ![mmb.sgt][1] = [blk |-> b, len |-> thr[t].left]],
             mmb' = [mmb EXCEPT !.nents = 1, !.scatter = FALSE]
      PROVE  Leaked' \subseteq Leaked
  <2>1. PICK s : s = mmb.sgt
    OBVIOUS
  <2>2. mmb'.sgt = s
    BY <1>1, <1>5, <2>1 DEF Buffers
  <2>3. s \in Tables /\ s # 0 /\ tab[s] \in [1..MaxEntry -> Entry] /\ Alive(s)
    BY <1>1, <1>2, <2>1, TableKinds DEF Buffers, OneTable, Alive
  <2> DEFINE e == [blk |-> b, len |-> thr[t].left]
  <2>4. tab' = [tab EXCEPT ![s][1] = e]
    BY <1>5, <2>1, <2>3
  <2>5. e.blk = b /\ 1 \in 1..MaxEntry
    BY MmbAssumption
  <2> HIDE DEF e
  <2>6. 1 \in DOMAIN tab'[s] /\ tab'[s][1] = e
    BY <2>3, <2>4, <2>5 DEF TypeOK
  <2>7. b \in Known'
    <3>1. mmb'.sgt \in {mmb'.sgt, mmb'.bak} \ {0}
      BY <2>2, <2>3
    <3> QED BY <2>2, <2>5, <2>6, <3>1 DEF Known
  <2>8. \A c \in Blocks : c # b => block'[c] = block[c]
    BY <1>5 DEF TypeOK
  <2> QED BY <1>3, <2>7, <2>8, NoLeak DEF NothingKnown, InUse
<1> QED BY <1>4, <1>5 DEF AllocsBuf

LEMMA LeakPages ==
  ASSUME TypeOK, Sound, NEW t \in Threads, TakesPages(t)
  PROVE  Leaked' \subseteq Leaked
<1>1. thr[t].pc = "page" /\ mmb \in Buffers /\ ~NoEntry(t)
  BY DEF TakesPages, At, TypeOK
<1>2. AtPage(t) /\ mmb.nents \in Nat /\ MaxEntry \in Nat /\ 0 \notin Blocks
  BY <1>1, MmbAssumption DEF Sound, Allocation, Buffers
<1>3. PICK o \in Nat, b \in Spare, len \in Nat :
        /\ o = GetOrder(len) /\ Others(t)
        /\ thr'[t].pc = thr[t].pc /\ thr'[t].table = thr[t].table
        /\ thr'[t].i = thr[t].i + 1
        /\ block' = [block EXCEPT ![b] = Pages(o)]
        /\ oops' = ~Alive(thr[t].table)
        /\ tab' = IF oops' THEN tab
                  ELSE [tab EXCEPT ![thr[t].table][thr[t].i] = [blk |-> b, len |-> len]]
        /\ mmb' = [mmb EXCEPT !.nents = @ + 1]
  BY PageRound
<1>4. PICK s : s = mmb.sgt
  OBVIOUS
<1>5. PICK n : n = mmb.nents
  OBVIOUS
<1>6. /\ Alive(s) /\ tab[mmb.bak] = FreshTable
      /\ thr[t].table = s /\ thr[t].i = n + 1 /\ n \in Nat /\ n + 1 \in 1..MaxEntry
      /\ Filled(s, n)
  BY <1>1, <1>2, <1>4, <1>5 DEF AtPage, TwoTables, NoEntry
<1>7. s \in Tables /\ s # 0 /\ tab[s] \in [1..MaxEntry -> Entry]
  BY <1>1, <1>4, <1>6, TableKinds DEF Buffers, Alive
<1>8. mmb'.sgt = s
  BY <1>1, <1>3, <1>4 DEF Buffers
<1> DEFINE e == [blk |-> b, len |-> len]
<1>9. tab' = [tab EXCEPT ![s][n + 1] = e]
  BY <1>3, <1>6
<1>10. e.blk = b
  OBVIOUS
<1> HIDE DEF e
<1>11. tab'[s] = [tab[s] EXCEPT ![n + 1] = e] /\ DOMAIN tab'[s] = 1..MaxEntry
  BY <1>7, <1>9 DEF TypeOK
<1>12. \A i \in 1..MaxEntry : tab'[s][i].blk \in Known'
  <2>1. mmb'.sgt \in {mmb'.sgt, mmb'.bak} \ {0}
    BY <1>7, <1>8
  <2>2. \A i \in 1..MaxEntry : i \in DOMAIN tab'[s]
    BY <1>11
  <2>3. s \in {mmb'.sgt, mmb'.bak} \ {0}
    BY <1>8, <2>1
  <2>4. {tab'[s][i] : i \in DOMAIN tab'[s]} \subseteq
          UNION {{tab'[u][i] : i \in DOMAIN tab'[u]} : u \in {mmb'.sgt, mmb'.bak} \ {0}}
    BY <2>3
  <2> QED BY <2>2, <2>4 DEF Known
<1>13. b \in Known'
  <2>1. tab'[s][n + 1] = e
    BY <1>6, <1>7, <1>11
  <2> QED BY <1>6, <1>10, <1>12, <2>1
<1>14. ASSUME NEW c \in Blocks, c \in Known PROVE c \in Known'
  <2>1. c \in Listed(s)
    <3>1. c \notin Listed(mmb.bak)
      BY <1>6, FreshIsEmpty
    <3> QED BY <1>4, <1>14, <3>1, KnownIsListed
  <2>2. PICK i \in 1..MaxEntry : c = tab[s][i].blk
    BY <1>7, <2>1 DEF Listed
  <2>3. i # n + 1
    <3>1. Empty.blk = 0
      BY DEF Empty
    <3>2. ~(n + 1 <= n)
      BY <1>6
    <3>3. tab[s][n + 1] = Empty
      BY <1>6, <3>2 DEF Filled
    <3> QED BY <1>2, <2>2, <3>1, <3>3
  <2>4. tab'[s][i] = tab[s][i]
    BY <1>7, <1>11, <2>3
  <2> QED BY <1>12, <2>2, <2>4
<1>15. \A c \in Blocks : c # b => block'[c] = block[c]
  BY <1>3 DEF TypeOK
<1> QED BY <1>13, <1>14, <1>15, NoLeak DEF InUse

LEMMA LeakCopies ==
  ASSUME TypeOK, Sound, NEW t \in Threads, CopiesTable(t)
  PROVE  Leaked' \subseteq Leaked
<1>1. thr[t].pc = "page" /\ mmb \in Buffers /\ UNCHANGED block
  BY DEF CopiesTable, At, TypeOK
<1>2. AtPage(t)
  BY <1>1 DEF Sound, Allocation
<1>3. mmb'.sgt = mmb.sgt /\ mmb'.bak = mmb.bak
  BY <1>1 DEF CopiesTable, Buffers
<1>4. mmb.sgt # mmb.bak /\ mmb.sgt # 0 /\ tab[mmb.bak] = FreshTable
  BY <1>1, <1>2 DEF AtPage, TwoTables, Alive
<1>5. tab'[mmb.sgt] = tab[mmb.sgt]
  <2>1. \/ tab' = tab
        \/ tab' = [tab EXCEPT ![mmb.bak] = Copied]
    BY DEF CopiesTable
  <2>2. mmb.sgt \in Tables
    BY <1>1, <1>4 DEF Buffers
  <2> QED BY <1>4, <2>1, <2>2 DEF TypeOK
<1>6. ASSUME NEW b \in Blocks, b \in Known PROVE b \in Known'
  <2>1. b \in Listed(mmb.sgt)
    <3>1. b \notin Listed(mmb.bak)
      BY <1>4, FreshIsEmpty
    <3> QED BY <1>6, <3>1, KnownIsListed
  <2>2. PICK i \in DOMAIN tab[mmb.sgt] : b = tab[mmb.sgt][i].blk
    BY <2>1 DEF Listed
  <2>3. PICK s : s = mmb.sgt
    OBVIOUS
  <2>4. s = mmb'.sgt /\ s \in {mmb'.sgt, mmb'.bak} \ {0} /\ tab'[s] = tab[s]
    BY <1>3, <1>4, <1>5, <2>3
  <2> QED BY <2>2, <2>3, <2>4 DEF Known
<1> QED BY <1>1, <1>6, NoLeak DEF InUse

\* Without an overlap, memory is lost only where an allocation fails before
\* its entries are copied to the backup table.
THEOREM LeaksOnlyHalfway == Spec => LeakOnlyHalfway
<1> DEFINE A == ~overlap' =>
                  \/ Leaked' \subseteq Leaked
                  \/ \E t \in Threads : thr[t].pc = "err1" /\ mmb.bakN = 0
<1>1. ASSUME TypeOK, MmbInv, [Next]_vars PROVE [A]_vars
  <2> SUFFICES ASSUME Next, ~overlap'
               PROVE  \/ Leaked' \subseteq Leaked
                      \/ \E t \in Threads : thr[t].pc = "err1" /\ mmb.bakN = 0
    BY <1>1
  <2>1. CASE Open \/ Release \/ Munmap
    <3>1. Sound
      BY <1>1, <2>1 DEF Open, Release, Munmap, MmbInv
    <3> QED BY <1>1, <2>1, <3>1, LeakFile
  <2>2. ASSUME NEW t \in Threads, Call(t) \/ Step(t), overlap' = (overlap \/ Overlaps')
        PROVE  \/ Leaked' \subseteq Leaked
               \/ \E u \in Threads : thr[u].pc = "err1" /\ mmb.bakN = 0
    <3>1. Sound
      BY <1>1, <2>2 DEF MmbInv
    <3>2. CASE AllocFails(t)
      <4>1. thr[t].pc = "err1" /\ FreeMem
        BY <3>2 DEF AllocFails, At
      <4>2. TwoTables /\ (mmb.bakN = 0 \/ Copy(mmb.bakN))
        BY <3>1, <4>1 DEF Sound, Allocation, AtErr
      <4> QED BY <1>1, <3>1, <4>1, <4>2, FreesAllKnown
    <3>3. CASE ~AllocFails(t)
      BY <1>1, <2>2, <3>1, <3>3, LeakQuiet, LeakTakes, LeakBuf, LeakPages, LeakCopies DEF Step
    <3> QED BY <3>2, <3>3
  <2> QED BY <2>1, <2>2 DEF Next
<1>2. Init => MmbInv
  BY SoundInit DEF MmbInv
<1>3. TypeOK /\ MmbInv /\ [Next]_vars => MmbInv'
  BY SoundNext
<1>4. TypeOK /\ MmbInv /\ [Next]_vars => [A]_vars
  BY <1>1
<1> QED BY <1>2, <1>3, <1>4, MmbTypeCorrect, PTL DEF Spec, LeakOnlyHalfway
=============================================================================
