------------------------------- MODULE AxMmb -------------------------------
(***************************************************************************)
(* The media memory buffer device (ax_mmb.c): one open file, whose buffer  *)
(* descriptor mmb several threads allocate into and map without a lock.    *)
(*                                                                         *)
(* A scatter table is an object of its own, because sg_alloc_table         *)
(* overwrites the pointer to it and a thread keeps a cursor into it.  A    *)
(* block is what alloc_pages or dma_alloc_coherent returned.  Lengths are  *)
(* counted in units of which PageSize make a page.  NULL is 0.             *)
(***************************************************************************)
EXTENDS Naturals, FiniteSets, FiniteSetsExt

CONSTANTS Threads,     \* threads that share the open file
          Blocks,      \* blocks of memory, 1..n
          Tables,      \* scatter tables, 1..n
          Sizes,       \* sizes a caller asks for
          PageSize,    \* units of a page
          MAX_ORDER,   \* orders below it can be allocated
          MaxEntry,    \* MAX_SG_LIST_ENTRY
          MaxOpens     \* bound: how often the file is opened

ASSUME MmbAssumption ==
  /\ Blocks \subseteq Nat \ {0} /\ Tables \subseteq Nat \ {0}
  /\ Sizes \subseteq Nat
  /\ {PageSize, MAX_ORDER, MaxEntry} \subseteq Nat \ {0}

\* What the powers of two are, as far as an order can go: the proofs need it
\* spelled out, because ^ has no definition the provers could expand.
ASSUME PowersAssumption ==
  \A size \in Sizes : \A n \in 0..size + PageSize :
    2^n \in Nat \ {0} /\ 2^(n + 1) = 2 * 2^n

VARIABLES
  mmb,       \* struct ax_mmb_buf of the open file
  file,      \* is the file open?
  opens,     \* times it was opened
  tab,       \* entries of each scatter table; empty: not allocated
  block,     \* what each block was allocated as; order -1 is coherent memory
  vma,       \* blocks mapped into the process
  thr,       \* what each thread is doing in the driver
  oops,      \* a NULL or freed table was dereferenced
  overlap,   \* history: an allocation ran into another call of the file
  wrong      \* history: a block was freed twice or with another order

vars == <<mmb, file, opens, tab, block, vma, thr, oops, overlap, wrong>>

Free == [kind |-> "free"]
Pages(o) == [kind |-> "pages", order |-> o]
Coherent == [kind |-> "coherent"]
Empty == [blk |-> 0, len |-> 0]              \* an entry that was never set
NoTable == [i \in {} |-> Empty]
FreshTable == [i \in 1..MaxEntry |-> Empty]
Idle == [pc |-> "idle", table |-> 0, i |-> 0, left |-> 0, sg |-> FALSE]

Zeroed == [dev |-> FALSE, scatter |-> FALSE, mapped |-> FALSE,
           nents |-> 0, sgt |-> 0, bak |-> 0, bakN |-> 0]

Init ==
  /\ mmb = Zeroed /\ file = FALSE /\ opens = 0
  /\ tab = [t \in Tables |-> NoTable]
  /\ block = [b \in Blocks |-> Free]
  /\ vma = {} /\ thr = [t \in Threads |-> Idle]
  /\ oops = FALSE /\ overlap = FALSE /\ wrong = FALSE

InUse(b) == block[b] # Free
Spare == {b \in Blocks : ~InUse(b) /\ b \notin vma}
SpareTables == {t \in Tables : tab[t] = NoTable}
Alive(t) == t # 0 /\ tab[t] # NoTable

\* get_order of a length, and PAGE_ALIGN.
Capacity(o) == 2^o * PageSize
GetOrder(len) == CHOOSE o \in 0..len : /\ len <= Capacity(o)
                                      /\ \A p \in 0..len : len <= Capacity(p) => o <= p
PageAlign(len) == ((len + PageSize - 1) \div PageSize) * PageSize
Least(o, p) == IF o < p THEN o ELSE p
FirstOrder(size) == Least(GetOrder(PageAlign(size)), MAX_ORDER - 1)

Allocating(t) == thr[t].pc \notin {"idle", "check", "maps", "remap"}
Enter(t, rec) ==
  /\ file /\ ~oops /\ thr[t] = Idle
  /\ thr' = [thr EXCEPT ![t] = rec]
Goes(t, pc) == thr' = [thr EXCEPT ![t].pc = pc]
Returns(t) == thr' = [thr EXCEPT ![t] = Idle]
At(t, pc) == ~oops /\ thr[t].pc = pc
Files == <<file, opens>>
\* A call allocates while another one, past its check, allocates or maps.
Overlaps == \E t, u \in Threads :
  t # u /\ Allocating(t) /\ (Allocating(u) \/ thr[u].pc = "remap")

\* The values of the variables.  left is what a size leaves to allocate.
Entry == [blk : Blocks \cup {0}, len : Nat]
Lengths == {0} \cup UNION {0..size : size \in Sizes}
Callers == [pc : {"idle", "check", "dev", "table", "bak", "page", "map", "err1",
                  "buf", "maps", "remap"},
            table : Tables \cup {0}, i : Nat, left : Lengths, sg : BOOLEAN]
Buffers == [dev : BOOLEAN, scatter : BOOLEAN, mapped : BOOLEAN, nents : Nat,
            sgt : Tables \cup {0}, bak : Tables \cup {0}, bakN : Nat]
TypeOK ==
  /\ mmb \in Buffers /\ thr \in [Threads -> Callers]
  /\ file \in BOOLEAN /\ opens \in Nat /\ vma \in SUBSET Blocks
  /\ tab \in [Tables -> {NoTable} \cup [1..MaxEntry -> Entry]]
  /\ block \in [Blocks -> [kind : {"free", "coherent"}]
                           \cup [kind : {"pages"}, order : Nat]]
  /\ oops \in BOOLEAN /\ overlap \in BOOLEAN /\ wrong \in BOOLEAN
  /\ oops \/ mmb.bakN <= MaxEntry

(* ax_mmb_open *)
Open ==
  /\ ~file /\ ~oops /\ opens < MaxOpens
  /\ file' = TRUE /\ opens' = opens + 1 /\ mmb' = Zeroed
  /\ UNCHANGED <<tab, block, vma, thr, oops, overlap, wrong>>

-----------------------------------------------------------------------------
(* ax_mmb_sglist_free_mem *)

\* The blocks that the backup table has for __free_pages, and their lengths.
MutBackup == IF mmb.bakN = 0 THEN {} ELSE {tab[mmb.bak][i] : i \in 1..mmb.bakN - 1}
Backup == IF mmb.bakN = 0 THEN {} ELSE {tab[mmb.bak][i] : i \in 1..mmb.bakN}
Kept == {e.blk : e \in Backup}

\* __free_pages and dma_free_coherent of the blocks es, and sg_free_table.
Frees(es, isPages) ==
  /\ block' = [b \in Blocks |-> IF \E e \in es : e.blk = b THEN Free ELSE block[b]]
  /\ wrong' = (wrong \/ \E e \in es :
        \/ e.blk = 0 \/ ~InUse(e.blk)
        \/ isPages /\ block[e.blk] # Pages(GetOrder(e.len))
        \/ ~isPages /\ block[e.blk] # Coherent)
DropTables(ts) == tab' = [t \in Tables |-> IF t \in ts THEN NoTable ELSE tab[t]]
MutFreedBuf == [mmb EXCEPT !.bak = 0, !.nents = 0]
FreedBuf == [mmb EXCEPT !.sgt = 0, !.bak = 0, !.nents = 0,
                        !.mapped = @ /\ ~(mmb.sgt # 0 /\ mmb.scatter /\ mmb.nents > 0)]

\* What the function touches is still there.
FreeIsSound ==
  /\ mmb.sgt # 0 => Alive(mmb.sgt)
  /\ mmb.sgt # 0 /\ mmb.scatter /\ mmb.bakN > 0 => Alive(mmb.bak)
  /\ mmb.bak # 0 => Alive(mmb.bak)

FreeMem ==
  /\ oops' = ~FreeIsSound
  /\ IF ~FreeIsSound
     THEN UNCHANGED <<mmb, tab, block, wrong>>
     ELSE /\ Frees(IF mmb.sgt = 0 THEN {}
                   ELSE IF mmb.scatter THEN Backup ELSE {tab[mmb.sgt][1]},
                   mmb.scatter)
          /\ DropTables({mmb.sgt, mmb.bak})
          /\ mmb' = FreedBuf

(* ax_mmb_release: the kernel calls it when no call and no mapping is left *)
Release ==
  /\ file /\ ~oops /\ vma = {} /\ \A t \in Threads : thr[t] = Idle
  /\ FreeMem /\ file' = FALSE
  /\ UNCHANGED <<opens, vma, thr, overlap>>

-----------------------------------------------------------------------------
(* ax_mmb_ioctl: the two allocations *)

Scatter(t, size) == Enter(t, [Idle EXCEPT !.pc = "check", !.left = size, !.sg = TRUE])
                    /\ UNCHANGED <<mmb, file, opens, tab, block, vma, oops, wrong>>
AllocMem(t, size) == Enter(t, [Idle EXCEPT !.pc = "check", !.left = size])
                     /\ UNCHANGED <<mmb, file, opens, tab, block, vma, oops, wrong>>
IsScatter(t) == thr[t].sg

MutTaken == mmb.sgt # 0
Taken == mmb.dev \/ mmb.sgt # 0

\* The two checks both allocations begin with.
Checks(t) ==
  /\ At(t, "check")
  /\ IF Taken \/ thr[t].left = 0 THEN Returns(t) ELSE Goes(t, "dev")
  /\ UNCHANGED <<mmb, Files, tab, block, vma, oops, wrong>>

\* get_mmb_dev: the card may be missing.  A file whose table was filled
\* meanwhile is refused by the scatter allocation only, which keeps dev.
FindsDev(t) ==
  /\ At(t, "dev")
  /\ \E found \in BOOLEAN :
       LET busy == IsScatter(t) /\ mmb.nents > 0 IN
       /\ mmb' = [mmb EXCEPT !.dev = found,
                             !.scatter = @ \/ (found /\ ~busy /\ IsScatter(t))]
       /\ IF ~found \/ busy THEN Returns(t) ELSE Goes(t, "table")
  /\ UNCHANGED <<Files, tab, block, vma, oops, wrong>>

\* sg_alloc_table(&mmb->sgt), whose failure leaves the pointer NULL.
TakesTable(t) ==
  /\ At(t, "table")
  /\ \/ \E s \in SpareTables :
          /\ s = Min(SpareTables)
          /\ mmb' = [mmb EXCEPT !.sgt = s] /\ tab' = [tab EXCEPT ![s] = FreshTable]
          /\ Goes(t, IF IsScatter(t) THEN "bak" ELSE "buf")
     \/ mmb' = [mmb EXCEPT !.sgt = 0] /\ Returns(t) /\ UNCHANGED tab
  /\ UNCHANGED <<Files, block, vma, oops, wrong>>

\* The backup table; the loop's cursor is read from mmb->sgt afterwards.
TakesBackup(t) ==
  /\ At(t, "bak")
  /\ \/ \E s \in SpareTables :
          /\ s = Min(SpareTables)
          /\ mmb' = [mmb EXCEPT !.bak = s, !.bakN = 0]
          /\ tab' = [tab EXCEPT ![s] = FreshTable]
          /\ thr' = [thr EXCEPT ![t].pc = "page", ![t].table = mmb.sgt, ![t].i = 1]
     \/ /\ mmb' = [mmb EXCEPT !.sgt = 0, !.bak = 0, !.bakN = 0]
        /\ DropTables({mmb.sgt}) /\ Returns(t)
  /\ UNCHANGED <<Files, block, vma, oops, wrong>>

\* One round of the page loop: any order up to the first may be what is free.
EntryLen(size, order) == Least(size, Capacity(order))
NoEntry(t) == thr[t].table = 0 \/ thr[t].i > MaxEntry
TakesPages(t) ==
  /\ At(t, "page") /\ thr[t].left > 0 /\ ~NoEntry(t)
  /\ \E o \in 0..FirstOrder(thr[t].left), b \in Spare :
       LET len == EntryLen(thr[t].left, o) IN
       /\ b = Min(Spare)
       /\ block' = [block EXCEPT ![b] = Pages(o)]
       /\ oops' = ~Alive(thr[t].table)
       /\ tab' = IF oops' THEN tab
                 ELSE [tab EXCEPT ![thr[t].table][thr[t].i] = [blk |-> b, len |-> len]]
       /\ mmb' = [mmb EXCEPT !.nents = @ + 1]
       /\ thr' = [thr EXCEPT ![t].left = @ - len, ![t].i = @ + 1]
  /\ UNCHANGED <<Files, vma, wrong>>

\* No page of any order, or no entry left.
PagesFail(t) ==
  /\ At(t, "page") /\ thr[t].left > 0
  /\ Goes(t, "err1")
  /\ UNCHANGED <<mmb, Files, tab, block, vma, oops, wrong>>

Copied == [i \in 1..MaxEntry |-> IF i <= mmb.nents THEN tab[mmb.sgt][i]
                                                   ELSE tab[mmb.bak][i]]
\* ax_copy_sg_table, with whatever number of entries mmb has now.
CopiesTable(t) ==
  /\ At(t, "page") /\ thr[t].left = 0
  /\ \/ /\ mmb.nents = 0 /\ Goes(t, "err1") /\ UNCHANGED <<mmb, tab, oops>>
     \/ /\ mmb.nents > 0
        /\ oops' = ~(Alive(mmb.sgt) /\ Alive(mmb.bak) /\ mmb.nents <= MaxEntry)
        /\ tab' = IF oops' THEN tab ELSE [tab EXCEPT ![mmb.bak] = Copied]
        /\ mmb' = [mmb EXCEPT !.bakN = mmb.nents]
        /\ Goes(t, "map")
  /\ UNCHANGED <<Files, block, vma, wrong>>

\* dma_map_sg_attrs maps the entries it is given into as many or fewer.
MapsDma(t) ==
  /\ At(t, "map")
  /\ oops' = ~(Alive(mmb.sgt) /\ mmb.nents <= MaxEntry
                /\ \A i \in 1..mmb.nents : tab[mmb.sgt][i] # Empty)
  /\ \E n \in 0..mmb.nents :
       /\ mmb' = [mmb EXCEPT !.nents = n, !.mapped = @ \/ n > 0]
       /\ IF n = 0 THEN Goes(t, "err1") ELSE Returns(t)
  /\ UNCHANGED <<Files, tab, block, vma, wrong>>

\* err1: the pages go back, as far as the backup table knows them.
AllocFails(t) ==
  /\ At(t, "err1") /\ FreeMem /\ Returns(t)
  /\ UNCHANGED <<Files, vma>>

\* ax_mmb_alloc_mem: dma_alloc_coherent and what follows it.
AllocsBuf(t) ==
  /\ At(t, "buf") /\ Returns(t)
  /\ \/ \E b \in Spare :
          /\ b = Min(Spare)
          /\ block' = [block EXCEPT ![b] = Coherent]
          /\ oops' = ~Alive(mmb.sgt)
          /\ tab' = IF oops' THEN tab
                    ELSE [tab EXCEPT ![mmb.sgt][1] = [blk |-> b, len |-> thr[t].left]]
          /\ mmb' = [mmb EXCEPT !.nents = 1, !.scatter = FALSE]
     \/ /\ DropTables({mmb.sgt}) /\ mmb' = [mmb EXCEPT !.sgt = 0]
        /\ UNCHANGED <<block, oops>>
  /\ UNCHANGED <<Files, vma, wrong>>

-----------------------------------------------------------------------------
(* ax_mmb_mmap *)

Mmap(t) == Enter(t, [Idle EXCEPT !.pc = "maps"])
           /\ UNCHANGED <<mmb, file, opens, tab, block, vma, oops, wrong>>

MmapChecks(t) ==
  /\ At(t, "maps")
  /\ IF ~mmb.dev \/ mmb.sgt = 0 THEN Returns(t) ELSE Goes(t, "remap")
  /\ UNCHANGED <<mmb, Files, tab, block, vma, oops, wrong>>

\* A block whose remapping fails is skipped; only the last result is returned,
\* and the kernel drops the whole mapping when that one is a failure.
Remaps(t) ==
  /\ At(t, "remap") /\ Returns(t)
  /\ oops' = IF mmb.scatter THEN mmb.bakN > 0 /\ ~Alive(mmb.bak) ELSE ~Alive(mmb.sgt)
  /\ LET bs == IF oops' THEN {}
               ELSE IF mmb.scatter THEN Kept ELSE {tab[mmb.sgt][1].blk}
     IN \E done \in SUBSET (bs \ {0}) : vma' = vma \cup done
  /\ UNCHANGED <<mmb, Files, tab, block, wrong>>

Munmap == /\ vma # {} /\ vma' = {}
          /\ UNCHANGED <<mmb, Files, tab, block, thr, oops, overlap, wrong>>

-----------------------------------------------------------------------------
Call(t) == \/ \E size \in Sizes : Scatter(t, size) \/ AllocMem(t, size)
           \/ Mmap(t)
Step(t) == \/ Checks(t) \/ FindsDev(t) \/ TakesTable(t) \/ TakesBackup(t)
           \/ TakesPages(t) \/ PagesFail(t) \/ CopiesTable(t) \/ MapsDma(t)
           \/ AllocFails(t) \/ AllocsBuf(t) \/ MmapChecks(t) \/ Remaps(t)
Next == \/ Open \/ Release \/ Munmap
        \/ \E t \in Threads : (Call(t) \/ Step(t)) /\ overlap' = (overlap \/ Overlaps')
Spec == Init /\ [][Next]_vars

-----------------------------------------------------------------------------
(* Properties *)

\* Nothing serialises the calls of one file (unlocked_ioctl, mmap).  As long as
\* no allocation ran into another call that is past its own check, no table is
\* used after it is gone, no block is freed twice or with an order other than
\* the one it was allocated with (which get_order recomputes from the length
\* of the entry), and what the process has mapped is still allocated.
AloneIsSafe ==
  ~overlap => ~oops /\ ~wrong /\ \A b \in vma : block[b] # Free

Known == {e.blk : e \in UNION {{tab[s][i] : i \in DOMAIN tab[s]} :
                               s \in {mmb.sgt, mmb.bak} \ {0}}}
Leaked == {b \in Blocks : block[b] # Free} \ Known

\* Memory nothing can free any more comes from one place only: a scatter
\* allocation that fails before its entries are copied, because err1 frees the
\* entries of the backup table, which has none yet.
LeakOnlyHalfway ==
  [][~overlap' =>
       \/ Leaked' \subseteq Leaked
       \/ \E t \in Threads : thr[t].pc = "err1" /\ mmb.bakN = 0]_vars

Stuck == file /\ mmb.dev /\ mmb.sgt = 0 /\ ~\E t \in Threads : Allocating(t)

\* A failed allocation is for good: mmb->dev stays set, so that whatever calls
\* follow, in any order and from any thread, the file holds no buffer until it
\* is closed.
FailedForGood == [][Stuck => Stuck' \/ ~file']_vars
=============================================================================
