--------------------------- MODULE ResourcesProofs ---------------------------
(***************************************************************************)
(* Proofs about what processes own, for every number of processes, pages,  *)
(* files and descriptors, and every page size: no page, reference or exit  *)
(* status is lost, and no page table is dismantled in the wrong order.     *)
(***************************************************************************)
EXTENDS Resources, TLAPS, WellFoundedInduction, FiniteSetTheorems

-----------------------------------------------------------------------------
(* Counting.                                                               *)

\* Numbered pages, f[p] of them for every p.
PageSet(f) == UNION {{p} \X (1..f[p]) : p \in Procs}

\* The pages of one process are as many as the function says.
LEMMA OnePageSet ==
  ASSUME NEW p, NEW n \in Nat
  PROVE  IsFiniteSet({p} \X (1..n)) /\ Cardinality({p} \X (1..n)) = n
<1>1. IsFiniteSet({p}) /\ Cardinality({p}) = 1
  BY FS_Singleton
<1>2. IsFiniteSet(1..n) /\ Cardinality(1..n) = n
  BY FS_Interval
<1>3. /\ IsFiniteSet({p} \X (1..n))
      /\ Cardinality({p} \X (1..n)) = Cardinality({p}) * Cardinality(1..n)
  BY <1>1, <1>2, FS_Product
<1>4. QED
  BY <1>1, <1>2, <1>3

\* Finitely many processes have finitely many pages.
LEMMA PageSetFinite ==
  ASSUME NEW f \in [Procs -> Nat]
  PROVE  IsFiniteSet(PageSet(f))
<1> DEFINE One(p) == {p} \X (1..f[p])
           All == {One(p) : p \in Procs}
           g == [p \in Procs |-> One(p)]
<1>1. g \in Surjection(Procs, All)
  BY DEF Surjection
<1>2. IsFiniteSet(All)
  BY <1>1, TableAssumption, FS_Surjection
<1>3. ASSUME NEW T \in All
      PROVE  IsFiniteSet(T)
  <2>1. PICK p \in Procs : T = {p} \X (1..f[p])
    OBVIOUS
  <2>2. f[p] \in Nat
    OBVIOUS
  <2>3. QED
    BY <2>1, <2>2, OnePageSet
<1>4. IsFiniteSet(UNION All)
  BY <1>2, <1>3, FS_UNION
<1>5. QED
  BY <1>4 DEF PageSet

\* The pages are those of q and those of the others.
LEMMA PageSetSplit ==
  ASSUME NEW f \in [Procs -> Nat], NEW q \in Procs
  PROVE  LET rest == UNION {{p} \X (1..f[p]) : p \in Procs \ {q}}
         IN  /\ IsFiniteSet(rest) /\ Cardinality(rest) \in Nat
             /\ Cardinality(PageSet(f)) = Cardinality(rest) + f[q]
<1> DEFINE rest == UNION {{p} \X (1..f[p]) : p \in Procs \ {q}}
           mine == {q} \X (1..f[q])
<1>1. PageSet(f) = rest \cup mine
  BY DEF PageSet
<1>2. rest \cap mine = {}
  OBVIOUS
<1>3. IsFiniteSet(PageSet(f))
  BY PageSetFinite
<1>4. IsFiniteSet(mine) /\ Cardinality(mine) = f[q]
  BY OnePageSet
<1>5. rest \in SUBSET PageSet(f)
  BY <1>1
<1> HIDE DEF rest, mine
<1>6. IsFiniteSet(rest)
  BY <1>3, <1>5, FS_Subset
<1>7. Cardinality(rest \cup mine) = Cardinality(rest) + Cardinality(mine) - Cardinality(rest \cap mine)
  BY <1>4, <1>6, FS_Union
<1>8. Cardinality(rest) \in Nat
  BY <1>6, FS_CardinalityType
<1>9. Cardinality(rest \cap mine) = 0
  BY <1>2, FS_EmptySet
<1>10. Cardinality(PageSet(f)) = Cardinality(rest) + f[q]
  BY <1>1, <1>4, <1>7, <1>8, <1>9
<1>11. QED
  BY <1>6, <1>8, <1>10 DEF rest

\* Giving or taking pages changes the count by as many.
LEMMA PageSetChange ==
  ASSUME NEW f \in [Procs -> Nat], NEW q \in Procs, NEW v \in Nat
  PROVE  /\ Cardinality(PageSet(f)) \in Nat
         /\ f[q] <= Cardinality(PageSet(f))
         /\ Cardinality(PageSet([f EXCEPT ![q] = v])) = Cardinality(PageSet(f)) - f[q] + v
<1> DEFINE g == [f EXCEPT ![q] = v]
           rest == UNION {{p} \X (1..f[p]) : p \in Procs \ {q}}
           restg == UNION {{p} \X (1..g[p]) : p \in Procs \ {q}}
<1>1. g \in [Procs -> Nat] /\ g[q] = v /\ \A p \in Procs \ {q} : g[p] = f[p]
  OBVIOUS
<1>2. restg = rest
  <2> HIDE DEF g
  <2>1. {{p} \X (1..g[p]) : p \in Procs \ {q}} = {{p} \X (1..f[p]) : p \in Procs \ {q}}
    BY <1>1
  <2>2. QED
    BY <2>1
<1>3. Cardinality(rest) \in Nat /\ Cardinality(PageSet(f)) = Cardinality(rest) + f[q]
  BY PageSetSplit
<1>4. Cardinality(PageSet(g)) = Cardinality(restg) + g[q]
  <2> HIDE DEF g
  <2>1. QED
    BY <1>1, PageSetSplit
<1>5. f[q] \in Nat
  OBVIOUS
<1> HIDE DEF g, rest, restg
<1>6. Cardinality(PageSet(g)) = Cardinality(PageSet(f)) - f[q] + v
  BY <1>1, <1>2, <1>3, <1>4, <1>5
<1>7. QED
  BY <1>3, <1>5, <1>6 DEF g

-----------------------------------------------------------------------------
(* Sizes and pages.                                                        *)

\* PGROUNDUP(s) / PGSIZE is the number of pages that hold s bytes: enough and no more
\* than enough, and the page of every byte is one of them.
LEMMA PageArithmetic ==
  ASSUME NEW s \in Nat
  PROVE  /\ PagesOf(s) \in Nat
         /\ s <= PagesOf(s) * PGSIZE
         /\ PagesOf(s) * PGSIZE <= s + PGSIZE - 1
         /\ s = 0 => PagesOf(s) = 0
         /\ s = PGSIZE => PagesOf(s) = 1
         /\ \A b \in Nat : b < s => b \div PGSIZE < PagesOf(s)
<1>0. PGSIZE \in Nat /\ PGSIZE >= 1
  BY SizesAssumption
<1> DEFINE a == s + PGSIZE - 1
           q == a \div PGSIZE
<1>1. a \in Nat
  BY <1>0
<1>2. q \in Nat /\ q * PGSIZE <= a /\ a < (q + 1) * PGSIZE
  <2> HIDE DEF a
  <2>1. QED
    BY <1>0, <1>1
<1>3. (q + 1) * PGSIZE = q * PGSIZE + PGSIZE /\ q * PGSIZE \in Nat
  <2> HIDE DEF q
  <2>1. QED
    BY <1>0, <1>2
<1>4. s <= q * PGSIZE
  <2> HIDE DEF q
  <2>1. QED
    BY <1>0, <1>2, <1>3
<1>5. s = 0 => q = 0
  <2> HIDE DEF q
  <2>1. ASSUME s = 0, q >= 1
        PROVE  FALSE
    <3>1. q * PGSIZE >= PGSIZE
      BY <1>0, <1>2, <2>1
    <3>2. QED
      BY <1>0, <1>2, <2>1, <3>1
  <2>2. QED
    BY <1>2, <2>1
<1>6. s = PGSIZE => q = 1
  <2> HIDE DEF q
  <2>1. ASSUME s = PGSIZE, q >= 2
        PROVE  FALSE
    <3>1. q * PGSIZE >= 2 * PGSIZE
      BY <1>0, <1>2, <2>1
    <3>2. QED
      BY <1>0, <1>2, <2>1, <3>1
  <2>2. ASSUME s = PGSIZE, q = 0
        PROVE  FALSE
    BY <1>0, <1>2, <2>2
  <2>3. QED
    BY <1>2, <2>1, <2>2
<1>7. ASSUME NEW b \in Nat, b < s
      PROVE  b \div PGSIZE < q
  <2> DEFINE d == b \div PGSIZE
  <2>1. d \in Nat /\ d * PGSIZE <= b
    BY <1>0
  <2> HIDE DEF q, d
  <2>2. ASSUME d >= q
        PROVE  FALSE
    <3>1. d * PGSIZE >= q * PGSIZE
      BY <1>0, <1>2, <2>1, <2>2
    <3>2. QED
      BY <1>0, <1>2, <1>3, <1>4, <1>7, <2>1, <3>1
  <2>3. QED
    BY <1>2, <2>1, <2>2 DEF d
<1>8. PagesOf(s) = q
  BY DEF PagesOf
<1> HIDE DEF q
<1>9. QED
  BY <1>0, <1>2, <1>3, <1>4, <1>5, <1>6, <1>7, <1>8

-----------------------------------------------------------------------------
(* The inductive invariant.                                                *)

\* Where a system call can be: in fork, in exit, or nowhere.
ForkLabels == {"trapframe", "uvmcreate", "TRAMPOLINE", "TRAPFRAME", "uvmcopy", "free"}
ExitLabels == {"close", "iput", "zombie"}
Both == {"TRAMPOLINE", "TRAPFRAME"}

\* Page tables, before it is known that they fit into memory.
AnyTable == [tables : Nat, leaves : SUBSET Both, user : Nat]

SlotTypes ==
  /\ state \in [Procs -> {"UNUSED", "USED", "LIVE", "ZOMBIE"}]
  /\ parent \in [Procs -> Procs \cup {Null}] /\ np \in [Procs -> Procs \cup {Null}]
  /\ pc \in [Procs -> {"user"} \cup ForkLabels \cup ExitLabels]
MemoryTypes ==
  /\ free \in Nat
  /\ trapframe \in [Procs -> BOOLEAN]
  /\ pagetable \in [Procs -> AnyTable] /\ tab \in [Procs -> AnyTable]
  /\ sz \in [Procs -> 0..(WordModulus - 1)]
  /\ panicked \in BOOLEAN

\* A fork under way has a slot to itself.
SlotsInv ==
  \A p \in Procs :
    /\ IF pc[p] \in ForkLabels
       THEN state[p] = "LIVE" /\ np[p] \in Procs /\ state[np[p]] = "USED"
       ELSE np[p] = Null
    /\ \A q \in Procs : np[p] = np[q] /\ np[p] # Null => p = q

\* What is mapped in the page table that a fork at label l is making.
LeavesAt(l) ==
  IF l = "uvmcopy" THEN Both ELSE IF l = "TRAPFRAME" THEN {"TRAMPOLINE"} ELSE {}

\* A page table is complete when it is in the process table, and has the pages that
\* p->sz says.  Only a fork has a half-made one.
TableOK(p) ==
  /\ tab[p].leaves = LeavesAt(pc[p]) /\ tab[p].user = 0
  /\ pc[p] \notin {"TRAMPOLINE", "TRAPFRAME", "uvmcopy"} => tab[p] = NoTable
  /\ pc[p] \in ForkLabels \ {"free"} => pagetable[np[p]] = NoTable
  /\ pc[p] = "trapframe" => trapframe[np[p]] = FALSE
  /\ pagetable[p] # NoTable \/ state[p] \in {"LIVE", "ZOMBIE"} =>
       pagetable[p].leaves = Both /\ pagetable[p].user = PagesOf(sz[p])
  /\ state[p] \in {"UNUSED", "USED"} => sz[p] = 0
  /\ state[p] = "UNUSED" => trapframe[p] = FALSE /\ pagetable[p] = NoTable
MemoryInv == \A p \in Procs : TableOK(p)

\* The pages that each process owns, or its fork.
Owned == [p \in Procs |-> Bool2Nat(trapframe[p]) + PagesIn(pagetable[p]) + PagesIn(tab[p])]
PagesInv == free + Cardinality(Procs) + Cardinality(PageSet(Owned)) = NPages

\* Files, and who holds them: everybody alive has a directory until it gives it up in
\* exit, after its files.
FileTypes ==
  /\ ofile \in [Procs -> [FDs -> Files \cup {Null}]] /\ ref \in [Files -> Nat]
  /\ cwd \in [Procs -> BOOLEAN] /\ cwdRef \in Nat
ClosedInOrder ==
  \A p \in Procs :
    /\ pc[p] \in {"iput", "zombie"} => \A fd \in FDs : ofile[p][fd] = Null
    /\ state[p] = "LIVE" => (cwd[p] <=> pc[p] # "zombie")
FilesInv == FileTypes /\ ClosedInOrder /\ RefsExact

\* The pids of processes differ; one that is in exit has a status, and a zombie keeps it.
StatusTypes ==
  /\ pid \in [Procs -> 0..MaxPid] /\ nextpid \in 1..(MaxPid + 1)
  /\ xstate \in [Procs -> Statuses \cup {0}]
  /\ status \in [1..MaxPid -> Statuses \cup {None}]
  /\ got \in [1..MaxPid -> Statuses \cup {None, Discarded}]
PidsDiffer ==
  \A p \in Procs : state[p] # "UNUSED" =>
    /\ pid[p] \in 1..(nextpid - 1)
    /\ \A q \in Procs : state[q] # "UNUSED" /\ pid[q] = pid[p] => q = p
StatusesRecorded ==
  \A p \in Procs :
    /\ state[p] = "LIVE" /\ pc[p] \in ExitLabels => status[pid[p]] \in Statuses
    /\ state[p] = "ZOMBIE" => xstate[p] = status[pid[p]] /\ status[pid[p]] \in Statuses
StatusInv == StatusTypes /\ PidsDiffer /\ StatusesRecorded /\ StatusKept

\* The parts that are proved together.
ProcessInv == SlotTypes /\ SlotsInv
TablesInv == MemoryTypes /\ MemoryInv /\ ~panicked

-----------------------------------------------------------------------------
(* Forks and slots.                                                        *)

\* A system call goes on, without beginning or ending a fork.
LEMMA CallGoesOn ==
  ASSUME ProcessInv, NEW p \in Procs, NEW l, UNCHANGED <<state, parent, np>>,
         pc' = [pc EXCEPT ![p] = l],
         \/ pc[p] \in ForkLabels /\ l \in ForkLabels
         \/ pc[p] \notin ForkLabels /\ l \in ExitLabels
  PROVE  ProcessInv'
<1>1. pc \in [Procs -> {"user"} \cup ForkLabels \cup ExitLabels]
  BY DEF ProcessInv, SlotTypes
<1>2. ForkLabels \cap ExitLabels = {}
  BY DEF ForkLabels, ExitLabels
<1>3. \A q \in Procs : pc'[q] \in ForkLabels <=> pc[q] \in ForkLabels
  BY <1>1, <1>2
<1>4. SlotTypes'
  BY <1>1 DEF ProcessInv, SlotTypes
<1>5. SlotsInv'
  BY <1>3 DEF ProcessInv, SlotsInv
<1>6. QED
  BY <1>4, <1>5 DEF ProcessInv

\* The slot that a fork fills is nobody else's.
LEMMA ForkSlot ==
  ASSUME ProcessInv, NEW p \in Procs, pc[p] \in ForkLabels
  PROVE  /\ state[p] = "LIVE" /\ np[p] \in Procs /\ state[np[p]] = "USED" /\ np[p] # p
         /\ pc[np[p]] \notin ForkLabels /\ np[np[p]] = Null
         /\ \A q \in Procs : q # p => np[q] # np[p]
<1>1. state[p] = "LIVE" /\ np[p] \in Procs /\ state[np[p]] = "USED" /\ np[p] # Null
  BY TableAssumption DEF ProcessInv, SlotsInv
<1>2. QED
  BY <1>1 DEF ProcessInv, SlotsInv

\* Every step keeps the slots apart.
LEMMA ProcessNext ==
  ASSUME ProcessInv, [Next]_vars
  PROVE  ProcessInv'
<1>0. /\ SlotTypes /\ SlotsInv /\ Null \notin Procs /\ initproc \in Procs
      /\ state \in [Procs -> {"UNUSED", "USED", "LIVE", "ZOMBIE"}]
      /\ parent \in [Procs -> Procs \cup {Null}] /\ np \in [Procs -> Procs \cup {Null}]
      /\ pc \in [Procs -> {"user"} \cup ForkLabels \cup ExitLabels]
  BY TableAssumption DEF ProcessInv, SlotTypes
<1>1. CASE UNCHANGED <<state, parent, np, pc>>
  BY <1>1 DEF ProcessInv, SlotTypes, SlotsInv
<1>2. ASSUME NEW p \in Procs, allocproc(p)
      PROVE  ProcessInv'
  <2>1. PICK q \in Procs : /\ state[q] = "UNUSED" /\ state' = [state EXCEPT ![q] = "USED"]
                           /\ np' = [np EXCEPT ![p] = q]
    BY <1>2 DEF allocproc
  <2>2. state[p] = "LIVE" /\ pc[p] = "user" /\ pc' = [pc EXCEPT ![p] = "trapframe"] /\ parent' = parent
    BY <1>2 DEF allocproc, At, Goto
  <2>3. SlotTypes'
    BY <1>0, <2>1, <2>2 DEF SlotTypes, ForkLabels
  <2>4. "trapframe" \in ForkLabels /\ "user" \notin ForkLabels
    BY DEF ForkLabels
  <2>5. \A r \in Procs : /\ state'[r] = (IF r = q THEN "USED" ELSE state[r])
                         /\ pc'[r] = (IF r = p THEN "trapframe" ELSE pc[r])
                         /\ np'[r] = (IF r = p THEN q ELSE np[r])
    BY <1>0, <2>1, <2>2
  <2>6. \A r \in Procs : np[r] # q
    BY <1>0, <2>1 DEF SlotsInv
  <2>7. SlotsInv'
    BY <1>0, <2>1, <2>2, <2>4, <2>5, <2>6 DEF SlotsInv
  <2>8. QED
    BY <2>3, <2>7 DEF ProcessInv
<1>3. ASSUME NEW p \in Procs, allocTrapframe(p) \/ uvmcreate(p) \/ mapTrampoline(p)
                               \/ mapTrapframe(p) \/ uvmcopyFails(p)
      PROVE  ProcessInv'
  <2>1. /\ pc[p] \in ForkLabels /\ UNCHANGED <<state, parent, np>>
        /\ \E l \in ForkLabels : pc' = [pc EXCEPT ![p] = l]
    BY <1>3 DEF allocTrapframe, uvmcreate, mapTrampoline, mapTrapframe, mapLeaf, uvmcopyFails,
       At, Goto, idVars, ForkLabels
  <2>2. QED
    BY <2>1, CallGoesOn
<1>4. ASSUME NEW p \in Procs, (\E v \in Statuses : exit(p, v)) \/ fileclose(p) \/ iput(p)
      PROVE  ProcessInv'
  <2>1. /\ pc[p] \notin ForkLabels /\ UNCHANGED <<state, parent, np>>
        /\ pc' = pc \/ \E l \in ExitLabels : pc' = [pc EXCEPT ![p] = l]
    BY <1>4 DEF exit, fileclose, iput, At, Goto, idVars, ForkLabels, ExitLabels
  <2>2. QED
    BY <1>1, <2>1, CallGoesOn
<1>5. ASSUME NEW p \in Procs, forkFail(p)
      PROVE  ProcessInv'
  <2>1. pc[p] \in ForkLabels
    BY <1>5 DEF forkFail, At, ForkLabels
  <2> PICK q \in Procs : q = np[p]
    BY <2>1, ForkSlot
  <2>2. /\ state[q] = "USED" /\ q # p /\ state[p] = "LIVE" /\ pc[q] \notin ForkLabels
        /\ \A r \in Procs : r # p => np[r] # q
    BY <2>1, ForkSlot
  <2>3. /\ state' = [state EXCEPT ![q] = "UNUSED"] /\ parent' = [parent EXCEPT ![q] = Null]
        /\ np' = [np EXCEPT ![p] = Null] /\ pc' = [pc EXCEPT ![p] = "user"]
    BY <1>5 DEF forkFail, freeproc, Goto
  <2>4. SlotTypes'
    BY <1>0, <2>3 DEF SlotTypes
  <2>5. "user" \notin ForkLabels
    BY DEF ForkLabels
  <2>6. \A r \in Procs : /\ state'[r] = (IF r = q THEN "UNUSED" ELSE state[r])
                         /\ pc'[r] = (IF r = p THEN "user" ELSE pc[r])
                         /\ np'[r] = (IF r = p THEN Null ELSE np[r])
    BY <1>0, <2>3
  <2>7. SlotsInv'
    BY <1>0, <2>2, <2>5, <2>6 DEF SlotsInv
  <2>8. QED
    BY <2>4, <2>7 DEF ProcessInv
<1>6. ASSUME NEW p \in Procs, forkDone(p)
      PROVE  ProcessInv'
  <2>1. pc[p] \in ForkLabels
    BY <1>6 DEF forkDone, At, ForkLabels
  <2> PICK q \in Procs : q = np[p]
    BY <2>1, ForkSlot
  <2>2. /\ state[q] = "USED" /\ q # p /\ state[p] = "LIVE" /\ np[q] = Null
        /\ \A r \in Procs : r # p => np[r] # q
    BY <2>1, ForkSlot
  <2>3. /\ state' = [state EXCEPT ![q] = "LIVE"] /\ parent' = [parent EXCEPT ![q] = p]
        /\ np' = [np EXCEPT ![p] = Null] /\ pc' = [pc EXCEPT ![p] = "user", ![q] = "user"]
    BY <1>6 DEF forkDone
  <2>4. SlotTypes'
    BY <1>0, <2>3 DEF SlotTypes
  <2>5. "user" \notin ForkLabels
    BY DEF ForkLabels
  <2>6. \A r \in Procs : /\ state'[r] = (IF r = q THEN "LIVE" ELSE state[r])
                         /\ pc'[r] = (IF r \in {p, q} THEN "user" ELSE pc[r])
                         /\ np'[r] = (IF r = p THEN Null ELSE np[r])
    BY <1>0, <2>3
  <2>7. SlotsInv'
    BY <1>0, <2>2, <2>5, <2>6 DEF SlotsInv
  <2>8. QED
    BY <2>4, <2>7 DEF ProcessInv
<1>7. ASSUME NEW p \in Procs, zombie(p)
      PROVE  ProcessInv'
  <2>1. /\ pc[p] = "zombie" /\ state[p] = "LIVE" /\ state' = [state EXCEPT ![p] = "ZOMBIE"]
        /\ parent' = [q \in Procs |-> IF parent[q] = p THEN initproc ELSE parent[q]]
        /\ UNCHANGED <<pc, np>>
    BY <1>7 DEF zombie, At
  <2>2. SlotTypes'
    BY <1>0, <2>1 DEF SlotTypes
  <2>3. "zombie" \notin ForkLabels
    BY DEF ForkLabels
  <2>4. SlotsInv'
    BY <1>0, <2>1, <2>3 DEF SlotsInv
  <2>5. QED
    BY <2>2, <2>4 DEF ProcessInv
<1>8. ASSUME NEW p \in Procs, NEW q \in Procs, wait(p, q)
      PROVE  ProcessInv'
  <2>1. CASE UNCHANGED vars
    BY <1>1, <2>1 DEF vars, idVars
  <2>2. CASE ~UNCHANGED vars
    <3>1. /\ state[q] = "ZOMBIE" /\ state' = [state EXCEPT ![q] = "UNUSED"]
          /\ parent' = [parent EXCEPT ![q] = Null] /\ UNCHANGED <<pc, np>>
      BY <1>8, <2>2 DEF wait, reap, freeproc
    <3>2. SlotTypes'
      BY <1>0, <3>1 DEF SlotTypes
    <3>3. SlotsInv'
      BY <1>0, <3>1 DEF SlotsInv
    <3>4. QED
      BY <3>2, <3>3 DEF ProcessInv
  <2>3. QED
    BY <2>1, <2>2
<1>9. ASSUME NEW p \in Procs,
             \/ \E a \in Args : growproc(p, a)
             \/ \E fd \in FDs, f \in Files : openFile(p, fd, f)
      PROVE  ProcessInv'
  BY <1>1, <1>9 DEF growproc, openFile, idVars
<1>10. CASE UNCHANGED vars
  BY <1>1, <1>10 DEF vars, idVars
<1>11. QED
  BY <1>2, <1>3, <1>4, <1>5, <1>6, <1>7, <1>8, <1>9, <1>10 DEF Next, fork

-----------------------------------------------------------------------------
(* Page tables.                                                            *)

\* The null pointer and a page table that is only a root.
LEMMA Tables ==
  /\ NoTable \in AnyTable /\ NoTable.tables = 0 /\ NoTable.leaves = {} /\ NoTable.user = 0
  /\ \A t \in AnyTable : /\ t.tables \in Nat /\ t.user \in Nat /\ t.leaves \in SUBSET Both
                         /\ PagesIn(t) \in Nat
  /\ PagesOf(0) = 0
  /\ Both # {}
<1>1. PagesOf(0) = 0
  BY PageArithmetic
<1>2. QED
  BY <1>1 DEF NoTable, AnyTable, PagesIn, Both

\* freeproc finds a slot whose page table, if any, is complete.
LEMMA FreeTable ==
  ASSUME TablesInv, NEW q \in Procs
  PROVE  ~(pagetable[q] # NoTable /\ proc_freepagetable(pagetable[q], sz[q]))
<1>1. SUFFICES ASSUME pagetable[q] # NoTable
               PROVE  ~proc_freepagetable(pagetable[q], sz[q])
  OBVIOUS
<1>2. /\ pagetable[q] \in AnyTable
      /\ pagetable[q].leaves = Both /\ pagetable[q].user = PagesOf(sz[q])
  BY <1>1 DEF TablesInv, MemoryTypes, MemoryInv, TableOK
<1>3. QED
  BY <1>2 DEF proc_freepagetable, uvmunmapFails, uvmfreeFails, AnyTable, Both

\* A step concerns the memory of the processes in T only, one of which a fork has if it
\* is the fork of another one in T.
OthersKeep(T) ==
  \A r \in Procs \ T :
    /\ pc'[r] = pc[r] /\ np'[r] = np[r] /\ state'[r] = state[r]
    /\ tab'[r] = tab[r] /\ pagetable'[r] = pagetable[r] /\ sz'[r] = sz[r]
    /\ trapframe'[r] = trapframe[r]
    /\ np[r] \in Procs =>
         pagetable'[np[r]] = pagetable[np[r]] /\ trapframe'[np[r]] = trapframe[np[r]]

\* Then only those need a look.
LEMMA OthersTables ==
  ASSUME ProcessInv, TablesInv, NEW T, OthersKeep(T), \A r \in Procs \cap T : TableOK(r)'
  PROVE  MemoryInv'
<1>1. ASSUME NEW r \in Procs, r \notin T
      PROVE  TableOK(r)'
  <2>1. TableOK(r)
    BY DEF TablesInv, MemoryInv
  <2>2. pc[r] \in ForkLabels => np[r] \in Procs
    BY DEF ProcessInv, SlotsInv
  <2>3. pc[r] = "trapframe" => pc[r] \in ForkLabels
    BY DEF ForkLabels
  <2>4. QED
    BY <1>1, <2>1, <2>2, <2>3 DEF OthersKeep, TableOK
<1>2. QED
  BY <1>1 DEF MemoryInv

\* The steps of fork and sbrk that allocate or free pages.
LEMMA AllocationTables ==
  ASSUME ProcessInv, TablesInv, NEW p \in Procs,
         allocTrapframe(p) \/ uvmcreate(p)
  PROVE  TablesInv'
<1>0. /\ state \in [Procs -> {"UNUSED", "USED", "LIVE", "ZOMBIE"}]
      /\ pc \in [Procs -> {"user"} \cup ForkLabels \cup ExitLabels]
      /\ np \in [Procs -> Procs \cup {Null}]
      /\ MemoryTypes /\ MemoryInv /\ ~panicked
  BY DEF ProcessInv, SlotTypes, TablesInv
<1>1. pc[p] \in ForkLabels \ {"free"}
  BY DEF allocTrapframe, uvmcreate, At, ForkLabels
<1> PICK q \in Procs : q = np[p]
  BY <1>1, ForkSlot
<1>2. /\ state[q] = "USED" /\ q # p /\ pc[q] \notin ForkLabels
      /\ \A r \in Procs : r # p => np[r] # q
  BY <1>1, ForkSlot
<1>3. UNCHANGED <<state, np, panicked, pagetable, sz>>
  BY DEF allocTrapframe, uvmcreate, idVars, memVars
<1>4. CASE allocTrapframe(p)
  <2>1. /\ pc[p] = "trapframe" /\ UNCHANGED tab
        /\ \/ pc' = [pc EXCEPT ![p] = "free"] /\ UNCHANGED <<free, trapframe>>
           \/ /\ free # 0 /\ free' = free - 1 /\ trapframe' = [trapframe EXCEPT ![q] = TRUE]
              /\ pc' = [pc EXCEPT ![p] = "uvmcreate"]
    BY <1>4 DEF allocTrapframe, trapframeFails, At, Goto, memVars
  <2>2. trapframe' \in [Procs -> BOOLEAN] /\ \A r \in Procs : r # q => trapframe'[r] = trapframe[r]
    BY <1>0, <2>1 DEF MemoryTypes
  <2>3. MemoryTypes'
    BY <1>0, <1>3, <2>1, <2>2 DEF MemoryTypes
  <2>4. pc'[p] \in {"free", "uvmcreate"} /\ \A r \in Procs : r # p => pc'[r] = pc[r]
    BY <1>0, <2>1
  <2>5. OthersKeep({p, q})
    BY <1>2, <1>3, <2>1, <2>2, <2>4 DEF OthersKeep
  <2>6. TableOK(p)' /\ TableOK(q)'
    <3>1. TableOK(p) /\ TableOK(q)
      BY <1>0 DEF MemoryInv
    <3>2. LeavesAt(pc'[p]) = {} /\ LeavesAt(pc[p]) = {} /\ pc[q] # "trapframe"
      BY <1>2, <2>1, <2>4 DEF LeavesAt, ForkLabels
    <3>3. TableOK(p)'
      BY <1>1, <1>2, <1>3, <2>1, <2>2, <2>4, <3>1, <3>2 DEF TableOK
    <3>4. TableOK(q)'
      BY <1>2, <1>3, <2>1, <2>4, <3>1, <3>2 DEF TableOK
    <3>5. QED
      BY <3>3, <3>4
  <2>7. QED
    BY <1>0, <1>3, <2>3, <2>5, <2>6, OthersTables DEF TablesInv
<1>5. CASE uvmcreate(p)
  <2>1. /\ pc[p] = "uvmcreate" /\ UNCHANGED trapframe
        /\ \/ pc' = [pc EXCEPT ![p] = "free"] /\ UNCHANGED <<free, tab>>
           \/ /\ free # 0 /\ free' = free - 1
              /\ tab' = [tab EXCEPT ![p] = [NoTable EXCEPT !.tables = 1]]
              /\ pc' = [pc EXCEPT ![p] = "TRAMPOLINE"]
    BY <1>5 DEF uvmcreate, At, Goto
  <2>2. /\ [NoTable EXCEPT !.tables = 1] \in AnyTable
        /\ [NoTable EXCEPT !.tables = 1].leaves = {} /\ [NoTable EXCEPT !.tables = 1].user = 0
    BY DEF NoTable, AnyTable
  <2>3. MemoryTypes'
    BY <1>0, <1>3, <2>1, <2>2 DEF MemoryTypes
  <2>4. /\ pc'[p] \in {"free", "TRAMPOLINE"} /\ \A r \in Procs : r # p => pc'[r] = pc[r]
        /\ \A r \in Procs : r # p => tab'[r] = tab[r]
        /\ tab'[p] = IF pc'[p] = "free" THEN tab[p] ELSE [NoTable EXCEPT !.tables = 1]
    BY <1>0, <2>1 DEF MemoryTypes
  <2>5. OthersKeep({p})
    BY <1>3, <2>1, <2>4 DEF OthersKeep
  <2>6. TableOK(p)'
    <3>1. TableOK(p)
      BY <1>0 DEF MemoryInv
    <3>2. LeavesAt(pc'[p]) = {} /\ LeavesAt(pc[p]) = {}
      BY <2>1, <2>4 DEF LeavesAt
    <3>3. QED
      BY <1>1, <1>3, <2>1, <2>2, <2>4, <3>1, <3>2 DEF TableOK, ForkLabels
  <2>7. QED
    BY <1>0, <1>3, <2>3, <2>5, <2>6, OthersTables DEF TablesInv
<1>6. QED
  BY <1>4, <1>5

\* A page is mapped, or what has been mapped is unmapped and the table freed.
LEMMA MappingTables ==
  ASSUME ProcessInv, TablesInv, NEW p \in Procs, NEW leaf, NEW undo, NEW next,
         mapLeaf(p, leaf, undo, next), undo = LeavesAt(leaf),
         \/ leaf = "TRAMPOLINE" /\ next = "TRAPFRAME"
         \/ leaf = "TRAPFRAME" /\ next = "uvmcopy"
  PROVE  TablesInv'
<1>0. /\ state \in [Procs -> {"UNUSED", "USED", "LIVE", "ZOMBIE"}]
      /\ pc \in [Procs -> {"user"} \cup ForkLabels \cup ExitLabels]
      /\ np \in [Procs -> Procs \cup {Null}]
      /\ MemoryTypes /\ MemoryInv /\ ~panicked
      /\ tab \in [Procs -> AnyTable]
  BY DEF ProcessInv, SlotTypes, TablesInv, MemoryTypes
<1>1. /\ pc[p] = leaf /\ UNCHANGED <<state, np, trapframe, pagetable, sz>>
      /\ pc[p] \in {"TRAMPOLINE", "TRAPFRAME"}
  BY DEF mapLeaf, At, idVars
<1>2. tab[p] \in AnyTable /\ tab[p].leaves = undo /\ tab[p].user = 0
  BY <1>0, <1>1 DEF MemoryInv, TableOK
<1>3. CASE \E k \in 0..1 : k <= free /\ mapped(p, leaf, k) /\ Goto(p, next)
  <2>1. PICK k \in 0..1 : k <= free /\ mapped(p, leaf, k) /\ Goto(p, next)
    BY <1>3
  <2> DEFINE t == [tab[p] EXCEPT !.tables = @ + k, !.leaves = @ \cup {leaf}]
  <2>2. t \in AnyTable /\ t.leaves = LeavesAt(next) /\ t.user = 0
    <3>1. undo \cup {leaf} = LeavesAt(next) /\ LeavesAt(next) \in SUBSET Both
      BY DEF Both, LeavesAt
    <3>2. tab[p].tables \in Nat /\ tab[p].tables + k \in Nat
      BY <1>2, Tables
    <3>3. t.leaves = undo \cup {leaf}
      BY <1>2 DEF AnyTable
    <3>4. t.user = 0
      BY <1>2 DEF AnyTable
    <3>5. t \in AnyTable
      BY <1>2, <3>1, <3>2 DEF AnyTable
    <3>6. QED
      BY <3>1, <3>3, <3>4, <3>5
  <2>3. tab' = [tab EXCEPT ![p] = t]
    BY <1>0, <2>1 DEF mapped
  <2> HIDE DEF t
  <2>4. free' = free - k /\ pc' = [pc EXCEPT ![p] = next] /\ panicked' = panicked
    BY <2>1 DEF mapped, Goto
  <2>5. MemoryTypes'
    BY <1>0, <1>1, <2>1, <2>2, <2>3, <2>4 DEF MemoryTypes
  <2>6. /\ pc'[p] = next /\ tab'[p] = t
        /\ \A r \in Procs : r # p => pc'[r] = pc[r] /\ tab'[r] = tab[r]
    BY <1>0, <2>3, <2>4
  <2>7. OthersKeep({p})
    BY <1>1, <2>6 DEF OthersKeep
  <2>8. TableOK(p)'
    <3>1. TableOK(p)
      BY <1>0 DEF MemoryInv
    <3>2. QED
      BY <1>1, <2>2, <2>6, <3>1 DEF TableOK, ForkLabels
  <2>9. QED
    BY <1>0, <2>4, <2>5, <2>7, <2>8, OthersTables DEF TablesInv
<1>4. CASE free < 2 /\ unmapped(p, undo) /\ Goto(p, "free")
  <2> DEFINE t == [tab[p] EXCEPT !.leaves = @ \ undo]
  <2>1. t \in AnyTable /\ t.leaves = {} /\ t.user = 0
    BY <1>2 DEF AnyTable
  <2>2. /\ free' = free + PagesIn(t) /\ tab' = [tab EXCEPT ![p] = NoTable]
        /\ panicked' = (panicked \/ uvmunmapFails(tab[p], undo) \/ uvmfreeFails(t, 0))
        /\ pc' = [pc EXCEPT ![p] = "free"]
    BY <1>4 DEF unmapped, Goto
  <2>3. ~panicked'
    BY <1>0, <1>2, <2>1, <2>2, Tables DEF uvmunmapFails, uvmfreeFails
  <2>4. PagesIn(t) \in Nat
    BY <2>1, Tables
  <2> HIDE DEF t
  <2>5. MemoryTypes'
    BY <1>0, <1>1, <2>2, <2>3, <2>4, Tables DEF MemoryTypes
  <2>6. /\ pc'[p] = "free" /\ tab'[p] = NoTable
        /\ \A r \in Procs : r # p => pc'[r] = pc[r] /\ tab'[r] = tab[r]
    BY <1>0, <2>2
  <2>7. OthersKeep({p})
    BY <1>1, <2>6 DEF OthersKeep
  <2>8. TableOK(p)'
    <3>1. TableOK(p) /\ LeavesAt("free") = {}
      BY <1>0 DEF MemoryInv, LeavesAt
    <3>2. QED
      BY <1>1, <2>6, <3>1, Tables DEF TableOK, ForkLabels
  <2>9. QED
    BY <2>3, <2>5, <2>7, <2>8, OthersTables DEF TablesInv
<1>5. QED
  BY <1>3, <1>4 DEF mapLeaf

\* Memory runs out while it is copied, or does not; and sbrk.
LEMMA CopyTables ==
  ASSUME ProcessInv, TablesInv, NEW p \in Procs, uvmcopyFails(p) \/ forkDone(p)
  PROVE  TablesInv'
<1>0. /\ state \in [Procs -> {"UNUSED", "USED", "LIVE", "ZOMBIE"}]
      /\ pc \in [Procs -> {"user"} \cup ForkLabels \cup ExitLabels]
      /\ np \in [Procs -> Procs \cup {Null}] /\ Null \notin Procs
      /\ MemoryTypes /\ MemoryInv /\ ~panicked
      /\ tab \in [Procs -> AnyTable] /\ pagetable \in [Procs -> AnyTable]
      /\ sz \in [Procs -> 0..(WordModulus - 1)]
  BY TableAssumption DEF ProcessInv, SlotTypes, TablesInv, MemoryTypes
<1>1. pc[p] = "uvmcopy" /\ pc[p] \in ForkLabels
  BY DEF uvmcopyFails, forkDone, At, ForkLabels
<1> PICK q \in Procs : q = np[p]
  BY <1>1, ForkSlot
<1>2. /\ state[q] = "USED" /\ q # p /\ pc[q] \notin ForkLabels /\ np[q] = Null /\ state[p] = "LIVE"
      /\ \A r \in Procs : r # p => np[r] # q
  BY <1>1, ForkSlot
<1>3. TableOK(p) /\ TableOK(q) /\ tab[p] \in AnyTable /\ LeavesAt("uvmcopy") = Both
  BY <1>0 DEF MemoryInv, LeavesAt
<1>4. UNCHANGED <<trapframe, panicked>> /\ tab' = [tab EXCEPT ![p] = NoTable]
  BY DEF uvmcopyFails, forkDone
<1>5. tab'[p] = NoTable /\ \A r \in Procs : r # p => tab'[r] = tab[r]
  BY <1>0, <1>4
<1>6. /\ LeavesAt("free") = {} /\ LeavesAt("user") = {} /\ "user" \notin ForkLabels
  BY DEF LeavesAt, ForkLabels
<1>7. CASE uvmcopyFails(p)
  <2>1. PICK k \in 0..1 :
          /\ k <= free /\ free' = free - k
          /\ pagetable' = [pagetable EXCEPT ![q] = [tab[p] EXCEPT !.tables = @ + k]]
    BY <1>7 DEF uvmcopyFails
  <2> DEFINE t == [tab[p] EXCEPT !.tables = @ + k]
  <2>2. t \in AnyTable /\ t.leaves = Both /\ t.user = 0
    <3>1. tab[p].tables \in Nat /\ tab[p].tables + k \in Nat
      BY <1>3, Tables
    <3>2. tab[p].leaves = Both /\ tab[p].user = 0
      BY <1>1, <1>3 DEF TableOK
    <3>3. t = [tables |-> tab[p].tables + k, leaves |-> Both, user |-> 0]
      BY <1>3, <3>2 DEF AnyTable
    <3>4. QED
      BY <3>1, <3>3 DEF AnyTable
  <2>3. pagetable'[q] = t /\ \A r \in Procs : r # q => pagetable'[r] = pagetable[r]
    BY <1>0, <2>1
  <2>4. pagetable' \in [Procs -> AnyTable]
    BY <1>0, <2>1, <2>2
  <2> HIDE DEF t
  <2>5. UNCHANGED <<state, np, sz>> /\ pc' = [pc EXCEPT ![p] = "free"]
    BY <1>7 DEF uvmcopyFails, idVars, Goto
  <2>6. MemoryTypes'
    BY <1>0, <1>4, <2>1, <2>4, <2>5, Tables DEF MemoryTypes
  <2>7. pc'[p] = "free" /\ \A r \in Procs : r # p => pc'[r] = pc[r]
    BY <1>0, <2>5
  <2>8. OthersKeep({p, q})
    BY <1>2, <1>4, <1>5, <2>3, <2>5, <2>7 DEF OthersKeep
  <2>9. TableOK(p)'
    BY <1>2, <1>3, <1>4, <1>5, <1>6, <2>3, <2>5, <2>7, Tables DEF TableOK
  <2>10. TableOK(q)'
    BY <1>2, <1>3, <1>4, <1>5, <2>2, <2>3, <2>5, <2>7, Tables DEF TableOK, ForkLabels
  <2>11. QED
    BY <1>0, <1>4, <2>6, <2>8, <2>9, <2>10, OthersTables DEF TablesInv
<1>8. CASE forkDone(p)
  <2> DEFINE n == PagesOf(sz[p])
  <2>0. n \in Nat /\ sz[p] \in Nat
    BY <1>0, PageArithmetic
  <2> HIDE DEF n
  <2>1. PICK k \in 0..1 :
          /\ n + k <= free /\ free' = free - n - k
          /\ pagetable' = [pagetable EXCEPT ![q] = [tab[p] EXCEPT !.tables = @ + k, !.user = n]]
    BY <1>8 DEF forkDone, n
  <2> DEFINE t == [tab[p] EXCEPT !.tables = @ + k, !.user = n]
  <2>2. t \in AnyTable /\ t.leaves = Both /\ t.user = n
    <3>1. tab[p].tables \in Nat /\ tab[p].tables + k \in Nat
      BY <1>3, Tables
    <3>2. tab[p].leaves = Both /\ tab[p].user = 0
      BY <1>1, <1>3 DEF TableOK
    <3>3. t.leaves = Both
      BY <1>3, <3>2 DEF AnyTable
    <3>4. t.user = n
      BY <1>3, <3>2 DEF AnyTable
    <3>5. t \in AnyTable
      BY <1>3, <2>0, <3>1 DEF AnyTable
    <3>6. QED
      BY <3>3, <3>4, <3>5
  <2>3. pagetable'[q] = t /\ \A r \in Procs : r # q => pagetable'[r] = pagetable[r]
    BY <1>0, <2>1
  <2>4. pagetable' \in [Procs -> AnyTable]
    BY <1>0, <2>1, <2>2
  <2> HIDE DEF t
  <2>5. /\ state' = [state EXCEPT ![q] = "LIVE"] /\ np' = [np EXCEPT ![p] = Null]
        /\ sz' = [sz EXCEPT ![q] = sz[p]] /\ pc' = [pc EXCEPT ![p] = "user", ![q] = "user"]
    BY <1>8 DEF forkDone
  <2>6. MemoryTypes'
    <3>1. free' \in Nat
      BY <1>0, <2>0, <2>1 DEF MemoryTypes
    <3>2. QED
      BY <1>0, <1>4, <2>4, <2>5, <3>1, Tables DEF MemoryTypes
  <2>7. /\ pc'[p] = "user" /\ pc'[q] = "user" /\ np'[p] = Null /\ state'[q] = "LIVE"
        /\ sz'[q] = sz[p]
        /\ \A r \in Procs : r \notin {p, q} => pc'[r] = pc[r]
        /\ \A r \in Procs : r # p => np'[r] = np[r]
        /\ \A r \in Procs : r # q => state'[r] = state[r] /\ sz'[r] = sz[r]
    BY <1>0, <2>5
  <2>8. OthersKeep({p, q})
    BY <1>2, <1>4, <1>5, <2>3, <2>7 DEF OthersKeep
  <2>9. TableOK(p)'
    BY <1>2, <1>3, <1>4, <1>5, <1>6, <2>3, <2>7, Tables DEF TableOK
  <2>10. TableOK(q)'
    <3>1. pc[q] \notin {"TRAMPOLINE", "TRAPFRAME", "uvmcopy"}
      BY <1>2 DEF ForkLabels
    <3>2. tab[q] = NoTable
      BY <1>3, <3>1 DEF TableOK
    <3>3. pagetable'[q].user = PagesOf(sz'[q])
      BY <2>2, <2>3, <2>7 DEF n
    <3>4. QED
      BY <1>2, <1>5, <1>6, <2>2, <2>3, <2>7, <3>2, <3>3, Tables DEF TableOK
  <2>11. QED
    BY <1>0, <1>4, <2>6, <2>8, <2>9, <2>10, OthersTables DEF TablesInv
<1>9. QED
  BY <1>7, <1>8

\* freeproc on the slot of a fork that failed or on a zombie.
LEMMA FreeingTables ==
  ASSUME ProcessInv, TablesInv, NEW q \in Procs, freeproc(q), tab' = tab,
         \A r \in Procs : r # q => \/ pc'[r] = pc[r] /\ np'[r] = np[r]
                                   \/ pc[r] = "free" /\ pc'[r] = "user",
         pc'[q] = pc[q], np'[q] = np[q], pc[q] \notin ForkLabels,
         \A r \in Procs : np[r] = q => pc'[r] = "user"
  PROVE  TablesInv'
<1>0. /\ state \in [Procs -> {"UNUSED", "USED", "LIVE", "ZOMBIE"}]
      /\ np \in [Procs -> Procs \cup {Null}]
      /\ MemoryTypes /\ MemoryInv /\ ~panicked
      /\ free \in Nat /\ trapframe \in [Procs -> BOOLEAN] /\ pagetable \in [Procs -> AnyTable]
      /\ tab \in [Procs -> AnyTable] /\ sz \in [Procs -> 0..(WordModulus - 1)]
  BY DEF ProcessInv, SlotTypes, TablesInv, MemoryTypes
<1>1. /\ free' = free + freedPages(q) /\ ~panicked'
      /\ trapframe' = [trapframe EXCEPT ![q] = FALSE]
      /\ pagetable' = [pagetable EXCEPT ![q] = NoTable]
      /\ sz' = [sz EXCEPT ![q] = 0] /\ state' = [state EXCEPT ![q] = "UNUSED"]
  BY <1>0, FreeTable DEF freeproc
<1>2. freedPages(q) \in Nat
  <2>1. PagesIn(pagetable[q]) \in Nat
    BY <1>0, Tables
  <2>2. QED
    BY <2>1 DEF freedPages, Bool2Nat
<1>3. trapframe' \in [Procs -> BOOLEAN] /\ panicked' \in BOOLEAN
  <2>1. trapframe' \in [Procs -> BOOLEAN]
    BY <1>0, <1>1
  <2>2. QED
    BY <1>1, <2>1 DEF freeproc
<1>4. MemoryTypes'
  <2>1. sz' \in [Procs -> 0..(WordModulus - 1)]
    BY <1>0, <1>1, SizesAssumption
  <2>2. pagetable' \in [Procs -> AnyTable]
    BY <1>0, <1>1, Tables
  <2>3. QED
    BY <1>0, <1>1, <1>2, <1>3, <2>1, <2>2 DEF MemoryTypes
<1>5. /\ trapframe'[q] = FALSE /\ pagetable'[q] = NoTable /\ sz'[q] = 0 /\ state'[q] = "UNUSED"
      /\ \A r \in Procs : r # q => /\ trapframe'[r] = trapframe[r] /\ pagetable'[r] = pagetable[r]
                                   /\ sz'[r] = sz[r] /\ state'[r] = state[r]
  BY <1>0, <1>1
<1>6. "user" \notin ForkLabels /\ LeavesAt("user") = {} /\ LeavesAt("free") = {} /\ "free" \in ForkLabels
  BY DEF ForkLabels, LeavesAt
<1>7. ASSUME NEW r \in Procs
      PROVE  TableOK(r)'
  <2>1. TableOK(r)
    BY <1>0 DEF MemoryInv
  <2>2. CASE r = q
    BY <1>5, <2>1, <2>2, Tables DEF TableOK, ForkLabels
  <2>3. CASE r # q /\ pc'[r] = pc[r] /\ np'[r] = np[r]
    <3>1. pc[r] \in ForkLabels => np[r] \in Procs /\ np[r] # q
      BY <1>6, <2>3 DEF ProcessInv, SlotsInv
    <3>2. pc[r] \in ForkLabels => /\ pagetable'[np[r]] = pagetable[np[r]]
                                  /\ trapframe'[np[r]] = trapframe[np[r]]
      BY <1>5, <3>1
    <3>3. pc[r] = "trapframe" => pc[r] \in ForkLabels
      BY DEF ForkLabels
    <3>4. QED
      BY <1>5, <2>1, <2>3, <3>2, <3>3 DEF TableOK
  <2>4. CASE r # q /\ pc[r] = "free" /\ pc'[r] = "user"
    BY <1>5, <1>6, <2>1, <2>4 DEF TableOK
  <2>5. QED
    BY <2>2, <2>3, <2>4
<1>8. MemoryInv'
  BY <1>7 DEF MemoryInv
<1>9. QED
  BY <1>1, <1>4, <1>8 DEF TablesInv

\* The failure of a fork, and wait.
LEMMA FreeprocTables ==
  ASSUME ProcessInv, TablesInv, NEW p \in Procs, forkFail(p) \/ \E q \in Procs : wait(p, q) /\ ~UNCHANGED vars
  PROVE  TablesInv'
<1>0. /\ pc \in [Procs -> {"user"} \cup ForkLabels \cup ExitLabels]
      /\ np \in [Procs -> Procs \cup {Null}]
  BY DEF ProcessInv, SlotTypes
<1>1. CASE forkFail(p)
  <2>1. pc[p] = "free" /\ pc[p] \in ForkLabels
    BY <1>1 DEF forkFail, At, ForkLabels
  <2> PICK q \in Procs : q = np[p]
    BY <2>1, ForkSlot
  <2>2. q # p /\ pc[q] \notin ForkLabels /\ \A r \in Procs : r # p => np[r] # q
    BY <2>1, ForkSlot
  <2>3. /\ freeproc(q) /\ tab' = tab
        /\ np' = [np EXCEPT ![p] = Null] /\ pc' = [pc EXCEPT ![p] = "user"]
    BY <1>1 DEF forkFail, Goto
  <2>4. /\ pc'[p] = "user"
        /\ \A r \in Procs : r # p => pc'[r] = pc[r] /\ np'[r] = np[r]
    BY <1>0, <2>3
  <2>5. QED
    BY <2>1, <2>2, <2>3, <2>4, FreeingTables
<1>2. CASE \E q \in Procs : wait(p, q) /\ ~UNCHANGED vars
  <2>1. PICK q \in Procs : wait(p, q) /\ ~UNCHANGED vars
    BY <1>2
  <2>2. state[q] = "ZOMBIE" /\ freeproc(q) /\ UNCHANGED <<pc, np, tab>>
    BY <2>1 DEF wait, reap
  <2>3. pc[q] \notin ForkLabels /\ \A r \in Procs : np[r] # q
    BY <2>2, TableAssumption DEF ProcessInv, SlotsInv
  <2>4. QED
    BY <2>2, <2>3, FreeingTables
<1>3. QED
  BY <1>1, <1>2

\* A slot is taken: nothing is in it.
LEMMA AllocprocTables ==
  ASSUME ProcessInv, TablesInv, NEW p \in Procs, allocproc(p)
  PROVE  TablesInv'
<1>0. /\ state \in [Procs -> {"UNUSED", "USED", "LIVE", "ZOMBIE"}]
      /\ pc \in [Procs -> {"user"} \cup ForkLabels \cup ExitLabels]
      /\ np \in [Procs -> Procs \cup {Null}]
      /\ MemoryTypes /\ MemoryInv /\ ~panicked
  BY DEF ProcessInv, SlotTypes, TablesInv
<1>1. PICK q \in Procs : /\ state[q] = "UNUSED" /\ state' = [state EXCEPT ![q] = "USED"]
                         /\ np' = [np EXCEPT ![p] = q]
  BY DEF allocproc
<1>2. /\ pc[p] = "user" /\ state[p] = "LIVE" /\ pc' = [pc EXCEPT ![p] = "trapframe"]
      /\ UNCHANGED <<free, trapframe, pagetable, sz, tab, panicked>>
  BY DEF allocproc, At, Goto, memVars
<1>3. /\ pc'[p] = "trapframe" /\ np'[p] = q /\ state'[q] = "USED" /\ p # q
      /\ \A r \in Procs : r # p => pc'[r] = pc[r] /\ np'[r] = np[r]
      /\ \A r \in Procs : r # q => state'[r] = state[r]
  BY <1>0, <1>1, <1>2
<1>4. MemoryTypes'
  BY <1>0, <1>2 DEF MemoryTypes
<1>5. OthersKeep({p, q})
  BY <1>2, <1>3 DEF OthersKeep
<1>6. TableOK(p) /\ TableOK(q) /\ LeavesAt("user") = {} /\ LeavesAt("trapframe") = {}
  BY <1>0 DEF MemoryInv, LeavesAt
<1>7. TableOK(p)'
  BY <1>1, <1>2, <1>3, <1>6 DEF TableOK
<1>8. TableOK(q)'
  <2>1. pc[q] \notin ForkLabels
    BY <1>1 DEF ProcessInv, SlotsInv
  <2>2. QED
    BY <1>1, <1>2, <1>3, <1>6, <2>1 DEF TableOK, ForkLabels
<1>9. QED
  BY <1>0, <1>2, <1>4, <1>5, <1>7, <1>8, OthersTables DEF TablesInv

\* What sbrk computes is a size.
LEMMA GrownSize ==
  ASSUME NEW a \in Args, NEW s \in Nat
  PROVE  /\ argint(a) \in Int
         /\ grown(s, argint(a)) \in 0..(WordModulus - 1)
<1>1. argint(a) \in Int
  <2> DEFINE r == a % IntModulus
  <2>1. a \in Nat /\ IntModulus \in Nat /\ IntModulus > 0
    BY ArgumentsAssumption, SizesAssumption
  <2>2. r \in Nat
    BY <2>1
  <2>3. argint(a) = r \/ argint(a) = r - IntModulus
    BY DEF argint
  <2> HIDE DEF r
  <2>4. QED
    BY <2>1, <2>2, <2>3
<1>2. WordModulus \in Nat /\ WordModulus > 0
  <2> DEFINE b == NPages * PGSIZE
  <2>1. b \in Nat
    BY SizesAssumption
  <2>2. b + IntModulus < WordModulus /\ WordModulus \in Nat /\ IntModulus \in Nat
    BY SizesAssumption
  <2> HIDE DEF b
  <2>3. QED
    BY <2>1, <2>2
<1> DEFINE c == s + argint(a)
<1>3. c \in Int
  BY <1>1
<1> HIDE DEF c
<1>4. c % WordModulus \in 0..(WordModulus - 1)
  BY <1>2, <1>3
<1>5. QED
  BY <1>1, <1>4 DEF grown, c

\* sbrk: the size and the pages of the page table change together or not at all.
LEMMA GrowTables ==
  ASSUME ProcessInv, TablesInv, NEW p \in Procs, NEW a \in Args, growproc(p, a)
  PROVE  TablesInv'
<1>0. /\ MemoryTypes /\ MemoryInv /\ ~panicked /\ free \in Nat
      /\ pagetable \in [Procs -> AnyTable] /\ sz \in [Procs -> 0..(WordModulus - 1)]
  BY DEF TablesInv, MemoryTypes
<1>1. /\ pc[p] = "user" /\ state[p] = "LIVE"
      /\ UNCHANGED <<state, np, pc, trapframe, tab, panicked>>
  BY DEF growproc, At, idVars
<1>2. TableOK(p) /\ pagetable[p] \in AnyTable
  BY <1>0 DEF MemoryInv
<1>3. pagetable[p].leaves = Both /\ pagetable[p].user = PagesOf(sz[p]) /\ sz[p] \in Nat
  BY <1>0, <1>1, <1>2 DEF TableOK
<1>4. ASSUME NEW t \in AnyTable, NEW s \in 0..(WordModulus - 1), NEW n \in Nat,
             t.leaves = Both, t.user = PagesOf(s), free' = n,
             pagetable' = [pagetable EXCEPT ![p] = t], sz' = [sz EXCEPT ![p] = s]
      PROVE  TablesInv'
  <2>1. MemoryTypes'
    BY <1>0, <1>1, <1>4 DEF MemoryTypes
  <2>2. /\ pagetable'[p] = t /\ sz'[p] = s
        /\ \A r \in Procs : r # p => pagetable'[r] = pagetable[r] /\ sz'[r] = sz[r]
    BY <1>0, <1>4
  <2>3. \A r \in Procs : np[r] # p
    BY <1>1, TableAssumption DEF ProcessInv, SlotsInv
  <2>4. OthersKeep({p})
    BY <1>1, <2>2, <2>3 DEF OthersKeep
  <2>5. TableOK(p)'
    BY <1>1, <1>2, <1>4, <2>2 DEF TableOK, ForkLabels
  <2>6. QED
    BY <1>0, <1>1, <2>1, <2>4, <2>5, OthersTables DEF TablesInv
<1>5. CASE growFails(p, argint(a))
  <2>1. PICK k \in 0..1 : /\ k <= free /\ free' = free - k /\ sz' = sz
                          /\ pagetable' = [pagetable EXCEPT ![p].tables = @ + k]
    BY <1>5 DEF growFails
  <2> DEFINE t == [pagetable[p] EXCEPT !.tables = @ + k]
  <2>2. pagetable[p].tables \in Nat /\ pagetable[p].tables + k \in Nat
    BY <1>2, Tables
  <2>3. t \in AnyTable /\ t.leaves = Both /\ t.user = PagesOf(sz[p])
    BY <1>2, <1>3, <2>2 DEF AnyTable
  <2>4. pagetable' = [pagetable EXCEPT ![p] = t]
    BY <1>0, <2>1
  <2>5. sz' = [sz EXCEPT ![p] = sz[p]] /\ free - k \in Nat /\ sz[p] \in 0..(WordModulus - 1)
    BY <1>0, <2>1
  <2> HIDE DEF t
  <2>6. QED
    BY <1>4, <2>1, <2>3, <2>4, <2>5
<1>6. CASE growDone(p, argint(a))
  <2> DEFINE new == grown(sz[p], argint(a))
             more == PagesOf(new) - PagesOf(sz[p])
  <2>1. new \in 0..(WordModulus - 1)
    BY <1>3, GrownSize
  <2> HIDE DEF new
  <2>2. PagesOf(new) \in Nat /\ PagesOf(sz[p]) \in Nat
    BY <1>3, <2>1, PageArithmetic
  <2>3. CASE UNCHANGED <<free, pagetable, sz>>
    <3>1. pagetable' = [pagetable EXCEPT ![p] = pagetable[p]] /\ sz' = [sz EXCEPT ![p] = sz[p]]
      BY <1>0, <2>3
    <3>2. sz[p] \in 0..(WordModulus - 1) /\ free' \in Nat /\ free' = free
      BY <1>0, <2>3
    <3>3. QED
      BY <1>0, <1>2, <1>3, <1>4, <3>1, <3>2
  <2>4. CASE ~UNCHANGED <<free, pagetable, sz>>
    <3>1. PICK k \in 0..1 :
            /\ more + k <= free /\ free' = free - more - k
            /\ pagetable' = [pagetable EXCEPT ![p].user = @ + more, ![p].tables = @ + k]
            /\ sz' = [sz EXCEPT ![p] = new]
      BY <1>6, <2>4 DEF growDone, new
    <3> DEFINE u == pagetable[p].user + more
               t == [pagetable[p] EXCEPT !.user = u, !.tables = @ + k]
    <3>2. pagetable[p].tables \in Nat /\ pagetable[p].tables + k \in Nat
      BY <1>2, Tables
    <3>3. u \in Nat /\ u = PagesOf(new)
      BY <1>3, <2>2
    <3>4. pagetable' = [pagetable EXCEPT ![p] = t]
      BY <1>0, <3>1
    <3>5. free - more - k \in Nat
      BY <1>0, <2>2, <3>1
    <3> HIDE DEF u
    <3>6. t.user = u
      BY <1>2 DEF AnyTable
    <3>7. t.leaves = Both
      BY <1>2, <1>3 DEF AnyTable
    <3>8. t \in AnyTable
      BY <1>2, <3>2, <3>3 DEF AnyTable
    <3> HIDE DEF t
    <3>9. QED
      BY <1>4, <2>1, <3>1, <3>3, <3>4, <3>5, <3>6, <3>7, <3>8
  <2>5. QED
    BY <2>3, <2>4
<1>7. QED
  BY <1>5, <1>6 DEF growproc

\* Exit and open leave memory alone.
LEMMA QuietTables ==
  ASSUME ProcessInv, TablesInv, NEW p \in Procs,
         \/ \E fd \in FDs, f \in Files : openFile(p, fd, f)
         \/ \E v \in Statuses : exit(p, v)
         \/ fileclose(p) \/ iput(p) \/ zombie(p)
  PROVE  TablesInv'
<1>0. /\ pc \in [Procs -> {"user"} \cup ForkLabels \cup ExitLabels]
      /\ state \in [Procs -> {"UNUSED", "USED", "LIVE", "ZOMBIE"}]
      /\ MemoryTypes /\ MemoryInv /\ ~panicked
  BY DEF ProcessInv, SlotTypes, TablesInv
<1>1. /\ state[p] = "LIVE" /\ pc[p] \in {"user"} \cup ExitLabels
      /\ UNCHANGED <<free, trapframe, pagetable, sz, np, tab, panicked>>
      /\ UNCHANGED pc \/ \E l \in ExitLabels : pc' = [pc EXCEPT ![p] = l]
      /\ UNCHANGED state \/ state' = [state EXCEPT ![p] = "ZOMBIE"]
  BY DEF openFile, exit, fileclose, iput, zombie, At, Goto, memVars, idVars, ExitLabels
<1>2. /\ pc'[p] \in {"user"} \cup ExitLabels /\ state'[p] \in {"LIVE", "ZOMBIE"}
      /\ \A r \in Procs : r # p => pc'[r] = pc[r] /\ state'[r] = state[r]
  BY <1>0, <1>1
<1>3. \A l \in {"user"} \cup ExitLabels :
        LeavesAt(l) = {} /\ l \notin ForkLabels /\ l \notin {"TRAMPOLINE", "TRAPFRAME", "uvmcopy"}
  BY DEF LeavesAt, ExitLabels, ForkLabels
<1>4. MemoryTypes'
  BY <1>0, <1>1 DEF MemoryTypes
<1>5. OthersKeep({p})
  BY <1>1, <1>2 DEF OthersKeep
<1>6. TableOK(p)'
  <2>1. TableOK(p)
    BY <1>0 DEF MemoryInv
  <2>2. pc[p] # "trapframe" /\ pc'[p] # "trapframe"
    BY <1>1, <1>2, <1>3 DEF ForkLabels
  <2>3. QED
    BY <1>1, <1>2, <1>3, <2>1, <2>2 DEF TableOK
<1>7. QED
  BY <1>0, <1>1, <1>4, <1>5, <1>6, OthersTables DEF TablesInv

\* Every step keeps the page tables right.
LEMMA TablesNext ==
  ASSUME ProcessInv, TablesInv, [Next]_vars
  PROVE  TablesInv'
<1>1. CASE UNCHANGED vars
  BY <1>1 DEF TablesInv, MemoryTypes, MemoryInv, TableOK, vars, idVars, memVars
<1>2. ASSUME NEW p \in Procs, mapTrampoline(p) \/ mapTrapframe(p)
      PROVE  TablesInv'
  <2>1. LeavesAt("TRAMPOLINE") = {} /\ LeavesAt("TRAPFRAME") = {"TRAMPOLINE"}
    BY DEF LeavesAt
  <2>2. QED
    BY <1>2, <2>1, MappingTables DEF mapTrampoline, mapTrapframe
<1>3. ASSUME NEW p \in Procs, fork(p)
      PROVE  TablesInv'
  BY <1>2, <1>3, AllocprocTables, AllocationTables, CopyTables, FreeprocTables DEF fork
<1>4. ASSUME NEW p \in Procs, NEW q \in Procs, wait(p, q)
      PROVE  TablesInv'
  BY <1>1, <1>4, FreeprocTables
<1>5. QED
  BY <1>1, <1>3, <1>4, GrowTables, QuietTables DEF Next

-----------------------------------------------------------------------------
(* The number of pages.                                                    *)

\* What one process owns.
OwnedBy(p) == Bool2Nat(trapframe[p]) + PagesIn(pagetable[p]) + PagesIn(tab[p])

\* The pages that one process owns are a number.
LEMMA OwnedNumbers ==
  ASSUME NEW tf, NEW pt \in [Procs -> AnyTable], NEW tb \in [Procs -> AnyTable]
  PROVE  \A p \in Procs : /\ Bool2Nat(tf[p]) \in Nat /\ PagesIn(pt[p]) \in Nat /\ PagesIn(tb[p]) \in Nat
                          /\ Bool2Nat(tf[p]) + PagesIn(pt[p]) + PagesIn(tb[p]) \in Nat
<1>1. ASSUME NEW p \in Procs
      PROVE  Bool2Nat(tf[p]) \in Nat /\ PagesIn(pt[p]) \in Nat /\ PagesIn(tb[p]) \in Nat
  <2>1. pt[p] \in AnyTable /\ tb[p] \in AnyTable
    OBVIOUS
  <2>2. Bool2Nat(tf[p]) \in Nat
    BY DEF Bool2Nat
  <2>3. QED
    BY <2>1, <2>2, Tables
<1>2. QED
  BY <1>1

\* Owned is what each process owns, before and after a step.
LEMMA OwnedFunctions ==
  ASSUME TablesInv, TablesInv'
  PROVE  /\ Owned \in [Procs -> Nat] /\ \A r \in Procs : Owned[r] = OwnedBy(r)
         /\ Owned' \in [Procs -> Nat] /\ \A r \in Procs : Owned'[r] = OwnedBy(r)'
         /\ \A r \in Procs : OwnedBy(r) \in Nat /\ OwnedBy(r)' \in Nat
         /\ free \in Nat /\ free' \in Nat /\ Cardinality(Procs) \in Nat /\ NPages \in Nat
<1>1. /\ pagetable \in [Procs -> AnyTable] /\ tab \in [Procs -> AnyTable]
      /\ pagetable' \in [Procs -> AnyTable] /\ tab' \in [Procs -> AnyTable]
      /\ free \in Nat /\ free' \in Nat
  BY DEF TablesInv, MemoryTypes
<1>2. \A r \in Procs : OwnedBy(r) \in Nat
  BY <1>1, OwnedNumbers DEF OwnedBy
<1>3. Owned = [r \in Procs |-> OwnedBy(r)]
  BY DEF Owned, OwnedBy
<1>4. \A r \in Procs : OwnedBy(r)' \in Nat
  BY <1>1, OwnedNumbers DEF OwnedBy
<1>5. Owned' = [r \in Procs |-> OwnedBy(r)']
  BY DEF Owned, OwnedBy
<1>6. Cardinality(Procs) \in Nat /\ NPages \in Nat
  BY TableAssumption, SizesAssumption, FS_CardinalityType
<1>7. QED
  BY <1>1, <1>2, <1>3, <1>4, <1>5, <1>6

\* Pages go from the free list to p, or back.
LEMMA PagesGiven ==
  ASSUME TablesInv, TablesInv', PagesInv, NEW p \in Procs,
         \A r \in Procs : r # p => OwnedBy(r)' = OwnedBy(r),
         free' + OwnedBy(p)' = free + OwnedBy(p)
  PROVE  PagesInv'
<1> DEFINE f == Owned
           g == Owned'
           v == OwnedBy(p)'
<1>1. /\ f \in [Procs -> Nat] /\ \A r \in Procs : f[r] = OwnedBy(r)
      /\ g \in [Procs -> Nat] /\ \A r \in Procs : g[r] = OwnedBy(r)'
      /\ v \in Nat /\ OwnedBy(p) \in Nat
      /\ free \in Nat /\ free' \in Nat /\ Cardinality(Procs) \in Nat /\ NPages \in Nat
  BY OwnedFunctions
<1>2. g = [f EXCEPT ![p] = v]
  <2> HIDE DEF f, g, v
  <2>1. \A r \in Procs : g[r] = [f EXCEPT ![p] = v][r]
    BY <1>1 DEF v
  <2>2. QED
    BY <1>1, <2>1
<1>3. /\ Cardinality(PageSet(f)) \in Nat
      /\ Cardinality(PageSet(g)) = Cardinality(PageSet(f)) - f[p] + v
  <2> HIDE DEF f, g, v
  <2>1. f \in [Procs -> Nat] /\ v \in Nat
    BY <1>1
  <2>2. QED
    BY <1>2, <2>1, PageSetChange
<1>4. free + Cardinality(Procs) + Cardinality(PageSet(f)) = NPages
  BY DEF PagesInv
<1>5. free' + Cardinality(Procs) + Cardinality(PageSet(g)) = NPages
  <2>1. f[p] = OwnedBy(p) /\ free' + v = free + OwnedBy(p)
    BY <1>1
  <2> HIDE DEF f, g, v
  <2>2. QED
    BY <1>1, <1>3, <1>4, <2>1
<1>6. QED
  BY <1>5 DEF PagesInv

\* Pages go from p and from the free list to q.
LEMMA PagesMoved ==
  ASSUME TablesInv, TablesInv', PagesInv, NEW p \in Procs, NEW q \in Procs, p # q,
         \A r \in Procs : r \notin {p, q} => OwnedBy(r)' = OwnedBy(r),
         free' + OwnedBy(p)' + OwnedBy(q)' = free + OwnedBy(p) + OwnedBy(q)
  PROVE  PagesInv'
<1> DEFINE f == Owned
           g == Owned'
           v == OwnedBy(p)'
           w == OwnedBy(q)'
           h == [f EXCEPT ![p] = v]
<1>1. /\ f \in [Procs -> Nat] /\ \A r \in Procs : f[r] = OwnedBy(r)
      /\ g \in [Procs -> Nat] /\ \A r \in Procs : g[r] = OwnedBy(r)'
      /\ v \in Nat /\ w \in Nat /\ OwnedBy(p) \in Nat /\ OwnedBy(q) \in Nat
      /\ free \in Nat /\ free' \in Nat /\ Cardinality(Procs) \in Nat /\ NPages \in Nat
  BY OwnedFunctions
<1>2. h \in [Procs -> Nat] /\ h[q] = f[q]
  <2> HIDE DEF f, v
  <2>1. QED
    BY <1>1
<1>3. g = [h EXCEPT ![q] = w]
  <2> HIDE DEF f, g, v, w
  <2>1. \A r \in Procs : g[r] = [h EXCEPT ![q] = w][r]
    BY <1>1 DEF v, w
  <2>2. QED
    BY <1>1, <1>2, <2>1
<1>4. /\ Cardinality(PageSet(f)) \in Nat
      /\ Cardinality(PageSet(h)) = Cardinality(PageSet(f)) - f[p] + v
  <2> HIDE DEF f, g, v
  <2>1. QED
    BY <1>1, PageSetChange
<1>5. /\ Cardinality(PageSet(h)) \in Nat
      /\ Cardinality(PageSet(g)) = Cardinality(PageSet(h)) - h[q] + w
  <2> HIDE DEF g, h, w
  <2>1. h \in [Procs -> Nat] /\ w \in Nat
    BY <1>1, <1>2
  <2>2. QED
    BY <1>3, <2>1, PageSetChange
<1>6. free + Cardinality(Procs) + Cardinality(PageSet(f)) = NPages
  BY DEF PagesInv
<1>7. free' + Cardinality(Procs) + Cardinality(PageSet(g)) = NPages
  <2>1. /\ f[p] = OwnedBy(p) /\ f[q] = OwnedBy(q)
        /\ free' + v + w = free + OwnedBy(p) + OwnedBy(q)
    BY <1>1
  <2> HIDE DEF f, g, h, v, w
  <2>2. QED
    BY <1>1, <1>2, <1>4, <1>5, <1>6, <2>1
<1>8. QED
  BY <1>7 DEF PagesInv

\* The pages of the null pointer and of a root.
LEMMA PagesInRoot ==
  PagesIn(NoTable) = 0 /\ PagesIn([NoTable EXCEPT !.tables = 1]) = 1
<1>1. [NoTable EXCEPT !.tables = 1] = [tables |-> 1, leaves |-> {}, user |-> 0]
  BY DEF NoTable
<1>2. QED
  BY <1>1 DEF NoTable, PagesIn

\* The steps of fork that allocate a page, and the mappings of proc_pagetable.
LEMMA AllocationPages ==
  ASSUME ProcessInv, TablesInv, TablesInv', PagesInv, NEW p \in Procs,
         allocTrapframe(p) \/ uvmcreate(p)
  PROVE  PagesInv'
<1>0. /\ trapframe \in [Procs -> BOOLEAN] /\ pagetable \in [Procs -> AnyTable]
      /\ tab \in [Procs -> AnyTable] /\ MemoryInv /\ free \in Nat
  BY DEF TablesInv, MemoryTypes
<1>1. \A r \in Procs : /\ Bool2Nat(trapframe[r]) \in Nat /\ PagesIn(pagetable[r]) \in Nat
                       /\ PagesIn(tab[r]) \in Nat
  BY <1>0, OwnedNumbers
<1>2. CASE allocTrapframe(p)
  <2>1. pc[p] = "trapframe" /\ pc[p] \in ForkLabels
    BY <1>2 DEF allocTrapframe, At, ForkLabels
  <2> PICK q \in Procs : q = np[p]
    BY <2>1, ForkSlot
  <2>2. UNCHANGED <<pagetable, tab>>
    BY <1>2 DEF allocTrapframe, memVars
  <2>3. \/ UNCHANGED <<free, trapframe>>
        \/ free' = free - 1 /\ trapframe' = [trapframe EXCEPT ![q] = TRUE]
    BY <1>2 DEF allocTrapframe, memVars
  <2>4. trapframe[q] = FALSE
    BY <1>0, <2>1 DEF MemoryInv, TableOK
  <2>5. CASE UNCHANGED <<free, trapframe>>
    BY <1>1, <2>2, <2>5, PagesGiven DEF OwnedBy
  <2>6. CASE free' = free - 1 /\ trapframe' = [trapframe EXCEPT ![q] = TRUE]
    <3>1. trapframe'[q] = TRUE /\ \A r \in Procs : r # q => trapframe'[r] = trapframe[r]
      BY <1>0, <2>6
    <3>2. Bool2Nat(trapframe[q]) = 0 /\ Bool2Nat(trapframe'[q]) = 1
      BY <2>4, <3>1 DEF Bool2Nat
    <3>3. free' + OwnedBy(q)' = free + OwnedBy(q)
      <4>1. OwnedBy(q)' = 1 + PagesIn(pagetable[q]) + PagesIn(tab[q])
        BY <2>2, <3>2 DEF OwnedBy
      <4>2. OwnedBy(q) = 0 + PagesIn(pagetable[q]) + PagesIn(tab[q])
        BY <3>2 DEF OwnedBy
      <4>3. QED
        BY <1>0, <1>1, <2>6, <4>1, <4>2
    <3>4. \A r \in Procs : r # q => OwnedBy(r)' = OwnedBy(r)
      BY <2>2, <3>1 DEF OwnedBy
    <3>5. QED
      BY <3>3, <3>4, PagesGiven
  <2>7. QED
    BY <2>3, <2>5, <2>6
<1>3. CASE uvmcreate(p)
  <2>1. UNCHANGED <<pagetable, trapframe>> /\ pc[p] = "uvmcreate"
    BY <1>3 DEF uvmcreate, At
  <2>2. tab[p] = NoTable
    BY <1>0, <2>1 DEF MemoryInv, TableOK
  <2>3. \/ UNCHANGED <<free, tab>>
        \/ free' = free - 1 /\ tab' = [tab EXCEPT ![p] = [NoTable EXCEPT !.tables = 1]]
    BY <1>3 DEF uvmcreate
  <2>4. CASE UNCHANGED <<free, tab>>
    BY <1>1, <2>1, <2>4, PagesGiven DEF OwnedBy
  <2>5. CASE free' = free - 1 /\ tab' = [tab EXCEPT ![p] = [NoTable EXCEPT !.tables = 1]]
    <3>1. /\ tab'[p] = [NoTable EXCEPT !.tables = 1]
          /\ \A r \in Procs : r # p => tab'[r] = tab[r]
      BY <1>0, <2>5
    <3>2. PagesIn(tab[p]) = 0 /\ PagesIn(tab'[p]) = 1
      BY <2>2, <3>1, PagesInRoot
    <3>3. free' + OwnedBy(p)' = free + OwnedBy(p)
      BY <1>0, <1>1, <2>1, <2>5, <3>2 DEF OwnedBy
    <3>4. \A r \in Procs : r # p => OwnedBy(r)' = OwnedBy(r)
      BY <2>1, <3>1 DEF OwnedBy
    <3>5. QED
      BY <3>3, <3>4, PagesGiven
  <2>6. QED
    BY <2>3, <2>4, <2>5
<1>4. QED
  BY <1>2, <1>3

\* The mappings of proc_pagetable, and their undoing.
LEMMA MappingPages ==
  ASSUME ProcessInv, TablesInv, TablesInv', PagesInv, NEW p \in Procs, NEW leaf, NEW undo, NEW next,
         mapLeaf(p, leaf, undo, next)
  PROVE  PagesInv'
<1>0. /\ pagetable \in [Procs -> AnyTable] /\ tab \in [Procs -> AnyTable] /\ free \in Nat
      /\ tab[p] \in AnyTable
  BY DEF TablesInv, MemoryTypes
<1>1. \A r \in Procs : /\ Bool2Nat(trapframe[r]) \in Nat /\ PagesIn(pagetable[r]) \in Nat
                       /\ PagesIn(tab[r]) \in Nat
  BY <1>0, OwnedNumbers
<1>2. UNCHANGED <<pagetable, trapframe>>
  BY DEF mapLeaf
<1>3. ASSUME NEW t, NEW n \in Int, tab' = [tab EXCEPT ![p] = t], free' = free - n,
             PagesIn(t) = PagesIn(tab[p]) + n
      PROVE  PagesInv'
  <2>1. tab'[p] = t /\ \A r \in Procs : r # p => tab'[r] = tab[r]
    BY <1>0, <1>3
  <2>2. free' + OwnedBy(p)' = free + OwnedBy(p)
    <3>1. OwnedBy(p)' = Bool2Nat(trapframe[p]) + PagesIn(pagetable[p]) + PagesIn(t)
      BY <1>2, <2>1 DEF OwnedBy
    <3>2. OwnedBy(p) = Bool2Nat(trapframe[p]) + PagesIn(pagetable[p]) + PagesIn(tab[p])
      BY DEF OwnedBy
    <3>3. QED
      BY <1>0, <1>1, <1>3, <3>1, <3>2
  <2>3. \A r \in Procs : r # p => OwnedBy(r)' = OwnedBy(r)
    BY <1>2, <2>1 DEF OwnedBy
  <2>4. QED
    BY <2>2, <2>3, PagesGiven
<1>4. ASSUME NEW k \in 0..1, mapped(p, leaf, k)
      PROVE  PagesInv'
  <2> DEFINE t == [tab[p] EXCEPT !.tables = @ + k, !.leaves = @ \cup {leaf}]
  <2>1. tab' = [tab EXCEPT ![p] = t]
    BY <1>0, <1>4 DEF mapped
  <2>2. PagesIn(t) = PagesIn(tab[p]) + k
    <3>1. t.tables = tab[p].tables + k
      BY <1>0 DEF AnyTable
    <3>2. t.user = tab[p].user
      BY <1>0 DEF AnyTable
    <3>3. tab[p].tables \in Nat /\ tab[p].user \in Nat
      BY <1>0, Tables
    <3> HIDE DEF t
    <3>4. QED
      BY <3>1, <3>2, <3>3 DEF PagesIn
  <2>3. free' = free - k
    BY <1>4 DEF mapped
  <2> HIDE DEF t
  <2>4. k \in Int
    OBVIOUS
  <2>5. QED
    BY <1>3, <2>1, <2>2, <2>3, <2>4
<1>5. CASE unmapped(p, undo)
  <2> DEFINE t == [tab[p] EXCEPT !.leaves = @ \ undo]
             n == 0 - PagesIn(tab[p])
  <2>1. free' = free + PagesIn(t) /\ tab' = [tab EXCEPT ![p] = NoTable]
    BY <1>5 DEF unmapped
  <2>2. PagesIn(t) = PagesIn(tab[p])
    <3>1. t.tables = tab[p].tables /\ t.user = tab[p].user
      BY <1>0 DEF AnyTable
    <3> HIDE DEF t
    <3>2. QED
      BY <3>1 DEF PagesIn
  <2>3. PagesIn(NoTable) = 0 /\ PagesIn(tab[p]) \in Nat
    BY <1>1, PagesInRoot
  <2> HIDE DEF t
  <2>4. n \in Int /\ free' = free - n /\ PagesIn(NoTable) = PagesIn(tab[p]) + n
    BY <1>0, <2>1, <2>2, <2>3
  <2> HIDE DEF n
  <2>5. QED
    BY <1>3, <2>1, <2>4
<1>6. QED
  BY <1>4, <1>5 DEF mapLeaf

\* freeproc gives back what is in the slot.
LEMMA FreeingPages ==
  ASSUME TablesInv, TablesInv', PagesInv, NEW q \in Procs, freeproc(q), tab' = tab
  PROVE  PagesInv'
<1>0. /\ trapframe \in [Procs -> BOOLEAN] /\ pagetable \in [Procs -> AnyTable]
      /\ tab \in [Procs -> AnyTable] /\ free \in Nat
  BY DEF TablesInv, MemoryTypes
<1>1. /\ Bool2Nat(trapframe[q]) \in Nat /\ PagesIn(pagetable[q]) \in Nat
      /\ PagesIn(tab[q]) \in Nat
  BY <1>0, OwnedNumbers
<1>2. /\ free' = free + (Bool2Nat(trapframe[q]) + PagesIn(pagetable[q]))
      /\ trapframe' = [trapframe EXCEPT ![q] = FALSE]
      /\ pagetable' = [pagetable EXCEPT ![q] = NoTable]
  BY DEF freeproc, freedPages
<1>3. /\ trapframe'[q] = FALSE /\ pagetable'[q] = NoTable
      /\ \A r \in Procs : r # q => trapframe'[r] = trapframe[r] /\ pagetable'[r] = pagetable[r]
  BY <1>0, <1>2
<1>4. free' + OwnedBy(q)' = free + OwnedBy(q)
  <2>1. OwnedBy(q)' = 0 + 0 + PagesIn(tab[q])
    <3>1. Bool2Nat(trapframe'[q]) = 0 /\ PagesIn(pagetable'[q]) = 0
      BY <1>3, PagesInRoot DEF Bool2Nat
    <3>2. QED
      BY <3>1 DEF OwnedBy
  <2>2. OwnedBy(q) = Bool2Nat(trapframe[q]) + PagesIn(pagetable[q]) + PagesIn(tab[q])
    BY DEF OwnedBy
  <2>3. QED
    BY <1>0, <1>1, <1>2, <2>1, <2>2
<1>5. \A r \in Procs : r # q => OwnedBy(r)' = OwnedBy(r)
  BY <1>3 DEF OwnedBy
<1>6. QED
  BY <1>4, <1>5, PagesGiven

\* The page table goes from the fork to the child, with the copied memory or without.
LEMMA CopyPages ==
  ASSUME ProcessInv, TablesInv, TablesInv', PagesInv, NEW p \in Procs, uvmcopyFails(p) \/ forkDone(p)
  PROVE  PagesInv'
<1>0. /\ pagetable \in [Procs -> AnyTable] /\ tab \in [Procs -> AnyTable] /\ free \in Nat
      /\ tab[p] \in AnyTable /\ MemoryInv /\ sz \in [Procs -> 0..(WordModulus - 1)]
  BY DEF TablesInv, MemoryTypes
<1>1. \A r \in Procs : /\ Bool2Nat(trapframe[r]) \in Nat /\ PagesIn(pagetable[r]) \in Nat
                       /\ PagesIn(tab[r]) \in Nat
  BY <1>0, OwnedNumbers
<1>2. pc[p] = "uvmcopy" /\ pc[p] \in ForkLabels
  BY DEF uvmcopyFails, forkDone, At, ForkLabels
<1> PICK q \in Procs : q = np[p]
  BY <1>2, ForkSlot
<1>3. q # p
  BY <1>2, ForkSlot
<1>4. /\ UNCHANGED trapframe /\ tab' = [tab EXCEPT ![p] = NoTable]
      /\ pagetable[q] = NoTable /\ tab[p].user = 0 /\ tab[p].tables \in Nat
  BY <1>0, <1>2, Tables DEF uvmcopyFails, forkDone, MemoryInv, TableOK, ForkLabels
<1>5. ASSUME NEW t, NEW n \in Nat, pagetable' = [pagetable EXCEPT ![q] = t], free' = free - n,
             PagesIn(t) = PagesIn(tab[p]) + n
      PROVE  PagesInv'
  <2>1. /\ pagetable'[q] = t /\ tab'[p] = NoTable
        /\ \A r \in Procs : r # q => pagetable'[r] = pagetable[r]
        /\ \A r \in Procs : r # p => tab'[r] = tab[r]
    BY <1>0, <1>4, <1>5
  <2>2. OwnedBy(p)' = Bool2Nat(trapframe[p]) + PagesIn(pagetable[p]) + 0
    BY <1>3, <1>4, <2>1, PagesInRoot DEF OwnedBy
  <2>3. OwnedBy(p) = Bool2Nat(trapframe[p]) + PagesIn(pagetable[p]) + PagesIn(tab[p])
    BY DEF OwnedBy
  <2>4. OwnedBy(q)' = Bool2Nat(trapframe[q]) + (PagesIn(tab[p]) + n) + PagesIn(tab[q])
    BY <1>3, <1>4, <1>5, <2>1 DEF OwnedBy
  <2>5. OwnedBy(q) = Bool2Nat(trapframe[q]) + 0 + PagesIn(tab[q])
    BY <1>4, PagesInRoot DEF OwnedBy
  <2>6. free' + OwnedBy(p)' + OwnedBy(q)' = free + OwnedBy(p) + OwnedBy(q)
    BY <1>0, <1>1, <1>5, <2>2, <2>3, <2>4, <2>5
  <2>7. \A r \in Procs : r \notin {p, q} => OwnedBy(r)' = OwnedBy(r)
    BY <1>4, <2>1 DEF OwnedBy
  <2>8. QED
    BY <1>3, <2>6, <2>7, PagesMoved
<1>6. CASE uvmcopyFails(p)
  <2>1. PICK k \in 0..1 :
          /\ free' = free - k
          /\ pagetable' = [pagetable EXCEPT ![q] = [tab[p] EXCEPT !.tables = @ + k]]
    BY <1>6 DEF uvmcopyFails
  <2> DEFINE t == [tab[p] EXCEPT !.tables = @ + k]
  <2>2. t.tables = tab[p].tables + k
    BY <1>0 DEF AnyTable
  <2>3. t.user = 0
    BY <1>0, <1>4 DEF AnyTable
  <2>4. pagetable' = [pagetable EXCEPT ![q] = t] /\ k \in Nat
    BY <2>1
  <2> HIDE DEF t
  <2>5. PagesIn(t) = PagesIn(tab[p]) + k
    BY <1>4, <2>2, <2>3 DEF PagesIn
  <2>6. QED
    BY <1>5, <2>1, <2>4, <2>5
<1>7. CASE forkDone(p)
  <2> DEFINE n == PagesOf(sz[p])
  <2>0. n \in Nat
    BY <1>0, PageArithmetic
  <2> HIDE DEF n
  <2>1. PICK k \in 0..1 :
          /\ free' = free - n - k
          /\ pagetable' = [pagetable EXCEPT ![q] = [tab[p] EXCEPT !.tables = @ + k, !.user = n]]
    BY <1>7 DEF forkDone, n
  <2> DEFINE t == [tab[p] EXCEPT !.tables = @ + k, !.user = n]
             m == n + k
  <2>2. t.tables = tab[p].tables + k
    BY <1>0 DEF AnyTable
  <2>3. t.user = n
    BY <1>0, <1>4 DEF AnyTable
  <2>4. pagetable' = [pagetable EXCEPT ![q] = t]
    BY <2>1
  <2> HIDE DEF t
  <2>5. PagesIn(t) = PagesIn(tab[p]) + m /\ free' = free - m /\ m \in Nat
    BY <1>0, <1>4, <2>0, <2>1, <2>2, <2>3 DEF PagesIn
  <2> HIDE DEF m
  <2>6. QED
    BY <1>5, <2>4, <2>5
<1>8. QED
  BY <1>6, <1>7

\* sbrk takes pages from the free list or gives them back.
LEMMA GrowPages ==
  ASSUME TablesInv, TablesInv', PagesInv, NEW p \in Procs, NEW a \in Args, growproc(p, a)
  PROVE  PagesInv'
<1>0. /\ pagetable \in [Procs -> AnyTable] /\ tab \in [Procs -> AnyTable] /\ free \in Nat
      /\ pagetable[p] \in AnyTable /\ sz \in [Procs -> 0..(WordModulus - 1)] /\ sz[p] \in Nat
      /\ pagetable[p].tables \in Nat /\ pagetable[p].user \in Nat
  BY Tables DEF TablesInv, MemoryTypes
<1>1. /\ Bool2Nat(trapframe[p]) \in Nat /\ PagesIn(pagetable[p]) \in Nat /\ PagesIn(tab[p]) \in Nat
  BY <1>0, OwnedNumbers
<1>2. UNCHANGED <<trapframe, tab>>
  BY DEF growproc
<1>3. ASSUME NEW t, NEW n \in Int, pagetable' = [pagetable EXCEPT ![p] = t], free' = free - n,
             PagesIn(t) = PagesIn(pagetable[p]) + n
      PROVE  PagesInv'
  <2>1. pagetable'[p] = t /\ \A r \in Procs : r # p => pagetable'[r] = pagetable[r]
    BY <1>0, <1>3
  <2>2. OwnedBy(p)' = Bool2Nat(trapframe[p]) + (PagesIn(pagetable[p]) + n) + PagesIn(tab[p])
    BY <1>2, <1>3, <2>1 DEF OwnedBy
  <2>3. OwnedBy(p) = Bool2Nat(trapframe[p]) + PagesIn(pagetable[p]) + PagesIn(tab[p])
    BY DEF OwnedBy
  <2>4. free' + OwnedBy(p)' = free + OwnedBy(p)
    BY <1>0, <1>1, <1>3, <2>2, <2>3
  <2>5. \A r \in Procs : r # p => OwnedBy(r)' = OwnedBy(r)
    BY <1>2, <2>1 DEF OwnedBy
  <2>6. QED
    BY <2>4, <2>5, PagesGiven
<1>4. CASE growFails(p, argint(a))
  <2>1. PICK k \in 0..1 : /\ free' = free - k
                          /\ pagetable' = [pagetable EXCEPT ![p].tables = @ + k]
    BY <1>4 DEF growFails
  <2> DEFINE t == [pagetable[p] EXCEPT !.tables = @ + k]
  <2>2. t.tables = pagetable[p].tables + k /\ t.user = pagetable[p].user
    BY <1>0 DEF AnyTable
  <2>3. pagetable' = [pagetable EXCEPT ![p] = t] /\ k \in Int
    BY <1>0, <2>1
  <2> HIDE DEF t
  <2>4. PagesIn(t) = PagesIn(pagetable[p]) + k
    BY <1>0, <2>2 DEF PagesIn
  <2>5. QED
    BY <1>3, <2>1, <2>3, <2>4
<1>5. CASE growDone(p, argint(a))
  <2> DEFINE new == grown(sz[p], argint(a))
             more == PagesOf(new) - PagesOf(sz[p])
  <2>1. new \in 0..(WordModulus - 1)
    BY <1>0, GrownSize
  <2> HIDE DEF new
  <2>2. more \in Int
    BY <1>0, <2>1, PageArithmetic
  <2>3. CASE UNCHANGED <<free, pagetable>>
    <3>1. pagetable' = [pagetable EXCEPT ![p] = pagetable[p]]
      BY <1>0, <2>3
    <3>2. free' = free - 0 /\ 0 \in Int /\ PagesIn(pagetable[p]) = PagesIn(pagetable[p]) + 0
      BY <1>0, <1>1, <2>3
    <3>3. QED
      BY <1>3, <3>1, <3>2
  <2>4. CASE ~UNCHANGED <<free, pagetable>>
    <3>1. PICK k \in 0..1 :
            /\ free' = free - more - k
            /\ pagetable' = [pagetable EXCEPT ![p].user = @ + more, ![p].tables = @ + k]
      BY <1>5, <2>4 DEF growDone, new
    <3> HIDE DEF more
    <3> DEFINE t == [pagetable[p] EXCEPT !.user = @ + more, !.tables = @ + k]
               n == more + k
    <3>2. t.tables = pagetable[p].tables + k
      BY <1>0 DEF AnyTable
    <3>3. t.user = pagetable[p].user + more
      BY <1>0 DEF AnyTable
    <3>4. pagetable' = [pagetable EXCEPT ![p] = t]
      BY <1>0, <3>1
    <3> HIDE DEF t
    <3>5. PagesIn(t) = PagesIn(pagetable[p]) + n /\ free' = free - n /\ n \in Int
      BY <1>0, <2>2, <3>1, <3>2, <3>3 DEF PagesIn
    <3> HIDE DEF n
    <3>6. QED
      BY <1>3, <3>4, <3>5
  <2>5. QED
    BY <2>3, <2>4
<1>6. QED
  BY <1>4, <1>5 DEF growproc

\* Every step conserves the pages.
LEMMA PagesNext ==
  ASSUME ProcessInv, TablesInv, TablesInv', PagesInv, [Next]_vars
  PROVE  PagesInv'
<1>1. CASE UNCHANGED <<free, trapframe, pagetable, tab>>
  BY <1>1 DEF PagesInv, Owned
<1>2. ASSUME NEW p \in Procs, forkFail(p)
      PROVE  PagesInv'
  <2>1. np[p] \in Procs
    BY <1>2, ForkSlot DEF forkFail, At, ForkLabels
  <2>2. QED
    BY <1>2, <2>1, FreeingPages DEF forkFail
<1>3. ASSUME NEW p \in Procs, NEW q \in Procs, wait(p, q)
      PROVE  PagesInv'
  <2>1. CASE UNCHANGED vars
    BY <1>1, <2>1 DEF vars, memVars
  <2>2. CASE freeproc(q) /\ tab' = tab
    BY <2>2, FreeingPages
  <2>3. QED
    BY <1>3, <2>1, <2>2 DEF wait, reap
<1>4. ASSUME NEW p \in Procs, fork(p)
      PROVE  PagesInv'
  <2>1. allocproc(p) => UNCHANGED <<free, trapframe, pagetable, tab>>
    BY DEF allocproc, memVars
  <2>2. QED
    BY <1>1, <1>2, <1>4, <2>1, AllocationPages, MappingPages, CopyPages
       DEF fork, mapTrampoline, mapTrapframe
<1>5. ASSUME NEW p \in Procs,
             \/ \E fd \in FDs, f \in Files : openFile(p, fd, f)
             \/ \E v \in Statuses : exit(p, v)
             \/ fileclose(p) \/ iput(p) \/ zombie(p)
      PROVE  PagesInv'
  BY <1>1, <1>5 DEF openFile, exit, fileclose, iput, zombie, memVars
<1>6. CASE UNCHANGED vars
  BY <1>1, <1>6 DEF vars, memVars
<1>7. QED
  BY <1>3, <1>4, <1>5, <1>6, GrowPages DEF Next

\* No page table, nor the free list, has more pages than there are.
LEMMA PagesBounded ==
  ASSUME TablesInv, PagesInv, NEW p \in Procs
  PROVE  /\ free \in 0..NPages
         /\ pagetable[p].tables \in 0..NPages /\ pagetable[p].user \in 0..NPages
         /\ tab[p].tables \in 0..NPages /\ tab[p].user \in 0..NPages
<1>0. /\ pagetable \in [Procs -> AnyTable] /\ tab \in [Procs -> AnyTable] /\ free \in Nat
      /\ pagetable[p] \in AnyTable /\ tab[p] \in AnyTable
  BY DEF TablesInv, MemoryTypes
<1>1. \A r \in Procs : OwnedBy(r) \in Nat
  BY <1>0, OwnedNumbers DEF OwnedBy
<1>2. Owned = [r \in Procs |-> OwnedBy(r)]
  BY DEF Owned, OwnedBy
<1>3. Owned \in [Procs -> Nat] /\ Owned[p] = OwnedBy(p) /\ OwnedBy(p) \in Nat
  BY <1>1, <1>2
<1>4. Cardinality(PageSet(Owned)) \in Nat /\ Owned[p] <= Cardinality(PageSet(Owned))
  <2>1. Owned \in [Procs -> Nat]
    BY <1>3
  <2>2. QED
    BY <2>1, PageSetChange
<1>5. Cardinality(Procs) \in Nat /\ NPages \in Nat
  BY TableAssumption, SizesAssumption, FS_CardinalityType
<1>6. free <= NPages /\ OwnedBy(p) <= NPages
  BY <1>0, <1>3, <1>4, <1>5 DEF PagesInv
<1>7. /\ pagetable[p].tables \in Nat /\ pagetable[p].user \in Nat
      /\ tab[p].tables \in Nat /\ tab[p].user \in Nat /\ Bool2Nat(trapframe[p]) \in Nat
  BY <1>0, Tables, OwnedNumbers
<1>8. OwnedBy(p) = Bool2Nat(trapframe[p]) + (pagetable[p].tables + pagetable[p].user)
                   + (tab[p].tables + tab[p].user)
  BY DEF OwnedBy, PagesIn
<1>9. QED
  BY <1>0, <1>5, <1>6, <1>7, <1>8

\* A process in memory is so small that the addresses of its words do not overflow, and
\* fetchaddr accepts just the words in its pages.
LEMMA FetchBounds ==
  ASSUME TablesInv, PagesInv
  PROVE  FetchInBounds
<1>1. SUFFICES ASSUME NEW p \in Procs, NEW addr \in 0..(WordModulus - 1), state[p] = "LIVE"
               PROVE  /\ fetchaddr(p, addr) <=> addr + WORD <= sz[p]
                      /\ fetchaddr(p, addr) => (addr + WORD - 1) \div PGSIZE < pagetable[p].user
  BY DEF FetchInBounds
<1>2. /\ PGSIZE \in Nat /\ PGSIZE >= 1 /\ WORD \in Nat /\ WORD >= 1 /\ NPages \in Nat
      /\ IntModulus \in Nat /\ WORD <= IntModulus /\ WordModulus \in Nat
  BY SizesAssumption
<1> DEFINE s == sz[p]
           u == pagetable[p].user
<1>3. s \in Nat /\ u = PagesOf(s) /\ u \in Nat /\ u <= NPages
  <2>1. sz[p] \in Nat
    BY <1>2 DEF TablesInv, MemoryTypes
  <2>2. pagetable[p].user = PagesOf(sz[p])
    BY <1>1 DEF TablesInv, MemoryInv, TableOK
  <2>3. QED
    BY <1>2, <2>1, <2>2, PagesBounded
<1>4. s <= u * PGSIZE /\ \A b \in Nat : b < s => b \div PGSIZE < u
  <2> HIDE DEF s, u
  <2>1. QED
    BY <1>3, PageArithmetic
<1> DEFINE all == NPages * PGSIZE
<1>5. s <= all /\ all \in Nat /\ all + IntModulus < WordModulus
  <2> HIDE DEF s, u
  <2>1. u * PGSIZE <= NPages * PGSIZE /\ u * PGSIZE \in Nat /\ NPages * PGSIZE \in Nat
    BY <1>2, <1>3
  <2>2. QED
    BY <1>2, <1>3, <1>4, <2>1, SizesAssumption
<1> DEFINE e == addr + WORD
<1>6. e \in Nat /\ addr \in Nat /\ e >= addr + 1
  BY <1>2
<1>7. addr < s => e % WordModulus = e
  <2> HIDE DEF s, u, all
  <2>1. ASSUME addr < s
        PROVE  e < WordModulus
    BY <1>2, <1>3, <1>5, <1>6, <2>1
  <2> HIDE DEF e
  <2>2. e < WordModulus => e % WordModulus = e
    BY <1>2, <1>6
  <2>3. QED
    BY <2>1, <2>2
<1>8. fetchaddr(p, addr) <=> ~(addr >= s \/ e % WordModulus > s)
  BY DEF fetchaddr
<1> HIDE DEF s, u, all
<1>9. fetchaddr(p, addr) <=> e <= s
  <2>1. CASE addr >= s
    BY <1>3, <1>6, <1>8, <2>1
  <2>2. CASE addr < s
    <3> HIDE DEF e
    <3>1. QED
      BY <1>3, <1>6, <1>7, <1>8, <2>2
  <2>3. QED
    BY <1>3, <1>6, <2>1, <2>2
<1>10. fetchaddr(p, addr) => (addr + WORD - 1) \div PGSIZE < u
  <2> DEFINE b == addr + WORD - 1
  <2>1. b \in Nat /\ (e <= s => b < s)
    BY <1>2, <1>3, <1>6
  <2> HIDE DEF b, e
  <2>2. fetchaddr(p, addr) => b \div PGSIZE < u
    BY <1>4, <1>9, <2>1
  <2>3. QED
    BY <2>2 DEF b
<1>11. QED
  BY <1>9, <1>10 DEF s, u, e

-----------------------------------------------------------------------------
(* Exit statuses.                                                          *)

\* The pid of a process is an index of status and got.
LEMMA PidInRange ==
  ASSUME StatusTypes, PidsDiffer, NEW p \in Procs, state[p] # "UNUSED"
  PROVE  pid[p] \in 1..MaxPid
<1>1. pid[p] \in 1..(nextpid - 1) /\ nextpid \in 1..(MaxPid + 1) /\ MaxPid \in Nat
  BY ArgumentsAssumption DEF StatusTypes, PidsDiffer
<1>2. QED
  BY <1>1

\* A new process has a new pid.
LEMMA AllocprocStatus ==
  ASSUME ProcessInv, StatusInv, NEW p \in Procs, allocproc(p)
  PROVE  StatusInv'
<1>0. StatusTypes /\ PidsDiffer /\ StatusesRecorded /\ StatusKept
  BY DEF StatusInv
<1>1. PICK q \in Procs : /\ state[q] = "UNUSED" /\ state' = [state EXCEPT ![q] = "USED"]
                         /\ pid' = [pid EXCEPT ![q] = nextpid]
  BY DEF allocproc
<1>2. /\ nextpid <= MaxPid /\ nextpid' = nextpid + 1 /\ pc' = [pc EXCEPT ![p] = "trapframe"]
      /\ UNCHANGED <<xstate, status, got>>
  BY DEF allocproc, Goto
<1>3. /\ state \in [Procs -> {"UNUSED", "USED", "LIVE", "ZOMBIE"}]
      /\ pc \in [Procs -> {"user"} \cup ForkLabels \cup ExitLabels]
      /\ pid \in [Procs -> 0..MaxPid] /\ nextpid \in 1..(MaxPid + 1) /\ MaxPid \in Nat
  BY <1>0, ArgumentsAssumption DEF ProcessInv, SlotTypes, StatusTypes
<1>4. /\ state'[q] = "USED" /\ pid'[q] = nextpid
      /\ \A r \in Procs : r # q => state'[r] = state[r] /\ pid'[r] = pid[r]
      /\ \A r \in Procs : pc'[r] \in ExitLabels => pc'[r] = pc[r]
  BY <1>1, <1>2, <1>3 DEF ExitLabels
<1>5. StatusTypes'
  BY <1>0, <1>1, <1>2, <1>3 DEF StatusTypes
<1>6. PidsDiffer'
  <2>1. \A r \in Procs : r # q /\ state[r] # "UNUSED" => pid[r] \in 1..(nextpid - 1)
    BY <1>0 DEF PidsDiffer
  <2>2. \A r \in Procs : state'[r] # "UNUSED" => pid'[r] \in 1..nextpid
    BY <1>3, <1>4, <2>1
  <2>3. \A r \in Procs : r # q /\ state'[r] # "UNUSED" => pid'[r] # nextpid
    BY <1>3, <1>4, <2>1
  <2>4. nextpid' - 1 = nextpid
    BY <1>2, <1>3
  <2>5. \A r1, r2 \in Procs : /\ state'[r1] # "UNUSED" /\ state'[r2] # "UNUSED"
                              /\ pid'[r1] = pid'[r2]
                              => r1 = r2
    BY <1>0, <1>4, <2>3 DEF PidsDiffer
  <2>6. QED
    BY <2>2, <2>4, <2>5 DEF PidsDiffer
<1>7. StatusesRecorded'
  BY <1>0, <1>2, <1>4 DEF StatusesRecorded
<1>8. StatusKept'
  BY <1>0, <1>1, <1>2, <1>4 DEF StatusKept
<1>9. QED
  BY <1>5, <1>6, <1>7, <1>8 DEF StatusInv

\* A slot is freed, after its status, if it has one, has been handed over.
LEMMA FreeprocStatus ==
  ASSUME ProcessInv, StatusInv, NEW q \in Procs, freeproc(q), UNCHANGED <<nextpid, status>>,
         \A r \in Procs : pc'[r] \in ExitLabels => pc'[r] = pc[r],
         \/ state[q] = "USED" /\ UNCHANGED got
         \/ /\ state[q] = "ZOMBIE"
            /\ \E v \in {xstate[q], Discarded} : got' = [got EXCEPT ![pid[q]] = v]
  PROVE  StatusInv'
<1>0. /\ StatusTypes /\ PidsDiffer /\ StatusesRecorded /\ StatusKept
      /\ state \in [Procs -> {"UNUSED", "USED", "LIVE", "ZOMBIE"}]
      /\ pid \in [Procs -> 0..MaxPid] /\ nextpid \in 1..(MaxPid + 1) /\ MaxPid \in Nat
      /\ xstate \in [Procs -> Statuses \cup {0}]
      /\ got \in [1..MaxPid -> Statuses \cup {None, Discarded}]
  BY ArgumentsAssumption DEF StatusInv, StatusTypes, ProcessInv, SlotTypes
<1>1. /\ state' = [state EXCEPT ![q] = "UNUSED"] /\ pid' = [pid EXCEPT ![q] = 0]
      /\ xstate' = [xstate EXCEPT ![q] = 0]
  BY DEF freeproc
<1>2. /\ state'[q] = "UNUSED"
      /\ \A r \in Procs : r # q => state'[r] = state[r] /\ pid'[r] = pid[r] /\ xstate'[r] = xstate[r]
  BY <1>0, <1>1
<1>3. pid[q] \in 1..MaxPid
  BY <1>0, PidInRange
<1>4. PidsDiffer'
  <2>1. \A r \in Procs : state'[r] # "UNUSED" => /\ state[r] # "UNUSED" /\ pid'[r] = pid[r]
    BY <1>2
  <2>2. nextpid' = nextpid
    OBVIOUS
  <2>3. QED
    BY <1>0, <2>1, <2>2 DEF PidsDiffer
<1>5. CASE state[q] = "USED" /\ UNCHANGED got
  <2>1. StatusTypes'
    BY <1>0, <1>1, <1>5 DEF StatusTypes
  <2>2. StatusesRecorded'
    BY <1>0, <1>2 DEF StatusesRecorded
  <2>3. StatusKept'
    BY <1>0, <1>2, <1>5 DEF StatusKept
  <2>4. QED
    BY <1>4, <2>1, <2>2, <2>3 DEF StatusInv
<1>6. CASE /\ state[q] = "ZOMBIE"
           /\ \E v \in {xstate[q], Discarded} : got' = [got EXCEPT ![pid[q]] = v]
  <2>1. PICK v \in {xstate[q], Discarded} : got' = [got EXCEPT ![pid[q]] = v]
    BY <1>6
  <2>2. xstate[q] = status[pid[q]] /\ status[pid[q]] \in Statuses
    BY <1>0, <1>6 DEF StatusesRecorded
  <2>3. /\ got' \in [1..MaxPid -> Statuses \cup {None, Discarded}]
        /\ got'[pid[q]] \in {status[pid[q]], Discarded}
        /\ \A i \in 1..MaxPid : i # pid[q] => got'[i] = got[i]
    BY <1>0, <1>3, <2>1, <2>2
  <2>4. StatusTypes'
    BY <1>0, <1>1, <2>3 DEF StatusTypes
  <2>5. StatusesRecorded'
    BY <1>0, <1>2 DEF StatusesRecorded
  <2>6. StatusKept'
    <3>1. SUFFICES ASSUME NEW i \in 1..MaxPid, status[i] # None, i # pid[q]
                   PROVE  \/ got[i] \in {status[i], Discarded}
                          \/ \E r \in Procs : /\ pid'[r] = i
                                              /\ \/ state'[r] = "LIVE"
                                                 \/ state'[r] = "ZOMBIE" /\ xstate'[r] = status[i]
      BY <2>3 DEF StatusKept
    <3>2. QED
      BY <1>0, <1>2, <3>1 DEF StatusKept
  <2>7. QED
    BY <1>4, <2>4, <2>5, <2>6 DEF StatusInv
<1>7. QED
  BY <1>5, <1>6

\* exit records the status, and keeps it when the process becomes a zombie.
LEMMA ExitStatus ==
  ASSUME ProcessInv, StatusInv, NEW p \in Procs, (\E v \in Statuses : exit(p, v)) \/ zombie(p)
  PROVE  StatusInv'
<1>0. /\ StatusTypes /\ PidsDiffer /\ StatusesRecorded /\ StatusKept
      /\ state \in [Procs -> {"UNUSED", "USED", "LIVE", "ZOMBIE"}]
      /\ pc \in [Procs -> {"user"} \cup ForkLabels \cup ExitLabels]
      /\ pid \in [Procs -> 0..MaxPid]
      /\ xstate \in [Procs -> Statuses \cup {0}]
      /\ status \in [1..MaxPid -> Statuses \cup {None}]
  BY DEF StatusInv, StatusTypes, ProcessInv, SlotTypes
<1>1. state[p] = "LIVE" /\ UNCHANGED <<pid, nextpid, got>>
  BY DEF exit, zombie, At
<1>2. pid[p] \in 1..MaxPid /\ \A r \in Procs : r # p /\ state[r] # "UNUSED" => pid[r] # pid[p]
  BY <1>0, <1>1, PidInRange DEF PidsDiffer
<1>3. ASSUME NEW v \in Statuses, exit(p, v)
      PROVE  StatusInv'
  <2>1. /\ status' = [status EXCEPT ![pid[p]] = v] /\ UNCHANGED <<state, xstate>>
        /\ pc' = [pc EXCEPT ![p] = "close"]
    BY <1>3 DEF exit, Goto
  <2>2. /\ status' \in [1..MaxPid -> Statuses \cup {None}] /\ status'[pid[p]] = v
        /\ \A i \in 1..MaxPid : i # pid[p] => status'[i] = status[i]
        /\ \A r \in Procs : r # p => pc'[r] = pc[r]
    BY <1>0, <1>2, <2>1
  <2>3. StatusTypes'
    BY <1>0, <1>1, <2>1, <2>2 DEF StatusTypes
  <2>4. PidsDiffer'
    BY <1>0, <1>1, <2>1 DEF PidsDiffer
  <2>5. \A r \in Procs : r # p /\ state[r] # "UNUSED" => status'[pid[r]] = status[pid[r]]
    BY <1>0, <1>2, <2>2, PidInRange
  <2>6. StatusesRecorded'
    BY <1>0, <1>1, <2>1, <2>2, <2>5 DEF StatusesRecorded
  <2>7. StatusKept'
    <3>1. SUFFICES ASSUME NEW i \in 1..MaxPid, status'[i] # None
                   PROVE  \/ got[i] \in {status'[i], Discarded}
                          \/ \E r \in Procs : /\ pid[r] = i
                                              /\ \/ state[r] = "LIVE"
                                                 \/ state[r] = "ZOMBIE" /\ xstate[r] = status'[i]
      BY <1>1, <2>1 DEF StatusKept
    <3>2. CASE i = pid[p]
      BY <1>1, <3>2
    <3>3. CASE i # pid[p]
      BY <1>0, <2>2, <3>1, <3>3 DEF StatusKept
    <3>4. QED
      BY <3>2, <3>3
  <2>8. QED
    BY <2>3, <2>4, <2>6, <2>7 DEF StatusInv
<1>4. CASE zombie(p)
  <2>1. /\ pc[p] \in ExitLabels /\ xstate' = [xstate EXCEPT ![p] = status[pid[p]]]
        /\ state' = [state EXCEPT ![p] = "ZOMBIE"] /\ UNCHANGED <<status, pc>>
    BY <1>4 DEF zombie, At, ExitLabels
  <2>2. status[pid[p]] \in Statuses
    BY <1>0, <1>1, <2>1 DEF StatusesRecorded
  <2>3. /\ state'[p] = "ZOMBIE" /\ xstate'[p] = status[pid[p]]
        /\ \A r \in Procs : r # p => state'[r] = state[r] /\ xstate'[r] = xstate[r]
    BY <1>0, <2>1
  <2>4. StatusTypes'
    BY <1>0, <1>1, <2>1, <2>2 DEF StatusTypes
  <2>5. PidsDiffer'
    <3>1. \A r \in Procs : state'[r] # "UNUSED" <=> state[r] # "UNUSED"
      BY <1>1, <2>3
    <3>2. QED
      BY <1>0, <1>1, <3>1 DEF PidsDiffer
  <2>6. StatusesRecorded'
    BY <1>0, <1>1, <2>1, <2>2, <2>3 DEF StatusesRecorded
  <2>7. StatusKept'
    <3>1. SUFFICES ASSUME NEW i \in 1..MaxPid, status[i] # None
                   PROVE  \/ got[i] \in {status[i], Discarded}
                          \/ \E r \in Procs : /\ pid[r] = i
                                              /\ \/ state'[r] = "LIVE"
                                                 \/ state'[r] = "ZOMBIE" /\ xstate'[r] = status[i]
      BY <1>1, <2>1 DEF StatusKept
    <3>2. CASE i = pid[p]
      BY <2>3, <3>2
    <3>3. CASE i # pid[p]
      BY <1>0, <2>3, <3>1, <3>3 DEF StatusKept
    <3>4. QED
      BY <3>2, <3>3
  <2>8. QED
    BY <2>4, <2>5, <2>6, <2>7 DEF StatusInv
<1>5. QED
  BY <1>3, <1>4

\* A step that does not touch statuses, makes no zombie and does not begin an exit.
NoExit ==
  /\ UNCHANGED <<pid, xstate, nextpid, status, got>>
  /\ \A r \in Procs :
       /\ state'[r] = state[r] \/ (state[r] = "USED" /\ state'[r] = "LIVE")
       /\ state'[r] = "LIVE" /\ pc'[r] \in ExitLabels => state[r] = "LIVE" /\ pc[r] \in ExitLabels

\* It keeps the statuses.
LEMMA QuietStatus ==
  ASSUME StatusInv, NoExit
  PROVE  StatusInv'
<1>0. /\ StatusTypes /\ PidsDiffer /\ StatusesRecorded /\ StatusKept
      /\ UNCHANGED <<pid, xstate, nextpid, status, got>>
      /\ \A r \in Procs : state'[r] = state[r] \/ (state[r] = "USED" /\ state'[r] = "LIVE")
      /\ \A r \in Procs : state'[r] = "LIVE" /\ pc'[r] \in ExitLabels =>
                            state[r] = "LIVE" /\ pc[r] \in ExitLabels
  BY DEF StatusInv, NoExit
<1>1. StatusTypes'
  BY <1>0 DEF StatusTypes
<1>2. PidsDiffer'
  <2>1. \A r \in Procs : state'[r] # "UNUSED" <=> state[r] # "UNUSED"
    BY <1>0
  <2>2. UNCHANGED <<pid, nextpid>>
    BY <1>0
  <2>3. QED
    BY <1>0, <2>1, <2>2 DEF PidsDiffer
<1>3. StatusesRecorded'
  BY <1>0 DEF StatusesRecorded
<1>4. StatusKept'
  BY <1>0 DEF StatusKept
<1>5. QED
  BY <1>1, <1>2, <1>3, <1>4 DEF StatusInv

\* Every step keeps the exit statuses.
LEMMA StatusNext ==
  ASSUME ProcessInv, StatusInv, [Next]_vars
  PROVE  StatusInv'
<1>0. /\ state \in [Procs -> {"UNUSED", "USED", "LIVE", "ZOMBIE"}]
      /\ pc \in [Procs -> {"user"} \cup ForkLabels \cup ExitLabels]
  BY DEF ProcessInv, SlotTypes
<1>1. CASE UNCHANGED vars
  BY <1>1, QuietStatus DEF NoExit, vars, idVars
<1>2. ASSUME NEW p \in Procs, allocTrapframe(p) \/ uvmcreate(p) \/ mapTrampoline(p)
                               \/ mapTrapframe(p) \/ uvmcopyFails(p)
      PROVE  StatusInv'
  <2>1. UNCHANGED idVars /\ \E l \in ForkLabels : pc' = [pc EXCEPT ![p] = l]
    BY <1>2 DEF allocTrapframe, uvmcreate, mapTrampoline, mapTrapframe, mapLeaf, uvmcopyFails,
       Goto, ForkLabels
  <2>2. \A r \in Procs : pc'[r] \in ExitLabels => pc[r] \in ExitLabels
    BY <1>0, <2>1 DEF ForkLabels, ExitLabels
  <2>3. QED
    BY <2>1, <2>2, QuietStatus DEF NoExit, idVars
<1>3. ASSUME NEW p \in Procs, forkFail(p)
      PROVE  StatusInv'
  <2>1. pc[p] \in ForkLabels
    BY <1>3 DEF forkFail, At, ForkLabels
  <2>2. np[p] \in Procs /\ state[np[p]] = "USED"
    BY <2>1, ForkSlot
  <2>3. /\ freeproc(np[p]) /\ UNCHANGED <<nextpid, status, got>>
        /\ pc' = [pc EXCEPT ![p] = "user"]
    BY <1>3 DEF forkFail, Goto
  <2>4. \A r \in Procs : pc'[r] \in ExitLabels => pc'[r] = pc[r]
    BY <1>0, <2>3 DEF ExitLabels
  <2>5. QED
    BY <2>2, <2>3, <2>4, FreeprocStatus
<1>4. ASSUME NEW p \in Procs, forkDone(p)
      PROVE  StatusInv'
  <2>1. pc[p] \in ForkLabels
    BY <1>4 DEF forkDone, At, ForkLabels
  <2> PICK q \in Procs : q = np[p]
    BY <2>1, ForkSlot
  <2>2. state[q] = "USED"
    BY <2>1, ForkSlot
  <2>3. /\ UNCHANGED <<pid, xstate, nextpid, status, got>> /\ state' = [state EXCEPT ![q] = "LIVE"]
        /\ pc' = [pc EXCEPT ![p] = "user", ![q] = "user"]
    BY <1>4 DEF forkDone
  <2>4. \A r \in Procs : pc'[r] \in ExitLabels => r # q /\ pc'[r] = pc[r]
    BY <1>0, <2>3 DEF ExitLabels
  <2>5. \A r \in Procs : IF r = q THEN state'[r] = "LIVE" ELSE state'[r] = state[r]
    BY <1>0, <2>3
  <2>6. QED
    BY <2>2, <2>3, <2>4, <2>5, QuietStatus DEF NoExit
<1>5. ASSUME NEW p \in Procs, NEW q \in Procs, wait(p, q)
      PROVE  StatusInv'
  <2>1. CASE ~UNCHANGED vars
    <3>1. PICK v \in {xstate[q], Discarded} : reap(p, q, v)
      BY <1>5, <2>1 DEF wait
    <3>2. /\ state[q] = "ZOMBIE" /\ freeproc(q) /\ UNCHANGED <<nextpid, status, pc>>
          /\ got' = [got EXCEPT ![pid[q]] = v]
      BY <1>5, <3>1 DEF wait, reap
    <3>3. QED
      BY <3>2, FreeprocStatus
  <2>2. QED
    BY <1>1, <2>1
<1>6. ASSUME NEW p \in Procs, (\E a \in Args : growproc(p, a)) \/ fileclose(p) \/ iput(p)
                               \/ \E fd \in FDs, f \in Files : openFile(p, fd, f)
      PROVE  StatusInv'
  <2>1. /\ UNCHANGED idVars
        /\ pc' = pc \/ /\ pc[p] \in ExitLabels
                       /\ \E l \in ExitLabels : pc' = [pc EXCEPT ![p] = l]
    BY <1>6 DEF growproc, openFile, fileclose, iput, At, Goto, ExitLabels
  <2>2. \A r \in Procs : pc'[r] \in ExitLabels => pc[r] \in ExitLabels
    BY <1>0, <2>1
  <2>3. QED
    BY <2>1, <2>2, QuietStatus DEF NoExit, idVars
<1>7. QED
  BY <1>1, <1>2, <1>3, <1>4, <1>5, <1>6, AllocprocStatus, ExitStatus DEF Next, fork

-----------------------------------------------------------------------------
(* Reference counts.                                                       *)

\* Who holds a file, and who a directory, when the processes are in the states st.
HoldsAt(st, of, f, p, fd) == st[p] = "LIVE" /\ of[p][fd] = f
Holders(st, of, f) == {x \in {p \in Procs : st[p] = "LIVE"} \X FDs : of[x[1]][x[2]] = f}
Inside(st, cw) == {p \in {r \in Procs : st[r] = "LIVE"} : cw[p]}
NothingLeft(st, of, cw) ==
  \A p \in Procs : st[p] # "LIVE" => ~cw[p] /\ \A fd \in FDs : of[p][fd] = Null

\* RefsExact in these terms, before and after a step.
LEMMA RefsParts ==
  /\ RefsExact <=> /\ \A f \in Files : ref[f] = Cardinality(Holders(state, ofile, f))
                   /\ cwdRef = Cardinality(Inside(state, cwd)) /\ NothingLeft(state, ofile, cwd)
  /\ RefsExact' <=> /\ \A f \in Files : ref'[f] = Cardinality(Holders(state', ofile', f))
                    /\ cwdRef' = Cardinality(Inside(state', cwd'))
                    /\ NothingLeft(state', ofile', cwd')
<1>1. RefsExact <=> /\ \A f \in Files : ref[f] = Cardinality(Holders(state, ofile, f))
                    /\ cwdRef = Cardinality(Inside(state, cwd)) /\ NothingLeft(state, ofile, cwd)
  BY DEF RefsExact, Holders, Inside, NothingLeft
<1>2. RefsExact' <=> /\ \A f \in Files : ref'[f] = Cardinality(Holders(state', ofile', f))
                     /\ cwdRef' = Cardinality(Inside(state', cwd'))
                     /\ NothingLeft(state', ofile', cwd')
  BY DEF RefsExact, Holders, Inside, NothingLeft
<1>3. QED
  BY <1>1, <1>2

\* The holders are finitely many pairs.
LEMMA HoldersPairs ==
  ASSUME NEW st, NEW of, NEW f
  PROVE  /\ Holders(st, of, f) \subseteq Procs \X FDs
         /\ IsFiniteSet(Holders(st, of, f)) /\ Cardinality(Holders(st, of, f)) \in Nat
         /\ \A p \in Procs, fd \in FDs : <<p, fd>> \in Holders(st, of, f) <=> HoldsAt(st, of, f, p, fd)
<1>1. Holders(st, of, f) \subseteq Procs \X FDs
  BY DEF Holders
<1>2. IsFiniteSet(Procs \X FDs)
  BY TableAssumption, FilesAssumption, FS_Product
<1>3. IsFiniteSet(Holders(st, of, f))
  BY <1>1, <1>2, FS_Subset
<1>4. Cardinality(Holders(st, of, f)) \in Nat
  BY <1>3, FS_CardinalityType
<1>5. \A p \in Procs, fd \in FDs : <<p, fd>> \in Holders(st, of, f) <=> HoldsAt(st, of, f, p, fd)
  BY DEF Holders, HoldsAt
<1>6. QED
  BY <1>1, <1>3, <1>4, <1>5

\* q begins to hold f with the descriptors in S.
HoldMore(st, of, st2, of2, f, q, S) ==
  \A p \in Procs, fd \in FDs :
    /\ HoldsAt(st2, of2, f, p, fd) <=> (HoldsAt(st, of, f, p, fd) \/ (p = q /\ fd \in S))
    /\ ~(p = q /\ fd \in S /\ HoldsAt(st, of, f, p, fd))

\* Then there are so many holders more.
LEMMA HoldersMore ==
  ASSUME NEW st, NEW of, NEW st2, NEW of2, NEW f, NEW q \in Procs, NEW S \in SUBSET FDs,
         HoldMore(st, of, st2, of2, f, q, S)
  PROVE  /\ Cardinality(S) \in Nat
         /\ Cardinality(Holders(st2, of2, f)) = Cardinality(Holders(st, of, f)) + Cardinality(S)
<1> DEFINE A == Holders(st, of, f)
           B == Holders(st2, of2, f)
           N == {q} \X S
<1>1. /\ A \subseteq Procs \X FDs /\ IsFiniteSet(A) /\ Cardinality(A) \in Nat
      /\ \A p \in Procs, fd \in FDs : <<p, fd>> \in A <=> HoldsAt(st, of, f, p, fd)
  BY HoldersPairs
<1>2. /\ B \subseteq Procs \X FDs
      /\ \A p \in Procs, fd \in FDs : <<p, fd>> \in B <=> HoldsAt(st2, of2, f, p, fd)
  BY HoldersPairs
<1> HIDE DEF A, B
<1>3. N \subseteq Procs \X FDs /\ \A p \in Procs, fd \in FDs : <<p, fd>> \in N <=> (p = q /\ fd \in S)
  OBVIOUS
<1>4. B = A \cup N /\ A \cap N = {}
  <2> HIDE DEF N
  <2>1. \A p \in Procs, fd \in FDs : /\ <<p, fd>> \in B <=> (<<p, fd>> \in A \/ <<p, fd>> \in N)
                                     /\ ~(<<p, fd>> \in A /\ <<p, fd>> \in N)
    BY <1>1, <1>2, <1>3 DEF HoldMore
  <2>2. \A x \in Procs \X FDs : (x \in B <=> (x \in A \/ x \in N)) /\ ~(x \in A /\ x \in N)
    BY <2>1
  <2>3. QED
    BY <1>1, <1>2, <1>3, <2>2
<1>5. IsFiniteSet(S) /\ Cardinality(S) \in Nat
  BY FilesAssumption, FS_Subset, FS_CardinalityType
<1>6. IsFiniteSet({q}) /\ Cardinality({q}) = 1
  BY FS_Singleton
<1>7. IsFiniteSet(N) /\ Cardinality(N) = Cardinality(S)
  <2>1. IsFiniteSet(N) /\ Cardinality(N) = Cardinality({q}) * Cardinality(S)
    BY <1>5, <1>6, FS_Product
  <2>2. QED
    BY <1>5, <1>6, <2>1
<1> HIDE DEF N
<1>8. Cardinality(A \cup N) = Cardinality(A) + Cardinality(N) - Cardinality(A \cap N)
  BY <1>1, <1>7, FS_Union
<1>9. Cardinality(A \cap N) = 0
  BY <1>4, FS_EmptySet
<1>10. Cardinality(B) = Cardinality(A) + Cardinality(S)
  BY <1>1, <1>4, <1>5, <1>7, <1>8, <1>9
<1>11. QED
  BY <1>5, <1>10 DEF A, B

\* Nobody begins or ceases to hold f.
HoldSame(st, of, st2, of2, f) ==
  \A p \in Procs, fd \in FDs : HoldsAt(st2, of2, f, p, fd) <=> HoldsAt(st, of, f, p, fd)

\* Then the holders are the same.
LEMMA HoldersSame ==
  ASSUME NEW st, NEW of, NEW st2, NEW of2, NEW f, HoldSame(st, of, st2, of2, f)
  PROVE  Holders(st2, of2, f) = Holders(st, of, f)
<1> DEFINE A == Holders(st, of, f)
           B == Holders(st2, of2, f)
<1>1. /\ A \subseteq Procs \X FDs
      /\ \A p \in Procs, fd \in FDs : <<p, fd>> \in A <=> HoldsAt(st, of, f, p, fd)
  BY HoldersPairs
<1>2. /\ B \subseteq Procs \X FDs
      /\ \A p \in Procs, fd \in FDs : <<p, fd>> \in B <=> HoldsAt(st2, of2, f, p, fd)
  BY HoldersPairs
<1> HIDE DEF A, B
<1>3. \A p \in Procs, fd \in FDs : <<p, fd>> \in B <=> <<p, fd>> \in A
  BY <1>1, <1>2 DEF HoldSame
<1>4. \A x \in Procs \X FDs : x \in B <=> x \in A
  BY <1>3
<1>5. B = A
  BY <1>1, <1>2, <1>4
<1>6. QED
  BY <1>5 DEF A, B

\* A step that touches no file and no directory and begins and ends no process.
FilesKept ==
  /\ UNCHANGED fileVars
  /\ \A r \in Procs : /\ state'[r] = "LIVE" <=> state[r] = "LIVE"
                      /\ pc'[r] = "zombie" <=> pc[r] = "zombie"
                      /\ pc'[r] = "iput" => (pc[r] = "iput" \/ \A fd \in FDs : ofile[r][fd] = Null)

\* It keeps the counts.
LEMMA QuietFiles ==
  ASSUME FilesInv, FilesKept
  PROVE  FilesInv'
<1>0. /\ FileTypes /\ ClosedInOrder /\ RefsExact /\ UNCHANGED <<ofile, cwd, ref, cwdRef>>
      /\ \A r \in Procs : state'[r] = "LIVE" <=> state[r] = "LIVE"
  BY DEF FilesInv, FilesKept, fileVars
<1>1. FileTypes'
  BY <1>0 DEF FileTypes
<1>2. ClosedInOrder'
  BY <1>0 DEF ClosedInOrder, FilesKept
<1>3. RefsExact'
  <2>1. {r \in Procs : state'[r] = "LIVE"} = {r \in Procs : state[r] = "LIVE"}
    BY <1>0
  <2>2. QED
    BY <1>0, <2>1 DEF RefsExact
<1>4. QED
  BY <1>1, <1>2, <1>3 DEF FilesInv

\* The descriptor fd of p is set to g.
SetDescriptor(p, fd, g) == ofile' = [ofile EXCEPT ![p][fd] = g] /\ state' = state

\* Who holds a file then, and who does not.
LEMMA DescriptorChanged ==
  ASSUME FileTypes, NEW p \in Procs, NEW fd \in FDs, NEW g \in Files \cup {Null}, state[p] = "LIVE",
         SetDescriptor(p, fd, g)
  PROVE  /\ ofile' \in [Procs -> [FDs -> Files \cup {Null}]]
         /\ ofile'[p][fd] = g
         /\ \A r \in Procs, e \in FDs : r # p \/ e # fd => ofile'[r][e] = ofile[r][e]
         /\ \A f \in Files : f # g /\ f # ofile[p][fd] =>
                               Holders(state', ofile', f) = Holders(state, ofile, f)
         /\ g # ofile[p][fd] =>
              /\ Cardinality(Holders(state', ofile', g)) = Cardinality(Holders(state, ofile, g)) + 1
              /\ Cardinality(Holders(state, ofile, ofile[p][fd]))
                   = Cardinality(Holders(state', ofile', ofile[p][fd])) + 1
<1>0. /\ ofile \in [Procs -> [FDs -> Files \cup {Null}]]
      /\ ofile' = [ofile EXCEPT ![p][fd] = g] /\ state' = state
  BY DEF FileTypes, SetDescriptor
<1>1. ofile' \in [Procs -> [FDs -> Files \cup {Null}]] /\ ofile'[p][fd] = g
  BY <1>0
<1>2. \A r \in Procs, e \in FDs : r # p \/ e # fd => ofile'[r][e] = ofile[r][e]
  BY <1>0
<1> DEFINE old == ofile[p][fd]
           S == {fd}
<1>3. Cardinality(S) = 1 /\ S \in SUBSET FDs
  BY FS_Singleton
<1>4. ASSUME NEW f \in Files, f # g, f # old
      PROVE  Holders(state', ofile', f) = Holders(state, ofile, f)
  <2>1. HoldSame(state, ofile, state', ofile', f)
    BY <1>0, <1>1, <1>2, <1>4 DEF HoldSame, HoldsAt
  <2>2. QED
    BY <2>1, HoldersSame
<1>5. ASSUME g # old
      PROVE  Cardinality(Holders(state', ofile', g)) = Cardinality(Holders(state, ofile, g)) + 1
  <2>1. HoldMore(state, ofile, state', ofile', g, p, S)
    BY <1>0, <1>1, <1>2, <1>5 DEF HoldMore, HoldsAt
  <2>2. QED
    BY <1>3, <2>1, HoldersMore
<1>6. ASSUME g # old
      PROVE  Cardinality(Holders(state, ofile, old)) = Cardinality(Holders(state', ofile', old)) + 1
  <2>1. HoldMore(state', ofile', state, ofile, old, p, S)
    BY <1>0, <1>1, <1>2, <1>6 DEF HoldMore, HoldsAt
  <2>2. QED
    BY <1>3, <2>1, HoldersMore
<1>7. QED
  BY <1>1, <1>2, <1>4, <1>5, <1>6

\* open and dup count the new descriptor.
LEMMA OpenFiles ==
  ASSUME FilesInv, NEW p \in Procs, NEW fd \in FDs, NEW f \in Files, openFile(p, fd, f)
  PROVE  FilesInv'
<1>0. /\ FileTypes /\ ClosedInOrder /\ RefsExact /\ Null \notin Files /\ f # Null
      /\ ref \in [Files -> Nat]
  BY FilesAssumption DEF FilesInv, FileTypes
<1>1. /\ state[p] = "LIVE" /\ pc[p] = "user" /\ ofile[p][fd] = Null
      /\ ofile' = [ofile EXCEPT ![p][fd] = f] /\ ref' = [ref EXCEPT ![f] = @ + 1]
      /\ UNCHANGED <<state, pc, cwd, cwdRef>>
  BY DEF openFile, At, idVars
<1> /\ SetDescriptor(p, fd, f) /\ f \in Files \cup {Null} /\ f # ofile[p][fd]
    /\ state[p] = "LIVE" /\ FileTypes /\ \A g \in Files : g # ofile[p][fd]
  BY <1>0, <1>1 DEF SetDescriptor
<1>2. /\ ofile' \in [Procs -> [FDs -> Files \cup {Null}]]
      /\ \A r \in Procs, e \in FDs : r # p \/ e # fd => ofile'[r][e] = ofile[r][e]
      /\ \A g \in Files : g # f => Holders(state', ofile', g) = Holders(state, ofile, g)
      /\ Cardinality(Holders(state', ofile', f)) = Cardinality(Holders(state, ofile, f)) + 1
  BY DescriptorChanged
<1>3. /\ ref' \in [Files -> Nat] /\ ref'[f] = ref[f] + 1
      /\ \A g \in Files : g # f => ref'[g] = ref[g]
  BY <1>0, <1>1
<1>4. FileTypes'
  BY <1>0, <1>1, <1>2, <1>3 DEF FileTypes
<1>5. ClosedInOrder'
  BY <1>0, <1>1, <1>2 DEF ClosedInOrder
<1>6. RefsExact'
  <2>1. \A g \in Files : ref'[g] = Cardinality(Holders(state', ofile', g))
    BY <1>0, <1>2, <1>3, RefsParts
  <2>2. cwdRef' = Cardinality(Inside(state', cwd'))
    BY <1>0, <1>1, RefsParts
  <2>3. NothingLeft(state', ofile', cwd')
    <3>1. NothingLeft(state, ofile, cwd)
      BY <1>0, RefsParts
    <3>2. QED
      BY <1>1, <1>2, <3>1 DEF NothingLeft
  <2>4. QED
    BY <2>1, <2>2, <2>3, RefsParts
<1>7. QED
  BY <1>4, <1>5, <1>6 DEF FilesInv

\* A nonempty set of descriptors has a least one.
LEMMA LeastDescriptor ==
  ASSUME NEW T \in SUBSET FDs, T # {}
  PROVE  Min(T) \in T
<1> DEFINE R == OpToRel(<, Nat)
<1>1. \A x, y \in Nat : <<y, x>> \in R <=> y < x
  BY DEF OpToRel
<1>2. IsWellFoundedOn(R, Nat)
  BY NatLessThanWellFounded
<1>3. T \in SUBSET Nat
  BY FilesAssumption
<1> HIDE DEF R
<1>4. PICK x \in T : \A y \in T : ~(<<y, x>> \in R)
  BY <1>2, <1>3, WFMin
<1>5. ASSUME NEW y \in T
      PROVE  x <= y
  <2>1. x \in Nat /\ y \in Nat
    BY <1>3
  <2>2. ~(y < x)
    BY <1>1, <1>4, <2>1
  <2>3. QED
    BY <2>1, <2>2
<1>6. QED
  BY <1>5 DEF Min

\* exit closes one descriptor after the other.
LEMMA CloseFiles ==
  ASSUME FilesInv, NEW p \in Procs, fileclose(p), ProcessInv
  PROVE  FilesInv'
<1>0. /\ FileTypes /\ ClosedInOrder /\ RefsExact /\ Null \notin Files
      /\ ref \in [Files -> Nat] /\ ofile \in [Procs -> [FDs -> Files \cup {Null}]]
      /\ pc \in [Procs -> {"user"} \cup ForkLabels \cup ExitLabels]
  BY FilesAssumption DEF FilesInv, FileTypes, ProcessInv, SlotTypes
<1> DEFINE open == {fd \in FDs : ofile[p][fd] # Null}
<1>1. state[p] = "LIVE" /\ pc[p] = "close" /\ UNCHANGED <<state, cwd, cwdRef>>
  BY DEF fileclose, At, idVars
<1>2. CASE open = {}
  <2>1. pc' = [pc EXCEPT ![p] = "iput"] /\ UNCHANGED <<ofile, ref>>
    BY <1>2 DEF fileclose, Goto
  <2>2. \A fd \in FDs : ofile[p][fd] = Null
    BY <1>2
  <2>3. pc'[p] = "iput" /\ \A r \in Procs : r # p => pc'[r] = pc[r]
    BY <1>0, <2>1
  <2>4. FilesKept
    BY <1>1, <2>1, <2>2, <2>3 DEF FilesKept, fileVars
  <2>5. QED
    BY <2>4, QuietFiles
<1>3. CASE open # {}
  <2>1. Min(open) \in open
    BY <1>3, LeastDescriptor
  <2> PICK fd \in FDs : fd = Min(open)
    BY <2>1
  <2>2. ofile[p][fd] # Null /\ ofile[p][fd] \in Files
    BY <1>0, <2>1
  <2> PICK f \in Files : f = ofile[p][fd]
    BY <2>2
  <2>3. /\ ref' = [ref EXCEPT ![f] = @ - 1] /\ ofile' = [ofile EXCEPT ![p][fd] = Null]
        /\ UNCHANGED pc
    BY <1>3 DEF fileclose, closed
  <2> HIDE DEF open
  <2> SetDescriptor(p, fd, Null) /\ Null \in Files \cup {Null} /\ Null # ofile[p][fd]
    BY <1>1, <2>2, <2>3 DEF SetDescriptor
  <2>4. /\ ofile' \in [Procs -> [FDs -> Files \cup {Null}]] /\ ofile'[p][fd] = Null
        /\ \A r \in Procs, e \in FDs : r # p \/ e # fd => ofile'[r][e] = ofile[r][e]
        /\ \A g \in Files : g # f => Holders(state', ofile', g) = Holders(state, ofile, g)
        /\ Cardinality(Holders(state, ofile, f)) = Cardinality(Holders(state', ofile', f)) + 1
    BY <1>0, <1>1, <2>2, DescriptorChanged
  <2>5. Cardinality(Holders(state', ofile', f)) \in Nat
    BY HoldersPairs
  <2>6. ref[f] = Cardinality(Holders(state', ofile', f)) + 1
    BY <1>0, <2>4, RefsParts
  <2>7. /\ ref' \in [Files -> Nat] /\ ref'[f] = Cardinality(Holders(state', ofile', f))
        /\ \A g \in Files : g # f => ref'[g] = ref[g]
    BY <1>0, <2>3, <2>5, <2>6
  <2>8. FileTypes'
    BY <1>0, <1>1, <2>4, <2>7 DEF FileTypes
  <2>9. ClosedInOrder'
    BY <1>0, <1>1, <2>3, <2>4 DEF ClosedInOrder
  <2>10. RefsExact'
    <3>1. \A g \in Files : ref'[g] = Cardinality(Holders(state', ofile', g))
      BY <1>0, <2>4, <2>7, RefsParts
    <3>2. cwdRef' = Cardinality(Inside(state', cwd'))
      BY <1>0, <1>1, RefsParts
    <3>3. NothingLeft(state', ofile', cwd')
      <4>1. NothingLeft(state, ofile, cwd)
        BY <1>0, RefsParts
      <4>2. QED
        BY <1>1, <2>4, <4>1 DEF NothingLeft
    <3>4. QED
      BY <3>1, <3>2, <3>3, RefsParts
  <2>11. QED
    BY <2>8, <2>9, <2>10 DEF FilesInv
<1>4. QED
  BY <1>2, <1>3

\* Those inside a directory are finitely many.
LEMMA InsideFinite ==
  ASSUME NEW st, NEW cw
  PROVE  IsFiniteSet(Inside(st, cw)) /\ Cardinality(Inside(st, cw)) \in Nat
<1>1. Inside(st, cw) \in SUBSET Procs
  BY DEF Inside
<1>2. QED
  BY <1>1, TableAssumption, FS_Subset, FS_CardinalityType

\* exit leaves the directory.
LEMMA IputFiles ==
  ASSUME ProcessInv, FilesInv, NEW p \in Procs, iput(p)
  PROVE  FilesInv'
<1>0. /\ FileTypes /\ ClosedInOrder /\ RefsExact
      /\ cwd \in [Procs -> BOOLEAN] /\ pc \in [Procs -> {"user"} \cup ForkLabels \cup ExitLabels]
  BY DEF FilesInv, FileTypes, ProcessInv, SlotTypes
<1>1. /\ state[p] = "LIVE" /\ pc[p] = "iput" /\ cwdRef' = cwdRef - 1
      /\ cwd' = [cwd EXCEPT ![p] = FALSE] /\ pc' = [pc EXCEPT ![p] = "zombie"]
      /\ UNCHANGED <<state, ofile, ref>>
  BY DEF iput, At, Goto, idVars
<1>2. cwd' \in [Procs -> BOOLEAN] /\ ~cwd'[p] /\ \A r \in Procs : r # p => cwd'[r] = cwd[r]
  BY <1>0, <1>1
<1>3. pc'[p] = "zombie" /\ \A r \in Procs : r # p => pc'[r] = pc[r]
  BY <1>0, <1>1
<1>4. cwd[p] /\ \A fd \in FDs : ofile[p][fd] = Null
  BY <1>0, <1>1 DEF ClosedInOrder
<1>5. Inside(state', cwd') = Inside(state, cwd) \ {p} /\ p \in Inside(state, cwd)
  BY <1>1, <1>2, <1>4 DEF Inside
<1>6. cwdRef = Cardinality(Inside(state, cwd))
  BY <1>0, RefsParts
<1>7. cwdRef' = Cardinality(Inside(state', cwd')) /\ cwdRef' \in Nat
  <2>1. IsFiniteSet(Inside(state, cwd)) /\ Cardinality(Inside(state', cwd')) \in Nat
    BY InsideFinite
  <2>2. Cardinality(Inside(state, cwd) \ {p}) = Cardinality(Inside(state, cwd)) - 1
    BY <1>5, <2>1, FS_RemoveElement
  <2>3. QED
    BY <1>1, <1>5, <1>6, <2>1, <2>2
<1>8. FileTypes'
  BY <1>0, <1>1, <1>2, <1>7 DEF FileTypes
<1>9. ClosedInOrder'
  BY <1>0, <1>1, <1>2, <1>3, <1>4 DEF ClosedInOrder
<1>10. RefsExact'
  <2>1. \A f \in Files : ref'[f] = Cardinality(Holders(state', ofile', f))
    BY <1>0, <1>1, RefsParts
  <2>2. NothingLeft(state', ofile', cwd')
    <3>1. NothingLeft(state, ofile, cwd)
      BY <1>0, RefsParts
    <3>2. QED
      BY <1>1, <1>2, <3>1 DEF NothingLeft
  <2>3. QED
    BY <1>7, <2>1, <2>2, RefsParts
<1>11. QED
  BY <1>8, <1>9, <1>10 DEF FilesInv

\* What becomes a zombie holds nothing any more.
LEMMA ZombieFiles ==
  ASSUME ProcessInv, FilesInv, NEW p \in Procs, zombie(p)
  PROVE  FilesInv'
<1>0. /\ FileTypes /\ ClosedInOrder /\ RefsExact /\ Null \notin Files
      /\ state \in [Procs -> {"UNUSED", "USED", "LIVE", "ZOMBIE"}]
  BY FilesAssumption DEF FilesInv, ProcessInv, SlotTypes
<1>1. /\ state[p] = "LIVE" /\ pc[p] = "zombie" /\ state' = [state EXCEPT ![p] = "ZOMBIE"]
      /\ UNCHANGED <<pc, ofile, ref, cwd, cwdRef>>
  BY DEF zombie, At, fileVars
<1>2. state'[p] = "ZOMBIE" /\ \A r \in Procs : r # p => state'[r] = state[r]
  BY <1>0, <1>1
<1>3. ~cwd[p] /\ \A fd \in FDs : ofile[p][fd] = Null
  BY <1>0, <1>1 DEF ClosedInOrder
<1>4. FileTypes'
  BY <1>0, <1>1 DEF FileTypes
<1>5. ClosedInOrder'
  BY <1>0, <1>1, <1>2 DEF ClosedInOrder
<1>6. RefsExact'
  <2>1. ASSUME NEW f \in Files
        PROVE  ref'[f] = Cardinality(Holders(state', ofile', f))
    <3>1. HoldSame(state, ofile, state', ofile', f)
      BY <1>0, <1>1, <1>2, <1>3 DEF HoldSame, HoldsAt
    <3>2. Holders(state', ofile', f) = Holders(state, ofile, f)
      BY <3>1, HoldersSame
    <3>3. QED
      BY <1>0, <1>1, <3>2, RefsParts
  <2>2. Inside(state', cwd') = Inside(state, cwd)
    BY <1>1, <1>2, <1>3 DEF Inside
  <2>3. cwdRef' = Cardinality(Inside(state', cwd'))
    BY <1>0, <1>1, <2>2, RefsParts
  <2>4. NothingLeft(state', ofile', cwd')
    <3>1. NothingLeft(state, ofile, cwd)
      BY <1>0, RefsParts
    <3>2. QED
      BY <1>1, <1>2, <1>3, <3>1 DEF NothingLeft
  <2>5. QED
    BY <2>1, <2>3, <2>4, RefsParts
<1>7. QED
  BY <1>4, <1>5, <1>6 DEF FilesInv

\* The child holds what its parent holds.
LEMMA ForkFiles ==
  ASSUME ProcessInv, FilesInv, NEW p \in Procs, forkDone(p)
  PROVE  FilesInv'
<1>0. /\ FileTypes /\ ClosedInOrder /\ RefsExact /\ Null \notin Files
      /\ state \in [Procs -> {"UNUSED", "USED", "LIVE", "ZOMBIE"}]
      /\ pc \in [Procs -> {"user"} \cup ForkLabels \cup ExitLabels]
      /\ ofile \in [Procs -> [FDs -> Files \cup {Null}]] /\ ref \in [Files -> Nat]
      /\ cwd \in [Procs -> BOOLEAN] /\ cwdRef \in Nat
  BY FilesAssumption DEF FilesInv, FileTypes, ProcessInv, SlotTypes
<1>1. pc[p] \in ForkLabels
  BY DEF forkDone, At, ForkLabels
<1> PICK q \in Procs : q = np[p]
  BY <1>1, ForkSlot
<1>2. state[p] = "LIVE" /\ state[q] = "USED" /\ q # p
  BY <1>1, ForkSlot
<1>3. /\ ofile' = [ofile EXCEPT ![q] = [fd \in FDs |-> IF ofile[p][fd] # Null
                                                       THEN ofile[p][fd] ELSE @[fd]]]
      /\ ref' = [f \in Files |-> ref[f] + dupRefs(p, f)]
      /\ cwd' = [cwd EXCEPT ![q] = TRUE] /\ cwdRef' = cwdRef + 1
      /\ state' = [state EXCEPT ![q] = "LIVE"]
      /\ pc' = [pc EXCEPT ![p] = "user", ![q] = "user"]
  BY DEF forkDone
<1>4. ~cwd[q] /\ \A fd \in FDs : ofile[q][fd] = Null
  <2>1. NothingLeft(state, ofile, cwd)
    BY <1>0, RefsParts
  <2>2. QED
    BY <1>2, <2>1 DEF NothingLeft
<1>5. /\ ofile' \in [Procs -> [FDs -> Files \cup {Null}]]
      /\ \A fd \in FDs : ofile'[q][fd] = ofile[p][fd]
      /\ \A r \in Procs : r # q => ofile'[r] = ofile[r]
  <2> DEFINE t == [fd \in FDs |-> IF ofile[p][fd] # Null THEN ofile[p][fd] ELSE ofile[q][fd]]
  <2>1. t \in [FDs -> Files \cup {Null}] /\ \A fd \in FDs : t[fd] = ofile[p][fd]
    BY <1>0, <1>4
  <2>2. ofile' = [ofile EXCEPT ![q] = t]
    BY <1>3
  <2> HIDE DEF t
  <2>3. QED
    BY <1>0, <2>1, <2>2
<1>6. cwd' \in [Procs -> BOOLEAN] /\ cwd'[q] /\ \A r \in Procs : r # q => cwd'[r] = cwd[r]
  BY <1>0, <1>3
<1>7. /\ state'[q] = "LIVE" /\ \A r \in Procs : r # q => state'[r] = state[r]
      /\ pc'[p] = "user" /\ pc'[q] = "user"
      /\ \A r \in Procs : r \notin {p, q} => pc'[r] = pc[r]
  BY <1>0, <1>3
<1>8. cwd[p]
  BY <1>0, <1>1, <1>2 DEF ClosedInOrder, ForkLabels
<1>9. ASSUME NEW f \in Files
      PROVE  /\ dupRefs(p, f) \in Nat
             /\ ref[f] + dupRefs(p, f) = Cardinality(Holders(state', ofile', f))
  <2> DEFINE S == {fd \in FDs : ofile[p][fd] = f}
  <2>1. S \in SUBSET FDs
    OBVIOUS
  <2>2. HoldMore(state, ofile, state', ofile', f, q, S)
    BY <1>2, <1>4, <1>5, <1>7 DEF HoldMore, HoldsAt
  <2>3. dupRefs(p, f) = Cardinality(S)
    BY DEF dupRefs
  <2> HIDE DEF S
  <2>4. /\ Cardinality(S) \in Nat
        /\ Cardinality(Holders(state', ofile', f)) = Cardinality(Holders(state, ofile, f)) + Cardinality(S)
    BY <2>1, <2>2, HoldersMore
  <2>5. ref[f] = Cardinality(Holders(state, ofile, f))
    BY <1>0, RefsParts
  <2>6. QED
    BY <2>3, <2>4, <2>5
<1>10. ref' \in [Files -> Nat] /\ \A f \in Files : ref'[f] = Cardinality(Holders(state', ofile', f))
  <2>1. \A f \in Files : ref[f] + dupRefs(p, f) \in Nat
    BY <1>0, <1>9
  <2>2. QED
    BY <1>3, <1>9, <2>1
<1>11. FileTypes'
  BY <1>0, <1>3, <1>5, <1>6, <1>10 DEF FileTypes
<1>12. ClosedInOrder'
  BY <1>0, <1>2, <1>5, <1>6, <1>7, <1>8 DEF ClosedInOrder
<1>13. RefsExact'
  <2>1. Inside(state', cwd') = Inside(state, cwd) \cup {q} /\ q \notin Inside(state, cwd)
    BY <1>2, <1>4, <1>6, <1>7 DEF Inside
  <2>2. IsFiniteSet(Inside(state, cwd))
    BY InsideFinite
  <2>3. Cardinality(Inside(state', cwd')) = Cardinality(Inside(state, cwd)) + 1
    BY <2>1, <2>2, FS_AddElement
  <2>4. cwdRef' = Cardinality(Inside(state', cwd'))
    BY <1>0, <1>3, <2>3, RefsParts
  <2>5. NothingLeft(state', ofile', cwd')
    <3>1. NothingLeft(state, ofile, cwd)
      BY <1>0, RefsParts
    <3>2. QED
      BY <1>5, <1>6, <1>7, <3>1 DEF NothingLeft
  <2>6. QED
    BY <1>10, <2>4, <2>5, RefsParts
<1>14. QED
  BY <1>11, <1>12, <1>13 DEF FilesInv

\* Every step keeps the reference counts.
LEMMA FilesNext ==
  ASSUME ProcessInv, FilesInv, [Next]_vars
  PROVE  FilesInv'
<1>0. /\ state \in [Procs -> {"UNUSED", "USED", "LIVE", "ZOMBIE"}]
      /\ pc \in [Procs -> {"user"} \cup ForkLabels \cup ExitLabels]
  BY DEF ProcessInv, SlotTypes
<1>1. CASE UNCHANGED vars
  BY <1>1, QuietFiles DEF FilesKept, vars, idVars
<1>2. ASSUME NEW p \in Procs, NEW l \in {"user", "close"} \cup ForkLabels,
             pc[p] \in {"user"} \cup ForkLabels, pc' = [pc EXCEPT ![p] = l], UNCHANGED fileVars,
             \A r \in Procs : state'[r] = "LIVE" <=> state[r] = "LIVE"
      PROVE  FilesInv'
  <2>1. l \notin {"iput", "zombie"} /\ pc[p] \notin {"iput", "zombie"}
    BY <1>2 DEF ForkLabels
  <2>2. pc'[p] = l /\ \A r \in Procs : r # p => pc'[r] = pc[r]
    BY <1>0, <1>2
  <2>3. FilesKept
    BY <1>2, <2>1, <2>2 DEF FilesKept
  <2>4. QED
    BY <2>3, QuietFiles
<1>3. ASSUME NEW p \in Procs,
             \/ allocTrapframe(p) \/ uvmcreate(p) \/ mapTrampoline(p) \/ mapTrapframe(p)
             \/ uvmcopyFails(p) \/ \E v \in Statuses : exit(p, v)
      PROVE  FilesInv'
  <2>1. /\ pc[p] \in {"user"} \cup ForkLabels /\ UNCHANGED fileVars /\ state' = state
        /\ \E l \in {"user", "close"} \cup ForkLabels : pc' = [pc EXCEPT ![p] = l]
    BY <1>3 DEF allocTrapframe, uvmcreate, mapTrampoline, mapTrapframe, mapLeaf, uvmcopyFails,
       exit, At, Goto, idVars, ForkLabels
  <2>2. \A r \in Procs : state'[r] = "LIVE" <=> state[r] = "LIVE"
    BY <2>1
  <2>3. PICK l \in {"user", "close"} \cup ForkLabels : pc' = [pc EXCEPT ![p] = l]
    BY <2>1
  <2>4. QED
    BY <1>2, <2>1, <2>2, <2>3
<1>4. ASSUME NEW p \in Procs, allocproc(p)
      PROVE  FilesInv'
  <2>1. PICK q \in Procs : state[q] = "UNUSED" /\ state' = [state EXCEPT ![q] = "USED"]
    BY <1>4 DEF allocproc
  <2>2. \A r \in Procs : state'[r] = "LIVE" <=> state[r] = "LIVE"
    BY <1>0, <2>1
  <2>3. /\ pc[p] \in {"user"} \cup ForkLabels /\ pc' = [pc EXCEPT ![p] = "trapframe"]
        /\ UNCHANGED fileVars /\ "trapframe" \in {"user", "close"} \cup ForkLabels
    BY <1>4 DEF allocproc, At, Goto, ForkLabels
  <2>4. QED
    BY <1>2, <2>2, <2>3
<1>5. ASSUME NEW p \in Procs, forkFail(p)
      PROVE  FilesInv'
  <2>1. pc[p] \in ForkLabels
    BY <1>5 DEF forkFail, At, ForkLabels
  <2> PICK q \in Procs : q = np[p]
    BY <2>1, ForkSlot
  <2>2. state[q] = "USED"
    BY <2>1, ForkSlot
  <2>3. /\ state' = [state EXCEPT ![q] = "UNUSED"] /\ pc' = [pc EXCEPT ![p] = "user"]
        /\ UNCHANGED fileVars
    BY <1>5 DEF forkFail, freeproc, Goto
  <2>4. \A r \in Procs : state'[r] = "LIVE" <=> state[r] = "LIVE"
    BY <1>0, <2>2, <2>3
  <2>5. QED
    BY <1>2, <2>1, <2>3, <2>4
<1>6. ASSUME NEW p \in Procs, NEW q \in Procs, wait(p, q)
      PROVE  FilesInv'
  <2>1. CASE ~UNCHANGED vars
    <3>1. /\ state[q] = "ZOMBIE" /\ state' = [state EXCEPT ![q] = "UNUSED"]
          /\ UNCHANGED <<fileVars, pc>>
      BY <1>6, <2>1 DEF wait, reap, freeproc
    <3>2. FilesKept
      BY <1>0, <3>1 DEF FilesKept
    <3>3. QED
      BY <3>2, QuietFiles
  <2>2. QED
    BY <1>1, <2>1
<1>7. ASSUME NEW p \in Procs, NEW a \in Args, growproc(p, a)
      PROVE  FilesInv'
  <2>1. UNCHANGED <<fileVars, pc, state>>
    BY <1>7 DEF growproc, idVars
  <2>2. FilesKept
    BY <2>1 DEF FilesKept
  <2>3. QED
    BY <2>2, QuietFiles
<1>8. QED
  BY <1>1, <1>3, <1>4, <1>5, <1>6, <1>7, OpenFiles, CloseFiles, IputFiles, ZombieFiles, ForkFiles
     DEF Next, fork

-----------------------------------------------------------------------------
(* The first process, and the theorems.                                    *)

\* The invariant holds when the first process starts.
LEMMA InitOK ==
  ASSUME Init
  PROVE  ProcessInv /\ TablesInv /\ PagesInv /\ FilesInv /\ StatusInv
<1> DEFINE t == [tables |-> 1, leaves |-> {"TRAMPOLINE", "TRAPFRAME"}, user |-> 1]
           only(v, w) == [p \in Procs |-> IF p = initproc THEN v ELSE w]
<1>0. /\ initproc \in Procs /\ Null \notin Procs /\ Null \notin Files
      /\ Cardinality(Procs) \in Nat /\ NPages \in Nat /\ Cardinality(Procs) + 3 <= NPages
      /\ PGSIZE \in Nat /\ PGSIZE >= 1 /\ MaxPid \in Nat /\ MaxPid >= 1
  BY TableAssumption, FilesAssumption, SizesAssumption, ArgumentsAssumption, FS_CardinalityType
<1>1. /\ t \in AnyTable /\ t.leaves = Both /\ t.user = 1 /\ PagesIn(t) = 2 /\ t # NoTable
      /\ NoTable \in AnyTable
  BY DEF AnyTable, Both, PagesIn, NoTable
<1>2. /\ state = only("LIVE", "UNUSED") /\ pid = only(1, 0) /\ nextpid = 2
      /\ parent = [p \in Procs |-> Null] /\ xstate = [p \in Procs |-> 0]
      /\ free = NPages - Cardinality(Procs) - 1 - PagesIn(t)
      /\ trapframe = only(TRUE, FALSE) /\ pagetable = only(t, NoTable) /\ sz = only(PGSIZE, 0)
      /\ ofile = [p \in Procs |-> [fd \in FDs |-> Null]] /\ ref = [f \in Files |-> 0]
      /\ cwd = only(TRUE, FALSE) /\ cwdRef = 1
      /\ pc = [p \in Procs |-> "user"] /\ np = [p \in Procs |-> Null]
      /\ tab = [p \in Procs |-> NoTable]
      /\ status = [i \in 1..MaxPid |-> None] /\ got = [i \in 1..MaxPid |-> None]
      /\ panicked = FALSE
  BY DEF Init
<1> HIDE DEF t
<1>3. "user" \notin ForkLabels /\ "user" \notin ExitLabels /\ LeavesAt("user") = {}
  BY DEF ForkLabels, ExitLabels, LeavesAt
<1>4. ProcessInv
  <2>1. SlotTypes
    BY <1>0, <1>2 DEF SlotTypes
  <2>2. SlotsInv
    BY <1>2, <1>3 DEF SlotsInv
  <2>3. QED
    BY <2>1, <2>2 DEF ProcessInv
<1>5. free \in Nat /\ free + Cardinality(Procs) + 3 = NPages
  BY <1>0, <1>1, <1>2
<1>6. PGSIZE \in 0..(WordModulus - 1) /\ 0 \in 0..(WordModulus - 1)
  <2> DEFINE all == NPages * PGSIZE
  <2>1. all \in Nat /\ PGSIZE <= all
    <3>1. NPages >= 1
      BY <1>0
    <3>2. QED
      BY <1>0, <3>1
  <2>2. all + IntModulus < WordModulus /\ IntModulus \in Nat /\ WordModulus \in Nat
    BY SizesAssumption
  <2> HIDE DEF all
  <2>3. QED
    BY <1>0, <2>1, <2>2
<1>7. TablesInv
  <2>1. trapframe \in [Procs -> BOOLEAN] /\ panicked \in BOOLEAN
    BY <1>2
  <2>2. MemoryTypes
    BY <1>1, <1>2, <1>5, <1>6, <2>1 DEF MemoryTypes
  <2>3. PagesOf(PGSIZE) = 1
    BY <1>0, PageArithmetic
  <2>4. ASSUME NEW p \in Procs
        PROVE  TableOK(p)
    <3>1. tab[p] = NoTable /\ pc[p] = "user"
      BY <1>2
    <3>2. tab[p].leaves = LeavesAt(pc[p]) /\ tab[p].user = 0
      BY <1>3, <3>1, Tables
    <3>3. CASE p = initproc
      <4>1. state[p] = "LIVE" /\ pagetable[p] = t /\ sz[p] = PGSIZE
        BY <1>0, <1>2, <3>3
      <4>2. QED
        BY <1>1, <1>3, <2>3, <3>1, <3>2, <4>1 DEF TableOK
    <3>4. CASE p # initproc
      <4>1. state[p] = "UNUSED" /\ pagetable[p] = NoTable /\ sz[p] = 0
        BY <1>2, <3>4
      <4>2. trapframe[p] = FALSE
        BY <1>2, <3>4
      <4>3. QED
        BY <1>3, <3>1, <3>2, <4>1, <4>2 DEF TableOK
    <3>5. QED
      BY <3>3, <3>4
  <2>5. QED
    BY <1>2, <2>2, <2>4 DEF TablesInv, MemoryInv
<1>8. PagesInv
  <2> DEFINE z == [p \in Procs |-> 0]
             n == 3
  <2>1. PageSet(z) = {}
    BY DEF PageSet
  <2>2. Cardinality(PageSet(z)) = 0
    BY <2>1, FS_EmptySet
  <2>3. Owned = [z EXCEPT ![initproc] = n]
    <3>1. \A p \in Procs : /\ Bool2Nat(trapframe[p]) = IF p = initproc THEN 1 ELSE 0
                           /\ PagesIn(pagetable[p]) = IF p = initproc THEN 2 ELSE 0
                           /\ PagesIn(tab[p]) = 0
      <4>1. \A p \in Procs : Bool2Nat(trapframe[p]) = IF p = initproc THEN 1 ELSE 0
        BY <1>2 DEF Bool2Nat
      <4>2. \A p \in Procs : pagetable[p] = (IF p = initproc THEN t ELSE NoTable) /\ tab[p] = NoTable
        BY <1>2
      <4>3. QED
        BY <1>1, <4>1, <4>2, PagesInRoot
    <3>2. Owned = [p \in Procs |-> IF p = initproc THEN 3 ELSE 0]
      BY <3>1 DEF Owned
    <3>3. QED
      BY <3>2
  <2>4. z \in [Procs -> Nat] /\ z[initproc] = 0 /\ n \in Nat
    BY <1>0
  <2> HIDE DEF z, n
  <2>5. Cardinality(PageSet(Owned)) = Cardinality(PageSet(z)) - z[initproc] + n
    BY <1>0, <2>3, <2>4, PageSetChange
  <2>6. Cardinality(PageSet(Owned)) = 3
    BY <2>2, <2>4, <2>5 DEF n
  <2>7. QED
    BY <1>5, <2>6 DEF PagesInv
<1>9. FilesInv
  <2>1. cwd \in [Procs -> BOOLEAN]
    BY <1>2
  <2>2. FileTypes
    BY <1>2, <2>1 DEF FileTypes
  <2>3. ClosedInOrder
    <3>1. \A p \in Procs : state[p] = "LIVE" => cwd[p]
      BY <1>2
    <3>2. QED
      BY <1>2, <3>1 DEF ClosedInOrder
  <2>4. ASSUME NEW f \in Files
        PROVE  ref[f] = Cardinality(Holders(state, ofile, f))
    <3>1. Holders(state, ofile, f) = {}
      BY <1>0, <1>2 DEF Holders
    <3>2. QED
      BY <1>2, <3>1, FS_EmptySet
  <2>5. Inside(state, cwd) = {initproc}
    BY <1>0, <1>2 DEF Inside
  <2>6. cwdRef = Cardinality(Inside(state, cwd))
    BY <1>2, <2>5, FS_Singleton
  <2>7. NothingLeft(state, ofile, cwd)
    <3>1. \A p \in Procs : state[p] # "LIVE" => ~cwd[p]
      BY <1>2
    <3>2. \A p \in Procs, fd \in FDs : ofile[p][fd] = Null
      BY <1>2
    <3>3. QED
      BY <3>1, <3>2 DEF NothingLeft
  <2>8. QED
    BY <2>2, <2>3, <2>4, <2>6, <2>7, RefsParts DEF FilesInv
<1>10. StatusInv
  <2>1. StatusTypes
    BY <1>0, <1>2 DEF StatusTypes
  <2>2. PidsDiffer
    BY <1>2 DEF PidsDiffer
  <2>3. StatusesRecorded
    BY <1>2, <1>3 DEF StatusesRecorded
  <2>4. StatusKept
    BY <1>2 DEF StatusKept
  <2>5. QED
    BY <2>1, <2>2, <2>3, <2>4 DEF StatusInv
<1>11. QED
  BY <1>4, <1>7, <1>8, <1>9, <1>10

\* The inductive invariant of fork, sbrk, exit and wait: forks have slots to themselves,
\* page tables are complete where freeproc meets them, and pages, references and exit
\* statuses are all accounted for.
ResourcesInv == ProcessInv /\ TablesInv /\ PagesInv /\ FilesInv /\ StatusInv

\* It holds in every state, whichever allocation of whichever process fails.
THEOREM ResourcesInvariant == Spec => []ResourcesInv
<1>1. Init => ResourcesInv
  BY InitOK DEF ResourcesInv
<1>2. ResourcesInv /\ [Next]_vars => ResourcesInv'
  BY ProcessNext, TablesNext, PagesNext, FilesNext, StatusNext DEF ResourcesInv
<1>3. QED
  BY <1>1, <1>2, PTL DEF Spec

\* The invariant implies the types.
LEMMA InvTypes ==
  ASSUME ResourcesInv
  PROVE  ResTypeOK
<1>0. SlotTypes /\ MemoryTypes /\ FileTypes /\ StatusTypes
  BY DEF ResourcesInv, ProcessInv, TablesInv, FilesInv, StatusInv
<1>1. \A p \in Procs :
        /\ pagetable[p].tables \in 0..NPages /\ pagetable[p].user \in 0..NPages
        /\ tab[p].tables \in 0..NPages /\ tab[p].user \in 0..NPages
  BY PagesBounded DEF ResourcesInv
<1>2. free \in 0..NPages
  BY PagesBounded, TableAssumption DEF ResourcesInv
<1>3. ASSUME NEW x \in AnyTable, x.tables \in 0..NPages, x.user \in 0..NPages
      PROVE  x \in TableType
  BY <1>3 DEF AnyTable, TableType, Both
<1>4. pagetable \in [Procs -> TableType] /\ tab \in [Procs -> TableType]
  <2>1. \A p \in Procs : pagetable[p] \in AnyTable /\ tab[p] \in AnyTable
    BY <1>0 DEF MemoryTypes
  <2>2. \A p \in Procs : pagetable[p] \in TableType /\ tab[p] \in TableType
    BY <1>1, <1>3, <2>1
  <2>3. QED
    BY <1>0, <2>2 DEF MemoryTypes
<1>5. QED
  BY <1>0, <1>2, <1>4 DEF ResTypeOK, SlotTypes, MemoryTypes, FileTypes, StatusTypes

\* Type correctness of fork, sbrk, exit and wait, with the bound of physical memory on
\* the free list and on every page table.
THEOREM ResourcesTypeCorrect == Spec => []ResTypeOK
<1>1. ResourcesInv => ResTypeOK
  BY InvTypes
<1>2. QED
  BY <1>1, ResourcesInvariant, PTL

\* No page is lost or given back twice, whichever allocation fails in allocproc,
\* proc_pagetable, uvmcopy or uvmalloc.
THEOREM PagesAreConserved == Spec => []PagesConserved
<1>1. ResourcesInv => PagesConserved
  <2>1. SUFFICES ASSUME PagesInv
                 PROVE  PagesConserved
    BY DEF ResourcesInv
  <2>2. PageSet(Owned) = UNION {{p} \X (1..(Bool2Nat(trapframe[p]) + PagesIn(pagetable[p]) + PagesIn(tab[p])))
                                  : p \in Procs}
    BY DEF PageSet, Owned
  <2>3. QED
    BY <2>1, <2>2 DEF PagesInv, PagesConserved
<1>2. QED
  BY <1>1, ResourcesInvariant, PTL

\* freeproc and the error paths of proc_pagetable unmap what is mapped, and all of it,
\* before the table is freed: vm.c never panics.
THEOREM VmNeverPanics == Spec => []NoVmPanic
<1>1. ResourcesInv => NoVmPanic
  BY DEF ResourcesInv, TablesInv, NoVmPanic
<1>2. QED
  BY <1>1, ResourcesInvariant, PTL

\* The counts of files and of the directory are the numbers of holders, however forks,
\* closes and exits interleave.
THEOREM ReferencesExact == Spec => []RefsExact
<1>1. ResourcesInv => RefsExact
  BY DEF ResourcesInv, FilesInv
<1>2. QED
  BY <1>1, ResourcesInvariant, PTL

\* fetchaddr accepts the words below p->sz, just those, and they are in pages of p.
THEOREM FetchesInBounds == Spec => []FetchInBounds
<1>1. ResourcesInv => FetchInBounds
  BY FetchBounds DEF ResourcesInv
<1>2. QED
  BY <1>1, ResourcesInvariant, PTL

\* An exit status stays in its zombie until a wait has handed it over.
THEOREM StatusesKept == Spec => []StatusKept
<1>1. ResourcesInv => StatusKept
  BY DEF ResourcesInv, StatusInv
<1>2. QED
  BY <1>1, ResourcesInvariant, PTL
=============================================================================
