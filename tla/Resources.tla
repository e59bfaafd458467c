----------------------------- MODULE Resources -----------------------------
(***************************************************************************)
(* What a process owns: pages, a page table, open files, a directory and   *)
(* an exit status, through allocproc, fork, growproc, exit and wait with   *)
(* the failure of every allocation in them.  Scheduling is left out: any   *)
(* live process may take its next step, as on any number of CPUs.          *)
(***************************************************************************)
EXTENDS Integers, FiniteSets, FiniteSetsExt

CONSTANTS
  Procs,        \* the slots of proc[]
  initproc,     \* the slot of the first process
  NPages,       \* the pages of physical memory
  PGSIZE,       \* bytes of a page
  WORD,         \* sizeof(uint64)
  WordModulus,  \* 2^64, scaled down
  IntModulus,   \* 2^32, scaled down
  Args,         \* arguments of sbrk, as they are in a register
  FDs, Files,   \* the indices of p->ofile, the entries of the file table
  Statuses,     \* arguments of exit
  MaxPid        \* bound: no fork beyond this pid

Null == 0
None == -1
Discarded == -2

ASSUME TableAssumption ==
  IsFiniteSet(Procs) /\ initproc \in Procs /\ Null \notin Procs
ASSUME FilesAssumption ==
  IsFiniteSet(FDs) /\ FDs \subseteq Nat /\ Null \notin Files
ASSUME SizesAssumption ==
  /\ PGSIZE \in Nat \ {0} /\ WORD \in Nat \ {0} /\ NPages \in Nat
  /\ IntModulus \in Nat \ {0} /\ IntModulus % 2 = 0 /\ WORD <= IntModulus
  /\ WordModulus \in Nat /\ NPages * PGSIZE + IntModulus < WordModulus
                                             \* physical memory is far smaller
  /\ Cardinality(Procs) + 3 <= NPages        \* and enough for the first process
ASSUME ArgumentsAssumption ==
  Args \subseteq Nat /\ MaxPid \in Nat \ {0}

VARIABLES
  state,        \* p->state; "LIVE" stands for RUNNABLE, RUNNING and SLEEPING
  pid, parent, xstate, nextpid,
  free,         \* the number of pages that kalloc can still hand out
  trapframe,    \* p->trapframe # 0
  pagetable,    \* p->pagetable, see NoTable
  sz,           \* p->sz
  ofile, cwd,   \* p->ofile[fd]; p->cwd # 0
  ref, cwdRef,  \* the reference counts of the files and of the directory
  pc,           \* where the system call of p is
  np,           \* the child that fork of p is making
  tab,          \* the page table that proc_pagetable is making for it
  status, got,  \* by pid: the argument of exit, what wait gave to the parent
  panicked

idVars == <<state, pid, parent, xstate, nextpid, status, got>>
memVars == <<free, trapframe, pagetable, sz>>
fileVars == <<ofile, cwd, ref, cwdRef>>
vars == <<idVars, memVars, fileVars, pc, np, tab, panicked>>

-----------------------------------------------------------------------------
(* Page tables, from how proc.c uses vm.c.                                 *)

\* A page table: the pages that it is made of (none for a null pointer), what
\* is mapped in it besides user memory, and the number of user pages.
NoTable == [tables |-> 0, leaves |-> {}, user |-> 0]

\* PGROUNDUP(s) / PGSIZE
PagesOf(s) == (s + PGSIZE - 1) \div PGSIZE

PagesIn(t) == t.tables + t.user

\* uvmunmap and uvmfree panic when a page to unmap is not mapped, uvmfree also
\* when something is still mapped after that.
uvmunmapFails(t, leaves) == ~(leaves \subseteq t.leaves)
uvmfreeFails(t, s) == t.user # PagesOf(s) \/ t.leaves # {}

Bool2Nat(b) == IF b THEN 1 ELSE 0

-----------------------------------------------------------------------------
Goto(p, l) == pc' = [pc EXCEPT ![p] = l]

At(p, l) == state[p] = "LIVE" /\ pc[p] = l

\* proc_freepagetable: whether one of its calls panics.
proc_freepagetable(t, s) ==
  \/ uvmunmapFails(t, {"TRAMPOLINE", "TRAPFRAME"})
  \/ uvmfreeFails([t EXCEPT !.leaves = @ \ {"TRAMPOLINE", "TRAPFRAME"}], s)

\* Mutant: the trapframe is not freed.
freedPages_KeepsTrapframe(q) == PagesIn(pagetable[q])

\* The pages that freeproc gives back.
freedPages(q) == Bool2Nat(trapframe[q]) + PagesIn(pagetable[q])

\* freeproc(q).  It leaves q->ofile and q->cwd alone.
freeproc(q) ==
  /\ free' = free + freedPages(q)
  /\ panicked' = \/ panicked
                 \/ /\ pagetable[q] # NoTable
                    /\ proc_freepagetable(pagetable[q], sz[q])
  /\ trapframe' = [trapframe EXCEPT ![q] = FALSE]
  /\ pagetable' = [pagetable EXCEPT ![q] = NoTable]
  /\ sz' = [sz EXCEPT ![q] = 0]
  /\ pid' = [pid EXCEPT ![q] = 0]
  /\ parent' = [parent EXCEPT ![q] = Null]
  /\ xstate' = [xstate EXCEPT ![q] = 0]
  /\ state' = [state EXCEPT ![q] = "UNUSED"]

-----------------------------------------------------------------------------
(* fork, with allocproc and proc_pagetable inside.                         *)

\* allocproc finds a free slot (without one fork changes nothing).
allocproc(p) ==
  /\ At(p, "user")
  /\ nextpid <= MaxPid
  /\ \E q \in Procs :
       /\ state[q] = "UNUSED"
       /\ state' = [state EXCEPT ![q] = "USED"]
       /\ pid' = [pid EXCEPT ![q] = nextpid]
       /\ np' = [np EXCEPT ![p] = q]
  /\ nextpid' = nextpid + 1
  /\ Goto(p, "trapframe")
  /\ UNCHANGED <<parent, xstate, status, got, memVars, fileVars, tab, panicked>>

\* Mutant: the result of kalloc is not tested.
trapframeFails_Unchecked == FALSE

\* kalloc() == 0
trapframeFails == free = 0

\* "Allocate a trapframe page."
allocTrapframe(p) ==
  /\ At(p, "trapframe")
  /\ IF trapframeFails
     THEN Goto(p, "free") /\ UNCHANGED memVars
     ELSE /\ free' = free - 1
          /\ trapframe' = [trapframe EXCEPT ![np[p]] = TRUE]
          /\ Goto(p, "uvmcreate")
          /\ UNCHANGED <<pagetable, sz>>
  /\ UNCHANGED <<idVars, fileVars, np, tab, panicked>>

\* proc_pagetable: the root of the page table.
uvmcreate(p) ==
  /\ At(p, "uvmcreate")
  /\ IF free = 0
     THEN Goto(p, "free") /\ UNCHANGED <<free, tab>>
     ELSE /\ free' = free - 1
          /\ tab' = [tab EXCEPT ![p] = [NoTable EXCEPT !.tables = 1]]
          /\ Goto(p, "TRAMPOLINE")
  /\ UNCHANGED <<idVars, trapframe, pagetable, sz, fileVars, np, panicked>>

\* mappages(pagetable, leaf, ...) succeeds, with k more pages for the table.
mapped(p, leaf, k) ==
  /\ free' = free - k
  /\ tab' = [tab EXCEPT ![p].tables = @ + k, ![p].leaves = @ \cup {leaf}]
  /\ UNCHANGED panicked

\* mappages fails after k pages; what is in the table is given back.
unmapped(p, undo) ==
  LET t == [tab[p] EXCEPT !.leaves = @ \ undo]
  IN  /\ free' = free + PagesIn(t)
      /\ panicked' = (panicked \/ uvmunmapFails(tab[p], undo) \/ uvmfreeFails(t, 0))
      /\ tab' = [tab EXCEPT ![p] = NoTable]

mapLeaf(p, leaf, undo, next) ==
  /\ At(p, leaf)
  /\ \/ \E k \in 0..1 : k <= free /\ mapped(p, leaf, k) /\ Goto(p, next)
     \/ free < 2 /\ unmapped(p, undo) /\ Goto(p, "free")
  /\ UNCHANGED <<idVars, trapframe, pagetable, sz, fileVars, np>>

\* Map the trampoline page; if that fails free the table.
mapTrampoline(p) == mapLeaf(p, "TRAMPOLINE", {}, "TRAPFRAME")

\* Mutant: the trampoline stays mapped when mapping the trapframe fails.
mapTrapframe_KeepsTrampoline(p) == mapLeaf(p, "TRAPFRAME", {}, "uvmcopy")

\* Map the trapframe page; if that fails unmap the trampoline and free the table.
mapTrapframe(p) == mapLeaf(p, "TRAPFRAME", {"TRAMPOLINE"}, "uvmcopy")

\* freeproc and release on every failure in allocproc and fork.
forkFail(p) ==
  /\ At(p, "free")
  /\ freeproc(np[p])
  /\ np' = [np EXCEPT ![p] = Null]
  /\ Goto(p, "user")
  /\ UNCHANGED <<nextpid, status, got, fileVars, tab>>

\* allocproc stores the page table and uvmcopy fails: it has undone its mappings
\* but may leave a page in the table.
uvmcopyFails(p) ==
  /\ At(p, "uvmcopy")
  /\ free < PagesOf(sz[p]) + 1
  /\ \E k \in 0..1 :
       /\ k <= free
       /\ free' = free - k
       /\ pagetable' = [pagetable EXCEPT ![np[p]] = [tab[p] EXCEPT !.tables = @ + k]]
  /\ tab' = [tab EXCEPT ![p] = NoTable]
  /\ Goto(p, "free")
  /\ UNCHANGED <<idVars, trapframe, sz, fileVars, np, panicked>>

\* Mutant: a file that two descriptors share is counted once.
dupRefs_Once(p, f) == Bool2Nat(\E fd \in FDs : ofile[p][fd] = f)

\* filedup for every descriptor of p: what it adds to the count of f.
dupRefs(p, f) == Cardinality({fd \in FDs : ofile[p][fd] = f})

\* Memory is copied; the rest of fork.
forkDone(p) ==
  LET q == np[p]
      n == PagesOf(sz[p])
  IN  /\ At(p, "uvmcopy")
      /\ \E k \in 0..1 :
           /\ n + k <= free
           /\ free' = free - n - k
           /\ pagetable' = [pagetable EXCEPT ![q] = [tab[p] EXCEPT !.tables = @ + k, !.user = n]]
      /\ tab' = [tab EXCEPT ![p] = NoTable]
      /\ sz' = [sz EXCEPT ![q] = sz[p]]
      /\ ofile' = [ofile EXCEPT ![q] = [fd \in FDs |-> IF ofile[p][fd] # Null
                                                       THEN ofile[p][fd] ELSE @[fd]]]
      /\ ref' = [f \in Files |-> ref[f] + dupRefs(p, f)]
      /\ cwd' = [cwd EXCEPT ![q] = TRUE]
      /\ cwdRef' = cwdRef + 1
      /\ parent' = [parent EXCEPT ![q] = p]
      /\ state' = [state EXCEPT ![q] = "LIVE"]
      /\ pc' = [pc EXCEPT ![p] = "user", ![q] = "user"]
      /\ np' = [np EXCEPT ![p] = Null]
      /\ UNCHANGED <<pid, xstate, nextpid, status, got, trapframe, panicked>>

fork(p) ==
  \/ allocproc(p) \/ allocTrapframe(p) \/ uvmcreate(p) \/ mapTrampoline(p)
  \/ mapTrapframe(p) \/ forkFail(p) \/ uvmcopyFails(p) \/ forkDone(p)

-----------------------------------------------------------------------------
(* Growing, opening files, exit, wait.                                     *)

\* argint: the low half of the register, as a signed number.
argint(a) ==
  LET r == a % IntModulus IN IF r < IntModulus \div 2 THEN r ELSE r - IntModulus

\* sz + n in uint64.
grown(s, n) == (s + n) % WordModulus

\* uvmalloc needs pages; without them growproc fails, and the table may keep one.
growFails(p, n) ==
  /\ n > 0
  /\ free < PagesOf(grown(sz[p], n)) - PagesOf(sz[p]) + 1
  /\ \E k \in 0..1 :
       /\ k <= free
       /\ free' = free - k
       /\ pagetable' = [pagetable EXCEPT ![p].tables = @ + k]
  /\ UNCHANGED sz

\* uvmalloc and uvmdealloc change nothing when the new size is on the wrong side.
growDone(p, n) ==
  LET new == grown(sz[p], n)
      ok == IF n > 0 THEN new >= sz[p] ELSE new < sz[p]
      more == PagesOf(new) - PagesOf(sz[p])
  IN  IF ~ok THEN UNCHANGED <<free, pagetable, sz>>
      ELSE \E k \in IF more > 0 THEN 0..1 ELSE {0} :
             /\ more + k <= free
             /\ free' = free - more - k
             /\ pagetable' = [pagetable EXCEPT ![p].user = @ + more, ![p].tables = @ + k]
             /\ sz' = [sz EXCEPT ![p] = new]

\* sys_sbrk and growproc.
growproc(p, a) ==
  /\ At(p, "user")
  /\ growFails(p, argint(a)) \/ growDone(p, argint(a))
  /\ UNCHANGED <<idVars, trapframe, fileVars, pc, np, tab, panicked>>

\* Mutant: the second test only.
fetchaddr_OneTest(p, addr) == ~((addr + WORD) % WordModulus > sz[p])

\* fetchaddr(addr) goes on to copyin: "both tests needed, in case of overflow".
fetchaddr(p, addr) == ~(addr >= sz[p] \/ (addr + WORD) % WordModulus > sz[p])

\* open, with a file that nobody has, or dup.
openFile(p, fd, f) ==
  /\ At(p, "user")
  /\ ofile[p][fd] = Null
  /\ ref[f] = 0 \/ \E e \in FDs : ofile[p][e] = f
  /\ ofile' = [ofile EXCEPT ![p][fd] = f]
  /\ ref' = [ref EXCEPT ![f] = @ + 1]
  /\ UNCHANGED <<idVars, memVars, cwd, cwdRef, pc, np, tab, panicked>>

\* exit(v) is called.
exit(p, v) ==
  /\ At(p, "user")
  /\ p # initproc
  /\ status' = [status EXCEPT ![pid[p]] = v]
  /\ Goto(p, "close")
  /\ UNCHANGED <<state, pid, parent, xstate, nextpid, got, memVars, fileVars, np, tab,
                 panicked>>

\* p->ofile[fd] = 0
closed(p, fd) == [ofile EXCEPT ![p][fd] = Null]

\* An iteration of the loop that closes the files; closing one may sleep.
fileclose(p) ==
  /\ At(p, "close")
  /\ LET open == {fd \in FDs : ofile[p][fd] # Null}
     IN  IF open = {} THEN Goto(p, "iput") /\ UNCHANGED <<ofile, ref>>
         ELSE LET f == ofile[p][Min(open)]
              IN  /\ ref' = [ref EXCEPT ![f] = @ - 1]
                  /\ ofile' = closed(p, Min(open))
                  /\ UNCHANGED pc
  /\ UNCHANGED <<idVars, memVars, cwd, cwdRef, np, tab, panicked>>

\* iput(p->cwd) between begin_op and end_op.
iput(p) ==
  /\ At(p, "iput")
  /\ cwdRef' = cwdRef - 1
  /\ cwd' = [cwd EXCEPT ![p] = FALSE]
  /\ Goto(p, "zombie")
  /\ UNCHANGED <<idVars, memVars, ofile, ref, np, tab, panicked>>

\* The rest of exit, under wait_lock and p->lock.
zombie(p) ==
  /\ At(p, "zombie")
  /\ parent' = [q \in Procs |-> IF parent[q] = p THEN initproc ELSE parent[q]]
  /\ xstate' = [xstate EXCEPT ![p] = status[pid[p]]]
  /\ state' = [state EXCEPT ![p] = "ZOMBIE"]
  /\ UNCHANGED <<pid, nextpid, status, got, memVars, fileVars, pc, np, tab, panicked>>

\* wait(addr) finds a zombie; v is what it copies to addr, or nothing if addr is 0.
reap(p, q, v) ==
  /\ freeproc(q)
  /\ got' = [got EXCEPT ![pid[q]] = v]
  /\ UNCHANGED <<nextpid, status, fileVars, pc, np, tab>>

\* Mutant: the child is freed although copyout failed.
wait_Frees(p, q) ==
  /\ At(p, "user")
  /\ parent[q] = p /\ state[q] = "ZOMBIE"
  /\ reap(p, q, xstate[q]) \/ reap(p, q, None)

\* When copyout fails wait returns -1 and the child stays a zombie.
wait(p, q) ==
  /\ At(p, "user")
  /\ parent[q] = p /\ state[q] = "ZOMBIE"
  /\ \/ \E v \in {xstate[q], Discarded} : reap(p, q, v)
     \/ UNCHANGED vars

-----------------------------------------------------------------------------
\* proc_mapstacks has taken a page for every kernel stack, userinit has made
\* the first process with one page of user memory.
Init ==
  LET only(v, w) == [p \in Procs |-> IF p = initproc THEN v ELSE w]
      t == [tables |-> 1, leaves |-> {"TRAMPOLINE", "TRAPFRAME"}, user |-> 1]
  IN  /\ state = only("LIVE", "UNUSED")
      /\ pid = only(1, 0) /\ nextpid = 2
      /\ parent = [p \in Procs |-> Null] /\ xstate = [p \in Procs |-> 0]
      /\ free = NPages - Cardinality(Procs) - 1 - PagesIn(t)
      /\ trapframe = only(TRUE, FALSE) /\ pagetable = only(t, NoTable)
      /\ sz = only(PGSIZE, 0)
      /\ ofile = [p \in Procs |-> [fd \in FDs |-> Null]]
      /\ ref = [f \in Files |-> 0]
      /\ cwd = only(TRUE, FALSE) /\ cwdRef = 1
      /\ pc = [p \in Procs |-> "user"]
      /\ np = [p \in Procs |-> Null] /\ tab = [p \in Procs |-> NoTable]
      /\ status = [i \in 1..MaxPid |-> None] /\ got = [i \in 1..MaxPid |-> None]
      /\ panicked = FALSE

Next ==
  \E p \in Procs :
    \/ fork(p)
    \/ \E a \in Args : growproc(p, a)
    \/ \E fd \in FDs, f \in Files : openFile(p, fd, f)
    \/ \E v \in Statuses : exit(p, v)
    \/ fileclose(p) \/ iput(p) \/ zombie(p)
    \/ \E q \in Procs : wait(p, q)

Spec == Init /\ [][Next]_vars

-----------------------------------------------------------------------------
TableType ==
  [tables : 0..NPages, leaves : SUBSET {"TRAMPOLINE", "TRAPFRAME"}, user : 0..NPages]

ResTypeOK ==
  /\ state \in [Procs -> {"UNUSED", "USED", "LIVE", "ZOMBIE"}]
  /\ pid \in [Procs -> 0..MaxPid] /\ nextpid \in 1..(MaxPid + 1)
  /\ parent \in [Procs -> Procs \cup {Null}] /\ np \in [Procs -> Procs \cup {Null}]
  /\ free \in 0..NPages
  /\ trapframe \in [Procs -> BOOLEAN]
  /\ pagetable \in [Procs -> TableType] /\ tab \in [Procs -> TableType]
  /\ sz \in [Procs -> 0..(WordModulus - 1)]
  /\ ofile \in [Procs -> [FDs -> Files \cup {Null}]] /\ ref \in [Files -> Nat]
  /\ cwd \in [Procs -> BOOLEAN] /\ cwdRef \in Nat
  /\ xstate \in [Procs -> Statuses \cup {0}]
  /\ status \in [1..MaxPid -> Statuses \cup {None}]
  /\ got \in [1..MaxPid -> Statuses \cup {None, Discarded}]
  /\ panicked \in BOOLEAN

\* No page is lost and none is given back twice, whichever allocation of
\* whichever fork or sbrk fails: all pages are free, or a kernel stack, or owned by
\* exactly one process or unfinished fork.
PagesConserved ==
  LET owned(p) == Bool2Nat(trapframe[p]) + PagesIn(pagetable[p]) + PagesIn(tab[p])
      OwnedPages == UNION {{p} \X (1..owned(p)) : p \in Procs}
  IN  free + Cardinality(Procs) + Cardinality(OwnedPages) = NPages

\* A process is dismantled in the right order and with the right size: vm.c never
\* finds a page that should be mapped and is not, or one still mapped.
NoVmPanic == ~panicked

\* The reference counts are the numbers of holders, although forks, closes and
\* exits of several processes interleave, and a process that has exited or a slot
\* that is reused holds nothing.
RefsExact ==
  LET holders == {p \in Procs : state[p] = "LIVE"}
  IN  /\ \A f \in Files :
           ref[f] = Cardinality({x \in holders \X FDs : ofile[x[1]][x[2]] = f})
      /\ cwdRef = Cardinality({p \in holders : cwd[p]})
      /\ \A p \in Procs \ holders : ~cwd[p] /\ \A fd \in FDs : ofile[p][fd] = Null

\* What fetchaddr accepts it can read: after any sequence of sbrk, forks and
\* failures the bytes it reads are in pages of the process, and it refuses no
\* address below p->sz.
FetchInBounds ==
  \A p \in Procs, addr \in 0..(WordModulus - 1) : state[p] = "LIVE" =>
    /\ fetchaddr(p, addr) <=> addr + WORD <= sz[p]
    /\ fetchaddr(p, addr) => (addr + WORD - 1) \div PGSIZE < pagetable[p].user

\* No exit status is lost: until its parent has it, it is kept in a zombie, also
\* when a wait could not copy it out; and the parent gets what was given to exit.
StatusKept ==
  \A i \in 1..MaxPid : status[i] # None =>
    \/ got[i] \in {status[i], Discarded}
    \/ \E p \in Procs : /\ pid[p] = i
                        /\ \/ state[p] = "LIVE"
                           \/ state[p] = "ZOMBIE" /\ xstate[p] = status[i]
=============================================================================
