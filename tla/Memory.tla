------------------------------- MODULE Memory -------------------------------
(***************************************************************************)
(* Physical pages and address spaces: kalloc.c, vm.c, exec.c, growproc and *)
(* the page-table part of allocproc, freeproc and kfork in proc.c,         *)
(* sys_sbrk, sys_exec and the page-fault branch of usertrap                *)
(* (xv6/kernel).                                                           *)
(*                                                                         *)
(* Addresses are counted in units of which PGSIZE make a page; the page    *)
(* numbers have three digits in base R, one per level of the page table.   *)
(* The loops that allocate (uvmalloc, uvmcopy, the argument pages of exec) *)
(* take one page, with the page-table pages it needs, per step: what the   *)
(* other processes take or free between two steps decides where a loop     *)
(* runs out of memory.  The order of the free list is left out: kalloc     *)
(* takes the lowest free page.                                             *)
(***************************************************************************)
EXTENDS Integers, FiniteSets, FiniteSetsExt, Functions, Sequences

CONSTANTS
  Proc, First,
  Memories,    \* how many pages there may be between end and PHYSTOP
  R, PGSIZE, USERSTACK,
  Program,     \* sequences of segments: [va, memsz, filesz, w]
  Increments,  \* arguments of sbrk
  Addr,        \* addresses the user or the kernel accesses
  Argc,        \* numbers of arguments of exec
  MaxCalls     \* bound

Page == 1 .. Max(Memories)
VPN == 0 .. R * R * R - 1
TRAMPOLINE == R * R * R - 1
TRAPFRAME == R * R * R - 2
Limit == TRAPFRAME * PGSIZE
KernelText == -1                 \* the trampoline's page is not kalloc's

Content == {"zero", "file", "args", "junk"} \cup Proc

ASSUME MemoryAssumption ==
  /\ First \in Proc /\ Min(Memories) >= 4
  /\ Addr \subseteq 0 .. Limit - 1
  /\ R >= 2 /\ PGSIZE >= 1 /\ USERSTACK >= 1
  /\ \A g \in Program : \A i \in DOMAIN g :
       /\ g[i].va % PGSIZE = 0 /\ g[i].filesz <= g[i].memsz
       /\ g[i].va + g[i].memsz > 0
       /\ g[i].va + g[i].memsz + (USERSTACK + 2) * PGSIZE <= Limit

VARIABLES
  free,     \* kmem.freelist
  mem,      \* what the pages hold
  proc,     \* state, trapframe, pagetable, sz
  work,     \* the call a process is in
  panic,    \* the kernel called panic(), and stopped
  image,    \* the address space each process should see
  npages, calls
vars == <<free, mem, proc, work, panic, image, npages, calls>>

(* PGROUNDUP(sz) / PGSIZE *)
Pages(sz) == (sz + PGSIZE - 1) \div PGSIZE

NoPte == [pa |-> 0, u |-> FALSE, w |-> FALSE]
NoTable == [root |-> 0, mid |-> [i \in 0 .. R - 1 |-> 0],
            low |-> [i \in 0 .. R * R - 1 |-> 0], pte |-> [v \in VPN |-> NoPte]]
Unused == [state |-> "UNUSED", trapframe |-> 0, t |-> NoTable, sz |-> 0]
Idle == [pc |-> "idle", a |-> 0, to |-> 0, t |-> NoTable, sz |-> 0,
         child |-> First, argv |-> {}, argc |-> 0, prog |-> <<>>, left |-> <<>>]

-----------------------------------------------------------------------------
(* vm.c: m is a page table being built, the free pages, whether the        *)
(* construction goes on, and whether it met a panic.                       *)

Building(t, F) == [ok |-> TRUE, t |-> t, free |-> F, panic |-> FALSE]
Unbuilt(t, F) == [Building(t, F) EXCEPT !.ok = FALSE]

kalloc(F) == Min(F)

(* The page-table page of level l on the way to v, if it is not there. *)
AddTable(m, l, i) ==
  IF ~m.ok \/ m.t[l][i] # 0 THEN m
  ELSE IF m.free = {} THEN [m EXCEPT !.ok = FALSE]
  ELSE [m EXCEPT !.t[l][i] = kalloc(m.free), !.free = @ \ {kalloc(m.free)}]

walk(m, v) == AddTable(AddTable(m, "mid", v \div (R * R)), "low", v \div R)

(* "mappages: remap" if v is mapped. *)
mappages(m, v, pte) ==
  LET n == walk(m, v) IN
  IF n.ok THEN [n EXCEPT !.t.pte[v] = pte, !.panic = @ \/ m.t.pte[v] # NoPte] ELSE n

uvmunmap(t, vs) ==
  [t EXCEPT !.pte = [v \in VPN |-> IF v \in vs THEN NoPte ELSE t.pte[v]]]

(* The pages uvmunmap frees. *)
Freed(t, vs) == {t.pte[v].pa : v \in vs} \ {0}

(* The pages freewalk frees; "freewalk: leaf" unless Leafless(t). *)
Tables(t) == ({t.root} \cup Range(t.mid) \cup Range(t.low)) \ {0}
Leafless(t) == \A v \in VPN : t.pte[v] = NoPte

uvmdealloc(oldsz, newsz) == Pages(newsz) .. Pages(oldsz) - 1

uvmfree(t, sz) == Freed(t, uvmdealloc(sz, 0)) \cup Tables(t)

proc_freepagetable(t, sz) ==
  uvmfree(uvmunmap(t, {TRAMPOLINE, TRAPFRAME}), sz)

(* proc_pagetable for the trapframe page tf. *)
proc_pagetable(F, tf) ==
  IF F = {} THEN Unbuilt(NoTable, F)
  ELSE LET m0 == Building([NoTable EXCEPT !.root = kalloc(F)], F \ {kalloc(F)})
           m1 == mappages(m0, TRAMPOLINE, [NoPte EXCEPT !.pa = KernelText])
           m2 == mappages(m1, TRAPFRAME, [pa |-> tf, u |-> FALSE, w |-> TRUE])
           t(m) == uvmunmap(m.t, {TRAMPOLINE})
           bad(m) == [Unbuilt(NoTable, m.free \cup uvmfree(t(m), 0))
                       EXCEPT !.panic = ~Leafless(t(m))]
       IN IF ~m1.ok THEN bad(m1) ELSE IF ~m2.ok THEN bad(m2) ELSE m2

(* Mutant of Lost: the page is forgotten. *)
MutLost(pa) == {}
(* What is freed when mappages fails for the page pa. *)
Lost(pa) == {pa}

(* One turn of the loop of uvmalloc, uvmcopy or vmfault: a page for v. *)
AddPage(t, F, v, u, w) ==
  IF F = {} THEN Unbuilt(t, F)
  ELSE LET pa == kalloc(F)
           m == mappages(Building(t, F \ {pa}), v, [pa |-> pa, u |-> u, w |-> w])
       IN IF m.ok THEN m ELSE [m EXCEPT !.free = @ \cup Lost(pa)]

(* memset at kfree and kalloc, then c in the page pa if it is one. *)
Filled(F, pa, c) ==
  [g \in Page |-> IF g = pa THEN c ELSE IF g \in F THEN "junk" ELSE mem[g]]

-----------------------------------------------------------------------------

(* The address space of a process as its user may think of it: what each   *)
(* page below sz holds, and how it may be used.                            *)
Seen(c, u, w) == [c |-> c, u |-> u, w |-> w]
Cut(s, sz) == [v \in VPN |->
  IF v >= Pages(sz) THEN Seen("none", FALSE, FALSE)
  ELSE IF s[v].c = "none" THEN Seen("zero", TRUE, TRUE) ELSE s[v]]
Nothing == [v \in VPN |-> Seen("none", FALSE, FALSE)]

(* kinit, and userinit's allocproc. *)
Init ==
  LET m == proc_pagetable(2 .. npages, 1) IN
  /\ npages \in Memories
  /\ free = m.free
  /\ mem = [g \in Page |-> "junk"]
  /\ proc = [p \in Proc |-> IF p = First
               THEN [state |-> "LIVE", trapframe |-> 1, t |-> m.t, sz |-> 0]
               ELSE Unused]
  /\ work = [p \in Proc |-> Idle]
  /\ panic = FALSE
  /\ image = [p \in Proc |-> Nothing]
  /\ calls = 0

Running(p, l) == proc[p].state = "LIVE" /\ work[p].pc = l
Call(p) == Running(p, "idle") /\ calls < MaxCalls /\ calls' = calls + 1
Done(p) == work' = [work EXCEPT ![p] = Idle]

-----------------------------------------------------------------------------
(* sys_sbrk and growproc *)

(* sbrk(n) for n < 0; a sum that wraps below 0 leaves the size alone. *)
sbrk_shrink(p, n) ==
  LET t == proc[p].t  old == proc[p].sz
      new == IF old + n < 0 THEN old ELSE old + n
      vs == uvmdealloc(old, new)
  IN /\ Call(p) /\ n < 0
     /\ free' = free \cup Freed(t, vs)
     /\ mem' = Filled(Freed(t, vs), 0, "junk")
     /\ proc' = [proc EXCEPT ![p].t = uvmunmap(t, vs), ![p].sz = new]
     /\ image' = [image EXCEPT ![p] = Cut(@, new)]
     /\ UNCHANGED <<work, panic>>

TooBig(sz) == sz > Limit

(* Lazily: only the size grows. *)
sbrk_lazy(p, n) ==
  LET new == proc[p].sz + n IN
  /\ Call(p) /\ n > 0 /\ ~TooBig(new)
  /\ proc' = [proc EXCEPT ![p].sz = new]
  /\ image' = [image EXCEPT ![p] = Cut(@, new)]
  /\ UNCHANGED <<free, mem, work, panic>>

sbrk_eager(p, n) ==
  LET new == proc[p].sz + n IN
  /\ Call(p) /\ n > 0 /\ ~TooBig(new)
  /\ work' = [work EXCEPT ![p] = [Idle EXCEPT !.pc = "grow", !.to = new,
                                              !.a = Pages(proc[p].sz)]]
  /\ UNCHANGED <<free, mem, proc, panic, image>>

(* Mutant of Undone: only the page that failed is given back. *)
MutUndone(sz, a) == {}
(* What uvmalloc unmaps again when it fails at page a. *)
Undone(sz, a) == Pages(sz) .. a - 1

(* uvmalloc in growproc: one turn, or its end. *)
grow(p) ==
  LET w == work[p]  sz == proc[p].sz  m == AddPage(proc[p].t, free, w.a, TRUE, TRUE)
      vs == Undone(sz, w.a)
  IN /\ Running(p, "grow")
     /\ \/ /\ w.a * PGSIZE >= w.to
           /\ proc' = [proc EXCEPT ![p].sz = w.to]
           /\ image' = [image EXCEPT ![p] = Cut(@, w.to)]
           /\ Done(p) /\ UNCHANGED <<free, mem, panic>>
        \/ /\ w.a * PGSIZE < w.to /\ m.ok
           /\ panic' = m.panic
           /\ proc' = [proc EXCEPT ![p].t = m.t]
           /\ free' = m.free /\ mem' = Filled({}, m.t.pte[w.a].pa, "zero")
           /\ work' = [work EXCEPT ![p].a = @ + 1]
           /\ UNCHANGED image
        \/ /\ w.a * PGSIZE < w.to /\ ~m.ok
           /\ proc' = [proc EXCEPT ![p].t = uvmunmap(m.t, vs)]
           /\ free' = m.free \cup Freed(m.t, vs)
           /\ mem' = Filled(Freed(m.t, vs), 0, "junk")
           /\ Done(p) /\ UNCHANGED <<panic, image>>
     /\ UNCHANGED calls

-----------------------------------------------------------------------------
(* Loads and stores of the user (usertrap, vmfault), and of the kernel on  *)
(* its behalf (copyin, copyinstr, copyout: one page each)                  *)

(* Mutant of Fresh: the page is not cleared. *)
MutFresh == "junk"
Fresh == "zero"

(* walkaddr finds no page that the user may touch; ismapped. *)
walkaddr_fails(pte) == ~pte.u
ismapped(pte) == pte.pa # 0

access(p, addr, write, kernel) ==
  LET v == addr \div PGSIZE
      va == IF kernel THEN v * PGSIZE ELSE addr
      pte == proc[p].t.pte[v]
      faults == walkaddr_fails(pte)
      refused == va >= proc[p].sz \/ ismapped(pte)
      m == IF faults THEN AddPage(proc[p].t, free, v, TRUE, TRUE)
           ELSE Building(proc[p].t, free)
      bad == (faults /\ (refused \/ ~m.ok)) \/ (~faults /\ write /\ ~pte.w)
      pa == m.t.pte[v].pa
  IN /\ Call(p)
     /\ \/ /\ ~bad
           /\ panic' = m.panic
           /\ proc' = [proc EXCEPT ![p].t = m.t] /\ free' = m.free
           /\ mem' = Filled({}, pa, IF write THEN p
                                    ELSE IF faults THEN Fresh ELSE mem[pa])
           /\ image' = IF write THEN [image EXCEPT ![p][v].c = p] ELSE image
        \/ /\ bad          \* an error return, or the end of the process
           /\ LET t == IF faults /\ ~refused THEN m.t ELSE proc[p].t
                  F == IF faults /\ ~refused THEN m.free ELSE free
              IN /\ proc' = [proc EXCEPT ![p].t = t, ![p].state =
                               IF kernel THEN @ ELSE "ZOMBIE"]
                 /\ free' = F
           /\ UNCHANGED <<mem, panic, image>>
     /\ UNCHANGED work

kexit(p) ==
  /\ Running(p, "idle")
  /\ proc' = [proc EXCEPT ![p].state = "ZOMBIE"]
  /\ UNCHANGED <<free, mem, work, panic, image, calls>>

(* freeproc, as kwait calls it: the pages of c's entry. *)
freeproc(c) == {c.trapframe} \cup proc_freepagetable(c.t, c.sz)
Freeable(c) == Leafless(uvmunmap(c.t, {TRAMPOLINE, TRAPFRAME} \cup uvmdealloc(c.sz, 0)))

kwait(c) ==
  /\ proc[c].state = "ZOMBIE"
  /\ panic' = ~Freeable(proc[c])
  /\ free' = free \cup freeproc(proc[c])
  /\ mem' = Filled(freeproc(proc[c]), 0, "junk")
  /\ proc' = [proc EXCEPT ![c] = Unused]
  /\ image' = [image EXCEPT ![c] = Nothing]
  /\ UNCHANGED <<work, calls>>

-----------------------------------------------------------------------------
(* kfork *)

(* allocproc for the unused entry c, then uvmcopy from page 0 on. *)
kfork(p, c) ==
  LET tf == kalloc(free)  m == proc_pagetable(free \ {tf}, tf) IN
  /\ Call(p) /\ proc[c].state = "UNUSED"
  /\ IF free # {} /\ m.ok
     THEN /\ proc' = [proc EXCEPT ![c] = [state |-> "USED", trapframe |-> tf,
                                          t |-> m.t, sz |-> 0]]
          /\ free' = m.free /\ panic' = m.panic
          /\ work' = [work EXCEPT ![p] = [Idle EXCEPT !.pc = "copy", !.child = c]]
     ELSE /\ free' = IF free = {} THEN free ELSE m.free \cup {tf}
          /\ panic' = (free # {} /\ m.panic)
          /\ UNCHANGED <<proc, work>>
  /\ UNCHANGED <<mem, image>>

(* One turn of uvmcopy, its end, or err and kfork's freeproc. *)
copy(p) ==
  LET w == work[p]  c == w.child  pte == proc[p].t.pte[w.a]
      m == AddPage(proc[c].t, free, w.a, pte.u, pte.w)
      vs == 0 .. w.a - 1
      dead == [proc[c] EXCEPT !.t = uvmunmap(m.t, vs)]
      given == Freed(m.t, vs) \cup freeproc(dead)
      more == w.a * PGSIZE < proc[p].sz
  IN /\ Running(p, "copy")
     /\ \/ /\ ~more
           /\ proc' = [proc EXCEPT ![c].sz = proc[p].sz, ![c].state = "LIVE"]
           /\ image' = [image EXCEPT ![c] = image[p]]
           /\ Done(p) /\ UNCHANGED <<free, mem, panic>>
        \/ /\ more /\ pte.pa = 0
           /\ work' = [work EXCEPT ![p].a = @ + 1]
           /\ UNCHANGED <<free, mem, proc, panic, image>>
        \/ /\ more /\ pte.pa # 0 /\ m.ok
           /\ panic' = m.panic
           /\ proc' = [proc EXCEPT ![c].t = m.t]
           /\ free' = m.free /\ mem' = Filled({}, m.t.pte[w.a].pa, mem[pte.pa])
           /\ work' = [work EXCEPT ![p].a = @ + 1]
           /\ UNCHANGED image
        \/ /\ more /\ pte.pa # 0 /\ ~m.ok
           /\ panic' = ~Freeable(dead)
           /\ proc' = [proc EXCEPT ![c] = Unused]
           /\ free' = m.free \cup given /\ mem' = Filled(given, 0, "junk")
           /\ Done(p) /\ UNCHANGED image
     /\ UNCHANGED calls

-----------------------------------------------------------------------------
(* sys_exec and kexec *)

sys_exec(p, g, n) ==
  /\ Call(p)
  /\ work' = [work EXCEPT ![p] = [Idle EXCEPT !.pc = "args", !.argc = n,
                                              !.prog = g, !.left = g]]
  /\ UNCHANGED <<free, mem, proc, panic, image>>

(* bad: of kexec and of sys_exec, with what was built of a table of size sz. *)
Bad(p, m, sz) ==
  LET t == m.t
      given == work[p].argv \cup (IF t.root = 0 THEN {} ELSE proc_freepagetable(t, sz))
  IN /\ panic' = (m.panic \/ (t.root # 0 /\ ~Freeable([t |-> t, sz |-> sz])))
     /\ free' = m.free \cup given /\ mem' = Filled(given, 0, "junk")
     /\ Done(p) /\ UNCHANGED <<proc, image>>

(* The next argument's page, and once all are there the new page table. *)
exec_args(p) ==
  LET w == work[p]  m == proc_pagetable(free, proc[p].trapframe) IN
  /\ Running(p, "args")
  /\ \/ /\ Cardinality(w.argv) < w.argc /\ free # {}
        /\ work' = [work EXCEPT ![p].argv = @ \cup {kalloc(free)}]
        /\ free' = free \ {kalloc(free)} /\ UNCHANGED <<mem, proc, panic, image>>
     \/ /\ Cardinality(w.argv) < w.argc /\ free = {}
        /\ Bad(p, Unbuilt(NoTable, free), 0)
     \/ /\ Cardinality(w.argv) = w.argc /\ ~m.ok
        /\ Bad(p, m, 0)
     \/ /\ Cardinality(w.argv) = w.argc /\ m.ok
        /\ work' = [work EXCEPT ![p].t = m.t, ![p].pc = "load"]
        /\ panic' = m.panic
        /\ free' = m.free /\ UNCHANGED <<mem, proc, image>>
  /\ UNCHANGED calls

(* One turn of uvmalloc in kexec, up to newsz, for pages with w. *)
exec_page(p, newsz, wr) ==
  LET w == work[p]  m == AddPage(w.t, free, w.a, TRUE, wr)
      vs == Undone(w.sz, w.a)
  IN /\ w.a * PGSIZE < newsz
     /\ \/ /\ m.ok
           /\ panic' = m.panic
           /\ free' = m.free /\ mem' = Filled({}, m.t.pte[w.a].pa, "zero")
           /\ work' = [work EXCEPT ![p].t = m.t, ![p].a = @ + 1]
           /\ UNCHANGED <<proc, image>>
        \/ /\ ~m.ok
           /\ Bad(p, [m EXCEPT !.t = uvmunmap(@, vs),
                             !.free = @ \cup Freed(m.t, vs)], w.sz)

(* The pages loadseg fills. *)
InFile(s) == (s.va \div PGSIZE) .. Pages(s.va + s.filesz) - 1

(* A segment: uvmalloc, then loadseg ("address should exist"). *)
exec_load(p) ==
  LET w == work[p]  s == Head(w.left)  newsz == s.va + s.memsz IN
  /\ Running(p, "load") /\ w.left # <<>>
  /\ \/ exec_page(p, newsz, s.w)
     \/ /\ w.a * PGSIZE >= newsz
        /\ panic' = \E v \in InFile(s) : walkaddr_fails(w.t.pte[v])
        /\ mem' = [g \in Page |-> IF g \in Freed(w.t, InFile(s))
                                  THEN "file" ELSE mem[g]]
        /\ work' = [work EXCEPT ![p].left = Tail(@), ![p].sz = Max({@, newsz})]
        /\ UNCHANGED <<free, proc, image>>
  /\ UNCHANGED calls

(* It panics if there is no entry for v. *)
uvmclear(t, v) == [t EXCEPT !.pte[v].u = FALSE]

(* The guard page and the stack; then uvmclear. *)
exec_stack(p) ==
  LET w == work[p]  newsz == (Pages(w.sz) + USERSTACK + 1) * PGSIZE IN
  /\ Running(p, "load") /\ w.left = <<>>
  /\ \/ exec_page(p, newsz, TRUE)
     \/ /\ w.a * PGSIZE >= newsz
        /\ work' = [work EXCEPT ![p].t = uvmclear(@, Pages(w.sz)),
                                ![p].sz = newsz, ![p].pc = "push"]
        /\ panic' = (w.t.low[Pages(w.sz) \div R] = 0)
        /\ UNCHANGED <<free, mem, proc, image>>
  /\ UNCHANGED calls

(* What the user should see of the program g. *)
Loaded(g) ==
  LET end == Max({0} \cup {Pages(g[i].va + g[i].memsz) : i \in DOMAIN g})
      first(v) == g[Min({i \in DOMAIN g : Pages(g[i].va + g[i].memsz) > v})]
      file(v) == \E i \in DOMAIN g : v \in InFile(g[i])
  IN [v \in VPN |->
        IF v < end THEN Seen(IF file(v) THEN "file" ELSE "zero", TRUE, first(v).w)
        ELSE IF v = end THEN Seen("zero", FALSE, TRUE)
        ELSE IF v < end + USERSTACK THEN Seen("zero", TRUE, TRUE)
        ELSE IF v = end + USERSTACK THEN Seen("args", TRUE, TRUE)
        ELSE Seen("none", FALSE, FALSE)]

(* The arguments are copied out, the process gets the new table, the old   *)
(* one and the argument pages are freed.                                   *)
exec_commit(p) ==
  LET w == work[p]  top == w.t.pte[Pages(w.sz) - 1].pa
      given == w.argv \cup proc_freepagetable(proc[p].t, proc[p].sz)
  IN /\ Running(p, "push")
     /\ panic' = ~Freeable(proc[p])
     /\ proc' = [proc EXCEPT ![p].t = w.t, ![p].sz = w.sz]
     /\ free' = free \cup given /\ mem' = Filled(given, top, "args")
     /\ image' = [image EXCEPT ![p] = Loaded(w.prog)]
     /\ Done(p) /\ UNCHANGED calls

(* A bad user pointer, a file that is short or no program, a segment that  *)
(* wraps, arguments that do not fit the stack.                             *)
exec_bad(p) ==
  LET w == work[p]
      end == IF w.left = <<>> THEN 0 ELSE Head(w.left).va + Head(w.left).memsz
  IN /\ \/ Running(p, "args") /\ Bad(p, Building(w.t, free), w.sz)
        \/ /\ Running(p, "load") /\ w.left # <<>> /\ w.a = Pages(w.sz)
           /\ Bad(p, Building(w.t, free), w.sz)
        \/ /\ Running(p, "load") /\ w.left # <<>> /\ w.a * PGSIZE >= end
           /\ Bad(p, Building(w.t, free), Max({w.sz, end}))
        \/ Running(p, "push") /\ Bad(p, Building(w.t, free), w.sz)
     /\ UNCHANGED calls

-----------------------------------------------------------------------------

Step ==
  \E p \in Proc :
    \/ \E n \in Increments : \/ sbrk_shrink(p, n)
                             \/ sbrk_lazy(p, n)
                             \/ sbrk_eager(p, n)
    \/ grow(p)
    \/ \E addr \in Addr, write, kernel \in BOOLEAN :
         access(p, addr, write, kernel)
    \/ kexit(p)
    \/ kwait(p)
    \/ \E c \in Proc : kfork(p, c)
    \/ copy(p)
    \/ \E g \in Program, n \in Argc : sys_exec(p, g, n)
    \/ exec_args(p)
    \/ exec_load(p)
    \/ exec_stack(p)
    \/ exec_commit(p)
    \/ exec_bad(p)

Next == ~panic /\ Step /\ UNCHANGED npages

Spec == Init /\ [][Next]_vars

-----------------------------------------------------------------------------
(* Properties *)

TypeOK ==
  /\ free \subseteq Page /\ mem \in [Page -> Content]
  /\ \A p \in Proc :
       /\ proc[p].state \in {"UNUSED", "USED", "LIVE", "ZOMBIE"}
       /\ proc[p].sz \in 0 .. Limit /\ proc[p].trapframe \in Page \cup {0}
       /\ work[p].pc \in {"idle", "grow", "copy", "args", "load", "push"}
       /\ work[p].sz \in 0 .. Limit /\ work[p].argv \subseteq Page

User(t) == {v \in 0 .. TRAPFRAME - 1 : t.pte[v].pa # 0}
Alive == {p \in Proc : proc[p].state # "UNUSED"}

(* What kalloc handed out is exactly what somebody can still give back: a  *)
(* page is free, a trapframe, a page of one page table, user memory at one *)
(* address of one process, or an argument of exec, and only one of them.   *)
(* No path through fork, exec and sbrk, wherever memory runs out, loses a  *)
(* page, frees one twice or shares one.                                    *)
PagesAccounted ==
  LET users == ({proc[p].t : p \in Alive} \cup {work[p].t : p \in Proc}) \ {NoTable}
      count == Cardinality(free) + Cardinality(Alive)
        + MapThenSumSet(LAMBDA t : Cardinality(Tables(t)) + Cardinality(User(t)), users)
        + MapThenSumSet(LAMBDA p : Cardinality(work[p].argv), Proc)
  IN /\ TypeOK
     /\ 1 .. npages = free \cup {proc[p].trapframe : p \in Alive}
               \cup UNION {Tables(t) \cup Freed(t, User(t)) : t \in users}
               \cup UNION {work[p].argv : p \in Proc}
     /\ count = npages

(* The kernel never calls panic() in vm.c or exec.c: mappages finds the    *)
(* page unmapped in every loop of uvmalloc and uvmcopy and at every fault  *)
(* ("remap"); freewalk, on the table of a dead process, of a child that    *)
(* could not be copied, of the program exec replaces and of the one it     *)
(* gives up at any point of loading, finds no page that sz does not cover  *)
(* ("freewalk: leaf"); loadseg and uvmclear find the pages they touch.     *)
NoPanic == ~panic

(* A process sees its own address space: every page below its size holds   *)
(* what it, its ancestors before the fork, or exec put there, and zeros    *)
(* elsewhere, with the permissions it was given; a page not mapped yet is  *)
(* one that reads as zeros.  What other processes do, and calls of its own *)
(* that fail, change none of it.                                           *)
MemoryIsImage ==
  \A p \in Proc : proc[p].state = "LIVE" =>
    \A v \in 0 .. Pages(proc[p].sz) - 1 :
      LET pte == proc[p].t.pte[v] IN
      image[p][v] = IF pte.pa = 0 THEN Seen("zero", TRUE, TRUE)
                    ELSE Seen(mem[pte.pa], pte.u, pte.w)

=============================================================================
