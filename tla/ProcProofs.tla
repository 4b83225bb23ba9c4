----------------------------- MODULE ProcProofs -----------------------------
(***************************************************************************)
(* Proofs about Proc, for every number of table entries, every bound on    *)
(* pids and every length of a pause: every process has somebody to reap    *)
(* it, and nobody sleeps through what it waits for.                        *)
(***************************************************************************)
EXTENDS Proc, TLAPS

-----------------------------------------------------------------------------
(* The invariant. *)

(* p is in kfork and has an entry that is not started yet. *)
Forking(p) == pc[p] \in {"alloc", "born"}

(* What pc, state and wait_lock say of each other. *)
Placed ==
  \A p \in Procs :
    /\ pc[p] = "none" <=> state[p] \in {"UNUSED", "USED", "ZOMBIE"}
    /\ state[p] = "SLEEPING" => pc[p] \in {"wait", "pause"}
    /\ Forking(p) => np[p] \in Procs /\ state[np[p]] = "USED"
    /\ pc[p] = "zombie" => wait_lock = p

(* allocproc gives an entry to one process only. *)
OwnEntry ==
  \A p, q \in Procs : Forking(p) /\ Forking(q) /\ np[p] = np[q] => p = q

(* It has no parent before kfork gives it one. *)
NewEntry == \A p \in Procs : pc[p] = "alloc" => parent[np[p]] = Nil

(* init is there to inherit. *)
InitLives ==
  pc[initproc] \notin {"none", "exit", "zombie"} /\ ~killed[initproc]

(* p has tested for zombies in kwait, or for the end of its pause, and has *)
(* not been woken since.                                                   *)
InWait(p) == pc[p] = "waitsleep" \/ (pc[p] = "wait" /\ state[p] = "SLEEPING")
InPause(p) == pc[p] = "pausesleep" \/ (pc[p] = "pause" /\ state[p] = "SLEEPING")

(* What the test found still holds as long as the process is registered,   *)
(* and it sleeps only while it is.                                         *)
WaitHolds ==
  \A p \in Procs : InWait(p) =>
    /\ chan[p] \in {p, NoChan}
    /\ state[p] = "SLEEPING" => chan[p] = p
    /\ chan[p] = p =>
         /\ \E q \in Procs : parent[q] = p
         /\ \A q \in Procs : parent[q] = p => state[q] # "ZOMBIE" /\ pc[q] # "zombie"

PauseHolds ==
  \A p \in Procs : InPause(p) =>
    /\ chan[p] \in {Ticks, NoChan}
    /\ state[p] = "SLEEPING" => chan[p] = Ticks
    /\ chan[p] = Ticks => left[p] > 0

(* HasReaper, but for the types. *)
Reaped ==
  \A q \in Procs : parent[q] # Nil =>
    /\ state[parent[q]] \notin {"UNUSED", "USED", "ZOMBIE"}
    /\ pc[parent[q]] # "zombie"
    /\ state[q] # "UNUSED"

PInv == /\ TypeOK /\ Placed /\ OwnEntry /\ NewEntry /\ InitLives
        /\ Reaped /\ WaitHolds /\ PauseHolds

-----------------------------------------------------------------------------
(* One lemma for each part. *)

(* The types. *)
LEMMA TypeStep == TypeOK /\ Placed /\ [Next]_vars => TypeOK'
  <1> SUFFICES ASSUME TypeOK, Placed, [Next]_vars PROVE TypeOK'
    OBVIOUS
  <1>1. ASSUME NEW p \in Procs, usertrap(p) PROVE TypeOK'
    BY <1>1 DEF usertrap, Goto, Checked, TypeOK
  <1>2. ASSUME NEW p \in Procs, usertrap_fault(p) PROVE TypeOK'
    BY <1>2 DEF usertrap_fault, Goto, TypeOK
  <1>3. ASSUME NEW p \in Procs, kfork(p) PROVE TypeOK'
    BY <1>3, ProcAssumption DEF kfork, allocproc, Goto, Return, Checked, TypeOK
  <1>4. ASSUME NEW p \in Procs, fork_parent(p) PROVE TypeOK'
    BY <1>4, Zenon DEF fork_parent, Goto, TypeOK
  <1>5. ASSUME NEW p \in Procs, fork_start(p) PROVE TypeOK'
    BY <1>5, Zenon DEF fork_start, Checked, TypeOK
  <1>6. ASSUME NEW p \in Procs, kexit(p) PROVE TypeOK'
    BY <1>6, ProcAssumption DEF kexit, Goto, Wake, Heir, TypeOK
  <1>7. ASSUME NEW p \in Procs, exit_zombie(p) PROVE TypeOK'
    BY <1>7 DEF exit_zombie, Goto, TypeOK
  <1>8. ASSUME NEW p \in Procs, sys_exit(p) PROVE TypeOK'
    BY <1>8 DEF sys_exit, Goto, TypeOK
  <1>9. ASSUME NEW p \in Procs, sys_wait(p) PROVE TypeOK'
    BY <1>9 DEF sys_wait, Goto, TypeOK
  <1>10. ASSUME NEW p \in Procs, kwait_reap(p) PROVE TypeOK'
    <2>1. PICK q \in Procs : \/ freeproc(q)
                             \/ UNCHANGED <<state, pid, parent, chan, killed>>
      BY <1>10 DEF kwait_reap, Zombies, Children
    <2>2. UNCHANGED <<np, left, wait_lock, nextpid>>
      BY <1>10 DEF kwait_reap
    <2>3. pc' \in [Procs -> {"none", "user", "kernel", "alloc", "born", "wait",
              "waitsleep", "pause", "pausesleep", "exit", "zombie"}]
      BY <1>10 DEF kwait_reap, Return, Goto, Checked, TypeOK
    <2>4. killed' = [killed EXCEPT ![q] = FALSE] \/ killed' = killed
      BY <2>1 DEF freeproc
    <2>5. killed' \in [Procs -> BOOLEAN]
      BY <2>4, Zenon DEF TypeOK
    <2>6. QED
      BY <2>1, <2>2, <2>3, <2>5, ProcAssumption DEF freeproc, TypeOK
  <1>11. ASSUME NEW p \in Procs, kwait_none(p) PROVE TypeOK'
    BY <1>11 DEF kwait_none, Return, Goto, Checked, TypeOK
  <1>12. ASSUME NEW p \in Procs, wait_sleep(p) PROVE TypeOK'
    BY <1>12 DEF wait_sleep, sleep, Goto, TypeOK
  <1>13. ASSUME NEW p \in Procs, NEW n \in 0 .. MaxPause, sys_pause(p, n) PROVE TypeOK'
    BY <1>13 DEF sys_pause, Goto, TypeOK
  <1>14. ASSUME NEW p \in Procs, pause_turn(p) PROVE TypeOK'
    BY <1>14, ProcAssumption DEF pause_turn, Return, Goto, Checked, TypeOK
  <1>15. ASSUME NEW p \in Procs, pause_sleep(p) PROVE TypeOK'
    BY <1>15 DEF pause_sleep, sleep, Goto, TypeOK
  <1>16. ASSUME NEW p \in Procs, NEW n \in 0 .. MaxPid, kkill(p, n) PROVE TypeOK'
    <2>1. PICK q \in Procs : killed' = [killed EXCEPT ![q] = TRUE] \/ killed' = killed
      BY <1>16 DEF kkill
    <2>2. killed' \in [Procs -> BOOLEAN]
      BY <2>1, Zenon DEF TypeOK
    <2>3. QED
      BY <1>16, Zenon DEF kkill, Return, Goto, Checked, TypeOK
  <1>17. CASE clockintr
    BY <1>17, ProcAssumption DEF clockintr, Wake, Elapse, TypeOK
  <1>18. CASE UNCHANGED vars
    BY <1>18 DEF vars, TypeOK
  <1>19. QED
    BY <1>1, <1>2, <1>3, <1>4, <1>5, <1>6, <1>7, <1>8, <1>9, <1>10, <1>11, <1>12, <1>13,
       <1>14, <1>15, <1>16, <1>17, <1>18 DEF Next, Kernel, syscall

(* Where a process is, and its state: fork_start, exit_zombie and freeproc  *)
(* change both, or one that nobody else relies on.                         *)
LEMMA PlacedStep == TypeOK /\ Placed /\ OwnEntry /\ [Next]_vars => Placed'
  <1> SUFFICES ASSUME TypeOK, Placed, OwnEntry, [Next]_vars PROVE Placed'
    OBVIOUS
  <1>1. ASSUME NEW p \in Procs, usertrap(p) PROVE Placed'
    BY <1>1 DEF usertrap, Goto, Checked, At, Forking, Placed
  <1>2. ASSUME NEW p \in Procs, usertrap_fault(p) PROVE Placed'
    BY <1>2 DEF usertrap_fault, Goto, At, Forking, Placed
  <1>3. ASSUME NEW p \in Procs, kfork(p) PROVE Placed'
    BY <1>3 DEF kfork, allocproc, Goto, Return, Checked, At, TypeOK, Forking, Placed
  <1>4. ASSUME NEW p \in Procs, fork_parent(p) PROVE Placed'
    BY <1>4 DEF fork_parent, Goto, At, Forking, Placed
  <1>5. ASSUME NEW p \in Procs, fork_start(p) PROVE Placed'
    BY <1>5 DEF fork_start, Checked, At, TypeOK, Forking, Placed, OwnEntry
  <1>6. ASSUME NEW p \in Procs, kexit(p) PROVE Placed'
    BY <1>6, ProcAssumption DEF kexit, Goto, At, Wake, Forking, Placed
  <1>7. ASSUME NEW p \in Procs, exit_zombie(p) PROVE Placed'
    BY <1>7 DEF exit_zombie, Goto, At, TypeOK, Forking, Placed
  <1>8. ASSUME NEW p \in Procs, sys_exit(p) PROVE Placed'
    BY <1>8 DEF sys_exit, Goto, At, Forking, Placed
  <1>9. ASSUME NEW p \in Procs, sys_wait(p) PROVE Placed'
    BY <1>9 DEF sys_wait, Goto, At, Forking, Placed
  <1>10. ASSUME NEW p \in Procs, kwait_reap(p) PROVE Placed'
    BY <1>10 DEF kwait_reap, freeproc, Return, Goto, Checked, At, Zombies, TypeOK, Forking,
                 Placed
  <1>11. ASSUME NEW p \in Procs, kwait_none(p) PROVE Placed'
    BY <1>11 DEF kwait_none, Return, Goto, Checked, At, TypeOK, Forking, Placed
  <1>12. ASSUME NEW p \in Procs, wait_sleep(p) PROVE Placed'
    BY <1>12 DEF wait_sleep, sleep, Goto, At, TypeOK, Forking, Placed
  <1>13. ASSUME NEW p \in Procs, NEW n \in 0 .. MaxPause, sys_pause(p, n) PROVE Placed'
    BY <1>13 DEF sys_pause, Goto, At, Forking, Placed
  <1>14. ASSUME NEW p \in Procs, pause_turn(p) PROVE Placed'
    BY <1>14 DEF pause_turn, Return, Goto, Checked, At, TypeOK, Forking, Placed
  <1>15. ASSUME NEW p \in Procs, pause_sleep(p) PROVE Placed'
    BY <1>15 DEF pause_sleep, sleep, Goto, At, TypeOK, Forking, Placed
  <1>16. ASSUME NEW p \in Procs, NEW n \in 0 .. MaxPid, kkill(p, n) PROVE Placed'
    BY <1>16 DEF kkill, Return, Goto, Checked, At, TypeOK, Forking, Placed
  <1>17. CASE clockintr
    BY <1>17 DEF clockintr, Wake, Forking, Placed
  <1>18. CASE UNCHANGED vars
    BY <1>18 DEF vars, Forking, Placed
  <1>19. QED
    BY <1>1, <1>2, <1>3, <1>4, <1>5, <1>6, <1>7, <1>8, <1>9, <1>10, <1>11, <1>12, <1>13,
       <1>14, <1>15, <1>16, <1>17, <1>18 DEF Next, Kernel, syscall

(* The entries of two forks differ: only UNUSED ones are given out. *)
LEMMA OwnEntryStep == TypeOK /\ Placed /\ OwnEntry /\ [Next]_vars => OwnEntry'
  <1> SUFFICES ASSUME TypeOK, Placed, OwnEntry, [Next]_vars PROVE OwnEntry'
    OBVIOUS
  <1>1. ASSUME NEW p \in Procs, usertrap(p) PROVE OwnEntry'
    BY <1>1 DEF usertrap, Goto, Checked, Forking, OwnEntry
  <1>2. ASSUME NEW p \in Procs, usertrap_fault(p) PROVE OwnEntry'
    BY <1>2 DEF usertrap_fault, Goto, Forking, OwnEntry
  <1>3. ASSUME NEW p \in Procs, kfork(p) PROVE OwnEntry'
    BY <1>3 DEF kfork, allocproc, Goto, Return, Checked, TypeOK, Forking, Placed, OwnEntry
  <1>4. ASSUME NEW p \in Procs, fork_parent(p) PROVE OwnEntry'
    BY <1>4 DEF fork_parent, Goto, At, Forking, OwnEntry
  <1>5. ASSUME NEW p \in Procs, fork_start(p) PROVE OwnEntry'
    BY <1>5 DEF fork_start, Checked, TypeOK, Forking, OwnEntry
  <1>6. ASSUME NEW p \in Procs, kexit(p) PROVE OwnEntry'
    BY <1>6 DEF kexit, Goto, Forking, OwnEntry
  <1>7. ASSUME NEW p \in Procs, exit_zombie(p) PROVE OwnEntry'
    BY <1>7 DEF exit_zombie, Goto, Forking, OwnEntry
  <1>8. ASSUME NEW p \in Procs, sys_exit(p) PROVE OwnEntry'
    BY <1>8 DEF sys_exit, Goto, Forking, OwnEntry
  <1>9. ASSUME NEW p \in Procs, sys_wait(p) PROVE OwnEntry'
    BY <1>9 DEF sys_wait, Goto, Forking, OwnEntry
  <1>10. ASSUME NEW p \in Procs, kwait_reap(p) PROVE OwnEntry'
    BY <1>10 DEF kwait_reap, Return, Goto, Checked, Forking, OwnEntry
  <1>11. ASSUME NEW p \in Procs, kwait_none(p) PROVE OwnEntry'
    BY <1>11 DEF kwait_none, Return, Goto, Checked, TypeOK, Forking, OwnEntry
  <1>12. ASSUME NEW p \in Procs, wait_sleep(p) PROVE OwnEntry'
    BY <1>12 DEF wait_sleep, sleep, Goto, Forking, OwnEntry
  <1>13. ASSUME NEW p \in Procs, NEW n \in 0 .. MaxPause, sys_pause(p, n) PROVE OwnEntry'
    BY <1>13 DEF sys_pause, Goto, Forking, OwnEntry
  <1>14. ASSUME NEW p \in Procs, pause_turn(p) PROVE OwnEntry'
    BY <1>14 DEF pause_turn, Return, Goto, Checked, TypeOK, Forking, OwnEntry
  <1>15. ASSUME NEW p \in Procs, pause_sleep(p) PROVE OwnEntry'
    BY <1>15 DEF pause_sleep, sleep, Goto, Forking, OwnEntry
  <1>16. ASSUME NEW p \in Procs, NEW n \in 0 .. MaxPid, kkill(p, n) PROVE OwnEntry'
    BY <1>16 DEF kkill, Return, Goto, Checked, TypeOK, Forking, OwnEntry
  <1>17. CASE clockintr
    BY <1>17 DEF clockintr, Forking, OwnEntry
  <1>18. CASE UNCHANGED vars
    BY <1>18 DEF vars, Forking, OwnEntry
  <1>19. QED
    BY <1>1, <1>2, <1>3, <1>4, <1>5, <1>6, <1>7, <1>8, <1>9, <1>10, <1>11, <1>12, <1>13,
       <1>14, <1>15, <1>16, <1>17, <1>18 DEF Next, Kernel, syscall

(* A new entry has no parent, since freeproc cleared it. *)
LEMMA NewEntryStep ==
  TypeOK /\ Placed /\ OwnEntry /\ NewEntry /\ Reaped /\ [Next]_vars => NewEntry'
  <1> SUFFICES ASSUME TypeOK, Placed, OwnEntry, NewEntry, Reaped, [Next]_vars PROVE NewEntry'
    OBVIOUS
  <1>1. ASSUME NEW p \in Procs, usertrap(p) PROVE NewEntry'
    BY <1>1 DEF usertrap, Goto, Checked, NewEntry
  <1>2. ASSUME NEW p \in Procs, usertrap_fault(p) PROVE NewEntry'
    BY <1>2 DEF usertrap_fault, Goto, NewEntry
  <1>3. ASSUME NEW p \in Procs, kfork(p) PROVE NewEntry'
    BY <1>3 DEF kfork, allocproc, Goto, Return, Checked, TypeOK, NewEntry, Reaped
  <1>4. ASSUME NEW p \in Procs, fork_parent(p) PROVE NewEntry'
    BY <1>4 DEF fork_parent, Goto, At, TypeOK, Forking, OwnEntry, NewEntry
  <1>5. ASSUME NEW p \in Procs, fork_start(p) PROVE NewEntry'
    BY <1>5 DEF fork_start, Checked, TypeOK, NewEntry
  <1>6. ASSUME NEW p \in Procs, kexit(p) PROVE NewEntry'
    BY <1>6, ProcAssumption DEF kexit, Goto, Heir, Forking, Placed, NewEntry
  <1>7. ASSUME NEW p \in Procs, exit_zombie(p) PROVE NewEntry'
    BY <1>7 DEF exit_zombie, Goto, NewEntry
  <1>8. ASSUME NEW p \in Procs, sys_exit(p) PROVE NewEntry'
    BY <1>8 DEF sys_exit, Goto, NewEntry
  <1>9. ASSUME NEW p \in Procs, sys_wait(p) PROVE NewEntry'
    BY <1>9 DEF sys_wait, Goto, NewEntry
  <1>10. ASSUME NEW p \in Procs, kwait_reap(p) PROVE NewEntry'
    BY <1>10 DEF kwait_reap, freeproc, Return, Goto, Checked, TypeOK, Forking, Placed,
                 NewEntry
  <1>11. ASSUME NEW p \in Procs, kwait_none(p) PROVE NewEntry'
    BY <1>11 DEF kwait_none, Return, Goto, Checked, TypeOK, NewEntry
  <1>12. ASSUME NEW p \in Procs, wait_sleep(p) PROVE NewEntry'
    BY <1>12 DEF wait_sleep, sleep, Goto, NewEntry
  <1>13. ASSUME NEW p \in Procs, NEW n \in 0 .. MaxPause, sys_pause(p, n) PROVE NewEntry'
    BY <1>13 DEF sys_pause, Goto, NewEntry
  <1>14. ASSUME NEW p \in Procs, pause_turn(p) PROVE NewEntry'
    BY <1>14 DEF pause_turn, Return, Goto, Checked, TypeOK, NewEntry
  <1>15. ASSUME NEW p \in Procs, pause_sleep(p) PROVE NewEntry'
    BY <1>15 DEF pause_sleep, sleep, Goto, NewEntry
  <1>16. ASSUME NEW p \in Procs, NEW n \in 0 .. MaxPid, kkill(p, n) PROVE NewEntry'
    BY <1>16 DEF kkill, Return, Goto, Checked, TypeOK, NewEntry
  <1>17. CASE clockintr
    BY <1>17 DEF clockintr, NewEntry
  <1>18. CASE UNCHANGED vars
    BY <1>18 DEF vars, NewEntry
  <1>19. QED
    BY <1>1, <1>2, <1>3, <1>4, <1>5, <1>6, <1>7, <1>8, <1>9, <1>10, <1>11, <1>12, <1>13,
       <1>14, <1>15, <1>16, <1>17, <1>18 DEF Next, Kernel, syscall

(* Nobody kills init, and it does not exit. *)
LEMMA InitStep == TypeOK /\ Placed /\ InitLives /\ [Next]_vars => InitLives'
  <1> SUFFICES ASSUME TypeOK, Placed, InitLives, [Next]_vars PROVE InitLives'
    OBVIOUS
  <1>1. ASSUME NEW p \in Procs, usertrap(p) PROVE InitLives'
    BY <1>1 DEF usertrap, Goto, Checked, InitLives
  <1>2. ASSUME NEW p \in Procs, usertrap_fault(p) PROVE InitLives'
    BY <1>2 DEF usertrap_fault, Goto, InitLives
  <1>3. ASSUME NEW p \in Procs, kfork(p) PROVE InitLives'
    BY <1>3, ProcAssumption DEF kfork, Goto, Return, TypeOK, InitLives
  <1>4. ASSUME NEW p \in Procs, fork_parent(p) PROVE InitLives'
    BY <1>4 DEF fork_parent, Goto, InitLives
  <1>5. ASSUME NEW p \in Procs, fork_start(p) PROVE InitLives'
    BY <1>5, ProcAssumption DEF fork_start, Checked, TypeOK, InitLives
  <1>6. ASSUME NEW p \in Procs, kexit(p) PROVE InitLives'
    BY <1>6 DEF kexit, Goto, InitLives
  <1>7. ASSUME NEW p \in Procs, exit_zombie(p) PROVE InitLives'
    BY <1>7 DEF exit_zombie, Goto, At, InitLives
  <1>8. ASSUME NEW p \in Procs, sys_exit(p) PROVE InitLives'
    BY <1>8 DEF sys_exit, Goto, InitLives
  <1>9. ASSUME NEW p \in Procs, sys_wait(p) PROVE InitLives'
    BY <1>9 DEF sys_wait, Goto, InitLives
  <1>10. ASSUME NEW p \in Procs, kwait_reap(p) PROVE InitLives'
    BY <1>10, ProcAssumption DEF kwait_reap, freeproc, Return, Goto, Checked, TypeOK,
                                 InitLives
  <1>11. ASSUME NEW p \in Procs, kwait_none(p) PROVE InitLives'
    BY <1>11, ProcAssumption DEF kwait_none, Return, Goto, Checked, TypeOK, InitLives
  <1>12. ASSUME NEW p \in Procs, wait_sleep(p) PROVE InitLives'
    BY <1>12 DEF wait_sleep, sleep, Goto, InitLives
  <1>13. ASSUME NEW p \in Procs, NEW n \in 0 .. MaxPause, sys_pause(p, n) PROVE InitLives'
    BY <1>13 DEF sys_pause, Goto, InitLives
  <1>14. ASSUME NEW p \in Procs, pause_turn(p) PROVE InitLives'
    BY <1>14, ProcAssumption DEF pause_turn, Return, Goto, Checked, TypeOK, InitLives
  <1>15. ASSUME NEW p \in Procs, pause_sleep(p) PROVE InitLives'
    BY <1>15 DEF pause_sleep, sleep, Goto, InitLives
  <1>16. ASSUME NEW p \in Procs, NEW n \in 0 .. MaxPid, kkill(p, n) PROVE InitLives'
    BY <1>16, ProcAssumption DEF kkill, Return, Goto, TypeOK, InitLives
  <1>17. CASE clockintr
    BY <1>17 DEF clockintr, InitLives
  <1>18. CASE UNCHANGED vars
    BY <1>18 DEF vars, InitLives
  <1>19. QED
    BY <1>1, <1>2, <1>3, <1>4, <1>5, <1>6, <1>7, <1>8, <1>9, <1>10, <1>11, <1>12, <1>13,
       <1>14, <1>15, <1>16, <1>17, <1>18 DEF Next, Kernel, syscall

(* Who exits hands over its children first, to init, which does not exit. *)
LEMMA ReaperStep == TypeOK /\ Placed /\ InitLives /\ Reaped /\ [Next]_vars => Reaped'
  <1> SUFFICES ASSUME TypeOK, Placed, InitLives, Reaped, [Next]_vars PROVE Reaped'
    OBVIOUS
  <1>1. ASSUME NEW p \in Procs, usertrap(p) PROVE Reaped'
    BY <1>1 DEF usertrap, Goto, Checked, Reaped
  <1>2. ASSUME NEW p \in Procs, usertrap_fault(p) PROVE Reaped'
    BY <1>2 DEF usertrap_fault, Goto, Reaped
  <1>3. ASSUME NEW p \in Procs, kfork(p) PROVE Reaped'
    BY <1>3 DEF kfork, allocproc, Goto, Return, Checked, TypeOK, Reaped
  <1>4. ASSUME NEW p \in Procs, fork_parent(p) PROVE Reaped'
    BY <1>4 DEF fork_parent, Goto, At, Forking, Placed, Reaped
  <1>5. ASSUME NEW p \in Procs, fork_start(p) PROVE Reaped'
    BY <1>5 DEF fork_start, Checked, TypeOK, Reaped
  <1>6. ASSUME NEW p \in Procs, kexit(p) PROVE Reaped'
    BY <1>6, ProcAssumption DEF kexit, Goto, Wake, Heir, TypeOK, Placed, InitLives, Reaped
  <1>7. ASSUME NEW p \in Procs, exit_zombie(p) PROVE Reaped'
    BY <1>7 DEF exit_zombie, Goto, At, Reaped
  <1>8. ASSUME NEW p \in Procs, sys_exit(p) PROVE Reaped'
    BY <1>8 DEF sys_exit, Goto, Reaped
  <1>9. ASSUME NEW p \in Procs, sys_wait(p) PROVE Reaped'
    BY <1>9 DEF sys_wait, Goto, Reaped
  <1>10. ASSUME NEW p \in Procs, kwait_reap(p) PROVE Reaped'
    BY <1>10 DEF kwait_reap, freeproc, Return, Goto, Checked, Zombies, TypeOK, Reaped
  <1>11. ASSUME NEW p \in Procs, kwait_none(p) PROVE Reaped'
    BY <1>11 DEF kwait_none, Return, Goto, Checked, TypeOK, Reaped
  <1>12. ASSUME NEW p \in Procs, wait_sleep(p) PROVE Reaped'
    BY <1>12 DEF wait_sleep, sleep, Goto, Reaped
  <1>13. ASSUME NEW p \in Procs, NEW n \in 0 .. MaxPause, sys_pause(p, n) PROVE Reaped'
    BY <1>13 DEF sys_pause, Goto, Reaped
  <1>14. ASSUME NEW p \in Procs, pause_turn(p) PROVE Reaped'
    BY <1>14 DEF pause_turn, Return, Goto, Checked, TypeOK, Reaped
  <1>15. ASSUME NEW p \in Procs, pause_sleep(p) PROVE Reaped'
    BY <1>15 DEF pause_sleep, sleep, Goto, Reaped
  <1>16. ASSUME NEW p \in Procs, NEW n \in 0 .. MaxPid, kkill(p, n) PROVE Reaped'
    BY <1>16 DEF kkill, Return, Goto, Checked, TypeOK, Reaped
  <1>17. CASE clockintr
    BY <1>17 DEF clockintr, Wake, TypeOK, Reaped
  <1>18. CASE UNCHANGED vars
    BY <1>18 DEF vars, Reaped
  <1>19. QED
    BY <1>1, <1>2, <1>3, <1>4, <1>5, <1>6, <1>7, <1>8, <1>9, <1>10, <1>11, <1>12, <1>13,
       <1>14, <1>15, <1>16, <1>17, <1>18 DEF Next, Kernel, syscall

(* Who registers in kwait does so under wait_lock, which an exiting child   *)
(* holds from its wakeup until it is a zombie; reparent wakes init.        *)
LEMMA WaitStep ==
  /\ TypeOK /\ Placed /\ NewEntry /\ InitLives /\ Reaped /\ WaitHolds
  /\ [Next]_vars
  => WaitHolds'
  <1> SUFFICES ASSUME TypeOK, Placed, NewEntry, InitLives, Reaped, WaitHolds, [Next]_vars
               PROVE  WaitHolds'
    OBVIOUS
  <1>1. ASSUME NEW p \in Procs, usertrap(p) PROVE WaitHolds'
    BY <1>1 DEF usertrap, Goto, Checked, WaitHolds, InWait
  <1>2. ASSUME NEW p \in Procs, usertrap_fault(p) PROVE WaitHolds'
    BY <1>2 DEF usertrap_fault, Goto, WaitHolds, InWait
  <1>3. ASSUME NEW p \in Procs, kfork(p) PROVE WaitHolds'
    BY <1>3 DEF kfork, allocproc, Goto, Return, Checked, TypeOK, WaitHolds, InWait
  <1>4. ASSUME NEW p \in Procs, fork_parent(p) PROVE WaitHolds'
    BY <1>4, ProcAssumption DEF fork_parent, Goto, At, NewEntry, WaitHolds, InWait
  <1>5. ASSUME NEW p \in Procs, fork_start(p) PROVE WaitHolds'
    BY <1>5 DEF fork_start, Checked, TypeOK, WaitHolds, InWait
  <1>6. ASSUME NEW p \in Procs, kexit(p) PROVE WaitHolds'
    BY <1>6, ProcAssumption DEF kexit, Goto, At, Wake, Heir, Heirs, Registered, Children,
                                WaitHolds, InWait, NoChan
  <1>7. ASSUME NEW p \in Procs, exit_zombie(p) PROVE WaitHolds'
    BY <1>7 DEF exit_zombie, Goto, At, WaitHolds, InWait
  <1>8. ASSUME NEW p \in Procs, sys_exit(p) PROVE WaitHolds'
    BY <1>8 DEF sys_exit, Goto, WaitHolds, InWait
  <1>9. ASSUME NEW p \in Procs, sys_wait(p) PROVE WaitHolds'
    BY <1>9 DEF sys_wait, Goto, At, WaitHolds, InWait
  <1>10. ASSUME NEW p \in Procs, kwait_reap(p) PROVE WaitHolds'
    BY <1>10, ProcAssumption DEF kwait_reap, freeproc, Return, Goto, Checked, Zombies,
                                 TypeOK, WaitHolds, InWait
  <1>11. ASSUME NEW p \in Procs, kwait_none(p) PROVE WaitHolds'
    BY <1>11, ProcAssumption DEF kwait_none, Return, Goto, Checked, Zombies, Children,
                                 TypeOK, Placed, WaitHolds, InWait
  <1>12. ASSUME NEW p \in Procs, wait_sleep(p) PROVE WaitHolds'
    BY <1>12 DEF wait_sleep, sleep, Goto, At, WaitHolds, InWait
  <1>13. ASSUME NEW p \in Procs, NEW n \in 0 .. MaxPause, sys_pause(p, n) PROVE WaitHolds'
    BY <1>13 DEF sys_pause, Goto, WaitHolds, InWait
  <1>14. ASSUME NEW p \in Procs, pause_turn(p) PROVE WaitHolds'
    BY <1>14 DEF pause_turn, Return, Goto, Checked, TypeOK, WaitHolds, InWait
  <1>15. ASSUME NEW p \in Procs, pause_sleep(p) PROVE WaitHolds'
    BY <1>15 DEF pause_sleep, sleep, Goto, At, WaitHolds, InWait
  <1>16. ASSUME NEW p \in Procs, NEW n \in 0 .. MaxPid, kkill(p, n) PROVE WaitHolds'
    BY <1>16 DEF kkill, Return, Goto, Checked, TypeOK, WaitHolds, InWait
  <1>17. CASE clockintr
    BY <1>17, SMTT(20) DEF clockintr, Wake, WaitHolds, InWait
  <1>18. CASE UNCHANGED vars
    BY <1>18 DEF vars, WaitHolds, InWait
  <1>19. QED
    BY <1>1, <1>2, <1>3, <1>4, <1>5, <1>6, <1>7, <1>8, <1>9, <1>10, <1>11, <1>12, <1>13,
       <1>14, <1>15, <1>16, <1>17, <1>18 DEF Next, Kernel, syscall

(* A tick takes time from all and wakes all who are registered. *)
LEMMA PauseStep == TypeOK /\ Placed /\ PauseHolds /\ [Next]_vars => PauseHolds'
  <1> SUFFICES ASSUME TypeOK, Placed, PauseHolds, [Next]_vars PROVE PauseHolds'
    OBVIOUS
  <1>1. ASSUME NEW p \in Procs, usertrap(p) PROVE PauseHolds'
    BY <1>1 DEF usertrap, Goto, Checked, PauseHolds, InPause
  <1>2. ASSUME NEW p \in Procs, usertrap_fault(p) PROVE PauseHolds'
    BY <1>2 DEF usertrap_fault, Goto, PauseHolds, InPause
  <1>3. ASSUME NEW p \in Procs, kfork(p) PROVE PauseHolds'
    BY <1>3 DEF kfork, allocproc, Goto, Return, Checked, TypeOK, PauseHolds, InPause
  <1>4. ASSUME NEW p \in Procs, fork_parent(p) PROVE PauseHolds'
    BY <1>4 DEF fork_parent, Goto, PauseHolds, InPause
  <1>5. ASSUME NEW p \in Procs, fork_start(p) PROVE PauseHolds'
    BY <1>5 DEF fork_start, Checked, TypeOK, PauseHolds, InPause
  <1>6. ASSUME NEW p \in Procs, kexit(p) PROVE PauseHolds'
    BY <1>6 DEF kexit, Goto, Wake, PauseHolds, InPause
  <1>7. ASSUME NEW p \in Procs, exit_zombie(p) PROVE PauseHolds'
    BY <1>7 DEF exit_zombie, Goto, PauseHolds, InPause
  <1>8. ASSUME NEW p \in Procs, sys_exit(p) PROVE PauseHolds'
    BY <1>8 DEF sys_exit, Goto, PauseHolds, InPause
  <1>9. ASSUME NEW p \in Procs, sys_wait(p) PROVE PauseHolds'
    BY <1>9 DEF sys_wait, Goto, PauseHolds, InPause
  <1>10. ASSUME NEW p \in Procs, kwait_reap(p) PROVE PauseHolds'
    BY <1>10 DEF kwait_reap, freeproc, Return, Goto, Checked, TypeOK, PauseHolds, InPause
  <1>11. ASSUME NEW p \in Procs, kwait_none(p) PROVE PauseHolds'
    BY <1>11 DEF kwait_none, Return, Goto, Checked, TypeOK, PauseHolds, InPause
  <1>12. ASSUME NEW p \in Procs, wait_sleep(p) PROVE PauseHolds'
    BY <1>12 DEF wait_sleep, sleep, Goto, At, PauseHolds, InPause
  <1>13. ASSUME NEW p \in Procs, NEW n \in 0 .. MaxPause, sys_pause(p, n) PROVE PauseHolds'
    BY <1>13 DEF sys_pause, Goto, At, PauseHolds, InPause
  <1>14. ASSUME NEW p \in Procs, pause_turn(p) PROVE PauseHolds'
    BY <1>14 DEF pause_turn, Return, Goto, Checked, TypeOK, PauseHolds, InPause
  <1>15. ASSUME NEW p \in Procs, pause_sleep(p) PROVE PauseHolds'
    BY <1>15 DEF pause_sleep, sleep, Goto, At, PauseHolds, InPause
  <1>16. ASSUME NEW p \in Procs, NEW n \in 0 .. MaxPid, kkill(p, n) PROVE PauseHolds'
    BY <1>16 DEF kkill, Return, Goto, Checked, TypeOK, PauseHolds, InPause
  <1>17. CASE clockintr
    BY <1>17 DEF clockintr, Wake, Registered, PauseHolds, InPause, NoChan, Ticks
  <1>18. CASE UNCHANGED vars
    BY <1>18 DEF vars, PauseHolds, InPause
  <1>19. QED
    BY <1>1, <1>2, <1>3, <1>4, <1>5, <1>6, <1>7, <1>8, <1>9, <1>10, <1>11, <1>12, <1>13,
       <1>14, <1>15, <1>16, <1>17, <1>18 DEF Next, Kernel, syscall

-----------------------------------------------------------------------------
(* The theorems. *)

(* userinit: one process, which waits for nothing. *)
LEMMA InitInv == Init => PInv
  <1> SUFFICES ASSUME Init PROVE PInv
    OBVIOUS
  <1>1. TypeOK
    BY ProcAssumption DEF Init, TypeOK
  <1>2. Placed /\ OwnEntry /\ NewEntry /\ Reaped
    BY DEF Init, Placed, OwnEntry, NewEntry, Reaped, Forking
  <1>3. InitLives /\ WaitHolds /\ PauseHolds
    BY ProcAssumption DEF Init, InitLives, WaitHolds, PauseHolds, InWait, InPause
  <1>4. QED
    BY <1>1, <1>2, <1>3 DEF PInv

(* The lemmas above, together. *)
LEMMA NextInv == PInv /\ [Next]_vars => PInv'
  BY TypeStep, PlacedStep, OwnEntryStep, NewEntryStep, InitStep, ReaperStep, WaitStep,
     PauseStep DEF PInv

(* The inductive invariant of fork, exit, wait, kill and pause. *)
THEOREM ProcInvariant == Spec => []PInv
  BY InitInv, NextInv, PTL DEF Spec

(* kexit and reparent leave no process without a parent that can reap it,  *)
(* however exits, forks and waits interleave.                              *)
THEOREM EveryoneHasReaper == Spec => []HasReaper
  <1>1. PInv => HasReaper
    BY DEF PInv, HasReaper, Reaped
  <1>2. QED
    BY <1>1, ProcInvariant, PTL

(* No exit comes unnoticed between kwait's scan and its sleep, and no tick *)
(* between sys_pause's test and its sleep, also when a kill has made a     *)
(* process go on with its old registration.                                *)
THEOREM NobodyMissesWakeup == Spec => []NoMissedWakeup
  <1>1. PInv => NoMissedWakeup
    <2> SUFFICES ASSUME PInv PROVE NoMissedWakeup
      OBVIOUS
    <2>1. WaiterHasLiveChild
      BY DEF PInv, WaitHolds, InWait, WaiterHasLiveChild, Children, Zombies
    <2>2. PauserInTime
      BY DEF PInv, PauseHolds, InPause, PauserInTime
    <2>3. QED
      BY <2>1, <2>2 DEF NoMissedWakeup
  <1>2. QED
    BY <1>1, ProcInvariant, PTL
=============================================================================
