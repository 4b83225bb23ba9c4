----------------------------- MODULE LogProofs ------------------------------
(***************************************************************************)
(* The inductive invariant of Log, for every number of blocks, threads and *)
(* log entries, and what follows from it: the log never overflows, pins    *)
(* match it, sys_sync means durable; and Log implements AtomicDisk: system *)
(* calls are atomic with respect to crashes.                               *)
(*                                                                         *)
(* The steps that need no counting come first; the theorems about finite   *)
(* sets are brought in at the end.                                         *)
(***************************************************************************)
EXTENDS Log, TLAPS

-----------------------------------------------------------------------------
(* The invariant. *)

Distinct(s) == \A i, j \in DOMAIN s : s[i] = s[j] => i = j

(* Before the first system call: memory agrees with the disk. *)
Boot ==
  ~up => /\ phase \in {"read_head", "install", "clear"}
         /\ phase = "read_head" => lh = <<>> /\ tail = 1
         /\ \A p \in Thread : pc[p] = "idle"
         /\ \A b \in Block : pin[b] = 0 /\ cached[b] \in {NoVal, disk[b]}

(* What the header on disk and the loops over the log are at each phase. *)
Headed ==
  /\ phase \in {"install", "clear"} => dhead = lh
  /\ phase \in {"none", "write_log", "write_head", "done"} => up /\ dhead = <<>>
  /\ phase = "read_head" => ~up
  /\ phase = "done" => lh = <<>>
  /\ phase \in {"write_log", "write_head", "install"} => tail \in 1 .. Len(lh)
  /\ phase = "write_head" => tail = 1
  /\ Distinct(lh) /\ Distinct(dhead) /\ Len(dhead) <= LOGBLOCKS

(* The cache differs from the disk only in blocks that are to be           *)
(* installed, which stay in it; the log is copied from it, block by block, *)
(* and then to the disk.                                                   *)
Copies ==
  /\ up => \A b \in Block : IF ToInstall(b) THEN cached[b] # NoVal
                                            ELSE cached[b] \in {NoVal, disk[b]}
  /\ phase = "write_log" => \A i \in 1 .. tail - 1 : dlog[i] = cached[lh[i]]
  /\ phase = "write_head" => \A i \in DOMAIN lh : dlog[i] = cached[lh[i]]
  /\ phase = "install" => \A i \in 1 .. tail - 1 : disk[lh[i]] = dlog[i]
  /\ phase = "install" /\ up => \A i \in tail .. Len(lh) : dlog[i] = cached[lh[i]]
  /\ phase = "clear" => \A i \in DOMAIN lh : disk[lh[i]] = dlog[i]

Pinned == up => \A b \in Block : pin[b] = IF ToInstall(b) THEN 1 ELSE 0

(* outstanding counts the open system calls; there is none in a commit. *)
Counted ==
  /\ outstanding = Cardinality(Open)
  /\ committing => Open = {}

(* What the open calls have reserved and not used yet: the log has room    *)
(* for it, and what they have written is in the log.                       *)
Slack == {x \in Open \X (1 .. MAXOPBLOCKS) : x[2] > Cardinality(wr[x[1]])}

Roomy ==
  /\ \A p \in Open : /\ IsFiniteSet(wr[p]) /\ Cardinality(wr[p]) <= OpBlocks
                     /\ \A b \in wr[p] : InLog(b)
  /\ Len(lh) + Cardinality(Slack) <= LOGBLOCKS

(* What is in the log is waited for. *)
Waited ==
  /\ up /\ phase = "none" /\ outstanding = 0 => lh = <<>>
  /\ \A p \in Thread : owed[p] => lh # <<>> /\ dhead = <<>> /\ left[p] = 1

LInv == /\ TypeOK /\ Boot /\ Headed /\ Copies
        /\ Pinned /\ Counted /\ Roomy /\ Waited

-----------------------------------------------------------------------------
(* Sequences. *)

(* A sequence is a function on 1 .. its length. *)
LEMMA SeqLen ==
  ASSUME NEW S, NEW s \in Seq(S)
  PROVE  /\ Len(s) \in Nat /\ s \in [1 .. Len(s) -> S] /\ DOMAIN s = 1 .. Len(s)
         /\ \A i \in 1 .. Len(s) : s[i] \in S
  OBVIOUS

(* The empty sequence. *)
LEMMA SeqEmpty ==
  ASSUME NEW S
  PROVE  <<>> \in Seq(S) /\ Len(<<>>) = 0
  OBVIOUS

(* What Append adds. *)
LEMMA SeqAppend ==
  ASSUME NEW S, NEW s \in Seq(S), NEW x \in S
  PROVE  /\ Append(s, x) \in Seq(S) /\ Append(s, x) # <<>>
         /\ Len(Append(s, x)) = Len(s) + 1
         /\ \A i \in 1 .. Len(s) : Append(s, x)[i] = s[i]
         /\ Append(s, x)[Len(s) + 1] = x
  OBVIOUS

-----------------------------------------------------------------------------
(* The header, and recovery at boot. *)

(* What the log's header is made of, phase by phase. *)
LEMMA HeadStep == TypeOK /\ Boot /\ Headed /\ Counted /\ [Next]_vars => Headed'
  <1> SUFFICES ASSUME TypeOK, Boot, Headed, Counted, [Next]_vars PROVE Headed'
    OBVIOUS
  <1> Len(lh) \in Nat /\ DOMAIN lh = 1 .. Len(lh) /\ tail \in Nat
    BY SeqLen DEF TypeOK
  <1> USE DEF onDisk, cache, calls, sync
  <1>1. CASE UNCHANGED <<phase, lh, dhead, up, tail>>
    BY <1>1 DEF Headed, Distinct
  <1>2. ASSUME NEW p \in Thread, end_op(p) PROVE Headed'
    <2> USE <1>2
    <2>1. phase = "none"
      BY DEF end_op, Counted, committing, Open
    <2>2. CASE outstanding = 1
      <3>1. phase' = CommitStart /\ tail' = 1 /\ UNCHANGED <<lh, dhead, up>>
        BY <2>2 DEF end_op
      <3>2. CASE lh = <<>>
        BY <2>1, <3>1, <3>2 DEF CommitStart, Headed, Distinct
      <3>3. CASE lh # <<>>
        <4> USE <3>3
        <4>1. 1 \in 1 .. Len(lh)
          BY SeqEmpty DEF TypeOK
        <4>2. QED
          BY <2>1, <3>1, <4>1 DEF CommitStart, Headed, Distinct
      <3>4. QED
        BY <3>2, <3>3
    <2>3. CASE outstanding # 1
      BY <1>1, <2>3 DEF end_op
    <2>4. QED
      BY <2>2, <2>3
  <1>3. ASSUME NEW p \in Thread, end_commit(p) PROVE Headed'
    BY <1>3 DEF end_commit, Headed, Distinct
  <1>4. ASSUME NEW p \in Thread, NEW b \in Block, NEW v \in Val, log_write(p, b, v)
        PROVE  Headed'
    <2> USE <1>4
    <2>1. phase = "none" /\ phase' = "none" /\ UNCHANGED <<dhead, up>>
      BY DEF log_write, MayWrite, Counted, committing, Open
    <2>2. Distinct(lh)'
      <3>1. CASE InLog(b)
        BY <3>1 DEF log_write, Absorbed, Headed, Distinct
      <3>2. CASE ~InLog(b)
        <4> USE <3>2
        <4>1. lh' = Append(lh, b)
          BY DEF log_write, Absorbed
        <4>2. /\ Append(lh, b) \in Seq(Block) /\ Len(Append(lh, b)) = Len(lh) + 1
              /\ \A i \in 1 .. Len(lh) : Append(lh, b)[i] = lh[i]
              /\ Append(lh, b)[Len(lh) + 1] = b
          BY SeqAppend DEF TypeOK
        <4>3. DOMAIN lh' = 1 .. Len(lh) + 1
          BY <4>1, <4>2, SeqLen
        <4>4. \A i \in 1 .. Len(lh) : lh'[i] = lh[i] /\ lh'[i] # b
          BY <4>1, <4>2 DEF InLog
        <4>5. lh'[Len(lh) + 1] = b
          BY <4>1, <4>2
        <4>6. QED
          BY <4>3, <4>4, <4>5 DEF Distinct, Headed
      <3>3. QED
        BY <3>1, <3>2
    <2>3. QED
      BY <2>1, <2>2 DEF Headed, Distinct
  <1>5. CASE write_log \/ install_trans
    <2> USE <1>5
    <2>1. UNCHANGED <<lh, dhead, up>>
      BY DEF write_log, install_trans
    <2>2. \/ tail < Len(lh) /\ tail' = tail + 1 /\ phase' = phase
          \/ tail' = 1 /\ phase = "write_log" /\ phase' = "write_head"
          \/ tail' = 1 /\ phase = "install" /\ phase' = "clear"
      BY DEF write_log, install_trans, Advance
    <2>3. phase \in {"write_log", "install"} /\ tail \in 1 .. Len(lh)
      BY DEF write_log, install_trans, Headed
    <2>4. tail' \in 1 .. Len(lh)
      BY <2>2, <2>3
    <2>5. Distinct(lh)' /\ Distinct(dhead)'
      BY <2>1 DEF Headed, Distinct
    <2>6. QED
      BY <2>1, <2>2, <2>3, <2>4, <2>5 DEF Headed
  <1>6. CASE write_head
    BY <1>6 DEF write_head, Headed, Distinct, TypeOK
  <1>7. CASE clear_head
    <2> USE <1>7
    <2>1. lh' = <<>> /\ dhead' = <<>> /\ Len(<<>>) <= LOGBLOCKS
      BY LogAssumption, SeqEmpty DEF clear_head
    <2>2. Distinct(lh)' /\ Distinct(dhead)'
      BY <2>1 DEF Distinct
    <2>3. up' /\ phase' \in {"done", "none"}
      BY DEF clear_head
    <2>4. QED
      BY <2>1, <2>2, <2>3 DEF Headed
  <1>8. CASE read_head
    <2> USE <1>8
    <2>1. phase = "read_head" /\ lh' = dhead /\ UNCHANGED <<dhead, up, tail>>
      BY DEF read_head
    <2>2. ~up /\ tail = 1
      BY <2>1 DEF Headed, Boot
    <2>3. Distinct(lh)' /\ Distinct(dhead)'
      BY <2>1 DEF Headed, Distinct
    <2>4. CASE dhead = <<>>
      BY <2>1, <2>3, <2>4 DEF read_head, Headed
    <2>5. CASE dhead # <<>>
      <3> USE <2>5
      <3>1. 1 \in 1 .. Len(dhead)
        BY SeqEmpty DEF TypeOK
      <3>2. QED
        BY <2>1, <2>2, <2>3, <3>1 DEF read_head, Headed
    <2>6. QED
      BY <2>4, <2>5
  <1>9. CASE Crash
    BY <1>9 DEF Crash, Headed, Distinct
  <1>10. QED
    BY <1>1, <1>2, <1>3, <1>4, <1>5, <1>6, <1>7, <1>8, <1>9 DEF Next, Commit, begin_op,
       sys_sync, sync_wake, bget_fill, bget_recycle, vars

(* Before recovery is over no system call runs, and what recovery caches   *)
(* is what it has written to the disk.                                     *)
LEMMA BootStep == TypeOK /\ Boot /\ Headed /\ Counted /\ [Next]_vars => Boot'
  <1> SUFFICES ASSUME TypeOK, Boot, Headed, Counted, [Next]_vars, ~up' PROVE Boot'
    BY Zenon DEF Boot
  <1> USE DEF onDisk, cache, calls, sync
  <1>1. ASSUME ~up, NEW p \in Thread
        PROVE  ~(end_op(p) \/ end_commit(p) \/ begin_op(p) \/ sys_sync(p) \/ sync_wake(p))
    BY <1>1, Zenon DEF Boot, end_op, end_commit, begin_op, sys_sync, sync_wake
  <1>2. ASSUME ~up, NEW p \in Thread, NEW b \in Block, NEW v \in Val
        PROVE  ~log_write(p, b, v)
    BY <1>2 DEF Boot, log_write, MayWrite
  <1>3. CASE Crash
    BY <1>3 DEF Crash, Boot
  <1>4. CASE ~up /\ install_trans
    <2> USE <1>4
    <2>1. phase' \in {"install", "clear"} /\ pc' = pc
      BY DEF install_trans, Advance
    <2>2. lh[tail] \in Block
      BY SeqLen DEF install_trans, Headed, TypeOK
    <2>3. /\ disk' = [disk EXCEPT ![lh[tail]] = dlog[tail]]
          /\ cached' = [cached EXCEPT ![lh[tail]] = dlog[tail]]
          /\ pin' = [pin EXCEPT ![lh[tail]] = pin[lh[tail]]]
      BY DEF install_trans, bunpin
    <2>4. \A b \in Block : pin'[b] = 0 /\ cached'[b] \in {NoVal, disk'[b]}
      BY <2>2, <2>3 DEF Boot, TypeOK
    <2>5. QED
      BY <2>1, <2>4 DEF Boot
  <1>5. CASE ~up /\ read_head
    BY <1>5 DEF read_head, Boot
  <1>6. ASSUME ~up, NEW b \in Block, bget_recycle(b) PROVE Boot'
    <2> USE <1>6
    <2>1. \A c \in Block : cached'[c] \in {NoVal, disk[c]}
      BY DEF bget_recycle, Boot, TypeOK
    <2>2. QED
      BY <2>1 DEF bget_recycle, Boot
  <1>7. CASE UNCHANGED vars
    BY <1>7 DEF vars, Boot
  <1>8. CASE ~Crash /\ up
    BY <1>8, Zenon DEF Next, Commit, begin_op, end_op, end_commit, sys_sync, sync_wake,
       log_write, write_log, write_head, install_trans, clear_head, read_head, bget_fill,
       bget_recycle, vars
  <1>9. CASE ~up /\ (write_log \/ write_head)
    BY <1>9 DEF Boot, write_log, write_head
  <1>10. CASE ~up /\ clear_head
    BY <1>10 DEF clear_head
  <1>11. ASSUME ~up, NEW b \in Block PROVE ~bget_fill(b)
    BY <1>11 DEF bget_fill
  <1>12. QED
    BY <1>1, <1>2, <1>3, <1>4, <1>5, <1>6, <1>7, <1>8, <1>9, <1>10, <1>11 DEF Next, Commit

-----------------------------------------------------------------------------
(* What is to be installed. *)

(* Outside the installation, everything in the log. *)
LEMMA InstallIsLog ==
  ASSUME phase \notin {"install", "clear"}, NEW b \in Block
  PROVE  ToInstall(b) <=> InLog(b)
  BY DEF ToInstall, InLog

(* install_trans takes one block off, and the loop its last one. *)
LEMMA InstallMoves ==
  ASSUME TypeOK, Headed, install_trans
  PROVE  /\ tail \in DOMAIN lh /\ lh[tail] \in Block /\ ToInstall(lh[tail])
         /\ \A b \in Block : ToInstall(b)' <=> ToInstall(b) /\ b # lh[tail]
  <1> Len(lh) \in Nat /\ DOMAIN lh = 1 .. Len(lh)
    BY SeqLen DEF TypeOK
  <1>1. tail \in 1 .. Len(lh) /\ phase = "install" /\ lh' = lh
    BY DEF Headed, install_trans
  <1> DEFINE n == Len(lh)
  <1>a. n \in Nat /\ tail \in 1 .. n
    BY <1>1
  <1>b. tail < n \/ tail = n
    <2> HIDE DEF n
    <2> QED
      BY <1>a
  <1>2. lh[tail] \in Block
    BY <1>1, SeqLen DEF TypeOK
  <1>3. ToInstall(lh[tail])
    BY <1>1 DEF ToInstall
  <1>4. ASSUME NEW b \in Block PROVE ToInstall(b)' <=> ToInstall(b) /\ b # lh[tail]
    <2>1. \A i \in DOMAIN lh : lh[i] = lh[tail] => i = tail
      BY <1>1 DEF Headed, Distinct
    <2>2. CASE tail < Len(lh)
      <3>1. phase' = "install" /\ tail' = tail + 1
        BY <1>1, <2>2 DEF install_trans, Advance
      <3>2. QED
        BY <1>1, <2>1, <3>1 DEF ToInstall
    <2>3. CASE tail = Len(lh)
      <3> USE <2>3
      <3>1. ~(tail < Len(lh))
        OBVIOUS
      <3>2. phase' = "clear"
        <4>1. Advance("clear")
          BY DEF install_trans
        <4>2. QED
          BY <3>1, <4>1 DEF Advance
      <3>3. QED
        BY <1>1, <2>1, <3>2 DEF ToInstall
    <2>4. QED
      BY <1>b, <2>2, <2>3
  <1>5. QED
    BY <1>1, <1>2, <1>3, <1>4

(* log_write makes its block one to be installed, and no other. *)
LEMMA WriteInstalls ==
  ASSUME TypeOK, Counted, NEW p \in Thread, NEW b \in Block, NEW v \in Val,
         log_write(p, b, v)
  PROVE  /\ phase = "none" /\ phase' = "none"
         /\ \A c \in Block : ToInstall(c)' <=> ToInstall(c) \/ c = b
         /\ \A c \in Block : ToInstall(c) <=> InLog(c)
  <1>1. phase = "none" /\ phase' = "none"
    BY DEF log_write, MayWrite, Counted, committing, Open
  <1>2. \A c \in Block : ToInstall(c) <=> InLog(c)
    BY <1>1, InstallIsLog
  <1>3. \A c \in Block : ToInstall(c)' <=> \E i \in DOMAIN lh' : lh'[i] = c
    BY <1>1 DEF ToInstall
  <1>4. \A c \in Block : (\E i \in DOMAIN lh' : lh'[i] = c) <=> InLog(c) \/ c = b
    <2>1. CASE InLog(b)
      BY <2>1 DEF log_write, Absorbed, InLog
    <2>2. CASE ~InLog(b)
      <3>1. lh' = Append(lh, b)
        BY <2>2, Zenon DEF log_write, Absorbed
      <3>2. /\ Append(lh, b) \in Seq(Block) /\ Len(Append(lh, b)) = Len(lh) + 1
            /\ \A i \in 1 .. Len(lh) : Append(lh, b)[i] = lh[i]
            /\ Append(lh, b)[Len(lh) + 1] = b
        BY SeqAppend, SMTT(20) DEF TypeOK
      <3>3. /\ DOMAIN lh' = 1 .. Len(lh) + 1
            /\ Len(lh) \in Nat /\ DOMAIN lh = 1 .. Len(lh)
        BY <3>1, <3>2, SeqLen, Zenon DEF TypeOK
      <3>4. QED
        BY <3>1, <3>2, <3>3, SMTT(20) DEF InLog
    <2>3. QED
      BY <2>1, <2>2
  <1>5. QED
    BY <1>1, <1>2, <1>3, <1>4

(* The other steps leave what is to be installed as it is, those of        *)
(* recovery and a crash aside.                                             *)
LEMMA InstallStays ==
  ASSUME TypeOK, Headed, Counted, [Next]_vars, up, up', ~install_trans,
         \A p \in Thread, b \in Block, v \in Val : ~log_write(p, b, v)
  PROVE  \A b \in Block : ToInstall(b)' <=> ToInstall(b)
  <1> USE DEF onDisk, cache, calls, sync
  <1>1. CASE UNCHANGED <<lh, phase, tail>>
    BY <1>1, SMTT(20) DEF ToInstall
  <1>2. CASE /\ lh' = lh
             /\ phase \notin {"install", "clear"} /\ phase' \notin {"install", "clear"}
    BY <1>2, SMTT(20) DEF ToInstall
  <1>3. CASE write_head
    <2>1. \A i \in DOMAIN lh : i >= 1
      BY SeqLen DEF TypeOK
    <2>2. lh' = lh /\ phase = "write_head" /\ phase' = "install" /\ tail' = tail /\ tail = 1
      BY <1>3 DEF write_head, Headed
    <2>3. QED
      BY <2>1, <2>2 DEF ToInstall
  <1>4. CASE clear_head
    <2>1. phase = "clear" /\ lh' = <<>>
      BY <1>4 DEF clear_head
    <2>2. QED
      BY <2>1 DEF ToInstall
  <1>5. ASSUME NEW p \in Thread, end_op(p)
        PROVE  /\ lh' = lh
               /\ phase \notin {"install", "clear"} /\ phase' \notin {"install", "clear"}
    <2> USE <1>5
    <2>1. phase = "none"
      BY DEF end_op, Counted, committing, Open
    <2>2. QED
      BY <2>1 DEF end_op, CommitStart
  <1>6. ASSUME NEW p \in Thread, end_commit(p)
        PROVE  /\ lh' = lh
               /\ phase \notin {"install", "clear"} /\ phase' \notin {"install", "clear"}
    BY <1>6 DEF end_commit
  <1>7. ASSUME write_log
        PROVE  /\ lh' = lh
               /\ phase \notin {"install", "clear"} /\ phase' \notin {"install", "clear"}
    BY <1>7 DEF write_log, Advance
  <1>8. ~read_head /\ ~Crash
    BY DEF read_head, Headed, Crash
  <1>9. QED
    BY <1>1, <1>2, <1>3, <1>4, <1>5, <1>6, <1>7, <1>8, SMTT(20) DEF Next, Commit, begin_op,
       sys_sync, sync_wake, bget_fill, bget_recycle, vars

-----------------------------------------------------------------------------
(* Pins and copies. *)

(* bpin and bunpin follow what is to be installed. *)
LEMMA PinStep ==
  TypeOK /\ Boot /\ Headed /\ Counted /\ Pinned /\ [Next]_vars => Pinned'
  <1> SUFFICES ASSUME TypeOK, Boot, Headed, Counted, Pinned, [Next]_vars, up' PROVE Pinned'
    BY Zenon DEF Pinned
  <1> USE DEF onDisk, cache, calls, sync
  <1>1. CASE up /\ install_trans
    <2> USE <1>1
    <2>1. /\ lh[tail] \in Block /\ ToInstall(lh[tail])
          /\ \A b \in Block : ToInstall(b)' <=> ToInstall(b) /\ b # lh[tail]
      BY InstallMoves, Zenon
    <2>2. pin' = [pin EXCEPT ![lh[tail]] = pin[lh[tail]] - 1]
      BY Zenon DEF install_trans, bunpin
    <2>3. QED
      BY <2>1, <2>2 DEF Pinned, TypeOK
  <1>2. ASSUME up, NEW p \in Thread, NEW b \in Block, NEW v \in Val, log_write(p, b, v)
        PROVE  Pinned'
    <2> USE <1>2
    <2>1. /\ \A c \in Block : ToInstall(c)' <=> ToInstall(c) \/ c = b
          /\ \A c \in Block : ToInstall(c) <=> InLog(c)
      BY WriteInstalls
    <2>2. pin' = [pin EXCEPT ![b] = IF InLog(b) THEN @ ELSE @ + 1]
      BY DEF log_write, bpin
    <2>3. QED
      BY <2>1, <2>2 DEF Pinned, TypeOK
  <1>3. CASE /\ up /\ ~install_trans
             /\ \A p \in Thread, b \in Block, v \in Val : ~log_write(p, b, v)
    <2> USE <1>3
    <2>1. \A b \in Block : ToInstall(b)' <=> ToInstall(b)
      BY InstallStays, Zenon
    <2>2. pin' = pin
      BY Zenon DEF Next, Commit, begin_op, end_op, end_commit, sys_sync, sync_wake, write_log,
         write_head, clear_head, read_head, bget_fill, bget_recycle, Crash, vars
    <2>3. QED
      BY <2>1, <2>2 DEF Pinned
  <1>4. CASE ~up
    <2> USE <1>4
    <2>1. clear_head
      BY Zenon DEF Boot, Next, Commit, begin_op, end_op, end_commit, sys_sync, sync_wake,
         log_write, MayWrite, write_log, write_head, install_trans, read_head, bget_fill,
         bget_recycle, Crash, vars
    <2>2. \A b \in Block : ~ToInstall(b)'
      BY <2>1 DEF clear_head, ToInstall
    <2>3. pin' = pin
      BY <2>1 DEF clear_head
    <2>4. QED
      BY <2>2, <2>3 DEF Boot, Pinned
  <1>5. QED
    BY <1>1, <1>2, <1>3, <1>4

-----------------------------------------------------------------------------
(* The three copies of a block: in the cache, in the log, at home. *)

(* Where the loops over the log end. *)
LEMMA LastIndex == ASSUME NEW n \in Nat, NEW t \in 1 .. n, t >= n PROVE t = n
  OBVIOUS

(* The first part of Copies, which InstallMoves and its like are for. *)
Cached ==
  up => \A b \in Block : IF ToInstall(b) THEN cached[b] # NoVal
                                         ELSE cached[b] \in {NoVal, disk[b]}

(* The blocks of the log that the disk does not hold yet are in the cache. *)
LEMMA LoggedIsCached ==
  ASSUME TypeOK, Copies, up, NEW i \in DOMAIN lh, phase # "clear",
         phase = "install" => i >= tail
  PROVE  lh[i] \in Block /\ ToInstall(lh[i]) /\ cached[lh[i]] # NoVal
  <1>1. lh[i] \in Block
    BY SeqLen DEF TypeOK
  <1>2. ToInstall(lh[i])
    BY DEF ToInstall
  <1>3. QED
    BY <1>1, <1>2 DEF Copies

(* write_log copies a block from the cache to the log. *)
LEMMA CopyToLog ==
  ASSUME TypeOK, Headed, Counted, Copies, [Next]_vars, write_log PROVE Copies'
  <1> Len(lh) \in Nat /\ DOMAIN lh = 1 .. Len(lh) /\ Len(lh) <= LOGBLOCKS
    BY SeqLen, Zenon DEF TypeOK
  <1>1. up /\ phase = "write_log" /\ tail \in 1 .. Len(lh) /\ tail \in Nat
    BY DEF write_log, Headed, TypeOK
  <1>2. /\ UNCHANGED <<lh, cached, disk, up>>
        /\ dlog' = [dlog EXCEPT ![tail] = bread(lh[tail])]
    BY DEF write_log, cache
  <1>3. cached[lh[tail]] # NoVal
    BY <1>1, LoggedIsCached
  <1>4. tail \in 1 .. LOGBLOCKS
    BY <1>1, LogAssumption
  <1>5. dlog'[tail] = cached[lh[tail]] /\ \A i \in 1 .. tail - 1 : dlog'[i] = dlog[i]
    <2>1. dlog'[tail] = cached[lh[tail]]
      BY <1>2, <1>3, <1>4 DEF TypeOK, bread
    <2>2. \A i \in 1 .. tail - 1 : i # tail /\ i \in 1 .. LOGBLOCKS
      BY <1>1, LogAssumption
    <2>3. QED
      BY <1>2, <2>1, <2>2, Zenon DEF TypeOK
  <1>6. \A i \in 1 .. tail : dlog'[i] = cached'[lh'[i]]
    <2>1. ASSUME NEW i \in 1 .. tail PROVE dlog'[i] = cached[lh[i]]
      <3>1. CASE i = tail
        BY <1>5, <3>1, Zenon
      <3>2. CASE i # tail
        <4>1. i \in 1 .. tail - 1
          BY <1>1, <3>2
        <4>2. QED
          BY <1>1, <1>5, <4>1 DEF Copies
      <3>3. QED
        BY <3>1, <3>2
    <2>2. QED
      BY <1>2, <2>1
  <1>7. ~install_trans /\ \A p \in Thread, b \in Block, v \in Val : ~log_write(p, b, v)
    BY <1>1, Zenon DEF install_trans, log_write, MayWrite, Counted, Open, committing
  <1>8. Cached'
    <2>1. \A b \in Block : ToInstall(b)' <=> ToInstall(b)
      BY <1>1, <1>2, <1>7, InstallStays
    <2>2. QED
      BY <1>1, <1>2, <2>1 DEF Cached, Copies
  <1>9. \/ phase' = "write_log" /\ tail' = tail + 1
        \/ phase' = "write_head" /\ tail >= Len(lh)
    BY <1>1 DEF write_log, Advance
  <1>10. CASE phase' = "write_log" /\ tail' = tail + 1
    <2> USE <1>10
    <2>1. 1 .. tail' - 1 = 1 .. tail
      BY <1>1
    <2>2. QED
      BY <1>6, <1>8, <2>1, Zenon DEF Copies, Cached
  <1>11. CASE phase' = "write_head" /\ tail >= Len(lh)
    <2> USE <1>11
    <2>1. DOMAIN lh' = 1 .. tail
      <3>1. tail = Len(lh)
        BY <1>1, LastIndex, Zenon
      <3>2. QED
        BY <1>2, <3>1, Zenon
    <2>2. QED
      BY <1>6, <1>8, <2>1 DEF Copies, Cached
  <1>12. QED
    BY <1>9, <1>10, <1>11

(* install_trans copies a block from the log to its home. *)
LEMMA CopyHome ==
  ASSUME TypeOK, Headed, Copies, install_trans PROVE Copies'
  <1> Len(lh) \in Nat /\ DOMAIN lh = 1 .. Len(lh) /\ Len(lh) <= LOGBLOCKS
    BY SeqLen, Zenon DEF TypeOK
  <1>1. phase = "install" /\ tail \in 1 .. Len(lh) /\ tail \in Nat
    BY DEF install_trans, Headed, TypeOK
  <1>2. /\ UNCHANGED <<lh, dlog, up>>
        /\ disk' = [disk EXCEPT ![lh[tail]] = dlog[tail]]
        /\ cached' = [cached EXCEPT ![lh[tail]] = dlog[tail]]
    BY DEF install_trans
  <1>3. /\ lh[tail] \in Block
        /\ \A b \in Block : ToInstall(b)' <=> ToInstall(b) /\ b # lh[tail]
    BY InstallMoves, Zenon
  <1>4. /\ disk'[lh[tail]] = dlog[tail] /\ cached'[lh[tail]] = dlog[tail]
        /\ \A b \in Block : b # lh[tail] => disk'[b] = disk[b] /\ cached'[b] = cached[b]
    BY <1>2, <1>3 DEF TypeOK
  <1>5. \A i \in 1 .. Len(lh) : lh[i] \in Block /\ (lh[i] = lh[tail] => i = tail)
    <2>1. \A i \in 1 .. Len(lh) : lh[i] \in Block
      BY SeqLen DEF TypeOK
    <2>2. QED
      BY <1>1, <2>1 DEF Headed, Distinct
  <1>6. Cached'
    <2>1. ASSUME up, NEW b \in Block
          PROVE  IF ToInstall(b)' THEN cached'[b] # NoVal ELSE cached'[b] \in {NoVal, disk'[b]}
      <3>1. CASE b = lh[tail]
        BY <1>3, <1>4, <3>1, Zenon
      <3>2. CASE b # lh[tail]
        BY <1>3, <1>4, <2>1, <3>2 DEF Copies
      <3>3. QED
        BY <3>1, <3>2, Zenon
    <2>2. QED
      BY <1>2, <2>1, Zenon DEF Cached
  <1>7. \A i \in 1 .. tail : disk'[lh'[i]] = dlog'[i]
    <2>1. ASSUME NEW i \in 1 .. tail PROVE disk'[lh[i]] = dlog[i]
      <3>1. CASE i = tail
        BY <1>4, <3>1, Zenon
      <3>2. CASE i # tail
        <4> USE <3>2
        <4>1. i \in 1 .. tail - 1 /\ i \in 1 .. Len(lh)
          BY <1>1
        <4>2. QED
          BY <1>1, <1>4, <1>5, <4>1 DEF Copies
      <3>3. QED
        BY <3>1, <3>2
    <2>2. QED
      BY <1>2, <2>1, Zenon
  <1>8. up => \A i \in tail + 1 .. Len(lh) : dlog'[i] = cached'[lh'[i]]
    <2>1. ASSUME up, NEW i \in tail + 1 .. Len(lh) PROVE dlog[i] = cached'[lh[i]]
      <3>1. i \in tail .. Len(lh) /\ i \in 1 .. Len(lh) /\ i # tail
        BY <1>1
      <3>2. QED
        BY <1>1, <1>4, <1>5, <2>1, <3>1 DEF Copies
    <2>2. QED
      BY <1>2, <2>1, Zenon
  <1>9. \/ phase' = "install" /\ tail' = tail + 1
        \/ phase' = "clear" /\ tail >= Len(lh)
    <2>1. Advance("clear")
      BY DEF install_trans
    <2>2. QED
      BY <1>1, <2>1 DEF Advance
  <1>10. CASE phase' = "install" /\ tail' = tail + 1
    <2> USE <1>10
    <2>1. 1 .. tail' - 1 = 1 .. tail /\ tail' .. Len(lh') = tail + 1 .. Len(lh)
      BY <1>1, <1>2
    <2>2. QED
      BY <1>2, <1>6, <1>7, <1>8, <2>1, Zenon DEF Copies, Cached
  <1>11. CASE phase' = "clear" /\ tail >= Len(lh)
    <2> USE <1>11
    <2>1. DOMAIN lh' = 1 .. tail
      <3>1. tail = Len(lh)
        BY <1>1, LastIndex, Zenon
      <3>2. QED
        BY <1>2, <3>1, Zenon
    <2>2. QED
      BY <1>6, <1>7, <2>1 DEF Copies, Cached
  <1>12. QED
    BY <1>9, <1>10, <1>11

(* The cache takes in what the disk has, and gives up what is not pinned. *)
LEMMA CopyRecycled ==
  ASSUME TypeOK, Headed, Copies, Pinned, NEW b \in Block, bget_fill(b) \/ bget_recycle(b)
  PROVE  Copies'
  <1> Len(lh) \in Nat /\ DOMAIN lh = 1 .. Len(lh) /\ tail \in Nat
    BY SeqLen, Zenon DEF TypeOK
  <1>1. /\ UNCHANGED <<disk, dlog, lh, phase, tail, up>>
        /\ \A c \in Block : c # b => cached'[c] = cached[c]
        /\ cached'[b] \in {NoVal, disk[b]}
    <2>1. /\ UNCHANGED <<disk, dlog, lh, phase, tail, up>>
          /\ \/ cached' = [cached EXCEPT ![b] = disk[b]]
             \/ cached' = [cached EXCEPT ![b] = NoVal]
      BY Zenon DEF bget_fill, bget_recycle, onDisk
    <2>2. QED
      BY <2>1, Zenon DEF TypeOK
  <1>2. up => ~ToInstall(b)
    <2> SUFFICES ASSUME up, ToInstall(b) PROVE FALSE
      BY Zenon
    <2>1. cached[b] # NoVal
      BY DEF Copies
    <2>2. pin[b] = 1
      BY Zenon DEF Pinned
    <2>3. QED
      BY <2>1, <2>2 DEF bget_fill, bget_recycle
  <1>3. \A c \in Block : ToInstall(c)' <=> ToInstall(c)
    BY <1>1, Zenon DEF ToInstall
  <1>4. ASSUME up, NEW i \in DOMAIN lh, phase # "clear", phase = "install" => i >= tail
        PROVE  cached'[lh'[i]] = cached[lh[i]]
    <2> USE <1>4
    <2>1. lh[i] \in Block /\ ToInstall(lh[i])
      BY LoggedIsCached, Zenon
    <2>2. QED
      BY <1>1, <1>2, <2>1, Zenon
  <1>5. Cached'
    BY <1>1, <1>2, <1>3, Zenon DEF Cached, Copies
  <1>6. phase = "write_log" => \A i \in 1 .. tail - 1 : dlog[i] = cached'[lh'[i]]
    <2>1. ASSUME phase = "write_log", NEW i \in 1 .. tail - 1 PROVE dlog[i] = cached'[lh'[i]]
      <3> USE <2>1
      <3>1. up /\ tail \in 1 .. Len(lh)
        BY SMTT(20) DEF Headed
      <3>2. i \in DOMAIN lh
        BY <3>1, SMTT(20)
      <3>3. QED
        BY <1>4, <3>1, <3>2, SMTT(20) DEF Copies
    <2>2. QED
      BY <2>1, Zenon
  <1>7. phase = "write_head" => \A i \in DOMAIN lh : dlog[i] = cached'[lh'[i]]
    BY <1>4, SMTT(20) DEF Copies, Headed
  <1>8. phase = "install" /\ up => \A i \in tail .. Len(lh) : dlog[i] = cached'[lh'[i]]
    <2>1. ASSUME phase = "install", up, NEW i \in tail .. Len(lh)
          PROVE  dlog[i] = cached'[lh'[i]]
      <3> USE <2>1
      <3>1. i >= tail /\ i \in DOMAIN lh
        BY DEF Headed
      <3>2. QED
        BY <1>4, <3>1, SMTT(20) DEF Copies
    <2>2. QED
      BY <2>1, Zenon
  <1>9. QED
    BY <1>1, <1>5, <1>6, <1>7, <1>8, Zenon DEF Copies, Cached

(* Every step keeps the copies in order. *)
LEMMA CopiesStep ==
  TypeOK /\ Boot /\ Headed /\ Counted /\ Pinned /\ Copies /\ [Next]_vars => Copies'
  <1> SUFFICES ASSUME TypeOK, Boot, Headed, Counted, Pinned, Copies, [Next]_vars PROVE Copies'
    BY Zenon
  <1>0. Len(lh) \in Nat /\ DOMAIN lh = 1 .. Len(lh)
    BY SeqLen, Zenon DEF TypeOK
  <1> USE DEF onDisk, cache, calls, sync
  <1>1. CASE UNCHANGED <<disk, dlog, lh, phase, tail, up, cached>>
    BY <1>1, Zenon DEF Copies, ToInstall
  <1>2. ASSUME NEW p \in Thread, NEW b \in Block, NEW v \in Val, log_write(p, b, v)
        PROVE  Copies'
    <2>1. /\ phase' = "none" /\ UNCHANGED <<disk, up>>
          /\ \A c \in Block : ToInstall(c)' <=> ToInstall(c) \/ c = b
          /\ cached' = [cached EXCEPT ![b] = v]
      BY <1>2, WriteInstalls, Zenon DEF log_write
    <2>2. v # NoVal
      BY LogAssumption, Zenon
    <2>3. Cached'
      BY <2>1, <2>2, ZenonT(30) DEF Cached, Copies, TypeOK
    <2>4. QED
      BY <2>1, <2>3, Zenon DEF Copies, Cached
  <1>3. ASSUME up, up', cached' = cached, disk' = disk, ~install_trans,
               \A p \in Thread, b \in Block, v \in Val : ~log_write(p, b, v)
        PROVE  Cached'
    <2> USE <1>3
    <2>1. \A b \in Block : ToInstall(b)' <=> ToInstall(b)
      BY InstallStays, SMTT(20)
    <2>2. QED
      BY <2>1, Zenon DEF Cached, Copies
  <1>4. ASSUME NEW p \in Thread, end_op(p) PROVE Copies'
    <2> USE <1>4
    <2>1. phase = "none" /\ up
      BY Zenon DEF end_op, Counted, committing, Open, Headed
    <2>2. CASE outstanding # 1
      BY <1>1, <2>2, Zenon DEF end_op
    <2>3. CASE outstanding = 1
      <3>1. phase' \in {"done", "write_log"} /\ tail' = 1
        BY <2>3, Zenon DEF end_op, CommitStart
      <3>2. UNCHANGED <<lh, cached, disk, up>>
        BY DEF end_op
      <3>3. ~install_trans /\ \A q \in Thread, b \in Block, v \in Val : ~log_write(q, b, v)
        BY <2>1, <3>1, Zenon DEF install_trans, log_write
      <3>4. Cached'
        BY <1>3, <2>1, <3>2, <3>3
      <3>5. 1 .. tail' - 1 = {}
        BY <3>1
      <3>6. QED
        BY <3>1, <3>4, <3>5, Zenon DEF Copies, Cached
    <2>4. QED
      BY <2>2, <2>3, Zenon
  <1>5. ASSUME NEW p \in Thread, end_commit(p) PROVE Copies'
    <2>1. phase = "done" /\ phase' = "none" /\ UNCHANGED <<cached, disk, up, lh>> /\ up
      BY <1>5, Zenon DEF end_commit, Headed
    <2>2. ~install_trans /\ \A q \in Thread, b \in Block, v \in Val : ~log_write(q, b, v)
      BY <2>1 DEF install_trans, log_write
    <2>3. Cached'
      BY <1>3, <2>1, <2>2
    <2>4. QED
      BY <2>1, <2>3, Zenon DEF Copies, Cached
  <1>6. CASE write_log
    BY <1>6, CopyToLog, Zenon
  <1>7. CASE write_head
    <2>1. /\ phase = "write_head" /\ phase' = "install" /\ tail' = 1 /\ up
          /\ UNCHANGED <<cached, disk, dlog, lh, up>>
      BY <1>7, Zenon DEF write_head, Headed
    <2>2. ~install_trans /\ \A q \in Thread, b \in Block, v \in Val : ~log_write(q, b, v)
      BY <2>1 DEF install_trans, log_write
    <2>3. Cached'
      BY <1>3, <2>1, <2>2
    <2>4. 1 .. tail' - 1 = {} /\ tail' .. Len(lh') = DOMAIN lh
      BY <1>0, <2>1
    <2>5. QED
      BY <2>1, <2>3, <2>4, Zenon DEF Copies, Cached
  <1>8. CASE install_trans
    BY <1>8, CopyHome, Zenon
  <1>9. CASE clear_head
    <2>1. /\ phase = "clear" /\ lh' = <<>> /\ phase' \in {"done", "none"}
          /\ UNCHANGED <<cached, disk>>
      BY <1>9, Zenon DEF clear_head
    <2>2. \A b \in Block : cached[b] \in {NoVal, disk[b]}
      BY <2>1 DEF Copies, Boot, ToInstall
    <2>3. \A b \in Block : ~ToInstall(b)'
      BY <2>1 DEF ToInstall
    <2>4. Cached'
      BY <2>1, <2>2, <2>3 DEF Cached
    <2>5. QED
      BY <2>1, <2>4, Zenon DEF Copies, Cached
  <1>10. CASE read_head
    <2> USE <1>10
    <2>1. ~up' /\ tail' = 1 /\ lh' = dhead
      BY DEF read_head, Headed, Boot
    <2>2. 1 .. tail' - 1 = {}
      BY <2>1
    <2>3. CASE dhead = <<>>
      <3>1. phase' = "clear" /\ DOMAIN lh' = {}
        BY <2>1, <2>3 DEF read_head
      <3>2. QED
        BY <2>1, <3>1, Zenon DEF Copies
    <2>4. CASE dhead # <<>>
      <3>1. phase' = "install"
        BY <2>4, SMTT(20) DEF read_head
      <3>2. QED
        BY <2>1, <2>2, <3>1 DEF Copies
    <2>5. QED
      BY <2>3, <2>4, Zenon
  <1>11. ASSUME NEW b \in Block, bget_fill(b) \/ bget_recycle(b) PROVE Copies'
    BY <1>11, CopyRecycled, Zenon
  <1>12. CASE Crash
    <2>1. up' = FALSE /\ phase' = "read_head"
      BY <1>12, Zenon DEF Crash
    <2>2. QED
      BY <2>1, Zenon DEF Copies
  <1>13. QED
    BY <1>1, <1>2, <1>4, <1>5, <1>6, <1>7, <1>8, <1>9, <1>10, <1>11, <1>12 DEF Next,
       Commit, begin_op, sys_sync, sync_wake, vars

-----------------------------------------------------------------------------
(* The open system calls. *)

(* Only begin_op, end_op and a crash change the set of open calls. *)
LEMMA OpenStays ==
  ASSUME TypeOK, [Next]_vars, ~Crash, \A p \in Thread : ~end_op(p),
         \A p \in Thread : begin_op(p) => committing \/ NoSpace
  PROVE  Open' = Open /\ outstanding' = outstanding
  <1> USE DEF onDisk, cache, calls, sync
  <1>1. CASE UNCHANGED <<pc, outstanding>>
    BY <1>1, Zenon DEF Open
  <1>2. ASSUME NEW p \in Thread, NEW l \in {"idle", "begin", "commit", "sync"}, pc[p] # "op",
               pc' = [pc EXCEPT ![p] = l], outstanding' = outstanding
        PROVE  Open' = Open /\ outstanding' = outstanding
    BY <1>2, SMTT(20) DEF Open, TypeOK
  <1>3. ASSUME NEW p \in Thread, begin_op(p) PROVE Open' = Open /\ outstanding' = outstanding
    <2>1. pc' = [pc EXCEPT ![p] = "begin"] /\ outstanding' = outstanding /\ pc[p] # "op"
      BY <1>3 DEF begin_op
    <2>2. QED
      BY <1>2, <2>1, Zenon
  <1>4. ASSUME NEW p \in Thread, end_commit(p) PROVE Open' = Open /\ outstanding' = outstanding
    <2>1. pc' = [pc EXCEPT ![p] = "idle"] /\ outstanding' = outstanding /\ pc[p] # "op"
      BY <1>4 DEF end_commit
    <2>2. QED
      BY <1>2, <2>1, Zenon
  <1>5. ASSUME NEW p \in Thread, sys_sync(p) PROVE Open' = Open /\ outstanding' = outstanding
    <2>1. pc' = [pc EXCEPT ![p] = "sync"] /\ outstanding' = outstanding /\ pc[p] # "op"
      BY <1>5 DEF sys_sync
    <2>2. QED
      BY <1>2, <2>1, Zenon
  <1>6. ASSUME NEW p \in Thread, sync_wake(p) PROVE Open' = Open /\ outstanding' = outstanding
    <2> USE <1>6
    <2>1. CASE left[p] > 0
      BY <1>1, <2>1 DEF sync_wake
    <2>2. CASE ~(left[p] > 0)
      <3>1. pc' = [pc EXCEPT ![p] = "idle"] /\ outstanding' = outstanding /\ pc[p] # "op"
        BY <2>2, Zenon DEF sync_wake
      <3>2. QED
        BY <1>2, <3>1, Zenon
    <2>3. QED
      BY <2>1, <2>2, Zenon
  <1>7. QED
    BY <1>1, <1>3, <1>4, <1>5, <1>6, SMTT(20) DEF Next, Commit, log_write, write_log, write_head,
       install_trans, clear_head, read_head, bget_fill, bget_recycle, vars

(* A call that begins, when no commit runs, and one that ends. *)
LEMMA OpenBegins ==
  ASSUME TypeOK, NEW p \in Thread, begin_op(p), ~(committing \/ NoSpace)
  PROVE  p \notin Open /\ Open' = Open \cup {p} /\ outstanding' = outstanding + 1
  <1>1. pc' = [pc EXCEPT ![p] = "op"] /\ outstanding' = outstanding + 1 /\ pc[p] # "op"
    BY Zenon DEF begin_op
  <1>2. QED
    BY <1>1 DEF Open, TypeOK

(* end_op closes the caller's. *)
LEMMA OpenEnds ==
  ASSUME TypeOK, NEW p \in Thread, end_op(p)
  PROVE  p \in Open /\ Open' = Open \ {p} /\ outstanding' = outstanding - 1
  <1>1. /\ pc' = [pc EXCEPT ![p] = IF outstanding = 1 THEN "commit" ELSE "idle"]
        /\ outstanding' = outstanding - 1 /\ pc[p] = "op"
    BY DEF end_op
  <1>2. QED
    BY <1>1, Zenon DEF Open, TypeOK

-----------------------------------------------------------------------------
(* Refinement: the steps of log.c as steps of AtomicDisk. *)

(* Two functions of the blocks are equal if they agree on each block. *)
LEMMA SameFunction ==
  ASSUME NEW f, NEW g, f = [b \in Block |-> f[b]], g = [b \in Block |-> g[b]],
         \A b \in Block : f[b] = g[b]
  PROVE  f = g
  BY Zenon

(* Once every block is at home the log on disk says nothing new. *)
LEMMA HomeIsRecovered ==
  ASSUME TypeOK, Headed, Copies, phase = "clear", NEW b \in Block
  PROVE  Recovered[b] = disk[b]
  <1>1. dhead = lh /\ \A i \in DOMAIN lh : disk[lh[i]] = dlog[i]
    BY Zenon DEF Headed, Copies
  <1>2. CASE \E i \in DOMAIN dhead : dhead[i] = b
    <2> USE <1>2
    <2> DEFINE j == CHOOSE i \in DOMAIN dhead : dhead[i] = b
    <2>1. j \in DOMAIN dhead /\ dhead[j] = b
      OBVIOUS
    <2>2. Recovered[b] = dlog[j]
      BY Zenon DEF Recovered
    <2> HIDE DEF j
    <2>3. QED
      BY <1>1, <2>1, <2>2
  <1>3. CASE ~ \E i \in DOMAIN dhead : dhead[i] = b
    BY <1>3 DEF Recovered
  <1>4. QED
    BY <1>2, <1>3, Zenon

(* With no header, recovery would install nothing. *)
LEMMA NoHeadIsHome == ASSUME dhead = <<>> PROVE \A b \in Block : Recovered[b] = disk[b]
  BY DEF Recovered

(* Only the header's write changes what a crash would leave. *)
LEMMA RecoveredStays ==
  ASSUME LInv, LInv', [Next]_vars, ~write_head PROVE Recovered' = Recovered
  <1> USE DEF onDisk, cache, calls, sync
  <1> /\ Recovered = [b \in Block |-> Recovered[b]]
        /\ Recovered' = [b \in Block |-> Recovered'[b]]
    BY Zenon DEF Recovered
  <1>1. CASE UNCHANGED <<disk, dlog, dhead>>
    BY <1>1 DEF Recovered
  <1>2. CASE write_log
    <2>1. dhead = <<>> /\ dhead' = <<>> /\ disk' = disk
      BY <1>2 DEF write_log, LInv, Headed
    <2>2. \A b \in Block : Recovered[b] = disk[b]
      BY <2>1, NoHeadIsHome, Zenon
    <2>3. \A b \in Block : Recovered'[b] = disk'[b]
      BY <2>1 DEF Recovered
    <2>4. \A b \in Block : Recovered'[b] = Recovered[b]
      BY <2>1, <2>2, <2>3
    <2>5. QED
      BY <2>4, SameFunction, Zenon
  <1>3. CASE install_trans
    <2> USE <1>3
    <2>1. /\ dhead = lh /\ UNCHANGED <<dhead, dlog>>
          /\ disk' = [disk EXCEPT ![lh[tail]] = dlog[tail]]
      BY DEF install_trans, LInv, Headed
    <2>2. tail \in DOMAIN lh /\ lh[tail] \in Block
      BY InstallMoves DEF LInv
    <2>3. ASSUME NEW b \in Block PROVE Recovered'[b] = Recovered[b]
      <3>1. CASE \E i \in DOMAIN dhead : dhead[i] = b
        BY <2>1, <3>1, Zenon DEF Recovered
      <3>2. CASE ~ \E i \in DOMAIN dhead : dhead[i] = b
        <4> USE <3>2
        <4>1. b # lh[tail]
          BY <2>1, <2>2, Zenon
        <4>2. disk'[b] = disk[b]
          BY <2>1, <2>2, <4>1 DEF LInv, TypeOK
        <4>3. QED
          BY <2>1, <4>2 DEF Recovered
      <3>3. QED
        BY <3>1, <3>2, Zenon
    <2>4. QED
      BY <2>3, SameFunction, Zenon
  <1>4. CASE clear_head
    <2>1. phase = "clear" /\ dhead' = <<>> /\ disk' = disk
      BY <1>4, Zenon DEF clear_head
    <2>2. \A b \in Block : Recovered[b] = disk[b]
      BY <2>1, HomeIsRecovered, Zenon DEF LInv
    <2>3. \A b \in Block : Recovered'[b] = disk'[b]
      BY <2>1 DEF Recovered
    <2>4. \A b \in Block : Recovered'[b] = Recovered[b]
      BY <2>1, <2>2, <2>3, Zenon
    <2>5. QED
      BY <2>4, SameFunction
  <1>5. QED
    BY <1>1, <1>2, <1>3, <1>4, Zenon DEF Next, Commit, begin_op, end_op, end_commit, sys_sync,
       sync_wake, log_write, read_head, bget_fill, bget_recycle, Crash, vars

(* What a system call reads is in the cache or at home. *)
LEMMA ReadHome ==
  ASSUME LInv, up, NEW b \in Block, ~ToInstall(b) PROVE bread(b) = disk[b]
  BY DEF LInv, Copies, bread

(* Only log_write and a crash change what system calls see. *)
LEMMA ViewStays ==
  ASSUME LInv, LInv', [Next]_vars, ~write_head, ~Crash,
         \A p \in Thread, b \in Block, v \in Val : ~log_write(p, b, v)
  PROVE  View' = View
  <1> USE DEF onDisk, cache, calls, sync
  <1>0. Recovered' = Recovered
    BY RecoveredStays
  <1>1. CASE ~up /\ ~up'
    BY <1>0, <1>1 DEF View
  <1>2. CASE ~up /\ up'
    <2> USE <1>2
    <2>1. clear_head
      BY Zenon DEF LInv, Boot, Next, Commit, begin_op, end_op, end_commit, sys_sync, sync_wake,
         write_log, install_trans, read_head, bget_fill, bget_recycle, vars
    <2>2. phase = "clear" /\ UNCHANGED <<cached, disk>>
      BY <2>1, Zenon DEF clear_head
    <2>3. ASSUME NEW b \in Block PROVE Recovered[b] = bread(b)'
      <3>1. Recovered[b] = disk[b]
        BY <2>2, HomeIsRecovered, Zenon DEF LInv
      <3>2. cached[b] \in {NoVal, disk[b]}
        BY Zenon DEF LInv, Boot
      <3>3. QED
        BY <2>2, <3>1, <3>2, Zenon DEF bread
    <2>4. Recovered = [b \in Block |-> Recovered[b]]
      BY SMTT(20) DEF Recovered
    <2>5. Recovered = [b \in Block |-> bread(b)']
      BY <2>3, <2>4, Zenon
    <2>6. QED
      BY <2>5 DEF View
  <1>3. CASE up /\ up'
    <2> USE <1>3
    <2>1. ASSUME \A b \in Block : bread(b)' = bread(b) PROVE View' = View
      BY <2>1, Zenon DEF View
    <2>2. CASE UNCHANGED <<cached, disk>>
      BY <2>1, <2>2, SMTT(20) DEF bread
    <2>3. CASE install_trans
      <3> USE <2>3
      <3>1. /\ disk' = [disk EXCEPT ![lh[tail]] = dlog[tail]]
            /\ cached' = [cached EXCEPT ![lh[tail]] = dlog[tail]]
            /\ phase = "install"
        BY Zenon DEF install_trans
      <3>2. tail \in DOMAIN lh /\ lh[tail] \in Block /\ ToInstall(lh[tail])
        BY InstallMoves, Zenon DEF LInv
      <3>3. dlog[tail] = cached[lh[tail]] /\ cached[lh[tail]] # NoVal
        <4>1. tail \in 1 .. Len(lh) /\ Len(lh) \in Nat
          BY <3>1, SeqLen DEF LInv, Headed, TypeOK
        <4>2. tail \in tail .. Len(lh)
          BY <4>1
        <4>3. QED
          BY <3>1, <3>2, <4>2, Zenon DEF LInv, Copies
      <3>4. ASSUME NEW b \in Block PROVE bread(b)' = bread(b)
        <4>1. CASE b = lh[tail]
          <5> USE <4>1
          <5>1. cached'[b] = dlog[tail]
            BY <3>1, <3>2, Zenon DEF LInv, TypeOK
          <5>2. QED
            BY <3>3, <5>1, Zenon DEF bread
        <4>2. CASE b # lh[tail]
          <5>1. cached'[b] = cached[b] /\ disk'[b] = disk[b]
            BY <3>1, <4>2, Zenon DEF LInv, TypeOK
          <5>2. QED
            BY <5>1, Zenon DEF bread
        <4>3. QED
          BY <4>1, <4>2, Zenon
      <3>5. QED
        BY <2>1, <3>4, Zenon
    <2>4. ASSUME NEW c \in Block, bget_fill(c) \/ bget_recycle(c) PROVE View' = View
      <3> USE <2>4
      <3>1. disk' = disk /\ \/ cached' = [cached EXCEPT ![c] = disk[c]]
                            \/ cached' = [cached EXCEPT ![c] = NoVal]
        BY Zenon DEF bget_fill, bget_recycle
      <3>2. ~ToInstall(c)
        <4> SUFFICES ASSUME ToInstall(c) PROVE FALSE
          BY SMTT(20)
        <4>1. cached[c] # NoVal
          BY Zenon DEF LInv, Copies
        <4>2. pin[c] = 1
          BY Zenon DEF LInv, Pinned
        <4>3. cached[c] = NoVal \/ pin[c] = 0
          BY Zenon DEF bget_fill, bget_recycle
        <4>4. QED
          BY <4>1, <4>2, <4>3, SMTT(20)
      <3>3. ASSUME NEW b \in Block PROVE bread(b)' = bread(b)
        <4>1. CASE b = c
          <5> USE <4>1
          <5>1. bread(b) = disk[b]
            BY <3>2, ReadHome, Zenon
          <5>2. cached'[b] \in {NoVal, disk[b]} /\ disk'[b] = disk[b]
            BY <3>1 DEF LInv, TypeOK
          <5>3. QED
            BY <5>1, <5>2, Zenon DEF bread
        <4>2. CASE b # c
          <5>1. cached'[b] = cached[b] /\ disk'[b] = disk[b]
            BY <3>1, <4>2, Zenon DEF LInv, TypeOK
          <5>2. QED
            BY <5>1, Zenon DEF bread
        <4>3. QED
          BY <4>1, <4>2
      <3>4. QED
        BY <2>1, <3>3, Zenon
    <2>5. QED
      BY <2>2, <2>3, <2>4, Zenon DEF Next, Commit, begin_op, end_op, end_commit, sys_sync,
         sync_wake, write_log, clear_head, read_head, vars
  <1>4. CASE up /\ ~up'
    BY <1>4, Zenon DEF Next, Commit, begin_op, end_op, end_commit, sys_sync, sync_wake,
       write_log, install_trans, clear_head, read_head, bget_fill, bget_recycle, vars
  <1>5. QED
    BY <1>1, <1>2, <1>3, <1>4

(* The write of the header makes everything durable that calls see. *)
LEMMA HeadCommits ==
  ASSUME LInv, LInv', write_head
  PROVE  Recovered' = View /\ View' = View /\ Open' = Open /\ Open = {}
  <1> USE DEF onDisk, cache, calls, sync
  <1>1. /\ up /\ up' /\ phase = "write_head" /\ dhead' = lh
        /\ UNCHANGED <<disk, dlog, cached, lh, pc>>
    BY Zenon DEF write_head, LInv, Headed
  <1>2. Open' = Open /\ Open = {}
    BY <1>1, Zenon DEF Open, LInv, Counted, committing
  <1>3. View' = View
    BY <1>1, Zenon DEF View, bread
  <1>4. ASSUME NEW b \in Block PROVE Recovered'[b] = bread(b)
    <2>1. CASE \E i \in DOMAIN lh : lh[i] = b
      <3> USE <2>1
      <3> DEFINE j == CHOOSE i \in DOMAIN lh : lh[i] = b
      <3>1. j \in DOMAIN lh /\ lh[j] = b
        BY Zenon
      <3>2. Recovered'[b] = dlog[j]
        BY <1>1, Zenon DEF Recovered
      <3> HIDE DEF j
      <3>3. dlog[j] = cached[b]
        BY <1>1, <3>1, Zenon DEF LInv, Copies
      <3>4. ToInstall(b)
        BY <1>1, Zenon DEF ToInstall
      <3>5. cached[b] # NoVal
        BY <1>1, <3>4, Zenon DEF LInv, Copies
      <3>6. QED
        BY <3>2, <3>3, <3>5, SMTT(20) DEF bread
    <2>2. CASE ~ \E i \in DOMAIN lh : lh[i] = b
      <3> USE <2>2
      <3>1. Recovered'[b] = disk[b]
        BY <1>1 DEF Recovered
      <3>2. ~ToInstall(b)
        BY Zenon DEF ToInstall
      <3>3. QED
        BY <1>1, <3>1, <3>2, ReadHome, Zenon
    <2>3. QED
      BY <2>1, <2>2, Zenon
  <1>5. Recovered' = [b \in Block |-> Recovered'[b]]
    BY DEF Recovered
  <1>6. Recovered' = [b \in Block |-> bread(b)]
    BY <1>4, <1>5, Zenon
  <1>7. QED
    BY <1>1, <1>2, <1>3, <1>6, Zenon DEF View

(* log_write changes what calls see of one block. *)
LEMMA WriteSeen ==
  ASSUME LInv, NEW p \in Thread, NEW b \in Block, NEW v \in Val, log_write(p, b, v)
  PROVE  p \in Open /\ Open' = Open /\ View' = [View EXCEPT ![b] = v]
  <1> USE DEF onDisk, cache, calls, sync
  <1>1. /\ pc[p] = "op" /\ UNCHANGED <<disk, up, pc>>
        /\ cached' = [cached EXCEPT ![b] = v]
    BY Zenon DEF log_write, MayWrite
  <1>2. up /\ v # NoVal
    BY <1>1, LogAssumption, Zenon DEF LInv, Boot
  <1>3. View = [c \in Block |-> bread(c)] /\ View' = [c \in Block |-> bread(c)']
    BY <1>1, <1>2, Zenon DEF View
  <1>4. \A c \in Block : bread(c)' = IF c = b THEN v ELSE bread(c)
    BY <1>1, <1>2, Zenon DEF bread, LInv, TypeOK
  <1>5. View' = [View EXCEPT ![b] = v]
    BY <1>3, <1>4, Zenon
  <1>6. QED
    BY <1>1, <1>5, Zenon DEF Open

(* Every step of log.c is a step of the atomic disk, or none. *)
LEMMA AtomicStep == LInv /\ LInv' /\ [Next]_vars => [AD!ANext]_(AD!avars)
  <1> SUFFICES ASSUME LInv, LInv', [Next]_vars
               PROVE  AD!ANext \/ UNCHANGED <<Recovered, View, Open>>
    BY Zenon DEF AD!avars
  <1>1. CASE write_head
    BY <1>1, HeadCommits, Zenon DEF AD!ANext, AD!ACommit
  <1>2. CASE ~write_head /\ Crash
    <2> USE <1>2
    <2>1. Recovered' = Recovered
      BY RecoveredStays, Zenon
    <2>2. View' = Recovered
      BY <2>1, Zenon DEF Crash, View
    <2>3. Open' = {}
      BY Zenon DEF Crash, Open
    <2>4. QED
      BY <2>1, <2>2, <2>3 DEF AD!ANext, AD!ACrash
  <1>3. ASSUME ~write_head, NEW p \in Thread, NEW b \in Block, NEW v \in Val, log_write(p, b, v)
        PROVE  AD!ANext
    <2> USE <1>3
    <2>1. Recovered' = Recovered
      BY RecoveredStays, Zenon
    <2>2. AD!AWrite(p, b, v)
      BY <2>1, WriteSeen, Zenon DEF AD!AWrite
    <2>3. QED
      BY <2>2 DEF AD!ANext
  <1>4. CASE /\ ~write_head /\ ~Crash
             /\ \A p \in Thread, b \in Block, v \in Val : ~log_write(p, b, v)
    <2> USE <1>4
    <2>1. Recovered' = Recovered /\ View' = View
      BY RecoveredStays, ViewStays, Zenon
    <2>2. ASSUME NEW p \in Thread, begin_op(p), ~(committing \/ NoSpace) PROVE AD!ANext
      <3>1. Open' = Open \cup {p}
        BY <2>2, OpenBegins, Zenon DEF LInv
      <3>2. QED
        BY <2>1, <3>1, Zenon DEF AD!ANext, AD!ABegin
    <2>3. ASSUME NEW p \in Thread, end_op(p) PROVE AD!ANext
      <3>1. Open' = Open \ {p}
        BY <2>3, OpenEnds DEF LInv
      <3>2. QED
        BY <2>1, <3>1, Zenon DEF AD!ANext, AD!AEnd
    <2>4. CASE /\ \A p \in Thread : ~end_op(p)
               /\ \A p \in Thread : begin_op(p) => committing \/ NoSpace
      <3>1. Open' = Open
        BY <2>4, OpenStays DEF LInv
      <3>2. QED
        BY <2>1, <3>1, Zenon
    <2>5. QED
      BY <2>2, <2>3, <2>4, Zenon
  <1>5. QED
    BY <1>1, <1>2, <1>3, <1>4

(* A disk with an empty log is what the atomic disk begins with. *)
LEMMA AtomicInit == Init => AD!AInit
  <1> SUFFICES ASSUME Init PROVE AD!AInit
    BY Zenon
  <1>1. Recovered = [b \in Block |-> InitVal]
    BY DEF Init, Recovered
  <1>2. View = Recovered /\ Open = {}
    BY Zenon DEF Init, View, Open
  <1>3. QED
    BY <1>1, <1>2 DEF AD!AInit

-----------------------------------------------------------------------------
(* The open system calls. *)

(* outstanding can count the open calls (OpenFinite, below). *)
Countable == Cardinality(Open) \in Nat /\ (Cardinality(Open) = 0 <=> Open = {})

(* Every step of log.c keeps the types. *)
LEMMA TypeStep == Countable /\ TypeOK /\ Headed /\ Counted /\ Pinned /\ [Next]_vars => TypeOK'
  <1> SUFFICES ASSUME Countable, TypeOK, Headed, Counted, Pinned, [Next]_vars PROVE TypeOK'
    BY Zenon
  <1> /\ LOGBLOCKS \in Nat
        /\ InitVal \in Val /\ Open \subseteq Thread
    BY LogAssumption DEF Open
  <1> USE DEF onDisk, cache, calls, sync
  <1>1. ASSUME NEW p \in Thread, begin_op(p) PROVE TypeOK'
    <2> USE <1>1
    <2>1. CASE committing \/ NoSpace
      BY <2>1, Zenon DEF begin_op, TypeOK
    <2>2. CASE ~(committing \/ NoSpace)
      <3> USE <2>2
      <3>1. wr' = [wr EXCEPT ![p] = {}] /\ outstanding' = outstanding + 1
        BY Zenon DEF begin_op
      <3>2. wr' \in [Thread -> SUBSET Block] /\ outstanding' \in Nat
        BY <3>1 DEF TypeOK
      <3>3. pc' = [pc EXCEPT ![p] = "op"] /\ asleep' = asleep
        BY DEF begin_op
      <3>4. QED
        BY <3>2, <3>3, Zenon DEF begin_op, TypeOK
    <2>3. QED
      BY <2>1, <2>2
  <1>2. ASSUME NEW p \in Thread, end_op(p) PROVE TypeOK'
    <2> USE <1>2
    <2>1. outstanding \in Nat \ {0}
      <3>1. p \in Open
        BY Zenon DEF end_op, Open
      <3>2. Cardinality(Open) # 0 /\ Cardinality(Open) \in Nat
        BY <3>1, Zenon DEF Countable
      <3>3. QED
        BY <3>2, Zenon DEF Counted
    <2>2. CASE outstanding = 1
      <3>1. /\ wr' = [wr EXCEPT ![p] = {}] /\ outstanding' = 0
            /\ pc' = [pc EXCEPT ![p] = "commit"] /\ asleep' = asleep
            /\ phase' = CommitStart /\ tail' = 1
        BY <2>2 DEF end_op
      <3>2. wr' \in [Thread -> SUBSET Block] /\ outstanding' \in Nat
        BY <3>1, Zenon DEF TypeOK
      <3>3. phase' \in Phases /\ tail' \in Nat \ {0}
        BY <3>1 DEF CommitStart, Phases
      <3>4. pc' \in [Thread -> {"idle", "begin", "op", "commit", "sync"}]
        BY <3>1, Zenon DEF TypeOK
      <3>5. UNCHANGED <<onDisk, cache, lh, up, sync>>
        BY Zenon DEF end_op
      <3>6. QED
        BY <3>1, <3>2, <3>3, <3>4, <3>5, Zenon DEF TypeOK
    <2>3. CASE outstanding # 1
      <3>1. wr' = [wr EXCEPT ![p] = {}] /\ outstanding' = outstanding - 1
        BY Zenon DEF end_op
      <3>2. wr' \in [Thread -> SUBSET Block] /\ outstanding' \in Nat
        BY <2>1, <3>1, SMTT(20) DEF TypeOK
      <3>3. pc' = [pc EXCEPT ![p] = "idle"] /\ asleep' = {} /\ UNCHANGED <<phase, tail>>
        BY <2>3, Zenon DEF end_op, wakeup_room, wakeup_log
      <3>4. QED
        BY <3>2, <3>3, Zenon DEF end_op, TypeOK
    <2>4. QED
      BY <2>2, <2>3
  <1>3. ASSUME NEW p \in Thread, end_commit(p) PROVE TypeOK'
    BY <1>3, SMTT(20) DEF end_commit, TypeOK, wakeup_log, Phases
  <1>4. ASSUME NEW p \in Thread, sys_sync(p) PROVE TypeOK'
    BY <1>4, Zenon DEF sys_sync, TypeOK
  <1>5. ASSUME NEW p \in Thread, sync_wake(p) PROVE TypeOK'
    BY <1>5, Zenon DEF sync_wake, TypeOK
  <1>6. ASSUME NEW p \in Thread, NEW b \in Block, NEW v \in Val, log_write(p, b, v)
        PROVE  TypeOK'
    <2> USE <1>6
    <2>1. lh' \in Seq(Block) /\ Len(lh') <= LOGBLOCKS
      <3>1. Append(lh, b) \in Seq(Block) /\ Len(Append(lh, b)) = Len(lh) + 1 /\ Len(lh) \in Nat
        BY SeqAppend, SeqLen, Zenon DEF TypeOK
      <3>2. QED
        BY <3>1 DEF log_write, Absorbed, TypeOK
    <2>2. pin' \in [Block -> Nat] /\ cached' \in [Block -> Val \cup {NoVal}]
      BY DEF log_write, TypeOK, bpin
    <2>3. wr' \in [Thread -> SUBSET Block]
      BY Zenon DEF log_write, TypeOK
    <2>4. QED
      BY <2>1, <2>2, <2>3, Zenon DEF log_write, TypeOK
  <1>7. CASE write_log
    <2> USE <1>7
    <2>1. dlog' \in [1 .. LOGBLOCKS -> Val]
      <3>1. lh[tail] \in Block
        BY SeqLen, Zenon DEF write_log, Headed, TypeOK
      <3>2. bread(lh[tail]) \in Val
        BY <3>1, Zenon DEF bread, TypeOK
      <3>3. QED
        BY <3>2, Zenon DEF write_log, TypeOK
    <2>2. phase' \in Phases /\ tail' \in Nat \ {0}
      BY DEF write_log, Advance, TypeOK, Phases
    <2>3. QED
      BY <2>1, <2>2, Zenon DEF write_log, TypeOK
  <1>8. CASE write_head
    BY <1>8, Zenon DEF write_head, TypeOK, Phases
  <1>9. CASE install_trans
    <2> USE <1>9
    <2>1. lh[tail] \in Block /\ dlog[tail] \in Val
      <3>1. tail \in 1 .. Len(lh) /\ Len(lh) \in Nat /\ Len(lh) <= LOGBLOCKS
        BY SeqLen, Zenon DEF install_trans, Headed, TypeOK
      <3>2. QED
        BY <3>1, SeqLen DEF TypeOK
    <2>2. disk' \in [Block -> Val] /\ cached' \in [Block -> Val \cup {NoVal}]
      BY <2>1, Zenon DEF install_trans, TypeOK
    <2>3. phase' \in Phases /\ tail' \in Nat \ {0}
      BY SMTT(20) DEF install_trans, Advance, TypeOK, Phases
    <2>4. pin' \in [Block -> Nat]
      <3>1. CASE up
        <4> USE <3>1
        <4>1. tail \in DOMAIN lh
          BY SeqLen, Zenon DEF install_trans, Headed, TypeOK
        <4>2. ToInstall(lh[tail])
          BY <4>1, SMTT(20) DEF ToInstall, install_trans, TypeOK
        <4>3. pin[lh[tail]] = 1
          BY <2>1, <4>2, Zenon DEF Pinned
        <4>4. pin' = [pin EXCEPT ![lh[tail]] = 0]
          BY <4>3, SMTT(20) DEF install_trans, bunpin
        <4>5. QED
          BY <4>4, Zenon DEF TypeOK
      <3>2. CASE ~up
        BY <3>2, Zenon DEF install_trans, TypeOK, bunpin
      <3>3. QED
        BY <3>1, <3>2
    <2>5. QED
      BY <2>2, <2>3, <2>4, Zenon DEF install_trans, TypeOK
  <1>10. CASE clear_head
    <2> USE <1>10
    <2>1. lh' \in Seq(Block) /\ dhead' \in Seq(Block) /\ Len(lh') <= LOGBLOCKS
      BY SeqEmpty DEF clear_head
    <2>2. phase' \in Phases /\ up' \in BOOLEAN
      BY Zenon DEF clear_head, TypeOK, Phases
    <2>3. QED
      BY <2>1, <2>2, Zenon DEF clear_head, TypeOK
  <1>11. CASE read_head
    BY <1>11 DEF read_head, TypeOK, Phases, Headed
  <1>12. ASSUME NEW b \in Block, bget_fill(b) \/ bget_recycle(b) PROVE TypeOK'
    BY <1>12, Zenon DEF bget_fill, bget_recycle, TypeOK
  <1>13. CASE Crash
    <2> USE <1>13
    <2>1. lh' \in Seq(Block) /\ Len(lh') <= LOGBLOCKS
      BY SeqEmpty DEF Crash
    <2>2. cached' \in [Block -> Val \cup {NoVal}] /\ pin' \in [Block -> Nat]
      BY Zenon DEF Crash
    <2>3. /\ wr' \in [Thread -> SUBSET Block] /\ left' \in [Thread -> Nat]
          /\ owed' \in [Thread -> BOOLEAN]
      BY Zenon DEF Crash
    <2>4. outstanding' = 0 /\ phase' = "read_head" /\ tail' = 1 /\ up' = FALSE /\ asleep' = {}
      BY Zenon DEF Crash
    <2>5. pc' \in [Thread -> {"idle", "begin", "op", "commit", "sync"}]
      BY Zenon DEF Crash
    <2>6. UNCHANGED <<disk, dlog, dhead>>
      BY Zenon DEF Crash
    <2>7. outstanding' \in Nat /\ phase' \in Phases /\ tail' \in Nat \ {0}
      BY <2>4 DEF Phases
    <2>8. asleep' \subseteq Thread /\ up' \in BOOLEAN
      BY <2>4, Zenon
    <2>9. disk' \in [Block -> Val] /\ dlog' \in [1 .. LOGBLOCKS -> Val] /\ dhead' \in Seq(Block)
      BY <2>6, Zenon DEF TypeOK
    <2>10. QED
      BY <2>1, <2>2, <2>3, <2>5, <2>7, <2>8, <2>9, Zenon DEF TypeOK
  <1>14. CASE UNCHANGED vars
    BY <1>14, Zenon DEF vars, TypeOK
  <1>15. QED
    BY <1>1, <1>2, <1>3, <1>4, <1>5, <1>6, <1>7, <1>8, <1>9, <1>10, <1>11, <1>12, <1>13,
       <1>14 DEF Next, Commit

(* While a call is open, or was before it was the last to end, there is    *)
(* one.                                                                    *)
LEMMA SomeOpen == ASSUME Countable, Counted, NEW p \in Open PROVE outstanding \in Nat \ {0}
  BY Zenon DEF Countable, Counted

(* What is in the log has an open call, a commit or a sys_sync to see to it. *)
LEMMA WaitStep ==
  Countable /\ TypeOK /\ Boot /\ Headed /\ Counted /\ Waited /\ [Next]_vars => Waited'
  <1> SUFFICES ASSUME Countable, TypeOK, Boot, Headed, Counted, Waited, [Next]_vars
               PROVE  Waited'
    BY Zenon
  <1> USE DEF onDisk, cache, calls, sync
  <1>1. ASSUME NEW p \in Thread, begin_op(p) PROVE Waited'
    <2> USE <1>1
    <2>1. UNCHANGED <<up, phase, lh, dhead, left, owed>>
      BY Zenon DEF begin_op
    <2>2. outstanding' = 0 => outstanding = 0
      BY DEF begin_op, TypeOK
    <2>3. QED
      BY <2>1, <2>2, Zenon DEF Waited
  <1>2. ASSUME NEW p \in Thread, end_op(p) PROVE Waited'
    <2> USE <1>2
    <2>1. outstanding \in Nat \ {0}
      BY SomeOpen, OpenEnds, Zenon
    <2>2. UNCHANGED <<up, lh, dhead, left, owed>> /\ outstanding' = outstanding - 1
      BY Zenon DEF end_op
    <2>3. phase' # "none" \/ outstanding' # 0
      <3>1. CASE outstanding = 1
        BY <3>1, Zenon DEF end_op, CommitStart
      <3>2. CASE outstanding # 1
        BY <2>1, <2>2, <3>2
      <3>3. QED
        BY <3>1, <3>2, Zenon
    <2>4. QED
      BY <2>2, <2>3, Zenon DEF Waited
  <1>3. ASSUME NEW p \in Thread, end_commit(p) PROVE Waited'
    <2>1. lh = <<>> /\ UNCHANGED <<lh, owed>>
      BY <1>3, Zenon DEF end_commit, Headed
    <2>2. QED
      BY <2>1, Zenon DEF Waited
  <1>4. ASSUME NEW p \in Thread, sys_sync(p) PROVE Waited'
    <2> USE <1>4
    <2>1. UNCHANGED <<up, phase, lh, dhead, outstanding>>
      BY Zenon DEF sys_sync
    <2>2. left' = [left EXCEPT ![p] = 1] /\ owed' = [owed EXCEPT ![p] = lh # <<>> /\ dhead = <<>>]
      BY Zenon DEF sys_sync
    <2>3. ASSUME NEW q \in Thread, owed'[q] PROVE lh # <<>> /\ dhead = <<>> /\ left'[q] = 1
      <3> USE <2>3
      <3>1. CASE q = p
        BY <2>2, <3>1, Zenon DEF TypeOK
      <3>2. CASE q # p
        BY <2>2, <3>2, Zenon DEF TypeOK, Waited
      <3>3. QED
        BY <3>1, <3>2
    <2>4. QED
      BY <2>1, <2>3, Zenon DEF Waited
  <1>5. ASSUME NEW p \in Thread, sync_wake(p) PROVE Waited'
    <2> USE <1>5
    <2>1. UNCHANGED <<up, phase, lh, dhead, outstanding, left>>
      BY Zenon DEF sync_wake
    <2>2. owed' = owed \/ owed' = [owed EXCEPT ![p] = FALSE]
      BY DEF sync_wake
    <2>3. \A q \in Thread : owed'[q] => owed[q]
      BY <2>2, Zenon DEF TypeOK
    <2>4. QED
      BY <2>1, <2>3, Zenon DEF Waited
  <1>6. ASSUME NEW p \in Thread, NEW b \in Block, NEW v \in Val, log_write(p, b, v)
        PROVE  Waited'
    <2> USE <1>6
    <2>1. outstanding' # 0 /\ UNCHANGED <<dhead, left, owed>>
      <3>1. p \in Open /\ outstanding' = outstanding /\ UNCHANGED <<dhead, left, owed>>
        BY Zenon DEF log_write, MayWrite, Open
      <3>2. QED
        BY <3>1, SomeOpen
    <2>2. lh' # <<>>
      <3>1. CASE InLog(b)
        <4> USE <3>1
        <4>1. lh' = lh
          BY Zenon DEF log_write, Absorbed
        <4>2. lh # <<>>
          <5>1. DOMAIN lh = 1 .. Len(lh) /\ Len(lh) \in Nat
            BY SeqLen, Zenon DEF TypeOK
          <5>2. Len(lh) # 0
            BY <5>1 DEF InLog
          <5>3. QED
            BY <5>2
        <4>3. QED
          BY <4>1, <4>2, Zenon
      <3>2. CASE ~InLog(b)
        <4>1. lh' = Append(lh, b)
          BY <3>2, Zenon DEF log_write, Absorbed
        <4>2. Len(Append(lh, b)) = Len(lh) + 1 /\ Len(lh) \in Nat
          BY SeqAppend, SeqLen, Zenon DEF TypeOK
        <4>3. Len(lh') # 0
          BY <4>1, <4>2
        <4>4. QED
          BY <4>3
      <3>3. QED
        BY <3>1, <3>2, Zenon
    <2>3. QED
      BY <2>1, <2>2, Zenon DEF Waited
  <1>7. CASE write_log \/ install_trans
    <2>1. phase' # "none" /\ UNCHANGED <<lh, dhead, left, owed>>
      BY <1>7, Zenon DEF write_log, install_trans, Advance
    <2>2. QED
      BY <2>1, Zenon DEF Waited
  <1>8. CASE write_head
    <2>1. phase' # "none" /\ owed' = [p \in Thread |-> FALSE]
      BY <1>8, Zenon DEF write_head
    <2>2. QED
      BY <2>1, Zenon DEF Waited
  <1>9. CASE clear_head \/ read_head
    <2> USE <1>9
    <2>1. \A p \in Thread : ~owed[p]
      BY Zenon DEF clear_head, read_head, Headed, Boot, Waited
    <2>2. owed' = owed /\ (lh' = <<>> \/ phase' # "none")
      BY DEF clear_head, read_head
    <2>3. QED
      BY <2>1, <2>2, Zenon DEF Waited
  <1>10. ASSUME NEW b \in Block, bget_fill(b) \/ bget_recycle(b) PROVE Waited'
    <2>1. UNCHANGED <<up, phase, outstanding, lh, dhead, left, owed>>
      BY <1>10, Zenon DEF bget_fill, bget_recycle
    <2>2. QED
      BY <2>1, Zenon DEF Waited
  <1>11. CASE Crash
    <2>1. up' = FALSE /\ owed' = [p \in Thread |-> FALSE]
      BY <1>11, Zenon DEF Crash
    <2>2. QED
      BY <2>1, Zenon DEF Waited
  <1>12. CASE UNCHANGED vars
    BY <1>12, Zenon DEF vars, Waited
  <1>13. QED
    BY <1>1, <1>2, <1>3, <1>4, <1>5, <1>6, <1>7, <1>8, <1>9, <1>10, <1>11, <1>12 DEF Next,
       Commit

(* What is in the log stays as long as log_write is all that changes it. *)
LEMMA LogGrows ==
  ASSUME TypeOK, NEW b \in Block, lh' = (IF InLog(b) THEN lh ELSE Append(lh, b))
  PROVE  /\ \A c \in Block : InLog(c) => InLog(c)'
         /\ InLog(b)'
         /\ Len(lh') = IF InLog(b) THEN Len(lh) ELSE Len(lh) + 1
  <1>1. CASE InLog(b)
    BY <1>1, Zenon DEF InLog
  <1>2. CASE ~InLog(b)
    <2> USE <1>2
    <2>1. lh' = Append(lh, b)
      BY Zenon
    <2>2. /\ Append(lh, b) \in Seq(Block) /\ Len(Append(lh, b)) = Len(lh) + 1
          /\ \A i \in 1 .. Len(lh) : Append(lh, b)[i] = lh[i]
          /\ Append(lh, b)[Len(lh) + 1] = b
      BY SeqAppend DEF TypeOK
    <2>3. /\ DOMAIN lh' = 1 .. Len(lh) + 1
          /\ Len(lh) \in Nat /\ DOMAIN lh = 1 .. Len(lh)
      BY <2>1, <2>2, SeqLen, Zenon DEF TypeOK
    <2>4. QED
      BY <2>1, <2>2, <2>3 DEF InLog
  <1>3. QED
    BY <1>1, <1>2, Zenon

-----------------------------------------------------------------------------
(* Counting. *)

(* The laws of finite sets that outstanding and the room in the log need.  *)
(* They hold always, CountingHolds: they are a hypothesis so that the      *)
(* theorems on finite sets are brought in once, at the end.                *)
Counting ==
  /\ IsFiniteSet({}) /\ Cardinality({}) = 0
  /\ \A S : IsFiniteSet(S) => Cardinality(S) \in Nat /\ (Cardinality(S) = 0 => S = {})
  /\ \A S : \A T \in SUBSET S :
       IsFiniteSet(S) => IsFiniteSet(T) /\ Cardinality(T) <= Cardinality(S)
  /\ \A S, x : IsFiniteSet(S) =>
       /\ IsFiniteSet(S \cup {x}) /\ IsFiniteSet(S \ {x})
       /\ Cardinality(S \cup {x}) = IF x \in S THEN Cardinality(S) ELSE Cardinality(S) + 1
       /\ Cardinality(S \ {x}) = IF x \in S THEN Cardinality(S) - 1 ELSE Cardinality(S)
  /\ \A S : \A n \in Nat : IsFiniteSet(S) =>
       IsFiniteSet(S \X (1 .. n)) /\ Cardinality(S \X (1 .. n)) = Cardinality(S) * n

(* The empty set, alone, has no elements. *)
LEMMA CountEmpty ==
  ASSUME Counting
  PROVE  /\ IsFiniteSet({}) /\ Cardinality({}) = 0
         /\ \A S : IsFiniteSet(S) => (Cardinality(S) = 0 <=> S = {})
  BY Zenon DEF Counting

(* The number of elements is a natural number. *)
LEMMA CountType == ASSUME Counting, NEW S, IsFiniteSet(S) PROVE Cardinality(S) \in Nat
  BY DEF Counting

(* A subset has no more. *)
LEMMA CountSubset ==
  ASSUME Counting, NEW S, IsFiniteSet(S), NEW T \in SUBSET S
  PROVE  IsFiniteSet(T) /\ Cardinality(T) <= Cardinality(S)
  BY Zenon DEF Counting

(* One more is counted once. *)
LEMMA CountAdd ==
  ASSUME Counting, NEW S, NEW x, IsFiniteSet(S)
  PROVE  /\ IsFiniteSet(S \cup {x})
         /\ Cardinality(S \cup {x}) = IF x \in S THEN Cardinality(S) ELSE Cardinality(S) + 1
  BY Zenon DEF Counting

(* One less. *)
LEMMA CountRemove ==
  ASSUME Counting, NEW S, NEW x, IsFiniteSet(S)
  PROVE  /\ IsFiniteSet(S \ {x})
         /\ Cardinality(S \ {x}) = IF x \in S THEN Cardinality(S) - 1 ELSE Cardinality(S)
  BY Zenon DEF Counting

(* There are finitely many: outstanding can count them. *)
LEMMA OpenFinite == ASSUME Counting PROVE IsFiniteSet(Open) /\ Countable
  <1>1. IsFiniteSet(Open)
    BY LogAssumption, CountSubset, Zenon DEF Open
  <1>2. QED
    BY <1>1, CountEmpty, CountType, Zenon DEF Countable

(* outstanding counts them. *)
LEMMA CountStep == Counting /\ TypeOK /\ Counted /\ [Next]_vars => Counted'
  <1> SUFFICES ASSUME Counting, TypeOK, Counted, [Next]_vars PROVE Counted'
    BY Zenon
  <1> USE DEF onDisk, cache, calls, sync
  <1>1. ASSUME NEW p \in Thread, begin_op(p), ~(committing \/ NoSpace) PROVE Counted'
    <2> USE <1>1
    <2>1. p \notin Open /\ Open' = Open \cup {p} /\ outstanding' = outstanding + 1
      BY OpenBegins, Zenon
    <2>2. Cardinality(Open \cup {p}) = Cardinality(Open) + 1
      BY <2>1, OpenFinite, CountAdd, Zenon
    <2>3. ~committing'
      BY Zenon DEF begin_op, committing
    <2>4. QED
      BY <2>1, <2>2, <2>3, Zenon DEF Counted
  <1>2. ASSUME NEW p \in Thread, end_op(p) PROVE Counted'
    <2> USE <1>2
    <2>1. p \in Open /\ Open' = Open \ {p} /\ outstanding' = outstanding - 1
      BY OpenEnds, Zenon
    <2>2. IsFiniteSet(Open \ {p}) /\ Cardinality(Open \ {p}) = Cardinality(Open) - 1
      BY <2>1, OpenFinite, CountRemove, Zenon
    <2>3. outstanding' = Cardinality(Open')
      BY <2>1, <2>2, Zenon DEF Counted
    <2>4. CASE outstanding = 1
      <3>1. Cardinality(Open \ {p}) = 0
        BY <2>2, <2>4 DEF Counted
      <3>2. Open' = {}
        BY <2>1, <2>2, <3>1, CountEmpty, Zenon
      <3>3. QED
        BY <2>3, <3>2, Zenon DEF Counted
    <2>5. CASE outstanding # 1
      <3>1. ~committing'
        BY <2>1, <2>5, Zenon DEF end_op, committing, Counted
      <3>2. QED
        BY <2>3, <3>1, Zenon DEF Counted
    <2>6. QED
      BY <2>4, <2>5, Zenon
  <1>3. CASE Crash
    <2>1. Open' = {} /\ outstanding' = 0
      BY <1>3, Zenon DEF Crash, Open
    <2>2. QED
      BY <2>1, CountEmpty, Zenon DEF Counted
  <1>4. CASE /\ ~Crash /\ \A p \in Thread : ~end_op(p)
             /\ \A p \in Thread : begin_op(p) => committing \/ NoSpace
    <2> USE <1>4
    <2>1. Open' = Open /\ outstanding' = outstanding
      BY OpenStays, Zenon
    <2>2. committing' => committing
      BY Zenon DEF committing, Next, Commit, begin_op, end_commit, sys_sync, sync_wake,
         log_write, write_log, write_head, install_trans, clear_head, read_head,
         bget_fill, bget_recycle, vars
    <2>3. QED
      BY <2>1, <2>2, Zenon DEF Counted
  <1>5. QED
    BY <1>1, <1>2, <1>3, <1>4

-----------------------------------------------------------------------------
(* Room in the log. *)

Reserved(O, W) == {x \in O \X (1 .. MAXOPBLOCKS) : x[2] > Cardinality(W[x[1]])}

SlackBounded ==
  /\ IsFiniteSet(Slack) /\ Cardinality(Slack) \in Nat
  /\ Cardinality(Slack) <= Cardinality(Open) * MAXOPBLOCKS

(* No call reserves more than MAXOPBLOCKS. *)
LEMMA ReservedFinite ==
  ASSUME Counting, NEW O \in SUBSET Thread, NEW W
  PROVE  /\ IsFiniteSet(Reserved(O, W)) /\ Cardinality(Reserved(O, W)) \in Nat
         /\ Cardinality(Reserved(O, W)) <= Cardinality(O) * MAXOPBLOCKS
  <1>1. IsFiniteSet(O) /\ MAXOPBLOCKS \in Nat
    BY LogAssumption, CountSubset
  <1>2. /\ IsFiniteSet(O \X (1 .. MAXOPBLOCKS))
        /\ Cardinality(O \X (1 .. MAXOPBLOCKS)) = Cardinality(O) * MAXOPBLOCKS
    BY <1>1, Zenon DEF Counting
  <1>3. Reserved(O, W) \in SUBSET (O \X (1 .. MAXOPBLOCKS))
    BY Zenon DEF Reserved
  <1>4. /\ IsFiniteSet(Reserved(O, W))
        /\ Cardinality(Reserved(O, W)) <= Cardinality(O \X (1 .. MAXOPBLOCKS))
    BY <1>2, <1>3, CountSubset, Zenon
  <1>5. QED
    BY <1>2, <1>4, CountType, Zenon

(* So the slack is bounded, before a step and after it. *)
LEMMA SlackFinite == ASSUME Counting PROVE SlackBounded /\ SlackBounded'
  <1>1. Open \in SUBSET Thread /\ Open' \in SUBSET Thread
    BY Zenon DEF Open
  <1>2. Slack = Reserved(Open, wr) /\ Slack' = Reserved(Open', wr')
    BY Zenon DEF Slack, Reserved
  <1>3. QED
    BY <1>1, <1>2, ReservedFinite, Zenon DEF SlackBounded

(* Each call writes within its reservation, so the log never overflows. *)
LEMMA RoomStep ==
  Counting /\ TypeOK /\ Headed /\ Counted /\ Roomy /\ TypeOK' /\ [Next]_vars => Roomy'
  <1> SUFFICES ASSUME Counting, TypeOK, Headed, Counted, Roomy, TypeOK', [Next]_vars
               PROVE  Roomy'
    BY Zenon
  <1> Len(lh) \in Nat /\ LOGBLOCKS \in Nat /\ MAXOPBLOCKS \in Nat /\ OpBlocks \in Nat
    BY LogAssumption, SeqLen, SMTT(20) DEF TypeOK
  <1>s. SlackBounded'
    BY SlackFinite, Zenon
  <1> USE DEF onDisk, cache, calls, sync
  <1>1. ASSUME NEW p \in Thread, begin_op(p), ~(committing \/ NoSpace) PROVE Roomy'
    <2> USE <1>1
    <2>1. p \notin Open /\ Open' = Open \cup {p} /\ outstanding' = outstanding + 1
      BY OpenBegins, Zenon
    <2>2. lh' = lh /\ wr' = [wr EXCEPT ![p] = {}]
      BY Zenon DEF begin_op
    <2>3. ASSUME NEW q \in Open'
          PROVE  /\ IsFiniteSet(wr'[q]) /\ Cardinality(wr'[q]) <= OpBlocks
                 /\ \A b \in wr'[q] : InLog(b)'
      <3>1. CASE q = p
        <4>1. wr'[q] = {}
          BY <2>2, <3>1, Zenon DEF TypeOK
        <4>2. QED
          BY <4>1, CountEmpty, SMTT(20)
      <3>2. CASE q # p
        <4>1. q \in Open /\ wr'[q] = wr[q]
          BY <2>1, <2>2, <2>3, <3>2, SMTT(20) DEF TypeOK, Open
        <4>2. QED
          BY <2>2, <4>1, Zenon DEF Roomy, InLog
      <3>3. QED
        BY <3>1, <3>2, Zenon
    <2>4. Cardinality(Open \cup {p}) = outstanding + 1
      BY <2>1, OpenFinite, CountAdd, Zenon DEF Counted
    <2>5. /\ Cardinality(Slack') \in Nat
          /\ Cardinality(Slack') <= Cardinality(Open') * MAXOPBLOCKS
      BY <1>s, Zenon DEF SlackBounded
    <2>6. Len(lh) + (outstanding + 1) * MAXOPBLOCKS <= LOGBLOCKS
      <3> DEFINE m == (outstanding + 1) * MAXOPBLOCKS
      <3>1. m \in Nat
        BY DEF TypeOK
      <3>2. ~(Len(lh) + m > LOGBLOCKS)
        BY Zenon DEF NoSpace
      <3> HIDE DEF m
      <3>3. Len(lh) + m <= LOGBLOCKS
        BY <3>1, <3>2
      <3>4. QED
        BY <3>3, Zenon DEF m
    <2>7. Len(lh') + Cardinality(Slack') <= LOGBLOCKS
      <3> DEFINE m == (outstanding + 1) * MAXOPBLOCKS
      <3>1. m \in Nat
        BY SMTT(20) DEF TypeOK
      <3>2. Cardinality(Slack') <= m
        BY <2>1, <2>4, <2>5, Zenon
      <3>3. Len(lh') = Len(lh) /\ Len(lh) + m <= LOGBLOCKS
        BY <2>2, <2>6, Zenon
      <3> HIDE DEF m
      <3>4. QED
        BY <2>5, <3>1, <3>2, <3>3, SMTT(20)
    <2>8. QED
      BY <2>3, <2>7, Zenon DEF Roomy
  <1>2. ASSUME NEW p \in Thread, end_op(p) PROVE Roomy'
    <2>1. Open' = Open \ {p} /\ lh' = lh /\ wr' = [wr EXCEPT ![p] = {}]
      BY <1>2, OpenEnds, Zenon DEF end_op
    <2>2. \A q \in Open' : q \in Open /\ wr'[q] = wr[q]
      BY <2>1, Zenon DEF TypeOK, Open
    <2>3. Slack' \in SUBSET Slack
      BY <2>2, Zenon DEF Slack
    <2>4. Cardinality(Slack') <= Cardinality(Slack) /\ Cardinality(Slack) \in Nat
      BY <2>3, SlackFinite, CountSubset, Zenon DEF SlackBounded
    <2>5. Cardinality(Slack') \in Nat
      BY <1>s, Zenon DEF SlackBounded
    <2>6. Len(lh') + Cardinality(Slack') <= LOGBLOCKS
      BY <2>1, <2>4, <2>5 DEF Roomy
    <2>7. QED
      BY <2>1, <2>2, <2>6, SMTT(20) DEF Roomy, InLog
  <1>3. ASSUME NEW p \in Thread, NEW b \in Block, NEW v \in Val, log_write(p, b, v)
        PROVE  Roomy'
    <2> USE <1>3
    <2>1. p \in Open /\ pc' = pc /\ wr' = [wr EXCEPT ![p] = wr[p] \cup {b}]
      BY Zenon DEF log_write, MayWrite, Open
    <2>2. /\ \A c \in Block : InLog(c) => InLog(c)'
          /\ InLog(b)' /\ Len(lh') = IF InLog(b) THEN Len(lh) ELSE Len(lh) + 1
      <3>1. lh' = (IF InLog(b) THEN lh ELSE Append(lh, b))
        BY Zenon DEF log_write, Absorbed
      <3>2. QED
        BY <3>1, LogGrows, Zenon
    <2>3. Open' = Open
      BY <2>1, Zenon DEF Open
    <2>4. /\ IsFiniteSet(wr[p]) /\ Cardinality(wr[p]) \in Nat
          /\ \A c \in wr[p] : InLog(c)
      BY <2>1, CountType, SMTT(20) DEF Roomy
    <2>5. /\ IsFiniteSet(wr[p] \cup {b})
          /\ Cardinality(wr[p] \cup {b}) =
               IF b \in wr[p] THEN Cardinality(wr[p]) ELSE Cardinality(wr[p]) + 1
      BY <2>4, CountAdd, Zenon
    <2>6. Cardinality(wr[p] \cup {b}) <= OpBlocks
      BY Zenon DEF log_write, MayWrite
    <2>7. /\ wr'[p] = wr[p] \cup {b}
          /\ \A q \in Open : q # p => wr'[q] = wr[q]
      BY <2>1, Zenon DEF TypeOK, Open
    <2>8. ASSUME NEW q \in Open'
          PROVE  /\ IsFiniteSet(wr'[q]) /\ Cardinality(wr'[q]) <= OpBlocks
                 /\ \A c \in wr'[q] : InLog(c)'
      <3> USE <2>8
      <3>0. q \in Thread /\ wr[q] \in SUBSET Block
        BY <2>3, SMTT(20) DEF Open, TypeOK
      <3>1. CASE q = p
        BY <2>2, <2>4, <2>5, <2>6, <2>7, <3>0, <3>1, Zenon
      <3>2. CASE q # p
        BY <2>2, <2>3, <2>7, <3>0, <3>2, Zenon DEF Roomy
      <3>3. QED
        BY <3>1, <3>2, Zenon
    <2>9. Slack' \in SUBSET Slack
      <3>1. ASSUME NEW x \in Slack' PROVE x \in Slack
        <4>1. /\ x \in Open \X (1 .. MAXOPBLOCKS) /\ x[1] \in Open /\ x[2] \in Nat
              /\ x[2] > Cardinality(wr'[x[1]])
          BY <2>3, <3>1, SMTT(20) DEF Slack
        <4>2. CASE x[1] = p
          <5> USE <4>2
          <5>1. Cardinality(wr'[p]) >= Cardinality(wr[p]) /\ Cardinality(wr'[p]) \in Nat
            BY <2>4, <2>5, <2>7, SMTT(20)
          <5>2. x[2] > Cardinality(wr[p])
            BY <2>4, <4>1, <5>1, SMTT(20)
          <5>3. QED
            BY <4>1, <5>2, Zenon DEF Slack
        <4>3. CASE x[1] # p
          BY <2>7, <4>1, <4>3, Zenon DEF Slack
        <4>4. QED
          BY <4>2, <4>3, Zenon
      <3>2. QED
        BY <3>1, Zenon
    <2>10. Cardinality(Slack) \in Nat /\ IsFiniteSet(Slack)
      BY SlackFinite, Zenon DEF SlackBounded
    <2>11. Cardinality(Slack') \in Nat
      BY <1>s, Zenon DEF SlackBounded
    <2>12. CASE InLog(b)
      <3>1. Cardinality(Slack') <= Cardinality(Slack)
        BY <2>9, <2>10, CountSubset, SMTT(20)
      <3>2. QED
        BY <2>2, <2>8, <2>10, <2>11, <2>12, <3>1, SMTT(20) DEF Roomy
    <2>13. CASE ~InLog(b)
      <3> USE <2>13
      <3> DEFINE k == Cardinality(wr[p]) + 1
      <3>1. b \notin wr[p] /\ Cardinality(wr'[p]) = k
        BY <2>4, <2>5, <2>7, Zenon
      <3>2. k \in 1 .. MAXOPBLOCKS
        <4> HIDE DEF k
        <4>1. k <= OpBlocks
          BY <2>6, <2>7, <3>1, Zenon
        <4>2. k \in Nat \ {0}
          BY <2>4, SMTT(20) DEF k
        <4>3. OpBlocks \in 1 .. MAXOPBLOCKS - 1 /\ MAXOPBLOCKS \in Nat
          BY LogAssumption, Zenon
        <4>4. QED
          BY <4>1, <4>2, <4>3, SMTT(20)
      <3>3. <<p, k>> \in Slack
        BY <2>1, <2>4, <3>2, SMTT(20) DEF Slack
      <3>4. <<p, k>> \notin Slack'
        BY <2>4, <3>1, SMTT(20) DEF Slack
      <3>5. Slack' \in SUBSET (Slack \ {<<p, k>>})
        BY <2>9, <3>4, Zenon
      <3>6. /\ IsFiniteSet(Slack \ {<<p, k>>})
            /\ Cardinality(Slack \ {<<p, k>>}) = Cardinality(Slack) - 1
        BY <2>10, <3>3, CountRemove, SMTT(20)
      <3>7. Cardinality(Slack') <= Cardinality(Slack) - 1
        BY <3>5, <3>6, CountSubset, Zenon
      <3>8. Len(lh') = Len(lh) + 1
        BY <2>2, Zenon
      <3>9. Len(lh') + Cardinality(Slack') <= LOGBLOCKS
        <4>1. Len(lh) + Cardinality(Slack) <= LOGBLOCKS
          BY Zenon DEF Roomy
        <4>2. QED
          BY <2>10, <2>11, <3>7, <3>8, <4>1
      <3>10. QED
        BY <2>8, <3>9, Zenon DEF Roomy
    <2>14. QED
      BY <2>12, <2>13, Zenon
  <1>4. ASSUME Open' = {} PROVE Roomy'
    <2> USE <1>4
    <2>1. Slack' = {}
      BY Zenon DEF Slack
    <2>2. Len(lh') <= LOGBLOCKS /\ Len(lh') \in Nat
      BY SeqLen, Zenon DEF TypeOK
    <2>3. Len(lh') + Cardinality(Slack') <= LOGBLOCKS
      BY <2>1, <2>2, CountEmpty
    <2>4. QED
      BY <2>3, Zenon DEF Roomy
  <1>5. CASE Crash
    BY <1>4, <1>5, Zenon DEF Crash, Open
  <1>6. CASE /\ ~Crash /\ \A p \in Thread : ~end_op(p)
             /\ \A p \in Thread : begin_op(p) => committing \/ NoSpace
             /\ \A p \in Thread, b \in Block, v \in Val : ~log_write(p, b, v)
    <2> USE <1>6
    <2>1. Open' = Open
      BY OpenStays, Zenon
    <2>2. CASE committing
      BY <1>4, <2>1, <2>2 DEF Counted
    <2>3. CASE ~committing
      <3>1. UNCHANGED <<lh, wr>>
        BY <2>3, Zenon DEF committing, Next, Commit, begin_op, end_commit, sys_sync, sync_wake,
           write_log, write_head, install_trans, clear_head, read_head, bget_fill,
           bget_recycle, vars
      <3>2. QED
        BY <2>1, <3>1, Zenon DEF Roomy, Slack, InLog
    <2>4. QED
      BY <2>2, <2>3, Zenon
  <1>7. QED
    BY <1>1, <1>2, <1>3, <1>5, <1>6, SMTT(20)

-----------------------------------------------------------------------------
(* The invariant holds at first, and every step keeps it. *)

(* At power-on: nothing in memory, an empty log on disk. *)
LEMMA InitInv == Counting /\ Init => LInv
  <1> SUFFICES ASSUME Counting, Init PROVE LInv
    BY Zenon
  <1>1. TypeOK
    <2>1. lh \in Seq(Block) /\ dhead \in Seq(Block) /\ Len(lh) <= LOGBLOCKS
      BY LogAssumption, SeqEmpty DEF Init
    <2>2. /\ disk \in [Block -> Val] /\ dlog \in [1 .. LOGBLOCKS -> Val]
          /\ cached \in [Block -> Val \cup {NoVal}] /\ pin \in [Block -> Nat]
      BY LogAssumption, Zenon DEF Init
    <2>3. /\ pc \in [Thread -> {"idle", "begin", "op", "commit", "sync"}]
          /\ wr \in [Thread -> SUBSET Block] /\ left \in [Thread -> Nat]
          /\ owed \in [Thread -> BOOLEAN]
      BY Zenon DEF Init
    <2>4. outstanding \in Nat /\ phase \in Phases /\ tail \in Nat \ {0}
      BY DEF Init, Phases
    <2>5. up \in BOOLEAN /\ asleep \subseteq Thread
      BY Zenon DEF Init
    <2>6. QED
      BY <2>1, <2>2, <2>3, <2>4, <2>5, Zenon DEF TypeOK
  <1>2. Boot
    BY Zenon DEF Init, Boot
  <1>3. Headed
    <2>1. lh = <<>> /\ dhead = <<>> /\ phase = "read_head" /\ ~up
      BY Zenon DEF Init
    <2>2. Len(dhead) <= LOGBLOCKS
      BY <2>1, LogAssumption, SeqEmpty
    <2>3. Distinct(lh) /\ Distinct(dhead)
      BY <2>1 DEF Distinct
    <2>4. QED
      BY <2>1, <2>2, <2>3, Zenon DEF Headed
  <1>4. Copies /\ Pinned
    <2>1. phase = "read_head" /\ ~up
      BY Zenon DEF Init
    <2>2. QED
      BY <2>1, Zenon DEF Copies, Pinned
  <1>5. Open = {} /\ outstanding = 0
    BY Zenon DEF Init, Open
  <1>6. Counted
    BY <1>5, CountEmpty, Zenon DEF Counted
  <1>7. Roomy
    <2>1. Slack = {}
      BY <1>5, Zenon DEF Slack
    <2>2. Len(lh) + Cardinality(Slack) <= LOGBLOCKS
      BY <2>1, LogAssumption, SeqEmpty, CountEmpty DEF Init
    <2>3. QED
      BY <1>5, <2>2, Zenon DEF Roomy
  <1>8. Waited
    BY Zenon DEF Init, Waited
  <1>9. QED
    BY <1>1, <1>2, <1>3, <1>4, <1>6, <1>7, <1>8 DEF LInv

(* The steps above, together. *)
LEMMA NextInv == Counting /\ LInv /\ [Next]_vars => LInv'
  <1> SUFFICES ASSUME Counting, LInv, [Next]_vars PROVE LInv'
    BY Zenon
  <1>1. TypeOK'
    BY TypeStep, OpenFinite, Zenon DEF LInv
  <1>2. Boot' /\ Headed'
    BY BootStep, HeadStep, Zenon DEF LInv
  <1>3. Copies' /\ Pinned'
    BY CopiesStep, PinStep, Zenon DEF LInv
  <1>4. Counted' /\ Waited'
    BY CountStep, WaitStep, OpenFinite, Zenon DEF LInv
  <1>5. Roomy'
    BY <1>1, RoomStep, Zenon DEF LInv
  <1>6. QED
    BY <1>1, <1>2, <1>3, <1>4, <1>5 DEF LInv

(* The room that the invariant leaves is enough for every open call. *)
LEMMA RoomToWrite == Counting /\ LInv => NoLogPanic
  <1> SUFFICES ASSUME Counting, LInv PROVE NoLogPanic
    BY Zenon
  <1>1. ASSUME NEW p \in Thread, NEW b \in Block, MayWrite(p, b) PROVE Len(lh) < LOGBLOCKS
    <2>1. p \in Open
      BY <1>1, Zenon DEF MayWrite, Open
    <2>2. Cardinality(wr[p]) \in Nat /\ Cardinality(wr[p]) <= OpBlocks
      BY <2>1, CountType, Zenon DEF LInv, Roomy
    <2>3. <<p, MAXOPBLOCKS>> \in Slack
      BY <2>1, <2>2, LogAssumption DEF Slack
    <2>4. Cardinality(Slack) \in Nat /\ Cardinality(Slack) # 0
      BY <2>3, SlackFinite, CountEmpty, Zenon DEF SlackBounded
    <2>5. Len(lh) \in Nat /\ Len(lh) + Cardinality(Slack) <= LOGBLOCKS
      BY SeqLen DEF LInv, TypeOK, Roomy
    <2>6. QED
      BY <2>4, <2>5, LogAssumption
  <1>2. committing => Open = {}
    BY DEF LInv, Counted
  <1>3. QED
    BY <1>1, <1>2 DEF NoLogPanic

-----------------------------------------------------------------------------
(* The theorems. *)

FS == INSTANCE FiniteSetTheorems

(* The laws of counting hold. *)
LEMMA CountingHolds == Counting
  <1>1. /\ \A S : FS!Cardinality(S) = Cardinality(S)
        /\ \A S : FS!IsFiniteSet(S) = IsFiniteSet(S)
    BY Zenon DEF FS!Cardinality, Cardinality, FS!IsFiniteSet, IsFiniteSet
  <1>2. /\ IsFiniteSet({}) /\ Cardinality({}) = 0
        /\ \A S : IsFiniteSet(S) => Cardinality(S) \in Nat /\ (Cardinality(S) = 0 => S = {})
    BY <1>1, FS!FS_EmptySet, FS!FS_CardinalityType, Zenon
  <1>3. ASSUME NEW S, NEW T \in SUBSET S, IsFiniteSet(S)
        PROVE  IsFiniteSet(T) /\ Cardinality(T) <= Cardinality(S)
    BY <1>1, <1>3, FS!FS_Subset, Zenon
  <1>4. ASSUME NEW S, NEW x, IsFiniteSet(S)
        PROVE  /\ IsFiniteSet(S \cup {x}) /\ IsFiniteSet(S \ {x})
               /\ Cardinality(S \cup {x}) = IF x \in S THEN Cardinality(S) ELSE Cardinality(S) + 1
               /\ Cardinality(S \ {x}) = IF x \in S THEN Cardinality(S) - 1 ELSE Cardinality(S)
    BY <1>1, <1>4, FS!FS_AddElement, FS!FS_RemoveElement, Zenon
  <1>5. ASSUME NEW S, NEW n \in Nat, IsFiniteSet(S)
        PROVE  /\ IsFiniteSet(S \X (1 .. n))
               /\ Cardinality(S \X (1 .. n)) = Cardinality(S) * n
    <2>1. FS!IsFiniteSet(1 .. n) /\ FS!Cardinality(1 .. n) = n
      BY FS!FS_Interval
    <2>2. FS!IsFiniteSet(S)
      BY <1>1, <1>5
    <2>3. /\ FS!IsFiniteSet(S \X (1 .. n))
          /\ FS!Cardinality(S \X (1 .. n)) = FS!Cardinality(S) * FS!Cardinality(1 .. n)
      BY <2>1, <2>2, FS!FS_Product, Zenon
    <2>4. QED
      BY <1>1, <2>1, <2>3, Zenon
  <1>6. QED
    BY <1>2, <1>3, <1>4, <1>5, Zenon DEF Counting

(* LInv holds always: the types, and what ties the cache, the log on disk  *)
(* and the home locations together in every phase of a commit and of       *)
(* recovery.                                                               *)
THEOREM LogInvariant == Spec => []LInv
  BY CountingHolds, InitInv, NextInv, PTL DEF Spec

(* Neither "too big a transaction" nor an open call during a commit: the   *)
(* reservations of begin_op are enough for any number of threads.          *)
THEOREM LogNeverPanics == Spec => []NoLogPanic
  BY CountingHolds, LogInvariant, RoomToWrite, PTL

(* bpin and bunpin keep a buffer just as long as its block has to be       *)
(* installed from the log.                                                 *)
THEOREM PinsAreExact == Spec => []PinsMatchLog
  <1>1. LInv => PinsMatchLog
    BY Zenon DEF LInv, Pinned, PinsMatchLog
  <1>2. QED
    BY <1>1, LogInvariant, PTL

(* What ended before sys_sync was called is durable when it returns. *)
THEOREM SyncMeansDurable == Spec => []SyncDurable
  <1>1. LInv => SyncDurable
    <2> SUFFICES ASSUME LInv PROVE SyncDurable
      BY Zenon
    <2>1. up /\ ~MustSync => lh = <<>>
      BY DEF LInv, Waited, MustSync, committing, TypeOK
    <2>2. \A p \in Thread : left[p] = 0 => ~owed[p]
      BY DEF LInv, Waited
    <2>3. QED
      BY <2>1, <2>2, Zenon DEF SyncDurable
  <1>2. QED
    BY <1>1, LogInvariant, PTL

(* log.c implements the atomic disk: whatever the number of blocks,        *)
(* threads and log entries, a crash at any moment, in a commit or in       *)
(* recovery itself, takes the file system back to the last header written, *)
(* and that header was written when no system call was half done.          *)
THEOREM LogIsAtomic == Spec => Atomic
  BY LogInvariant, AtomicInit, AtomicStep, PTL DEF Spec, Atomic, AD!ASpec
=============================================================================
