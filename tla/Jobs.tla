-------------------------------- MODULE Jobs --------------------------------
(***************************************************************************)
(* Job control of the C-Shell (main.c, command.c, bins.c): the main        *)
(* program, which forks, waits, resumes and keeps bg_list; the SIGCHLD     *)
(* handler plant, which may interrupt it between any two steps; SIGALRM;   *)
(* and the children, which stop, go on and exit when they like.            *)
(*                                                                         *)
(* Syntax makes commands of a typed line.  pc is where the main program is:*)
(*   "prompt"  in fgets             "cmd"   about to take the next command *)
(*   "fork"    forking the stages   "give"  about to hand over the tty     *)
(*   "wait"    in, or just before, waitpid on cur.pids[cur.m]              *)
(*   "back"    past the wait loop   "fill"  in assign_bg or assign_stopped *)
(*   "cont", "unsus"  in resume     "exited", "dead"                       *)
(* It takes a step only while the handler does not run.                    *)
(***************************************************************************)
EXTENDS Syntax

CONSTANTS
  MaxPid,      \* bound: number of forks
  MaxJobs,     \* bound: number of jobs
  Lines,       \* bound: the lines that are typed
  WaitMax,     \* the size of wait_list (100)
  ForkFails    \* bound: the forks that may fail, by the pid they would return

ASSUME JobsAssumption ==
  /\ MaxPid \in Nat \ {0} /\ MaxJobs \in Nat /\ WaitMax \in Nat \ {0}
  /\ ForkFails \subseteq 1 .. MaxPid
  /\ \A l \in Lines : Len(l) > 0

VARIABLES
  child,      \* the kernel's view of each child
  sigchld,    \* SIGCHLD is pending
  handler,    \* plant is running
  tty,        \* the foreground process group of the terminal
  alarm,      \* an alarm is set
  bg_list, wait_list, jobs,
  pc,
  rest,       \* the commands left on the line: coms[i], coms[i+1], ...
  cur,        \* the local variables of the command under way
  ctrld       \* main's ctrld

kernel == <<child, sigchld, tty, alarm>>
table == <<bg_list, wait_list, jobs>>
vars == <<kernel, handler, table, pc, rest, cur, ctrld>>

Pid == 1 .. MaxPid
Shell == 0       \* shell_pgid
Failed == -1     \* what fork returns when it fails

NotFound == 8    \* run_cmd's status for a command that does not exist
Status == {0, NotFound}   \* 0 stands for every other status

Idle == [how |-> "none", pids |-> <<>>, want |-> 0, m |-> 0, job |-> 0,
         stopped |-> FALSE, timed |-> FALSE, notfound |-> FALSE]

(* late: setpgid is left to the child, which lives. *)
NoChild(st) == [st |-> st, rep |-> "none", pgid |-> Shell, late |-> FALSE]

Init ==
  /\ child = [c \in Pid |-> NoChild("none")]
  /\ sigchld = FALSE /\ handler = FALSE
  /\ tty = Shell /\ alarm = FALSE
  /\ bg_list = <<>> /\ wait_list = <<>> /\ jobs = 1
  /\ pc = "prompt" /\ rest = <<>> /\ cur = Idle
  /\ ctrld = FALSE

-----------------------------------------------------------------------------
(* The operating system. A child is "run", "stop", "zombie" or, reaped,    *)
(* "gone"; rep is a change of state that waitpid has not reported yet.     *)
Live(c) == child[c].st \in {"run", "stop"}
Unreaped(c) == child[c].st \in {"run", "stop", "zombie"}
Group(g) == {c \in Pid : Unreaped(c) /\ child[c].pgid = g}

child_exit(c) ==
  /\ Live(c)
  /\ child' = [child EXCEPT ![c].st = "zombie", ![c].rep = "none",
                             ![c].late = FALSE]
  /\ sigchld' = TRUE
  /\ UNCHANGED <<handler, tty, alarm, table, pc, rest, cur, ctrld>>

(* The children of S get a signal that stops or continues them. *)
Stopped(c) == IF child[c].st = "run"
                THEN [child[c] EXCEPT !.st = "stop", !.rep = "stopped"]
                ELSE child[c]
Continued(c) == IF child[c].st = "stop"
                  THEN [child[c] EXCEPT !.st = "run", !.rep = "continued"]
                  ELSE child[c]

killpg(S, sig) ==
  /\ child' = [c \in Pid |-> IF c \notin S THEN child[c]
                             ELSE IF sig = "STOP" THEN Stopped(c) ELSE Continued(c)]
  /\ sigchld' = (sigchld \/ child' # child)

(* Ctrl-Z, a read from a terminal that belongs to others, a kill(1). *)
child_signal(c, sig) ==
  /\ child[c].st = IF sig = "STOP" THEN "run" ELSE "stop"
  /\ killpg({c}, sig)
  /\ UNCHANGED <<handler, tty, alarm, table, pc, rest, cur, ctrld>>

(* The child of a redirected builtin comes to its setpgid. *)
child_setpgid(c) ==
  /\ Live(c) /\ child[c].late /\ child[c].pgid = Shell
  /\ child' = [child EXCEPT ![c].pgid = c]
  /\ UNCHANGED <<sigchld, handler, tty, alarm, table, pc, rest, cur, ctrld>>

(* tcsetpgrp fails when there is no such group. *)
tcsetpgrp(g) == tty' = IF g = Shell \/ Group(g) # {} THEN g ELSE tty

-----------------------------------------------------------------------------
(* plant: the handler of SIGCHLD *)
plant ==
  /\ sigchld /\ ~handler /\ pc \notin {"exited", "dead"}
  /\ sigchld' = FALSE /\ handler' = TRUE
  /\ UNCHANGED <<child, tty, alarm, table, pc, rest, cur, ctrld>>

(* Every job that has c as a member is marked. *)
MarkSus(c, b) ==
  bg_list' = [j \in DOMAIN bg_list |->
                IF Contains(bg_list[j].members, c)
                  THEN [bg_list[j] EXCEPT !.sus = b] ELSE bg_list[j]]

(* A turn of its loop that reports a stopped or continued child.  While an *)
(* entry is being made bg_size counts it already, and the handler follows  *)
(* a pointer that is not set: nothing more, or a crash, may come of it.    *)
plant_mark(c) ==
  /\ handler /\ child[c].rep # "none"
  /\ child' = [child EXCEPT ![c].rep = "none"]
  /\ MarkSus(c, child[c].rep = "stopped")
  /\ \/ UNCHANGED pc
     \/ pc = "fill" /\ pc' = "dead"
  /\ UNCHANGED <<sigchld, handler, tty, alarm, wait_list, jobs, rest, cur, ctrld>>

Enlist(c) == IF Len(wait_list) < WaitMax THEN Append(wait_list, c) ELSE wait_list

(* A turn that reaps one. *)
plant_reap(c) ==
  /\ handler /\ child[c].st = "zombie"
  /\ child' = [child EXCEPT ![c] = NoChild("gone")]
  /\ wait_list' = Enlist(c)
  /\ UNCHANGED <<sigchld, handler, tty, alarm, bg_list, jobs, pc, rest, cur, ctrld>>

(* Nothing to report any more: the loop ends. *)
MutReports == {}
Reports == {c \in Pid : child[c].st = "zombie" \/ child[c].rep # "none"}

plant_return ==
  /\ handler /\ Reports = {}
  /\ handler' = FALSE
  /\ UNCHANGED <<kernel, table, pc, rest, cur, ctrld>>

-----------------------------------------------------------------------------
(* The main program is at l, and no handler runs. *)
At(l) == pc = l /\ ~handler

(* On to the next command of the line. *)
Done == pc' = "cmd" /\ cur' = Idle

(* announce_bg: c leaves the first job that has it, and a job without      *)
(* members leaves the table.                                               *)
announce_bg(list, c) ==
  LET j == SelectInSeq(list, LAMBDA e : Contains(e.members, c))
      left == RemoveFirst(list[j].members, c)
  IN  IF j = 0 THEN list
      ELSE IF left = <<>> THEN RemoveAt(list, j)
      ELSE [list EXCEPT ![j].members = left]

Flush ==
  /\ bg_list' = FoldLeft(announce_bg, bg_list, wait_list)
  /\ wait_list' = <<>>
  /\ UNCHANGED jobs

(* no_longer_waiting, with SIGCHLD blocked: at the end of process_cmd and  *)
(* before the prompt.                                                      *)
no_longer_waiting ==
  /\ At("cmd") /\ rest = <<>>
  /\ Flush
  /\ pc' = "prompt"
  /\ UNCHANGED <<kernel, handler, rest, cur, ctrld>>

(* A line is read, and lexed and parsed; nothing is done with a bad one. *)
read_line(l) ==
  /\ At("prompt")
  /\ LET x == lexer(l)
         p == IF x.ok THEN parser(x.args) ELSE Bad
     IN rest' = IF p.ok THEN p.coms ELSE <<>>
  /\ pc' = "cmd" /\ ctrld' = FALSE
  /\ UNCHANGED <<kernel, handler, table, cur>>

(* Ctrl-D: a warning when a job is stopped (ctrld1), unless it has just    *)
(* been given; otherwise SIGHUP to all jobs (ctrld2), and the end.         *)
read_eof ==
  /\ At("prompt")
  /\ IF ~ctrld /\ \E j \in DOMAIN bg_list : bg_list[j].sus
       THEN pc' = "cmd" /\ ctrld' = TRUE
       ELSE pc' = "exited" /\ UNCHANGED ctrld
  /\ UNCHANGED <<kernel, handler, table, rest, cur>>

-----------------------------------------------------------------------------
(* The next command of process_cmd.  One that is no part of a pipeline has *)
(* its redirections taken out; an error ends it, or the line.              *)
Com == Head(rest)
Redir == ext_in(Com.args)
Out == ext_out(Redir.args)

Skip(n) == rest' = SubSeq(rest, n + 1, Len(rest))

Simple == At("cmd") /\ rest # <<>> /\ ~Com.piped

redirect_error ==
  /\ Simple
  /\ \/ ~Redir.ok /\ Skip(1)
     \/ Redir.ok /\ ~Out.ok /\ IF Com.background \/ Com.semi THEN rest' = <<>> ELSE Skip(1)
  /\ Done
  /\ UNCHANGED <<kernel, handler, table, ctrld>>

Builtins == {"hop", "reveal", "peek", "locate", "activities", "resume", "ping",
             "spy", "snoop"}

Is(name) == Simple /\ Com.args[1] = <<name>> /\ Redir.ok /\ Out.ok

Redirected == Redir.files # <<>> \/ Out.files # <<>>

Unused == {c \in Pid : child[c].st = "none"}

(* n processes are to be forked: a command or a pipeline, in the foreground *)
(* or not.  The command stays at the head of rest until they are.          *)
Start(n, how) ==
  /\ \E c \in Unused : c + n - 1 <= MaxPid
  /\ jobs <= MaxJobs
  /\ pc' = "fork"
  /\ cur' = [Idle EXCEPT !.how = how, !.want = n]
  /\ UNCHANGED <<kernel, handler, table, rest, ctrld>>

(* A builtin gets a process of its own in the background, ... *)
Background == Com.background /\ Start(1, "back")

(* ... and when it is redirected; otherwise the shell itself runs it. *)
Child == ~Com.background /\ Redirected /\ Start(1, "redir")
InShell == ~Com.background /\ Skip(1) /\ Done /\ UNCHANGED <<kernel, handler, ctrld>>
Quiet == InShell /\ UNCHANGED table

hop == Is("hop") /\ (Background \/ Child \/ (~Redirected /\ Quiet))

(* locate checks its arguments before it looks at the redirections. *)
locate ==
  /\ Is("locate")
  /\ \/ Background
     \/ Len(Out.args) >= 2 /\ Child
     \/ (Len(Out.args) < 2 \/ ~Redirected) /\ Quiet

(* reveal - without a previous directory moves i to the next command, and  *)
(* on as long as that has the argument - too; none of them is run.         *)
Dash(c) == Len(c.args) > 1 /\ c.args[2] = <<"-">>
Swallowed == Min({k \in 2 .. Len(rest) : ~Dash(rest[k])} \cup {Len(rest)})

reveal ==
  /\ Is("reveal")
  /\ \/ Background
     \/ Len(Out.args) <= 2 /\ Child
     \/ (Len(Out.args) > 2 \/ ~Redirected) /\ Quiet
     \/ /\ ~Com.background /\ Len(Out.args) > 1 /\ Out.args[2] = <<"-">>
        /\ Skip(Swallowed) /\ Done /\ UNCHANGED <<kernel, handler, table, ctrld>>

(* peek with a flag behind a name ends the line. *)
Misplaced(args) ==
  \E k \in 2 .. Len(args) - 1 : args[k] # <<"-f">> /\ args[k + 1] = <<"-f">>

peek ==
  /\ Is("peek")
  /\ \/ Background
     \/ ~Misplaced(Out.args) /\ (Child \/ (~Redirected /\ Quiet))
     \/ /\ ~Com.background /\ Misplaced(Out.args)
        /\ rest' = <<>> /\ Done /\ UNCHANGED <<kernel, handler, table, ctrld>>

spy == Is("spy") /\ (Background \/ Child \/ (~Redirected /\ Quiet))

activities ==
  /\ Is("activities")
  /\ Background \/ Child \/ (~Redirected /\ InShell /\ Flush)

(* ping: an error, or a signal to the group of a job or to its first       *)
(* process.  (In a child it is one of the signals from elsewhere.)         *)
ping_job(j, sig) ==
  \E S \in {Group(bg_list[j].pgid), {bg_list[j].pid} \cap Pid} : killpg(S, sig)

ping ==
  /\ Is("ping")
  /\ \/ Background \/ Child \/ (~Redirected /\ Quiet)
     \/ /\ ~Com.background /\ ~Redirected
        /\ \E j \in DOMAIN bg_list, sig \in {"STOP", "CONT"} : ping_job(j, sig)
        /\ Skip(1) /\ Done
        /\ UNCHANGED <<handler, tty, alarm, table, ctrld>>

(* snoop pays no heed to &; only snoop -p runs in the shell. *)
snoop ==
  /\ Is("snoop")
  /\ IF Len(Out.args) >= 3 /\ Out.args[2] = <<"-p">>
       THEN Skip(1) /\ Done /\ UNCHANGED <<kernel, handler, table, ctrld>>
       ELSE Start(1, "snoop")

(* Any other command. *)
external ==
  /\ Simple /\ Redir.ok /\ Out.ok /\ \A b \in Builtins : Com.args[1] # <<b>>
  /\ Background \/ (~Com.background /\ Start(1, "run"))

(* piped: the commands up to the first without |.  When pipe fails nothing *)
(* is forked (and the pipes made before it stay open).                     *)
Stages == Min({k \in DOMAIN rest : ~rest[k].piped})

piped ==
  /\ At("cmd") /\ rest # <<>> /\ Com.piped
  /\ Start(Stages, IF rest[Stages].background THEN "back" ELSE "run")

pipe_fails ==
  /\ At("cmd") /\ rest # <<>> /\ Com.piped
  /\ Skip(Stages) /\ Done
  /\ UNCHANGED <<kernel, handler, table, ctrld>>

-----------------------------------------------------------------------------
(* After the last fork. *)
Forked(pids) ==
  IF Len(pids) < cur.want THEN pc' = "fork" /\ UNCHANGED rest
  ELSE pc' = (IF cur.how = "back" THEN "fill" ELSE "give") /\ Skip(cur.want)

MutLeader == Shell
Leader == IF cur.pids = <<>> THEN 0 ELSE cur.pids[1]

(* fork and setpgid: the first stage leads the group, which the others     *)
(* can join while somebody unreaped is in it.                              *)
fork ==
  /\ At("fork")
  /\ \E c \in Unused :
       /\ \A d \in Unused : c <= d
       /\ child' = [child EXCEPT
            ![c].st = "run", ![c].late = cur.how = "redir",
            ![c].pgid = IF cur.how = "redir" THEN Shell
                        ELSE IF cur.pids = <<>> THEN c
                        ELSE IF Group(Leader) # {} THEN Leader ELSE Shell]
       /\ cur' = [cur EXCEPT !.pids = Append(@, c)]
  /\ Forked(cur'.pids)
  /\ UNCHANGED <<sigchld, tty, alarm, handler, table, ctrld>>

(* fork fails.  A single background command is then run in the foreground; *)
(* otherwise -1 is taken for a pid.                                        *)
fork_fails ==
  /\ At("fork") /\ \E c \in ForkFails \cap Unused : \A d \in Unused : c <= d
  /\ IF cur.how = "back" /\ cur.want = 1
       THEN rest' = [rest EXCEPT ![1].background = FALSE] /\ Done
       ELSE /\ cur' = [cur EXCEPT !.pids = Append(@, Failed)]
            /\ Forked(cur'.pids)
  /\ UNCHANGED <<kernel, handler, table, ctrld>>

give ==
  /\ At("give")
  /\ tcsetpgrp(cur.pids[1])
  /\ pc' = "wait" /\ cur' = [cur EXCEPT !.m = 1]
  /\ UNCHANGED <<child, sigchld, alarm, handler, table, rest, ctrld>>

(* resume.  Its redirections are made in the shell itself and undone; a    *)
(* bad file or argument is an error.                                       *)
resume_error ==
  /\ Is("resume")
  /\ Skip(1) /\ Done
  /\ UNCHANGED <<kernel, handler, table, ctrld>>

(* The entry stays where it is meanwhile, since only the main program      *)
(* removes entries.                                                        *)
resume(j, how) ==
  /\ Is("resume") /\ Skip(1)
  /\ cur' = [Idle EXCEPT !.how = how, !.job = j, !.pids = bg_list[j].members,
                         !.want = Len(bg_list[j].members)]
  /\ bg_list' = IF how = "bg" THEN bg_list ELSE [bg_list EXCEPT ![j].sus = FALSE]
  /\ pc' = "cont"
  /\ UNCHANGED <<kernel, handler, wait_list, jobs, ctrld>>

resume_cont ==
  /\ At("cont")
  /\ killpg(Group(bg_list[cur.job].pgid), "CONT")
  /\ IF cur.how = "bg"
       THEN pc' = "unsus" /\ UNCHANGED <<tty, alarm, cur>>
       ELSE /\ tcsetpgrp(bg_list[cur.job].pgid)
            /\ alarm' = (cur.how = "timed")
            /\ pc' = "wait" /\ cur' = [cur EXCEPT !.m = 1]
  /\ UNCHANGED <<handler, table, rest, ctrld>>

resume_bg ==
  /\ At("unsus")
  /\ bg_list' = [bg_list EXCEPT ![cur.job].sus = FALSE]
  /\ Done
  /\ UNCHANGED <<kernel, handler, wait_list, jobs, rest, ctrld>>

-----------------------------------------------------------------------------
(* A command in the foreground, as opposed to a resumed job. *)
Fore == {"run", "redir", "snoop"}

(* Whom waitpid waits for: -1 is anybody. *)
Awaited == IF cur.pids[cur.m] = Failed THEN Pid ELSE {cur.pids[cur.m]}

(* The next turn of the wait loop. *)
Loop == pc' = IF cur.m = Len(cur.pids) THEN "back" ELSE "wait"

(* It exited with the status x. *)
wait_exited(c, x) ==
  /\ At("wait") /\ c \in Awaited /\ child[c].st = "zombie"
  /\ child' = [child EXCEPT ![c] = NoChild("gone")]
  /\ cur' = [cur EXCEPT !.m = @ + 1,
       !.notfound = cur.how = "run" /\ cur.want = 1 /\ x = NotFound]
  /\ Loop
  /\ UNCHANGED <<sigchld, tty, alarm, handler, table, rest, ctrld>>

wait_stopped(c) ==
  /\ At("wait") /\ c \in Awaited /\ child[c].rep = "stopped"
  /\ child' = [child EXCEPT ![c].rep = "none"]
  /\ cur' = [cur EXCEPT !.m = @ + 1, !.stopped = TRUE]
  /\ Loop
  /\ UNCHANGED <<sigchld, tty, alarm, handler, table, rest, ctrld>>

(* ECHILD: the handler was first.  status keeps its initial 0 in           *)
(* process_cmd, and is not initialised in piped and resume.                *)
wait_none ==
  /\ At("wait") /\ \A c \in Awaited : ~Unreaped(c)
  /\ \E b \in IF cur.how \in Fore /\ cur.want = 1 THEN {FALSE} ELSE BOOLEAN :
       cur' = [cur EXCEPT !.m = @ + 1, !.stopped = @ \/ b]
  /\ Loop
  /\ UNCHANGED <<kernel, handler, table, rest, ctrld>>

(* There is somebody to wait for, and nothing to report. *)
Blocked ==
  /\ \E c \in Awaited : Unreaped(c)
  /\ \A c \in Awaited : child[c].st # "zombie" /\ child[c].rep # "stopped"

(* The alarm rings.  It ends a waitpid that blocks; a waitpid that has not *)
(* begun, or that restarts when plant returns, does not notice.            *)
alarm_handler ==
  /\ alarm /\ alarm' = FALSE
  /\ \/ /\ At("wait") /\ Blocked
        /\ pc' = "back" /\ cur' = [cur EXCEPT !.timed = TRUE]
     \/ UNCHANGED <<pc, cur>>
  /\ UNCHANGED <<child, sigchld, tty, handler, table, rest, ctrld>>

(* The terminal comes back.  A foreground command that stopped becomes a   *)
(* job; one that was not found ends the line.  A resumed job stays when it *)
(* stopped or timed out (it got SIGTERM then).                             *)
MutKeep == cur.timed
Keep == cur.timed \/ cur.stopped

Restore == tcsetpgrp(Shell) /\ alarm' = FALSE

run_end ==
  /\ At("back") /\ cur.how \in Fore
  /\ tcsetpgrp(Shell)
  /\ IF cur.stopped THEN pc' = "fill" /\ UNCHANGED cur ELSE Done
  /\ rest' = IF cur.notfound THEN <<>> ELSE rest
  /\ UNCHANGED <<child, sigchld, alarm, handler, table, ctrld>>

(* The end of resume.  free, memmove and realloc are one step here; in the *)
(* code plant may come between them and look at the entry that goes.       *)
resume_end ==
  /\ At("back") /\ cur.how \notin Fore
  /\ Restore
  /\ bg_list' = IF ~Keep THEN RemoveAt(bg_list, cur.job)
                ELSE IF cur.timed THEN bg_list
                ELSE [bg_list EXCEPT ![cur.job].sus = TRUE]
  /\ Done
  /\ UNCHANGED <<child, sigchld, handler, wait_list, jobs, rest, ctrld>>

(* assign_bg, assign_stopped and their versions for pipelines *)
assign ==
  /\ At("fill")
  /\ bg_list' = Append(bg_list, [job |-> jobs, pid |-> cur.pids[1],
       pgid |-> cur.pids[1], sus |-> cur.how \in Fore, members |-> cur.pids])
  /\ jobs' = jobs + 1
  /\ Done
  /\ UNCHANGED <<kernel, handler, wait_list, rest, ctrld>>

-----------------------------------------------------------------------------
Command ==
  \/ redirect_error \/ hop \/ reveal \/ peek \/ locate \/ activities \/ ping
  \/ spy \/ snoop \/ external \/ piped \/ pipe_fails \/ resume_error
  \/ \E j \in DOMAIN bg_list, how \in {"bg", "fg", "timed"} : resume(j, how)

Main ==
  \/ no_longer_waiting \/ Command
  \/ fork \/ fork_fails \/ give \/ resume_cont \/ resume_bg
  \/ wait_none \/ run_end \/ resume_end \/ assign
  \/ \E c \in Pid : wait_stopped(c) \/ \E x \in Status : wait_exited(c, x)

User == read_eof \/ \E l \in Lines : read_line(l)

Handler == plant \/ plant_return \/ \E c \in Pid : plant_mark(c) \/ plant_reap(c)

(* Once the shell has ended, nobody looks at them. *)
Children ==
  /\ pc \notin {"exited", "dead"}
  /\ \E c \in Pid :
       \/ child_exit(c) \/ child_setpgid(c)
       \/ \E sig \in {"STOP", "CONT"} : child_signal(c, sig)

Next == Main \/ User \/ Handler \/ alarm_handler \/ Children

Spec == Init /\ [][Next]_vars
-----------------------------------------------------------------------------
TypeOK ==
  /\ child \in [Pid -> [st : {"none", "run", "stop", "zombie", "gone"},
                        rep : {"none", "stopped", "continued"},
                        pgid : Pid \cup {Shell}, late : BOOLEAN]]
  /\ sigchld \in BOOLEAN /\ handler \in BOOLEAN /\ alarm \in BOOLEAN
  /\ tty \in Pid \cup {Shell}
  /\ \A j \in DOMAIN bg_list :
       bg_list[j] \in [job : 1 .. jobs - 1, pid : Pid \cup {Failed},
                       pgid : Pid \cup {Failed}, sus : BOOLEAN,
                       members : Seq(Pid \cup {Failed}) \ {<<>>}]
  /\ wait_list \in Seq(Pid) /\ Len(wait_list) <= WaitMax
  /\ pc \in {"prompt", "cmd", "fork", "give", "wait", "back", "fill", "cont",
             "unsus", "exited", "dead"}
  /\ rest # <<>> => ~Last(rest).piped
  /\ cur.job \in 0 .. Len(bg_list)
  /\ pc = "wait" => cur.m \in DOMAIN cur.pids
  /\ ctrld \in BOOLEAN

Members == UNION {ToSet(bg_list[j].members) : j \in DOMAIN bg_list}

(* No zombie stays: a SIGCHLD is on its way or plant is at work as long as *)
(* there is one, although signals of several children count once and the   *)
(* main program reaps some of them itself.                                 *)
ZombieNoticed ==
  (\E c \in Pid : child[c].st = "zombie") => sigchld \/ handler

(* The shell forgets no child: at the prompt every one that lives is in    *)
(* the table, so that activities, resume and ping can reach it.            *)
Tracked == TypeOK /\ (pc = "prompt" => \A c \in Pid : Live(c) => c \in Members)

(* At the prompt the terminal is the shell's and no alarm is set (bins.c:  *)
(* 856), whichever way the last command ended.                             *)
PromptRestored == pc = "prompt" => tty = Shell /\ ~alarm

(* Whoever the shell waits for in the foreground is in the process group   *)
(* that has the terminal, so that it can read and gets Ctrl-C and Ctrl-Z,  *)
(* although it may have been forked when the first of its pipeline was     *)
(* reaped already.  Redirected builtins are left out: only the child calls *)
(* setpgid, and may do so after the shell's tcsetpgrp (main.c:357, 371).   *)
ForegroundHasTerminal ==
  pc = "wait" =>
    \A k \in cur.m .. Len(cur.pids) :
      LET c == cur.pids[k] IN
      c \in Pid /\ Live(c) /\ ~child[c].late => child[c].pgid = tty

(* The terminal is always with whom the user is talking to. *)
TerminalPassed == PromptRestored /\ ForegroundHasTerminal

(* LexerAgrees and ParserAgrees of Syntax, for the line to come.  (They do *)
(* not depend on the state, and one state is enough to evaluate them.)     *)
Fresh == pc = "prompt" /\ jobs = 1 /\ Unused = Pid
LinesLexed == Fresh => LexerAgrees
LinesParsed == Fresh => ParserAgrees
=============================================================================
