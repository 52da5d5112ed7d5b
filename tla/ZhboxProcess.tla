---------------------------- MODULE ZhboxProcess ----------------------------
(***************************************************************************)
(* The life of zhbox processes: main() of main.c and the pid file of       *)
(* pidfile.c, one step per system call.  Any number of invocations         *)
(* ("zhbox -s", "zhbox -S") share the file and signal one another.         *)
(*                                                                         *)
(* The two forks of daemonize come between the check of the pid file and   *)
(* its rewriting.  Each parent only exits, which gives the terminal back;  *)
(* the model keeps one identity for an invocation, the pid of the process  *)
(* that goes on.                                                           *)
(***************************************************************************)
EXTENDS Integers, FiniteSets

CONSTANTS
    Procs,      \* pids of the invocations
    Foreign,    \* pid of a live process of another program
    Dead,       \* pid of no process
    None,       \* 0, for read_pid; no file, no lock
    Overlap,    \* bound: commands given and not completed at once
    Waits       \* a command is completed when the pid file is written; else
                \* when it gives the terminal back

ASSUME ProcessAssumption ==
    /\ IsFiniteSet(Procs)
    /\ Foreign \notin Procs /\ Dead \notin Procs /\ None \notin Procs
    /\ Foreign # Dead /\ Foreign # None /\ Dead # None
    /\ Overlap \in Nat
    /\ Waits \in BOOLEAN

VARIABLES
    pc,         \* the next call of main()
    mode,       \* "start" (-s), "stop" (-S), or "daemon": a start whose
                \* terminal is free and whose pid is not written
    got,        \* the pid the invocation last read, None for 0
    fd,         \* the inode write_pid has opened
    file,       \* the inode the path names, None if there is no such file
    text,       \* what an inode holds: a pid, or None while it is empty
    lock,       \* who holds the flock of an inode
    looping,    \* processes with a mosquitto loop thread
    told        \* history: processes to which "zhbox (pid) Stop." refers

vars == <<pc, mode, got, fd, file, text, lock, looping, told>>

(* An inode is named by the process that created it; Dead created the one  *)
(* that an earlier zhbox left.                                             *)
Inodes == Procs \union {Dead}
Pids   == Procs \union {Foreign, Dead}

(* Where main() is. *)
Opening   == {"check", "probe", "reread", "kill", "unlink", "daemonize",
              "open", "lock", "write", "unlock"}
Holding   == {"handler", "init", "dispatch", "destroy", "remove"}
Gone      == {"none", "refused", "exit"}

TypeOK ==
    /\ pc \in [Procs -> Opening \union Holding \union Gone]
    /\ mode \in [Procs -> {"start", "stop", "daemon"}]
    /\ got \in [Procs -> Pids \union {None}]
    /\ fd \in [Procs -> Inodes \union {None}]
    /\ file \in Inodes \union {None}
    /\ text \in [Inodes -> Pids \union {None}]
    /\ lock \in [Inodes -> Procs \union {None}]
    /\ looping \subseteq Procs
    /\ told \subseteq Procs

(* Any pid file an earlier run may have left: none, an empty one (a crash  *)
(* between open and write), that of a dead process, or one whose pid is in *)
(* use by another program by now.                                          *)
Init ==
    /\ pc = [p \in Procs |-> "none"]
    /\ mode = [p \in Procs |-> "start"]
    /\ got = [p \in Procs |-> None]
    /\ fd = [p \in Procs |-> None]
    /\ file \in {Dead, None}
    /\ \E left \in {None, Dead, Foreign} :
           text = [i \in Inodes |-> IF i = Dead THEN left ELSE None]
    /\ lock = [i \in Inodes |-> None]
    /\ looping = {}
    /\ told = {}

Alive(q) ==
    \/ q = Foreign
    \/ q \in Procs /\ pc[q] \notin Gone

Goto(p, here, next) ==
    /\ pc[p] = here
    /\ pc' = [pc EXCEPT ![p] = next]

-----------------------------------------------------------------------------
(* Commands that the next one may have to wait for. *)
Pending ==
    {q \in Procs : pc[q] \in Opening /\ (Waits \/ mode[q] # "daemon")}

Launch(p, m) ==
    /\ Cardinality(Pending) < Overlap
    /\ Goto(p, "none", "check")
    /\ mode' = [mode EXCEPT ![p] = m]
    /\ UNCHANGED <<got, fd, file, text, lock, looping, told>>

(* Mutant: -1 for "no pid file". *)
ReadPidMinusOne ==
    IF file = None THEN {-1}
    ELSE IF text[file] = None THEN Pids \union {None}
    ELSE {text[file]}

(* The values read_pid may return.  The local variable pid has no initial  *)
(* value and fscanf leaves it alone when there is nothing to convert, so   *)
(* that an empty file reads as anything.                                   *)
ReadPid ==
    IF file = None THEN {None}
    ELSE IF text[file] = None THEN Pids \union {None}
    ELSE {text[file]}

(* check_pid: read_pid, then the test for 0 and for the own pid. *)
CheckRead(p) ==
    \E pid \in ReadPid :
        /\ Goto(p, "check", IF pid \in {None, p} THEN "unlink" ELSE "probe")
        /\ got' = [got EXCEPT ![p] = pid]
        /\ UNCHANGED <<mode, fd, file, text, lock, looping, told>>

(* Mutant: every pid in the file counts as alive. *)
CheckProbeSkipped(p) ==
    /\ Goto(p, "probe", "reread")
    /\ UNCHANGED <<mode, got, fd, file, text, lock, looping, told>>

(* check_pid: kill(pid, 0). *)
CheckProbe(p) ==
    /\ Goto(p, "probe", IF Alive(got[p]) THEN "reread" ELSE "unlink")
    /\ UNCHANGED <<mode, got, fd, file, text, lock, looping, told>>

(* Mutant: a refused start removes the pid file on its way out. *)
RereadAndRemove(p) ==
    \E pid \in ReadPid :
        /\ Goto(p, "reread", IF mode[p] = "stop" THEN "kill" ELSE "refused")
        /\ got' = [got EXCEPT ![p] = pid]
        /\ file' = IF mode[p] = "stop" THEN file ELSE None
        /\ UNCHANGED <<mode, fd, text, lock, looping, told>>

(* main reads the file once more to know whom to signal or to name. *)
Reread(p) ==
    \E pid \in ReadPid :
        /\ Goto(p, "reread", IF mode[p] = "stop" THEN "kill" ELSE "refused")
        /\ got' = [got EXCEPT ![p] = pid]
        /\ UNCHANGED <<mode, fd, file, text, lock, looping, told>>

(* What SIGTERM does to a process: the default action before signal() has  *)
(* installed the handler; nothing while the event loop is not running,     *)
(* because event_base_loopbreak then breaks no loop; the end of the loop   *)
(* in event_base_dispatch.                                                 *)
Terminated(q) ==
    CASE pc[q] \in Opening \union {"handler"} -> "exit"
      [] pc[q] = "dispatch" -> "destroy"
      [] OTHER -> pc[q]

(* The kernel drops the locks of the processes that are gone; how they     *)
(* were started matters no more.                                           *)
Reap ==
    LET gone == {q \in Procs : pc'[q] \in Gone}
    IN  /\ lock' = [i \in Inodes |-> IF lock[i] \in gone THEN None ELSE lock[i]]
        /\ mode' = [q \in Procs |-> IF q \in gone THEN "start" ELSE mode[q]]

(* kill(old_pid, SIGTERM).  A pid that has become 0 since the check names  *)
(* the process group of the caller.                                        *)
Kill(p) ==
    /\ pc[p] = "kill"
    /\ LET target == IF got[p] = None THEN p ELSE got[p]
       IN  /\ pc' = [q \in Procs |-> IF q = p THEN "exit"
                                     ELSE IF q = target THEN Terminated(q)
                                     ELSE pc[q]]
           /\ told' = told \union ({target} \intersect
                         {q \in Procs \ {p} : pc[q] \notin Gone})
    /\ Reap
    /\ UNCHANGED <<got, fd, file, text, looping>>

(* remove_pid after a check that found nobody. *)
Unlink(p) ==
    /\ Goto(p, "unlink", IF mode[p] = "stop" THEN "exit" ELSE "daemonize")
    /\ file' = None
    /\ UNCHANGED <<mode, got, fd, text, lock, looping, told>>

(* daemonize: the process that goes on is the second child; with -f, or    *)
(* when the first fork fails, it is the command itself.  A failed second   *)
(* fork leaves the first child, which goes on all the same.                *)
Daemonize(p) ==
    /\ Goto(p, "daemonize", "open")
    /\ \E m \in {"start", "daemon"} : mode' = [mode EXCEPT ![p] = m]
    /\ UNCHANGED <<got, fd, file, text, lock, looping, told>>

(* write_pid: open with O_CREAT and O_TRUNC, before the lock is taken. *)
Open(p) ==
    /\ Goto(p, "open", "lock")
    /\ file' = IF file = None THEN p ELSE file
    /\ fd' = [fd EXCEPT ![p] = file']
    /\ text' = [text EXCEPT ![file'] = None]
    /\ UNCHANGED <<mode, got, lock, looping, told>>

(* write_pid: flock with LOCK_NB; main exits when it fails. *)
Lock(p) ==
    /\ pc[p] = "lock"
    /\ IF lock[fd[p]] = None
       THEN /\ Goto(p, "lock", "write")
            /\ lock' = [lock EXCEPT ![fd[p]] = p]
            /\ UNCHANGED mode
       ELSE /\ Goto(p, "lock", "exit")
            /\ Reap
    /\ UNCHANGED <<got, fd, file, text, looping, told>>

(* Mutant: daemonize after write_pid, the pid written is that of a parent  *)
(* which has exited.                                                       *)
WriteParent(p) ==
    /\ Goto(p, "write", "unlock")
    /\ text' = [text EXCEPT ![fd[p]] = Dead]
    /\ UNCHANGED <<mode, got, fd, file, lock, looping, told>>

Write(p) ==
    /\ Goto(p, "write", "unlock")
    /\ text' = [text EXCEPT ![fd[p]] = p]
    /\ UNCHANGED <<mode, got, fd, file, lock, looping, told>>

Unlock(p) ==
    /\ Goto(p, "unlock", "handler")
    /\ lock' = [lock EXCEPT ![fd[p]] = None]
    /\ mode' = [mode EXCEPT ![p] = "start"]
    /\ UNCHANGED <<got, fd, file, text, looping, told>>

(* signal(SIGTERM, termination). *)
Handler(p) ==
    /\ Goto(p, "handler", "init")
    /\ UNCHANGED <<mode, got, fd, file, text, lock, looping, told>>

(* event_base_new and zhbox_init; when one fails main returns and leaves   *)
(* the pid file.  With an empty northls there is no event to wait for, and *)
(* event_base_dispatch returns at once.                                    *)
InitOk(p) ==
    /\ \E next \in {"dispatch", "destroy"} : Goto(p, "init", next)
    /\ UNCHANGED <<mode, got, fd, file, text, lock, looping, told>>

InitFail(p) ==
    /\ Goto(p, "init", "exit")
    /\ UNCHANGED <<mode, got, fd, file, text, lock, looping, told>>

(* In the event loop the first timer of a device starts its loop thread.   *)
StartLooping(p) ==
    /\ pc[p] = "dispatch"
    /\ looping' = looping \union {p}
    /\ UNCHANGED <<pc, mode, got, fd, file, text, lock, told>>

(* zhbox_destory stops the devices with mosquitto_loop_stop(mosq, false),  *)
(* which joins the loop thread; as mosquitto_disconnect was never called,  *)
(* that thread never returns.                                              *)
Destroy(p) ==
    /\ p \notin looping
    /\ Goto(p, "destroy", "remove")
    /\ UNCHANGED <<mode, got, fd, file, text, lock, looping, told>>

(* remove_pid, and main returns. *)
Remove(p) ==
    /\ Goto(p, "remove", "exit")
    /\ file' = None
    /\ UNCHANGED <<mode, got, fd, text, lock, looping, told>>

(* A crash, a SIGKILL, or exit(1) anywhere: the kernel drops the lock, the *)
(* pid file stays as it is.                                                *)
Crash(p) ==
    /\ pc[p] \notin Gone
    /\ pc' = [pc EXCEPT ![p] = "exit"]
    /\ Reap
    /\ UNCHANGED <<got, fd, file, text, looping, told>>

-----------------------------------------------------------------------------
(* main() of one process, left alone. *)
Main(p) ==
    \/ CheckRead(p) \/ CheckProbe(p) \/ Reread(p) \/ Kill(p)
    \/ Unlink(p) \/ Daemonize(p) \/ Open(p) \/ Lock(p) \/ Write(p) \/ Unlock(p)
    \/ Handler(p) \/ InitOk(p)
    \/ Destroy(p) \/ Remove(p)

Next ==
    \E p \in Procs :
        \/ \E m \in {"start", "stop"} : Launch(p, m)
        \/ Main(p)
        \/ InitFail(p)
        \/ StartLooping(p)
        \/ Crash(p)

Spec == Init /\ [][Next]_vars

FairSpec == Spec /\ \A p \in Procs : WF_vars(Main(p))

-----------------------------------------------------------------------------
(* A process that has written the pid file and not exited. *)
Running == {p \in Procs : pc[p] \in Holding}

(* "zhbox was already run": two zhbox processes never run at once. *)
AtMostOneRunning == \A p, q \in Running : p = q

(* As long as a zhbox runs, the pid file exists and names it: a start can  *)
(* be refused and a stop can find its target, whatever crashed before.     *)
PidfileNamesRunning == \A p \in Running : file # None /\ text[file] = p

(* The processes that run implement the abstract single instance: none     *)
(* takes over before the one that runs is gone.                            *)
Single == INSTANCE SingleInstance WITH owners <- Running

ImplementsSingle == Single!Spec

(* However many invocations overlap, the flock keeps two of them from      *)
(* writing the same inode at once.                                         *)
FlockExclusive ==
    \A p, q \in Procs :
        (/\ pc[p] \in {"write", "unlock"}
         /\ pc[q] \in {"write", "unlock"}
         /\ fd[p] = fd[q]) => p = q

(* What a crash leaves, whatever it is, keeps the next zhbox from starting  *)
(* in two cases only: the file is empty, because the crash came between    *)
(* O_TRUNC and the write, and read_pid makes a pid of it; or another       *)
(* program has by now the pid that it names.  Any other start that finds   *)
(* no zhbox running gets as far as writing its own pid.                    *)
RestartAfterCrash ==
    \A p \in Procs :
        (pc[p] = "check" /\ mode[p] = "start" /\ Running = {})
        ~> \/ p \in Running
           \/ pc[p] = "exit"
           \/ /\ pc[p] = "refused"
              /\ file # None
              /\ text[file] \in {None, Foreign}

-----------------------------------------------------------------------------
(* Claims of the repository that the code does not keep.                   *)

(* "-S, --stop, stop the process" (usage): a zhbox that is reported as     *)
(* stopped goes away.                                                      *)
StopStops == \A p \in Procs : (p \in told) ~> (pc[p] \in Gone)
=============================================================================
