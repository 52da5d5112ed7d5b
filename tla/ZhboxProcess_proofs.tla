------------------------ MODULE ZhboxProcess_proofs ------------------------
(***************************************************************************)
(* As long as each command waits for the pid file of the one before, at    *)
(* most one zhbox runs and the pid file names it: for any finite number of *)
(* invocations, whatever file an earlier zhbox left, whatever crashes.     *)
(***************************************************************************)
EXTENDS ZhboxProcess, FiniteSetTheorems, TLAPS

(* Invocations reach the pid file one at a time. *)
OneOpening ==
    \A p, q \in Procs : pc[p] \in Opening /\ pc[q] \in Opening => p = q

(* The pid that is being probed is that of the running zhbox, if any. *)
ProbesRunning ==
    \A p \in Procs : pc[p] = "probe" => \A q \in Running : q = got[p]

(* Who goes on to the pid file has found nobody running. *)
NobodyBefore ==
    \A p \in Procs :
        pc[p] \in {"unlink", "daemonize", "open", "lock", "write", "unlock"}
            => Running = {}

(* What write_pid opened is still what the path names, and once written it *)
(* keeps the pid.                                                          *)
WritesTheFile ==
    \A p \in Procs :
        /\ pc[p] \in {"lock", "write", "unlock"}
              => fd[p] \in Inodes /\ file = fd[p]
        /\ pc[p] = "unlock" => text[fd[p]] = p

ProcessInv ==
    /\ TypeOK
    /\ OneOpening
    /\ ProbesRunning
    /\ NobodyBefore
    /\ WritesTheFile
    /\ PidfileNamesRunning

-----------------------------------------------------------------------------
LEMMA InitProcessInv == Init => ProcessInv
  BY ProcessAssumption
  DEF Init, ProcessInv, TypeOK, OneOpening, ProbesRunning, NobodyBefore,
      WritesTheFile, PidfileNamesRunning, Running, Opening, Holding, Gone,
      Inodes, Pids, ProcessAssumption

(* With Overlap = 1 the guard of Launch says that nobody is on the way. *)
LEMMA LaunchAlone ==
    ASSUME Overlap = 1, Waits, TypeOK, Cardinality(Pending) < Overlap
    PROVE  \A q \in Procs : pc[q] \notin Opening
<1> DEFINE S == {q \in Procs : pc[q] \in Opening}
<1>a. Pending = S
  BY DEF Pending
<1>1. IsFiniteSet(S)
  BY ProcessAssumption, FS_Subset DEF ProcessAssumption
<1>2. Cardinality(S) \in Nat
  BY <1>1, FS_CardinalityType
<1>3. Cardinality(S) = 0
  BY <1>2, <1>a
<1>4. S = {}
  BY <1>1, <1>3, FS_EmptySet
<1>5. QED
  BY <1>4

LEMMA NextProcessInv ==
    ASSUME Overlap = 1, Waits, ProcessInv, Next
    PROVE  ProcessInv'
<1> USE ProcessAssumption
    DEF ProcessAssumption, ProcessInv, TypeOK, OneOpening, ProbesRunning,
        NobodyBefore, WritesTheFile, PidfileNamesRunning, Running, Opening,
        Holding, Gone, Inodes, Pids, Goto
<1>1. ASSUME NEW p \in Procs, NEW m \in {"start", "stop"}, Launch(p, m)
      PROVE  ProcessInv'
  <2>1. \A q \in Procs : pc[q] \notin Opening
    BY <1>1, LaunchAlone DEF Launch
  <2>2. QED
    BY <1>1, <2>1 DEF Launch
<1>2. ASSUME NEW p \in Procs, CheckRead(p)
      PROVE  ProcessInv'
  BY <1>2 DEF CheckRead, ReadPid
<1>3. ASSUME NEW p \in Procs, CheckProbe(p)
      PROVE  ProcessInv'
  BY <1>3 DEF CheckProbe, Alive
<1>4. ASSUME NEW p \in Procs, Reread(p)
      PROVE  ProcessInv'
  BY <1>4 DEF Reread, ReadPid
<1>5. ASSUME NEW p \in Procs, Kill(p)
      PROVE  ProcessInv'
  BY <1>5 DEF Kill, Terminated, Reap
<1>6. ASSUME NEW p \in Procs, Unlink(p)
      PROVE  ProcessInv'
  BY <1>6 DEF Unlink
<1>16. ASSUME NEW p \in Procs, Daemonize(p)
       PROVE  ProcessInv'
  BY <1>16 DEF Daemonize
<1>7. ASSUME NEW p \in Procs, Open(p)
      PROVE  ProcessInv'
  BY <1>7 DEF Open
<1>8. ASSUME NEW p \in Procs, Lock(p)
      PROVE  ProcessInv'
  BY <1>8 DEF Lock, Reap
<1>9. ASSUME NEW p \in Procs, Write(p)
      PROVE  ProcessInv'
  BY <1>9 DEF Write
<1>10. ASSUME NEW p \in Procs, Unlock(p)
       PROVE  ProcessInv'
  BY <1>10 DEF Unlock
<1>11. ASSUME NEW p \in Procs, Handler(p) \/ InitOk(p) \/ InitFail(p)
       PROVE  ProcessInv'
  BY <1>11 DEF Handler, InitOk, InitFail
<1>12. ASSUME NEW p \in Procs, StartLooping(p)
       PROVE  ProcessInv'
  BY <1>12 DEF StartLooping
<1>13. ASSUME NEW p \in Procs, Destroy(p) \/ Remove(p)
       PROVE  ProcessInv'
  BY <1>13 DEF Destroy, Remove
<1>14. ASSUME NEW p \in Procs, Crash(p)
       PROVE  ProcessInv'
  BY <1>14 DEF Crash, Reap
<1>15. QED
  BY <1>1, <1>2, <1>3, <1>4, <1>5, <1>6, <1>7, <1>8, <1>9, <1>10, <1>11,
     <1>12, <1>13, <1>14, <1>16, Next DEF Next, Main

(* ProcessInv holds in every reachable state. *)
THEOREM ProcessInvariant ==
    ASSUME Overlap = 1, Waits
    PROVE  Spec => []ProcessInv
<1>1. ProcessInv /\ UNCHANGED vars => ProcessInv'
  BY DEF vars, ProcessInv, TypeOK, OneOpening, ProbesRunning, NobodyBefore,
         WritesTheFile, PidfileNamesRunning, Running
<1>2. ProcessInv /\ [Next]_vars => ProcessInv'
  BY <1>1, NextProcessInv
<1>3. QED
  BY InitProcessInv, <1>2, PTL DEF Spec

-----------------------------------------------------------------------------
(* The pid file names the zhbox that runs. *)
THEOREM PidfileCorrect ==
    ASSUME Overlap = 1, Waits
    PROVE  Spec => []PidfileNamesRunning
  BY ProcessInvariant, PTL DEF ProcessInv

LEMMA NamedIsUnique == ProcessInv => AtMostOneRunning
  BY DEF ProcessInv, PidfileNamesRunning, AtMostOneRunning

(* Two zhbox processes never run at once. *)
THEOREM MutualExclusion ==
    ASSUME Overlap = 1, Waits
    PROVE  Spec => []AtMostOneRunning
  BY ProcessInvariant, NamedIsUnique, PTL

(* Only Unlock, the last step of write_pid, makes a process a running one. *)
LEMMA StepOfRunning ==
    ASSUME ProcessInv, [Next]_vars
    PROVE  \/ Running' \subseteq Running
           \/ Running = {} /\ \E p \in Procs : Running' = {p}
<1> USE DEF ProcessInv, TypeOK, Running, Opening, Holding, Gone, Goto
<1>1. ASSUME NEW p \in Procs, Unlock(p)
      PROVE  Running = {} /\ Running' = {p}
  BY <1>1 DEF Unlock, NobodyBefore
<1>2. ASSUME NEW p \in Procs, Kill(p)
      PROVE  Running' \subseteq Running
  BY <1>2 DEF Kill, Terminated
<1>3. ASSUME NEW p \in Procs,
             \/ \E m \in {"start", "stop"} : Launch(p, m)
             \/ CheckRead(p) \/ CheckProbe(p) \/ Reread(p) \/ Unlink(p)
             \/ Daemonize(p) \/ Open(p) \/ Lock(p) \/ Write(p)
      PROVE  Running' \subseteq Running
  BY <1>3 DEF Launch, CheckRead, CheckProbe, Reread, Unlink, Daemonize, Open,
              Lock, Write
<1>4. ASSUME NEW p \in Procs,
             \/ Handler(p) \/ InitOk(p) \/ InitFail(p) \/ StartLooping(p)
             \/ Destroy(p) \/ Remove(p) \/ Crash(p)
      PROVE  Running' \subseteq Running
  BY <1>4
  DEF Handler, InitOk, InitFail, StartLooping, Destroy, Remove, Crash
<1>5. CASE UNCHANGED vars
  BY <1>5 DEF vars
<1>6. QED
  BY <1>1, <1>2, <1>3, <1>4, <1>5 DEF Next, Main

(* The processes of zhbox implement the single instance. *)
THEOREM Refinement ==
    ASSUME Overlap = 1, Waits
    PROVE  Spec => ImplementsSingle
<1>1. Init => Single!Init
  BY DEF Init, Single!Init, Running, Holding
<1>2. ProcessInv /\ [Next]_vars => [Single!Next]_Running
  <2> SUFFICES ASSUME ProcessInv, [Next]_vars
               PROVE  Single!Next \/ Running' = Running
    OBVIOUS
  <2>1. \A p, q \in Running : p = q
    BY NamedIsUnique DEF AtMostOneRunning
  <2>2. CASE Running' \subseteq Running
    <3>1. Running' = Running \/ (Running # {} /\ Running' = {})
      BY <2>1, <2>2
    <3>2. QED
      BY <3>1 DEF Single!Next, Single!Leave
  <2>3. CASE Running = {} /\ \E p \in Procs : Running' = {p}
    BY <2>3 DEF Single!Next, Single!Take
  <2>4. QED
    BY <2>2, <2>3, StepOfRunning
<1>3. QED
  BY <1>1, <1>2, ProcessInvariant, PTL
  DEF Spec, ImplementsSingle, Single!Spec

-----------------------------------------------------------------------------
(* The flock, for any number of invocations that overlap: who writes holds *)
(* the lock of the inode it has opened.                                    *)
LockInv ==
    /\ TypeOK
    /\ \A p \in Procs :
          /\ pc[p] \in {"lock", "write", "unlock"} => fd[p] \in Inodes
          /\ pc[p] \in {"write", "unlock"} => lock[fd[p]] = p

LEMMA NextLockInv ==
    ASSUME LockInv, Next
    PROVE  LockInv'
<1> USE ProcessAssumption
    DEF ProcessAssumption, LockInv, TypeOK, Opening, Holding, Gone, Inodes,
        Pids, Goto
<1>1. ASSUME NEW p \in Procs,
             \/ \E m \in {"start", "stop"} : Launch(p, m)
             \/ CheckRead(p) \/ CheckProbe(p) \/ Reread(p) \/ Unlink(p)
             \/ Daemonize(p)
      PROVE  LockInv'
  BY <1>1 DEF Launch, CheckRead, CheckProbe, Reread, ReadPid, Unlink,
              Daemonize
<1>2. ASSUME NEW p \in Procs, Open(p)
      PROVE  LockInv'
  BY <1>2 DEF Open
<1>3. ASSUME NEW p \in Procs, Lock(p)
      PROVE  LockInv'
  BY <1>3 DEF Lock, Reap
<1>4. ASSUME NEW p \in Procs, Write(p)
      PROVE  LockInv'
  BY <1>4 DEF Write
<1>5. ASSUME NEW p \in Procs, Unlock(p)
      PROVE  LockInv'
  BY <1>5 DEF Unlock
<1>6. ASSUME NEW p \in Procs, Kill(p)
      PROVE  LockInv'
  BY <1>6 DEF Kill, Terminated, Reap
<1>7. ASSUME NEW p \in Procs, Crash(p)
      PROVE  LockInv'
  BY <1>7 DEF Crash, Reap
<1>8. ASSUME NEW p \in Procs,
             \/ Handler(p) \/ InitOk(p) \/ InitFail(p) \/ StartLooping(p)
             \/ Destroy(p) \/ Remove(p)
      PROVE  LockInv'
  BY <1>8 DEF Handler, InitOk, InitFail, StartLooping, Destroy, Remove
<1>9. QED
  BY <1>1, <1>2, <1>3, <1>4, <1>5, <1>6, <1>7, <1>8 DEF Next, Main

(* The variables have their types, for any number of invocations that      *)
(* overlap.                                                                *)
THEOREM LockInvariant == Spec => []LockInv
<1>1. Init => LockInv
  BY InitProcessInv DEF ProcessInv, LockInv, Init
<1>2. LockInv /\ UNCHANGED vars => LockInv'
  BY DEF LockInv, TypeOK, vars
<1>3. LockInv /\ [Next]_vars => LockInv'
  BY <1>2, NextLockInv
<1>4. QED
  BY <1>1, <1>3, PTL DEF Spec

(* Type correctness of the processes, their pid file and its lock. *)
THEOREM TypeCorrect == Spec => []TypeOK
  BY LockInvariant, PTL DEF LockInv

(* However many invocations overlap, the flock keeps two of them from      *)
(* writing the same inode at once.                                         *)
THEOREM Flock == Spec => []FlockExclusive
<1>1. LockInv => FlockExclusive
  BY DEF LockInv, FlockExclusive
<1>2. QED
  BY <1>1, LockInvariant, PTL
=============================================================================
