-------------------------- MODULE MqttDevice_proofs --------------------------
(***************************************************************************)
(* Proofs about MqttDevice for every number of topics, every bound on the  *)
(* faults, and either kind of session.  All theorems follow from one       *)
(* inductive invariant, DeviceInv.                                         *)
(***************************************************************************)
EXTENDS MqttDevice, TLAPS

(* Before mosquitto_loop_start there are no callbacks and the FSM is in    *)
(* its first branch; after it the FSM has left INIT for good, and nothing  *)
(* ever writes CONNECTING.                                                 *)
PhaseInv ==
    /\ state # "CONNECTING"
    /\ ~looping => /\ state = "INIT" /\ cb = "none" /\ conn # "up"
                   /\ pc \in {"idle", "connect", "loop_start"}
    /\ looping => /\ pc \notin {"connect", "loop_start"}
                  /\ pc # "set_reconnecting" => state # "INIT"

(* What the main thread read on entry may be overwritten by the callbacks, *)
(* but only with CONNECTED or DISCONNECTED.                                *)
BranchInv ==
    /\ pc = "suball" => state \in {"CONNECTED", "DISCONNECTED"}
    /\ pc = "reconnect" =>
          state \in {"DISCONNECTED", "RECONNECTING", "CONNECTED"}

(* A callback that reports a loss finds no established connection. *)
CallbackInv ==
    /\ cb \in {"lost", "refused"} => conn # "up"
    /\ conn = "up" /\ cb = "none" =>
          isconnected /\ state \in {"CONNECTED", "RECONNECTING", "RUNING"}

(* While the CONNECTED branch runs on the session it was entered for, the  *)
(* topics before the loop index are handed to that session.                *)
ProgressInv ==
    pc = "suball" /\ conn = "up" /\ cb = "none" /\ ~missed
        => 1 .. topic - 1 \subseteq subs \union subreq

DeviceInv ==
    /\ TypeOK
    /\ PhaseInv
    /\ BranchInv
    /\ CallbackInv
    /\ ProgressInv
    /\ SubscribedUnlessMissed

-----------------------------------------------------------------------------
LEMMA InitDeviceInv == Init => DeviceInv
<1> SUFFICES ASSUME Init PROVE DeviceInv
  OBVIOUS
<1>1. TypeOK
  <2>1. topic \in 1 .. NTopics + 1
    BY DeviceAssumption DEF DeviceAssumption, Init
  <2>2. faults \in 0 .. MaxFaults
    BY DeviceAssumption DEF DeviceAssumption, Init
  <2>3. QED
    BY <2>1, <2>2 DEF Init, TypeOK, States
<1>2. QED
  BY <1>1 DEF Init, DeviceInv, PhaseInv, BranchInv, CallbackInv, ProgressInv,
              SubscribedUnlessMissed

(* The steps of the main thread. *)
LEMMA FsmStepDeviceInv ==
    ASSUME DeviceInv, FsmStep
    PROVE  DeviceInv'
<1> USE DeviceAssumption
    DEF DeviceAssumption, DeviceInv, TypeOK, PhaseInv, BranchInv, CallbackInv, ProgressInv,
        SubscribedUnlessMissed, States, Topics, mainvars, libvars
<1>1. CASE EnterConnect
  BY <1>1 DEF EnterConnect, Enter
<1>2. CASE EnterReconnect
  BY <1>2 DEF EnterReconnect, Enter
<1>3. CASE EnterSuball
  <2>1. topic' = 1 /\ 1 \in 1 .. NTopics + 1 /\ 1 .. topic' - 1 = {}
    BY <1>3 DEF EnterSuball
  <2>2. QED
    BY <1>3, <2>1 DEF EnterSuball, Enter
<1>4. CASE EnterTasks
  BY <1>4 DEF EnterTasks, Enter
<1>5. CASE ConnectAsync
  BY <1>5 DEF ConnectAsync, Redial
<1>6. CASE LoopStart
  BY <1>6 DEF LoopStart
<1>7. CASE SetReconnecting
  BY <1>7 DEF SetReconnecting
<1>8. CASE ReconnectAsync
  BY <1>8 DEF ReconnectAsync, Redial
<1>9. CASE Subscribe
  BY <1>9 DEF Subscribe
<1>10. CASE SetRuning
  BY <1>10 DEF SetRuning, LeaveSuball
<1>11. CASE TasksRun
  BY <1>11 DEF TasksRun
<1>12. QED
  BY <1>1, <1>2, <1>3, <1>4, <1>5, <1>6, <1>7, <1>8, <1>9, <1>10, <1>11,
     FsmStep DEF FsmStep

(* The steps of the loop thread and of the broker. *)
LEMMA LoopStepDeviceInv ==
    ASSUME DeviceInv,
           LoopStep \/ Refuse \/ Lose \/ (\E t \in Topics : Suback(t))
    PROVE  DeviceInv'
<1> USE DeviceAssumption
    DEF DeviceAssumption, DeviceInv, TypeOK, PhaseInv, BranchInv,
        CallbackInv, ProgressInv, SubscribedUnlessMissed, States, mainvars
<1>1. CASE Accept
  BY <1>1 DEF Accept, LoopFree
<1>2. CASE AutoReconnect
  BY <1>2 DEF AutoReconnect, LoopFree
<1>3. CASE OnConnect
  BY <1>3 DEF OnConnect
<1>4. CASE OnDisconnect
  BY <1>4 DEF OnDisconnect
<1>5. CASE Refuse
  BY <1>5 DEF Refuse, LoopFree
<1>6. CASE Lose
  BY <1>6 DEF Lose, LoopFree
<1>7. ASSUME NEW t \in Topics, Suback(t)
      PROVE  DeviceInv'
  BY <1>7 DEF Suback
<1>8. QED
  BY <1>1, <1>2, <1>3, <1>4, <1>5, <1>6, <1>7 DEF LoopStep

LEMMA StutterDeviceInv ==
    ASSUME DeviceInv, UNCHANGED vars
    PROVE  DeviceInv'
  BY DEF DeviceInv, TypeOK, PhaseInv, BranchInv, CallbackInv, ProgressInv,
         SubscribedUnlessMissed, vars, mainvars, libvars

(* DeviceInv holds in every reachable state. *)
THEOREM DeviceInvariant == Spec => []DeviceInv
<1>1. DeviceInv /\ [Next]_vars => DeviceInv'
  BY FsmStepDeviceInv, LoopStepDeviceInv, StutterDeviceInv DEF Next
<1>2. QED
  BY InitDeviceInv, <1>1, PTL DEF Spec

-----------------------------------------------------------------------------
(* Every field keeps its type. *)
THEOREM TypeCorrect == Spec => []TypeOK
  BY DeviceInvariant, PTL DEF DeviceInv

(* In RUNING on a live session every topic has been handed to the session, *)
(* unless on_connect was delivered inside the CONNECTED branch.            *)
THEOREM Subscription == Spec => []SubscribedUnlessMissed
  BY DeviceInvariant, PTL DEF DeviceInv

(* A live session whose callbacks have been delivered is never recorded as *)
(* disconnected.                                                           *)
THEOREM Reporting == Spec => []LiveNeverDisconnected
<1>1. DeviceInv => LiveNeverDisconnected
  BY DEF DeviceInv, CallbackInv, LiveNeverDisconnected
<1>2. QED
  BY <1>1, DeviceInvariant, PTL

(* A device in RUNING is never dialled by the main thread. *)
THEOREM NoRedial == Spec => []NoRedialWhileRuning
<1>1. DeviceInv => NoRedialWhileRuning
  BY DEF DeviceInv, BranchInv, NoRedialWhileRuning
<1>2. QED
  BY <1>1, DeviceInvariant, PTL

(* mosquitto_loop_start is called at most once. *)
THEOREM SingleLoopStart == Spec => []LoopStartedOnce
<1>1. DeviceInv => LoopStartedOnce
  BY DEF DeviceInv, TypeOK, PhaseInv, LoopStartedOnce
<1>2. QED
  BY <1>1, DeviceInvariant, PTL

=============================================================================
