-------------------------- MODULE RetryTimer_proofs --------------------------
(***************************************************************************)
(* The timed device is a device: whatever MqttDevice_proofs proves holds   *)
(* with the timeouts of the code, for every latency, keepalive and bound.  *)
(*                                                                         *)
(* And it recovers in time, if the broker answers a CONNECT before the     *)
(* main thread retries: Remaining bounds the time the device still needs   *)
(* without another fault.  No step but a fault makes it longer, a second   *)
(* makes it shorter, and a fault, which starts the count again, leaves it  *)
(* within the time given.                                                  *)
(***************************************************************************)
EXTENDS RetryTimer, MqttDevice_proofs

(* A timed step is a step of the device, or leaves it alone. *)
LEMMA TimedStep == [TimedNext]_timedvars => [Next]_vars
<1> SUFFICES ASSUME [TimedNext]_timedvars PROVE [Next]_vars
  OBVIOUS
<1>1. CASE Fire
  BY <1>1 DEF Fire, Next, FsmStep
<1>2. CASE TimedConnect
  BY <1>2 DEF TimedConnect, Next, FsmStep
<1>3. CASE Within
  BY <1>3 DEF Within, Next, FsmStep
<1>4. CASE EndConnect
  BY <1>4 DEF EndConnect, Next, FsmStep
<1>5. CASE EndReconnect
  BY <1>5 DEF EndReconnect, Next, FsmStep
<1>6. CASE EndAtOnce
  BY <1>6 DEF EndAtOnce, Next, FsmStep
<1>7. CASE Answer
  BY <1>7 DEF Answer, Next, LoopStep
<1>8. CASE Deliver
  BY <1>8 DEF Deliver, Next, LoopStep
<1>9. CASE FallAsleep
  BY <1>9 DEF FallAsleep
<1>10. CASE WakeUp
  BY <1>10 DEF WakeUp, Next, LoopStep
<1>11. CASE \E t \in Topics : TimedSuback(t)
  BY <1>11 DEF TimedSuback, Next
<1>12. CASE Tick
  BY <1>12 DEF Tick
<1>13. CASE UNCHANGED timedvars
  BY <1>13 DEF timedvars
<1>14. QED
  BY <1>1, <1>2, <1>3, <1>4, <1>5, <1>6, <1>7, <1>8, <1>9, <1>10, <1>11,
     <1>12, <1>13 DEF TimedNext

(* The timed device implements the device whose timers fire at any time.   *)
THEOREM TimedImplements == TimedSpec => Spec
<1>1. TimedInit => Init
  BY DEF TimedInit
<1>2. QED
  BY <1>1, TimedStep, PTL DEF TimedSpec, Spec

(* So the timeouts of the code cannot break what holds without them: a     *)
(* device at rest has subscribed to everything, and none is dialled while  *)
(* it is RUNING.                                                           *)
THEOREM TimedSubscription ==
    TimedSpec => [](SubscribedUnlessMissed /\ NoRedialWhileRuning)
  BY TimedImplements, Subscription, NoRedial, PTL

-----------------------------------------------------------------------------
(* The clocks: the timer waits for the callback to end, and each wait of   *)
(* the loop thread is bounded.                                             *)
ClockInv ==
    /\ timer \in 0 .. 10 /\ age \in Nat /\ since \in 0 .. Recovery + 1
    /\ asleep \in BOOLEAN
    /\ pc # "idle" => timer = 0
    /\ state = "RUNING" => timer = 0
    /\ asleep => cb = "none" /\ conn # "up" /\ looping
    /\ age <= IF asleep THEN Delay
              ELSE IF conn = "up" \/ ~looping THEN 0
              ELSE IF conn = "pending" THEN Latency ELSE Keepalive
    /\ pc \in {"connect", "loop_start", "set_reconnecting"}
          => state # "RUNING"
    /\ cb = "connected" /\ conn = "off" => pc = "idle" /\ timer = 10

Recovered == state = "RUNING" /\ conn = "up" /\ cb = "none"

(* Seconds until the loop thread has a connection, if nobody dials.        *)
Wait ==
    IF conn = "up" THEN 0
    ELSE IF asleep THEN Delay - age + Latency
    ELSE IF conn = "pending" THEN Latency - age
    ELSE Keepalive - age + Delay + Latency

(* Seconds until the device has recovered at the latest, if no fault       *)
(* comes: in a branch that dials, while a loss is to be reported, before   *)
(* the loop thread exists, and by the state.                               *)
RemainingDialling ==
    IF \/ cb \in {"lost", "refused"}
       \/ conn = "off" /\ ~asleep
       \/ asleep /\ age = 0
    THEN 20 ELSE 10

RemainingByState ==
    IF pc = "suball" \/ state = "RUNING" THEN Wait
    ELSE IF state = "CONNECTED" \/ (cb = "connected" /\ timer > 0)
         THEN IF Wait < timer THEN timer ELSE Wait
    ELSE IF cb = "connected" THEN 10
    ELSE IF conn = "up" THEN timer + 10
    ELSE IF conn = "off" /\ ~asleep THEN timer + 20
    ELSE IF Wait < timer THEN timer
    ELSE IF asleep /\ age = 0 /\ timer = 0 THEN 20
    ELSE timer + 10

Remaining ==
    IF pc \in {"connect", "loop_start", "set_reconnecting"} THEN 25
    ELSE IF ~looping THEN timer + 25
    ELSE IF pc = "reconnect" THEN RemainingDialling
    ELSE IF cb \in {"lost", "refused"}
         THEN IF timer = 0 THEN 20 ELSE timer + 10
    ELSE RemainingByState

DeadlineInv == Recovered \/ since + Remaining <= Recovery

TimedInv == DeviceInv /\ ClockInv /\ DeadlineInv

-----------------------------------------------------------------------------
LEMMA InitTimedInv ==
    ASSUME TimingBounds, TimedInit
    PROVE  ClockInv /\ DeadlineInv
<1> USE TimerAssumption DEF TimerAssumption, TimingBounds, TimedInit, Init
<1>1. asleep \in BOOLEAN /\ ~asleep
  OBVIOUS
<1>2. ClockInv
  BY <1>1 DEF ClockInv, Delay
<1>3. Remaining = 26 /\ ~Recovered
  BY DEF Remaining, Recovered
<1>4. QED
  BY <1>2, <1>3 DEF DeadlineInv

(* The timer fires: the branch entered needs what the timer left. *)
LEMMA FireInv ==
    ASSUME TimedInv, Fire
    PROVE  ClockInv' /\ DeadlineInv'
<1> USE TimerAssumption
    DEF TimerAssumption, TimedInv, DeviceInv, PhaseInv, ClockInv, Delay,
        Fire, EnterConnect, EnterReconnect, EnterSuball, EnterTasks, Enter,
        clocks, libvars
<1>1. ClockInv'
  <2>1. asleep' \in BOOLEAN
    OBVIOUS
  <2>2. QED
    BY <2>1
<1>2. DeadlineInv'
  BY DEF DeadlineInv, Recovered, Wait, RemainingDialling, RemainingByState,
         Remaining
<1>3. QED
  BY <1>1, <1>2

(* The first dial. *)
LEMMA TimedConnectInv ==
    ASSUME TimedInv, TimedConnect
    PROVE  ClockInv' /\ DeadlineInv'
<1> USE TimerAssumption
    DEF TimerAssumption, TimedInv, DeviceInv, PhaseInv, ClockInv,
        TimedConnect, ConnectAsync, Dialled, SinceFault
<1>1. ClockInv'
  <2>1. asleep' \in BOOLEAN
    OBVIOUS
  <2>2. QED
    BY <2>1
<1>2. DeadlineInv'
  BY DEF DeadlineInv, Recovered, Remaining
<1>3. QED
  BY <1>1, <1>2

(* mosquitto_loop_start and each round of mqtt_suballtopic. *)
LEMMA WithinInv ==
    ASSUME TimedInv, Within
    PROVE  ClockInv' /\ DeadlineInv'
<1> USE TimerAssumption
    DEF TimerAssumption, TimedInv, ClockInv, Within, LoopStart, Subscribe,
        clocks
<1>1. ClockInv'
  <2>1. asleep' \in BOOLEAN
    OBVIOUS
  <2>2. QED
    BY <2>1
<1>2. DeadlineInv'
  BY DEF DeadlineInv, Recovered, Wait, RemainingByState, Remaining
<1>3. QED
  BY <1>1, <1>2

(* The first branch ends and overwrites the state. *)
LEMMA EndConnectInv ==
    ASSUME TimingBounds, TimedInv, EndConnect
    PROVE  ClockInv' /\ DeadlineInv'
<1> USE TimerAssumption
    DEF TimerAssumption, TimingBounds, TimedInv, DeviceInv, TypeOK,
        PhaseInv, ClockInv, EndConnect, SetReconnecting, Rearm, libvars
<1>1. ClockInv'
  <2>1. asleep' \in BOOLEAN
    OBVIOUS
  <2>2. QED
    BY <2>1
<1>2. DeadlineInv'
  BY DEF DeadlineInv, Recovered, Wait, RemainingByState, Remaining
<1>3. QED
  BY <1>1, <1>2

(* A retry drops the handshake it finds and waits 10 s for its own. *)
LEMMA EndReconnectInv ==
    ASSUME TimingBounds, TimedInv, EndReconnect
    PROVE  ClockInv' /\ DeadlineInv'
<1> USE TimerAssumption
    DEF TimerAssumption, TimingBounds, TimedInv, DeviceInv, TypeOK,
        PhaseInv, BranchInv, ClockInv, Delay, EndReconnect, ReconnectAsync,
        Redial, Rearm, Dialled, SinceFault
<1>1. ClockInv'
  <2>1. asleep' \in BOOLEAN
    OBVIOUS
  <2>2. QED
    BY <2>1
<1>2. DeadlineInv'
  BY DEF DeadlineInv, Recovered, Wait, RemainingDialling, RemainingByState,
         Remaining
<1>3. QED
  BY <1>1, <1>2

(* A branch that arms the timer at once. *)
LEMMA EndAtOnceInv ==
    ASSUME TimedInv, EndAtOnce
    PROVE  ClockInv' /\ DeadlineInv'
<1> USE DEF TimedInv, ClockInv, EndAtOnce, SetRuning, LeaveSuball, TasksRun,
        Rearm, libvars
<1>1. ClockInv'
  <2>1. asleep' \in BOOLEAN
    OBVIOUS
  <2>2. QED
    BY <2>1
<1>2. DeadlineInv'
  BY DEF DeadlineInv, Recovered, Wait, RemainingByState, Remaining
<1>3. QED
  BY <1>1, <1>2

(* The broker accepts or refuses, or the connection breaks. *)
LEMMA AnswerInv ==
    ASSUME TimingBounds, TimedInv, Answer
    PROVE  ClockInv' /\ DeadlineInv'
<1> USE TimerAssumption
    DEF TimerAssumption, TimingBounds, TimedInv, DeviceInv, TypeOK,
        ClockInv, Answer, Accept, Refuse, Lose, SinceFault, mainvars
<1>1. ClockInv'
  <2>1. asleep' \in BOOLEAN
    OBVIOUS
  <2>2. QED
    BY <2>1
<1>2. DeadlineInv'
  BY DEF DeadlineInv, Recovered, Wait, RemainingDialling, RemainingByState,
         Remaining
<1>3. QED
  BY <1>1, <1>2

(* A callback writes the state. *)
LEMMA DeliverInv ==
    ASSUME TimingBounds, TimedInv, Deliver
    PROVE  ClockInv' /\ DeadlineInv'
<1> USE TimerAssumption
    DEF TimerAssumption, TimingBounds, TimedInv, DeviceInv, TypeOK,
        PhaseInv, CallbackInv, ClockInv, Delay, Deliver, OnConnect,
        OnDisconnect, mainvars
<1>1. ClockInv'
  <2>1. asleep' \in BOOLEAN
    OBVIOUS
  <2>2. QED
    BY <2>1
<1>2. DeadlineInv'
  BY DEF DeadlineInv, Recovered, Wait, RemainingDialling, RemainingByState,
         Remaining
<1>3. QED
  BY <1>1, <1>2

(* The loop thread finds its socket closed. *)
LEMMA FallAsleepInv ==
    ASSUME TimedInv, FallAsleep
    PROVE  ClockInv' /\ DeadlineInv'
<1> USE TimerAssumption
    DEF TimerAssumption, TimedInv, ClockInv, Delay, FallAsleep, LoopFree,
        vars, mainvars, libvars
<1>1. ClockInv'
  <2>1. asleep' \in BOOLEAN
    OBVIOUS
  <2>2. QED
    BY <2>1
<1>2. DeadlineInv'
  BY DEF DeadlineInv, Recovered, Wait, RemainingDialling, RemainingByState,
         Remaining
<1>3. QED
  BY <1>1, <1>2

(* The library dials by itself. *)
LEMMA WakeUpInv ==
    ASSUME TimedInv, WakeUp
    PROVE  ClockInv' /\ DeadlineInv'
<1> USE TimerAssumption
    DEF TimerAssumption, TimedInv, ClockInv, WakeUp, AutoReconnect, mainvars
<1>1. ClockInv'
  <2>1. asleep' \in BOOLEAN
    OBVIOUS
  <2>2. QED
    BY <2>1
<1>2. DeadlineInv'
  BY DEF DeadlineInv, Recovered, Wait, RemainingDialling, RemainingByState,
         Remaining
<1>3. QED
  BY <1>1, <1>2

(* A second passes, and the time left shrinks. *)
LEMMA TickInv ==
    ASSUME TimedInv, Tick
    PROVE  ClockInv' /\ DeadlineInv'
<1> USE TimerAssumption
    DEF TimerAssumption, TimedInv, DeviceInv, TypeOK, PhaseInv, ClockInv,
        Delay, Tick, Urgent, LoopFree, vars, mainvars, libvars
<1>1. ClockInv'
  <2>1. asleep' \in BOOLEAN
    OBVIOUS
  <2>2. QED
    BY <2>1
<1>2. DeadlineInv'
  BY DEF DeadlineInv, Recovered, Wait, RemainingDialling, RemainingByState,
         Remaining
<1>3. QED
  BY <1>1, <1>2

(* The broker processes a SUBSCRIBE. *)
LEMMA SubackInv ==
    ASSUME TimedInv, NEW t \in Topics, TimedSuback(t)
    PROVE  ClockInv' /\ DeadlineInv'
  BY DEF TimedInv, TimedSuback, Suback, clocks, mainvars, ClockInv,
         DeadlineInv, Recovered, Wait, RemainingDialling, RemainingByState,
         Remaining

-----------------------------------------------------------------------------
(* The clocks and the deadline hold in every reachable state. *)
THEOREM TimedInvariant ==
    ASSUME TimingBounds
    PROVE  TimedSpec => []TimedInv
<1>1. TimedInit => ClockInv /\ DeadlineInv
  BY InitTimedInv
<1>2. TimedInv /\ [TimedNext]_timedvars => (ClockInv /\ DeadlineInv)'
  <2> SUFFICES ASSUME TimedInv, [TimedNext]_timedvars
               PROVE  (ClockInv /\ DeadlineInv)'
    OBVIOUS
  <2>1. CASE UNCHANGED timedvars
    BY <2>1 DEF TimedInv, timedvars, vars, clocks, mainvars, libvars,
       ClockInv, DeadlineInv, Recovered, Wait, RemainingDialling,
       RemainingByState, Remaining
  <2>2. CASE TimedNext
    BY <2>2, FireInv, TimedConnectInv, WithinInv, EndConnectInv,
       EndReconnectInv, EndAtOnceInv, AnswerInv, DeliverInv, FallAsleepInv,
       WakeUpInv, TickInv, SubackInv DEF TimedNext
  <2>3. QED
    BY <2>1, <2>2
<1>3. QED
  BY <1>1, <1>2, TimedImplements, DeviceInvariant, PTL
     DEF TimedSpec, TimedInv

(* Every wait of the timer, the loop thread and the broker is bounded. *)
THEOREM TimerTypeCorrect ==
    ASSUME TimingBounds
    PROVE  TimedSpec => []TimerTypeOK
<1>1. ClockInv => TimerTypeOK
  BY TimerAssumption DEF TimerAssumption, ClockInv, TimerTypeOK, Ages, Delay
<1>2. QED
  BY <1>1, TimedInvariant, PTL DEF TimedInv

(* When no fault has come for the time Recovery, the device is in RUNING   *)
(* on a live connection.                                                   *)
THEOREM Recovers ==
    ASSUME TimingBounds
    PROVE  TimedSpec => []RecoversInTime
<1>1. ClockInv /\ DeadlineInv => RecoversInTime
  BY TimerAssumption DEF TimerAssumption, ClockInv, DeadlineInv, Recovered,
     Wait, RemainingDialling, RemainingByState, Remaining, RecoversInTime,
     Delay
<1>2. QED
  BY <1>1, TimedInvariant, PTL DEF TimedInv
=============================================================================
