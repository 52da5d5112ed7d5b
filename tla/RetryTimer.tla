----------------------------- MODULE RetryTimer -----------------------------
(***************************************************************************)
(* The timeouts of a direct device.  MqttDevice lets an armed timer fire   *)
(* at any time; here each branch of the FSM arms it (fsmtv) as the code    *)
(* does, against a broker that takes its time to answer a CONNECT and a    *)
(* library that sleeps before it dials again by itself.  The question is   *)
(* the race between the three: the main thread drops the handshake it      *)
(* finds every time it retries.                                            *)
(*                                                                         *)
(* Time passes in seconds (Tick), and not over a step that is due.  Every  *)
(* other step is a step of MqttDevice.                                     *)
(***************************************************************************)
EXTENDS MqttDevice

CONSTANTS
    Latency,        \* longest time the broker takes to answer a CONNECT
    Keepalive,      \* this->keepalive: the loop thread waits that long at most
                    \* before it finds that its socket was closed
    Recovery        \* what the device is given to be back in RUNING

ASSUME TimerAssumption ==
    Latency \in Nat /\ Keepalive \in Nat /\ Recovery \in Nat

Delay == 1          \* reconnect_delay of libmosquitto

VARIABLES
    timer,          \* seconds until the device's timer fires
    asleep,         \* the loop thread sleeps before it dials again
    age,            \* seconds since it fell asleep, or since the dial or the
                    \* failed dial that it is awake for
    since           \* seconds since the last fault, up to Recovery + 1

clocks    == <<timer, asleep, age, since>>
timedvars == <<vars, clocks>>

Ages == 0 .. Latency \union 0 .. Keepalive \union 0 .. Delay

TimerTypeOK ==
    /\ timer \in 0 .. 10
    /\ asleep \in BOOLEAN
    /\ age \in Ages
    /\ since \in 0 .. Recovery + 1

TimedInit ==
    /\ Init
    /\ timer = 1
    /\ asleep = FALSE
    /\ age = 0
    /\ since = 0

-----------------------------------------------------------------------------
SinceFault == since' = IF faults' = faults THEN since ELSE 0

(* The timer fires: one of the branches is entered. *)
Fire ==
    /\ timer = 0
    /\ EnterConnect \/ EnterReconnect \/ EnterSuball \/ EnterTasks
    /\ UNCHANGED clocks

(* A call that dials.  A loop thread that is awake sees the new socket at  *)
(* once, one that sleeps goes on sleeping.                                 *)
Dialled == age' = IF asleep THEN age ELSE 0

TimedConnect ==
    /\ ConnectAsync
    /\ Dialled
    /\ SinceFault
    /\ UNCHANGED <<timer, asleep>>

Within ==
    /\ LoopStart \/ Subscribe
    /\ UNCHANGED clocks

(* The end of a callback arms the timer again. *)
Rearm(seconds) == timer' = seconds

EndConnect ==
    /\ SetReconnecting
    /\ Rearm(5)
    /\ UNCHANGED <<asleep, age, since>>

(* Mutant: a retry each second. *)
EndReconnectImpatient ==
    /\ ReconnectAsync
    /\ Rearm(1)
    /\ Dialled
    /\ SinceFault
    /\ UNCHANGED asleep

EndReconnect ==
    /\ ReconnectAsync
    /\ Rearm(10)
    /\ Dialled
    /\ SinceFault
    /\ UNCHANGED asleep

(* 1 us and 10 us. *)
EndAtOnce ==
    /\ SetRuning \/ TasksRun
    /\ Rearm(0)
    /\ UNCHANGED <<asleep, age, since>>

-----------------------------------------------------------------------------
(* The loop thread and the broker. *)

Answer ==
    /\ ~asleep
    /\ Accept \/ Refuse \/ Lose
    /\ age' = 0
    /\ SinceFault
    /\ UNCHANGED <<timer, asleep>>

Deliver ==
    /\ \/ OnConnect /\ UNCHANGED <<asleep, age>>
       \/ OnDisconnect /\ asleep' = TRUE /\ age' = 0
    /\ UNCHANGED <<timer, since>>

(* mosquitto_loop finds the socket closed (MOSQ_ERR_NO_CONN). *)
FallAsleep ==
    /\ LoopFree
    /\ ~asleep
    /\ conn = "off"
    /\ asleep' = TRUE
    /\ age' = 0
    /\ UNCHANGED <<vars, timer, since>>

WakeUp ==
    /\ asleep
    /\ age = Delay
    /\ AutoReconnect
    /\ asleep' = FALSE
    /\ age' = 0
    /\ UNCHANGED <<timer, since>>

TimedSuback(t) ==
    /\ Suback(t)
    /\ UNCHANGED clocks

-----------------------------------------------------------------------------
(* What does not wait for another second. *)
Urgent ==
    \/ pc # "idle"
    \/ timer = 0 /\ state # "RUNING"
    \/ cb # "none"
    \/ asleep /\ age >= Delay
    \/ LoopFree /\ ~asleep /\ conn = "pending" /\ age >= Latency
    \/ LoopFree /\ ~asleep /\ conn = "off" /\ age >= Keepalive

(* Mutant: the wait for an answer is not bounded. *)
TickRegardless ==
    /\ pc = "idle" /\ cb = "none"
    /\ timer' = IF timer = 0 THEN 0 ELSE timer - 1
    /\ age' = IF conn = "up" \/ ~looping THEN 0 ELSE age + 1
    /\ since' = IF since > Recovery THEN since ELSE since + 1
    /\ UNCHANGED <<vars, asleep>>

Tick ==
    /\ ~Urgent
    /\ timer' = IF timer = 0 THEN 0 ELSE timer - 1
    /\ age' = IF conn = "up" \/ ~looping THEN 0 ELSE age + 1
    /\ since' = IF since > Recovery THEN since ELSE since + 1
    /\ UNCHANGED <<vars, asleep>>

TimedNext ==
    \/ Fire \/ TimedConnect \/ Within \/ EndConnect \/ EndReconnect
    \/ EndAtOnce
    \/ Answer \/ Deliver \/ FallAsleep \/ WakeUp
    \/ \E t \in Topics : TimedSuback(t)
    \/ Tick

TimedSpec == TimedInit /\ [][TimedNext]_timedvars

-----------------------------------------------------------------------------
(* When no fault has come for the time Recovery, the device is in RUNING   *)
(* on a live connection: neither the retries of the main thread nor those  *)
(* of the library keep cutting each other's handshakes short, and no       *)
(* overwritten state leaves the device waiting.  That takes Keepalive plus *)
(* 10 s when the loop thread is slow to notice that its socket is gone.    *)
RecoversInTime ==
    since > Recovery => state = "RUNING" /\ conn = "up" /\ cb = "none"

(* What that needs: the broker answers within the 10 s of a retry, and     *)
(* Recovery covers the loop thread's longest wait.                         *)
TimingBounds ==
    /\ Latency < 10
    /\ Recovery >= 30
    /\ Recovery >= Keepalive + 10
=============================================================================
