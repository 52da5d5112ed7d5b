----------------------------- MODULE MqttDevice -----------------------------
(***************************************************************************)
(* One north-side MQTT device of zhbox: generaldirectdevmqtt_fsm_cb (and   *)
(* its twin alidirectdevmqtt_fsm_cb), the callbacks of mqtt.c, and the     *)
(* libmosquitto client they drive.                                         *)
(*                                                                         *)
(* Two threads share the object without a lock.  The main thread runs the  *)
(* libevent loop: the device's timer fires, the FSM callback reads         *)
(* this->state once, runs the branch it read, and re-arms the timer.  The  *)
(* mosquitto loop thread, started by the first branch, delivers            *)
(* on_connect and on_disconnect, which write this->state.  Each step below *)
(* is one library call or one write of a shared field, so that the two     *)
(* threads interleave wherever the code lets them.                         *)
(*                                                                         *)
(* The length of the re-armed timeout (fsmtv) is abstracted: an armed      *)
(* timer may fire at any time.                                             *)
(***************************************************************************)
EXTENDS Naturals

CONSTANTS
    NTopics,        \* entries of the "subtopics" list of the configuration,
                    \* up to the first that is not a string
    CleanSession,   \* clean_session: the broker forgets the subscriptions
    MaxFaults       \* bound: failed calls, refusals and lost connections

ASSUME DeviceAssumption ==
    /\ NTopics \in Nat
    /\ CleanSession \in BOOLEAN
    /\ MaxFaults \in Nat

VARIABLES
    state,          \* this->state
    isconnected,    \* this->isconnected
    pc,             \* where the main thread is in the FSM callback
    topic,          \* loop index of mqtt_suballtopic
    looping,        \* the mosquitto loop thread runs
    conn,           \* the socket and the CONNECT handshake
    cb,             \* callback the loop thread is about to deliver
    subreq,         \* SUBSCRIBE packets sent or queued on this connection
    subs,           \* subscriptions of the session at the broker
    missed,         \* history: on_connect was delivered inside the CONNECTED
                    \* branch and not read by the FSM since
    faults          \* faults so far

mainvars == <<pc, topic>>
libvars  == <<looping, conn, cb, subreq, subs, faults>>
vars     == <<state, isconnected, mainvars, libvars, missed>>

Topics == 1 .. NTopics

States == {"INIT", "CONNECTING", "DISCONNECTED", "CONNECTED", "RECONNECTING",
           "RUNING"}

TypeOK ==
    /\ state \in States
    /\ isconnected \in BOOLEAN
    /\ pc \in {"idle", "connect", "loop_start", "set_reconnecting",
               "reconnect", "suball", "tasksrun"}
    /\ topic \in 1 .. NTopics + 1
    /\ looping \in BOOLEAN
    /\ conn \in {"off", "pending", "up"}
    /\ cb \in {"none", "connected", "refused", "lost"}
    /\ subreq \subseteq Topics
    /\ subs \subseteq Topics
    /\ missed \in BOOLEAN
    /\ faults \in 0 .. MaxFaults

(* The object as generaldirectdevmqtt_init leaves it: zeroed, state INIT,  *)
(* the first timer armed, no socket and no loop thread yet.                *)
Init ==
    /\ state = "INIT"
    /\ isconnected = FALSE
    /\ pc = "idle"
    /\ topic = 1
    /\ looping = FALSE
    /\ conn = "off"
    /\ cb = "none"
    /\ subreq = {}
    /\ subs = {}
    /\ missed = FALSE
    /\ faults = 0

-----------------------------------------------------------------------------
(* The main thread: the timer fires and switch(this->state) picks the      *)
(* branch.  The field is read here and nowhere else in the callback.       *)

Enter(states, branch) ==
    /\ pc = "idle"
    /\ state \in states
    /\ pc' = branch

EnterConnect ==
    /\ Enter({"INIT", "CONNECTING"}, "connect")
    /\ UNCHANGED <<state, isconnected, topic, libvars, missed>>

(* Mutant: the branch is chosen by isconnected instead of the state. *)
EnterReconnectByFlag ==
    /\ pc = "idle" /\ state # "INIT" /\ ~isconnected
    /\ pc' = "reconnect"
    /\ UNCHANGED <<state, isconnected, topic, libvars, missed>>

EnterReconnect ==
    /\ Enter({"DISCONNECTED", "RECONNECTING"}, "reconnect")
    /\ UNCHANGED <<state, isconnected, topic, libvars, missed>>

(* Mutant: the loop index is not reset. *)
EnterSuballNoReset ==
    /\ Enter({"CONNECTED"}, "suball")
    /\ missed' = FALSE
    /\ UNCHANGED <<state, isconnected, topic, libvars>>

EnterSuball ==
    /\ Enter({"CONNECTED"}, "suball")
    /\ topic' = 1
    /\ missed' = FALSE
    /\ UNCHANGED <<state, isconnected, libvars>>

EnterTasks ==
    /\ Enter({"RUNING"}, "tasksrun")
    /\ UNCHANGED <<state, isconnected, topic, libvars, missed>>

(* A (re)connection attempt by the library: the old socket, if any, is     *)
(* closed with what was queued on it and a new CONNECT is sent; the call   *)
(* may fail, and the code goes on either way.                              *)
Redial ==
    /\ subreq' = {}
    /\ \/ conn' = "pending" /\ UNCHANGED faults
       \/ faults < MaxFaults /\ faults' = faults + 1 /\ conn' = "off"

ConnectAsync ==
    /\ pc = "connect"
    /\ Redial
    /\ pc' = "loop_start"
    /\ UNCHANGED <<state, isconnected, topic, looping, cb, subs, missed>>

LoopStart ==
    /\ pc = "loop_start"
    /\ looping' = TRUE
    /\ pc' = "set_reconnecting"
    /\ UNCHANGED <<state, isconnected, topic, conn, cb, subreq, subs, faults,
                   missed>>

(* Mutant: a failed connect is tried again by the branch that made it. *)
SetReconnectingIfPending ==
    /\ pc = "set_reconnecting"
    /\ state' = IF conn = "off" THEN "CONNECTING" ELSE "RECONNECTING"
    /\ pc' = "idle"
    /\ UNCHANGED <<isconnected, topic, libvars, missed>>

SetReconnecting ==
    /\ pc = "set_reconnecting"
    /\ state' = "RECONNECTING"
    /\ pc' = "idle"
    /\ UNCHANGED <<isconnected, topic, libvars, missed>>

(* Mutant: RECONNECTING waits for the callback and does not dial. *)
ReconnectAsyncUnlessWaiting ==
    /\ pc = "reconnect"
    /\ IF state = "RECONNECTING" THEN UNCHANGED <<conn, subreq, faults>>
                                 ELSE Redial
    /\ pc' = "idle"
    /\ UNCHANGED <<state, isconnected, topic, looping, cb, subs, missed>>

ReconnectAsync ==
    /\ pc = "reconnect"
    /\ Redial
    /\ pc' = "idle"
    /\ UNCHANGED <<state, isconnected, topic, looping, cb, subs, missed>>

(* Mutant: "i <= length" in the loop. *)
SubscribePastEnd ==
    /\ pc = "suball"
    /\ topic <= NTopics + 1
    /\ subreq' = IF conn = "off" THEN subreq ELSE subreq \union {topic}
    /\ topic' = topic + 1
    /\ UNCHANGED <<state, isconnected, pc, looping, conn, cb, subs, faults,
                   missed>>

(* One round of the loop of mqtt_suballtopic.  Without a socket            *)
(* mosquitto_subscribe returns MOSQ_ERR_NO_CONN, and the caller ignores it.*)
Subscribe ==
    /\ pc = "suball"
    /\ topic \in Topics
    /\ subreq' = IF conn = "off" THEN subreq ELSE subreq \union {topic}
    /\ topic' = topic + 1
    /\ UNCHANGED <<state, isconnected, pc, looping, conn, cb, subs, faults,
                   missed>>

LeaveSuball(next) ==
    /\ pc = "suball"
    /\ topic > NTopics
    /\ state' = next
    /\ pc' = "idle"
    /\ UNCHANGED <<isconnected, topic, libvars, missed>>

SetRuning == LeaveSuball("RUNING")

(* mqtt_tasksrun reads and writes the task times and this->count, which    *)
(* nothing here depends on.                                                *)
TasksRun ==
    /\ pc = "tasksrun"
    /\ pc' = "idle"
    /\ UNCHANGED <<state, isconnected, topic, libvars, missed>>

-----------------------------------------------------------------------------
(* The loop thread.  It handles one event at a time: while a callback is   *)
(* due it does nothing else.                                               *)

LoopFree == looping /\ cb = "none"

(* The broker accepts the CONNECT. *)
Accept ==
    /\ LoopFree
    /\ conn = "pending"
    /\ conn' = "up"
    /\ cb' = "connected"
    /\ subs' = IF CleanSession THEN {} ELSE subs
    /\ UNCHANGED <<state, isconnected, mainvars, looping, subreq, faults,
                   missed>>

(* The broker refuses it (CONNACK with rc # 0) and the socket is closed.   *)
Refuse ==
    /\ LoopFree
    /\ conn = "pending"
    /\ faults < MaxFaults
    /\ faults' = faults + 1
    /\ conn' = "off"
    /\ cb' = "refused"
    /\ subreq' = {}
    /\ UNCHANGED <<state, isconnected, mainvars, looping, subs, missed>>

(* The connection, or the attempt to make it, breaks. *)
Lose ==
    /\ LoopFree
    /\ conn # "off"
    /\ faults < MaxFaults
    /\ faults' = faults + 1
    /\ conn' = "off"
    /\ cb' = "lost"
    /\ subreq' = {}
    /\ UNCHANGED <<state, isconnected, mainvars, looping, subs, missed>>

(* mosquitto_loop_forever dials again by itself: it has slept its          *)
(* reconnect delay since the socket went, and closes what the main thread  *)
(* may have dialled in that time.                                          *)
AutoReconnect ==
    /\ LoopFree
    /\ conn # "up"
    /\ conn' = "pending"
    /\ subreq' = {}
    /\ UNCHANGED <<state, isconnected, mainvars, looping, cb, subs, faults,
                   missed>>

(* The broker processes a SUBSCRIBE. *)
Suback(t) ==
    /\ conn = "up"
    /\ t \in subreq
    /\ subreq' = subreq \ {t}
    /\ subs' = subs \union {t}
    /\ UNCHANGED <<state, isconnected, mainvars, looping, conn, cb, faults,
                   missed>>

(* Mutant: on_connect only ends a RECONNECTING. *)
OnConnectIfReconnecting ==
    /\ cb \in {"connected", "refused"}
    /\ isconnected' = TRUE
    /\ state' = IF state = "RECONNECTING" THEN "CONNECTED" ELSE state
    /\ cb' = IF cb = "refused" THEN "lost" ELSE "none"
    /\ missed' = (missed \/ (pc = "suball" /\ cb = "connected"))
    /\ UNCHANGED <<mainvars, looping, conn, subreq, subs, faults>>

(* mqtt_cb_on_connect does not look at rc: a refused connection is         *)
(* reported like an accepted one, until the library closes the socket and  *)
(* reports the loss.                                                       *)
OnConnect ==
    /\ cb \in {"connected", "refused"}
    /\ isconnected' = TRUE
    /\ state' = "CONNECTED"
    /\ cb' = IF cb = "refused" THEN "lost" ELSE "none"
    /\ missed' = (missed \/ (pc = "suball" /\ cb = "connected"))
    /\ UNCHANGED <<mainvars, looping, conn, subreq, subs, faults>>

OnDisconnect ==
    /\ cb = "lost"
    /\ isconnected' = FALSE
    /\ state' = "DISCONNECTED"
    /\ cb' = "none"
    /\ UNCHANGED <<mainvars, looping, conn, subreq, subs, faults, missed>>

-----------------------------------------------------------------------------
FsmStep ==
    \/ EnterConnect \/ EnterReconnect \/ EnterSuball \/ EnterTasks
    \/ ConnectAsync \/ LoopStart \/ SetReconnecting
    \/ ReconnectAsync
    \/ Subscribe \/ SetRuning
    \/ TasksRun

LoopStep == Accept \/ AutoReconnect \/ OnConnect \/ OnDisconnect

Next ==
    \/ FsmStep
    \/ LoopStep
    \/ Refuse \/ Lose
    \/ \E t \in Topics : Suback(t)

Spec == Init /\ [][Next]_vars

(* The timer is re-armed at the end of every callback and a callback does  *)
(* not block; the loop thread polls its socket; the broker answers.        *)
Fairness ==
    /\ WF_vars(FsmStep)
    /\ WF_vars(LoopStep)
    /\ \A t \in Topics : WF_vars(Suback(t))

FairSpec == Spec /\ Fairness

-----------------------------------------------------------------------------
(* A device that runs its tasks on a live session, with no callback due,   *)
(* has handed every topic of the configuration to that session, unless an  *)
(* on_connect slipped into the CONNECTED branch (missed).  This is what    *)
(* the FSM relies on mqtt_suballtopic for: it subscribes only in the       *)
(* CONNECTED branch, ignores the result of mosquitto_subscribe and never   *)
(* looks again.                                                            *)
SubscribedUnlessMissed ==
    (state = "RUNING" /\ conn = "up" /\ cb = "none" /\ ~missed)
        => Topics \subseteq subs \union subreq

(* Callbacks of an older connection never overwrite those of a newer one:  *)
(* once the loop thread has reported everything, a live session is not     *)
(* recorded as disconnected, although the main thread closes sockets and   *)
(* dials by itself (ReconnectAsync) while callbacks are due.               *)
LiveNeverDisconnected ==
    (conn = "up" /\ cb = "none") => isconnected /\ state # "DISCONNECTED"

(* mosquitto_reconnect_async, which drops the socket it finds, is never    *)
(* called on a device whose state is RUNING: however the callbacks fall    *)
(* between the read of the state and the call, only the main thread        *)
(* itself can enter RUNING.                                                *)
NoRedialWhileRuning ==
    pc = "reconnect" => state \in {"DISCONNECTED", "RECONNECTING", "CONNECTED"}

(* mosquitto_loop_start is called once in the life of a device: no         *)
(* interleaving leads the FSM back into the INIT/CONNECTING branch after   *)
(* the loop thread exists.                                                 *)
LoopStartedOnce ==
    LET connecting == \/ pc \in {"connect", "loop_start"}
                      \/ pc = "idle" /\ state \in {"INIT", "CONNECTING"}
    IN  connecting => ~looping

(* Both writes that can be lost (RECONNECTING over CONNECTED after         *)
(* loop_start, RUNING over a callback's state after mqtt_suballtopic) heal *)
(* by themselves: when faults stop, the device ends up in RUNING on a live *)
(* connection for good.                                                    *)
EventuallyRuning == <>[](state = "RUNING" /\ conn = "up" /\ cb = "none")

-----------------------------------------------------------------------------
(* Claims of the repository that the code does not keep.                   *)

(* "subtopics = [ // subscribe to the following topics" of the example     *)
(* configurations: when faults stop, every listed topic ends up            *)
(* subscribed in the session the device keeps.                             *)
EventuallySubscribed == <>[](conn = "up" /\ Topics \subseteq subs)
=============================================================================
