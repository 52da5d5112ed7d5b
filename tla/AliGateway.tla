----------------------------- MODULE AliGateway -----------------------------
(***************************************************************************)
(* The Aliyun gateway of N_ali.c: an MQTT device whose FSM asks the cloud  *)
(* for its topology before it runs its tasks, and the subdevices behind    *)
(* it, each with an FSM of its own that logs the subdevice in through the  *)
(* connection of the gateway.                                              *)
(*                                                                         *)
(* All the FSMs share the main thread: pc is the place in the one callback *)
(* that runs.  The loop thread of the gateway writes the state of every    *)
(* subdevice when the answer to the topology request arrives.              *)
(*                                                                         *)
(* strexpan and HMAC do not fail, and the "ret < 0" after m_sub and m_pub  *)
(* is never true: the errors of libmosquitto they pass on are positive.    *)
(***************************************************************************)
EXTENDS MqttDevice

CONSTANT NSubs      \* southlstot, the number of subdevices

ASSUME GatewayAssumption == NSubs \in Nat \ {0}

VARIABLES
    sub,            \* state of each subdevice
    cur,            \* subdevice whose callback runs, 0 if none
    rcv,            \* index of the loop in alink_rcvhandle, 0 outside it
    topo,           \* a topo/get request is on its way to the broker
    reply,          \* a topo/get_reply is on its way to the gateway
    loginq,         \* subdevices whose login request is on its way
    cloud,          \* subdevices logged in on this connection
    overwritten     \* history: on_connect was delivered inside the TOPOGET
                    \* branch and the FSM has not subscribed since

netvars == <<topo, reply, loginq, cloud>>
subvars == <<sub, cur, rcv, overwritten>>
gwvars  == <<vars, netvars, subvars>>

Subs == 1 .. NSubs

(* The subscriptions the FSMs make besides the topics of the list. *)
ReplyTopic == NTopics + 1
LoginTopic == NTopics + 2
AllTopics  == Topics \union {ReplyTopic, LoginTopic}

GatewayTypeOK ==
    /\ state \in States \union {"TOPOGET"}
    /\ pc \in {"idle", "connect", "loop_start", "set_reconnecting",
               "reconnect", "suball", "tasksrun",
               "topo_sub", "topo_pub", "topo_done",
               "login_sub", "login_pub", "login_done"}
    /\ subreq \union subs \subseteq AllTopics
    /\ sub \in [Subs -> {"INIT", "LOGOUTED", "LOGINED"}]
    /\ cur \in 0 .. NSubs
    /\ rcv \in 0 .. NSubs
    /\ topo \in BOOLEAN
    /\ reply \in BOOLEAN
    /\ loginq \subseteq Subs
    /\ cloud \subseteq Subs
    /\ overwritten \in BOOLEAN

GatewayInit ==
    /\ Init
    /\ sub = [s \in Subs |-> "INIT"]
    /\ cur = 0
    /\ rcv = 0
    /\ topo = FALSE
    /\ reply = FALSE
    /\ loginq = {}
    /\ cloud = {}
    /\ overwritten = FALSE

-----------------------------------------------------------------------------
(* A connection takes the logins with it, and what the broker still had to *)
(* deliver if the session is a clean one.  Requests published with QoS 2   *)
(* stay with the library, which sends them on the next connection.         *)
FollowConnection ==
    /\ reply' = (reply /\ (conn' = "up" \/ ~CleanSession))
    /\ cloud' = IF conn' = "up" THEN cloud ELSE {}
    /\ UNCHANGED <<topo, loginq>>

(* The branches the gateway shares with a direct device. *)
DirectStep ==
    /\ \/ EnterConnect \/ EnterReconnect \/ EnterTasks
       \/ ConnectAsync \/ LoopStart \/ SetReconnecting
       \/ ReconnectAsync
       \/ Subscribe
       \/ TasksRun
    /\ FollowConnection
    /\ UNCHANGED subvars

GatewayEnterSuball ==
    /\ EnterSuball
    /\ overwritten' = FALSE
    /\ UNCHANGED <<sub, cur, rcv, netvars>>

(* Mutant: the topology is not asked for again after a reconnection. *)
SetTopogetOnce ==
    /\ LeaveSuball(IF \A s \in Subs : sub[s] = "INIT" THEN "TOPOGET"
                                                     ELSE "RUNING")
    /\ UNCHANGED <<subvars, netvars>>

SetTopoget ==
    /\ LeaveSuball("TOPOGET")
    /\ UNCHANGED <<subvars, netvars>>

EnterTopoget ==
    /\ Enter({"TOPOGET"}, "topo_sub")
    /\ UNCHANGED <<state, isconnected, topic, libvars, missed>>
    /\ UNCHANGED <<subvars, netvars>>

(* m_sub of a reply topic; without a socket the subscription is lost. *)
SubscribeTo(t) ==
    /\ subreq' = IF conn = "off" THEN subreq ELSE subreq \union {t}
    /\ UNCHANGED <<state, isconnected, topic, looping, conn, cb, subs, faults,
                   missed>>

(* Mutant: the answer is subscribed to on the first connection only. *)
TopoSubOnce ==
    /\ pc = "topo_sub"
    /\ SubscribeTo(IF \A s \in Subs : sub[s] = "INIT" THEN ReplyTopic
                                                     ELSE LoginTopic)
    /\ pc' = "topo_pub"
    /\ UNCHANGED <<subvars, netvars>>

TopoSub ==
    /\ pc = "topo_sub"
    /\ SubscribeTo(ReplyTopic)
    /\ pc' = "topo_pub"
    /\ UNCHANGED <<subvars, netvars>>

TopoPub ==
    /\ pc = "topo_pub"
    /\ topo' = TRUE
    /\ pc' = "topo_done"
    /\ UNCHANGED <<state, isconnected, topic, libvars, missed>>
    /\ UNCHANGED <<subvars, reply, loginq, cloud>>

TopoDone ==
    /\ pc = "topo_done"
    /\ state' = "RUNING"
    /\ pc' = "idle"
    /\ UNCHANGED <<isconnected, topic, libvars, missed>>
    /\ UNCHANGED <<subvars, netvars>>

-----------------------------------------------------------------------------
(* The FSM of a subdevice.  The INIT and LOGINED branches only re-arm the  *)
(* timer, and no step of the code writes RUNING.                           *)

EnterLogin(s) ==
    /\ pc = "idle"
    /\ sub[s] = "LOGOUTED"
    /\ pc' = "login_sub"
    /\ cur' = s
    /\ UNCHANGED <<state, isconnected, topic, libvars, missed>>
    /\ UNCHANGED <<sub, rcv, overwritten, netvars>>

LoginSub ==
    /\ pc = "login_sub"
    /\ SubscribeTo(LoginTopic)
    /\ pc' = "login_pub"
    /\ UNCHANGED <<subvars, netvars>>

LoginPub ==
    /\ pc = "login_pub"
    /\ loginq' = loginq \union {cur}
    /\ pc' = "login_done"
    /\ UNCHANGED <<state, isconnected, topic, libvars, missed>>
    /\ UNCHANGED <<subvars, topo, reply, cloud>>

(* The state is written whatever it has become since it was read, and      *)
(* without waiting for the login_reply.                                    *)
LoginDone ==
    /\ pc = "login_done"
    /\ sub' = [sub EXCEPT ![cur] = "LOGINED"]
    /\ cur' = 0
    /\ pc' = "idle"
    /\ UNCHANGED <<state, isconnected, topic, libvars, missed>>
    /\ UNCHANGED <<rcv, overwritten, netvars>>

-----------------------------------------------------------------------------
(* The loop thread outside alink_rcvhandle, and the network under it.      *)

GatewayLoopStep ==
    /\ rcv = 0
    /\ \/ Accept \/ AutoReconnect \/ OnDisconnect
       \/ OnConnect
    /\ overwritten' = (overwritten \/
          (cb = "connected" /\ cb' = "none"
             /\ pc \in {"topo_sub", "topo_pub", "topo_done"}))
    /\ FollowConnection
    /\ UNCHANGED <<sub, cur, rcv>>

GatewayFault ==
    /\ rcv = 0
    /\ Refuse \/ Lose
    /\ FollowConnection
    /\ UNCHANGED subvars

(* on_message with a topo/get_reply; on any other topic the handler only   *)
(* writes to the log.                                                      *)
EnterRcv ==
    /\ LoopFree
    /\ rcv = 0
    /\ conn = "up"
    /\ reply
    /\ reply' = FALSE
    /\ rcv' = 1
    /\ UNCHANGED <<vars, sub, cur, overwritten, topo, loginq, cloud>>

(* Mutant: "i <= southlstot" in the loop. *)
RcvPastEnd ==
    /\ rcv \in 1 .. NSubs + 1
    /\ sub' = [s \in Subs |-> IF s = rcv THEN "LOGOUTED" ELSE sub[s]]
    /\ rcv' = IF rcv > NSubs THEN 0 ELSE rcv + 1
    /\ UNCHANGED <<vars, cur, overwritten, netvars>>

(* Mutant: only a subdevice that never logged in is told to do so. *)
RcvLogoutIfInit ==
    /\ rcv \in Subs
    /\ sub' = [sub EXCEPT ![rcv] = IF @ = "INIT" THEN "LOGOUTED" ELSE @]
    /\ rcv' = IF rcv = NSubs THEN 0 ELSE rcv + 1
    /\ UNCHANGED <<vars, cur, overwritten, netvars>>

(* One round of the loop over the subdevices. *)
RcvLogout ==
    /\ rcv \in Subs
    /\ sub' = [sub EXCEPT ![rcv] = "LOGOUTED"]
    /\ rcv' = IF rcv = NSubs THEN 0 ELSE rcv + 1
    /\ UNCHANGED <<vars, cur, overwritten, netvars>>

GatewaySuback(t) ==
    /\ Suback(t)
    /\ UNCHANGED <<subvars, netvars>>

(* The cloud answers the topology request, to whoever subscribes to the    *)
(* answer by then; a SUBSCRIBE sent before the request is handled first.   *)
CloudTopo ==
    /\ conn = "up"
    /\ topo
    /\ ReplyTopic \notin subreq
    /\ topo' = FALSE
    /\ reply' = (reply \/ ReplyTopic \in subs)
    /\ UNCHANGED <<vars, subvars, loginq, cloud>>

CloudLogin(s) ==
    /\ conn = "up"
    /\ s \in loginq
    /\ loginq' = loginq \ {s}
    /\ cloud' = cloud \union {s}
    /\ UNCHANGED <<vars, subvars, topo, reply>>

-----------------------------------------------------------------------------
MainStep ==
    \/ DirectStep
    \/ GatewayEnterSuball \/ SetTopoget
    \/ EnterTopoget \/ TopoSub \/ TopoPub \/ TopoDone
    \/ LoginSub \/ LoginPub \/ LoginDone

LoopThreadStep == GatewayLoopStep \/ EnterRcv \/ RcvLogout

GatewayNext ==
    \/ MainStep
    \/ \E s \in Subs : EnterLogin(s)
    \/ LoopThreadStep
    \/ GatewayFault
    \/ \E t \in AllTopics : GatewaySuback(t)
    \/ CloudTopo
    \/ \E s \in Subs : CloudLogin(s)

GatewaySpec == GatewayInit /\ [][GatewayNext]_gwvars

(* libevent runs the callbacks of the timers in the order in which they    *)
(* become due: that of a subdevice is not put off for ever by that of the  *)
(* gateway, which re-arms itself after 10 us.                              *)
GatewayFairness ==
    /\ WF_gwvars(MainStep)
    /\ \A s \in Subs : SF_gwvars(EnterLogin(s))
    /\ WF_gwvars(LoopThreadStep)
    /\ \A t \in AllTopics : WF_gwvars(GatewaySuback(t))
    /\ WF_gwvars(CloudTopo)
    /\ \A s \in Subs : WF_gwvars(CloudLogin(s))

FairGatewaySpec == GatewaySpec /\ GatewayFairness

-----------------------------------------------------------------------------
Missed == missed \/ overwritten

(* A gateway at rest in RUNING on a live session has handed the topics of  *)
(* its list and the topic of the topology answer to that session, unless   *)
(* an on_connect was overwritten.                                          *)
GatewaySubscribed ==
    (state = "RUNING" /\ pc = "idle" /\ conn = "up" /\ cb = "none" /\ ~Missed)
        => Topics \union {ReplyTopic} \subseteq subs \union subreq

(* When nothing of the topology exchange is outstanding any more, every    *)
(* subdevice has been told to log in, and one that says LOGINED has a      *)
(* login on its way or accepted on this very connection, although LOGINED  *)
(* survives the loss of the connection and is written without looking.     *)
LoginedIsCurrent ==
    (/\ state = "RUNING" /\ pc = "idle" /\ conn = "up" /\ cb = "none"
     /\ ~Missed /\ ~topo /\ ~reply /\ rcv = 0)
        => \A s \in Subs : \/ sub[s] = "LOGOUTED"
                           \/ sub[s] = "LOGINED" /\ s \in loginq \union cloud

(* Once on_connect is no longer overwritten, all the subdevices end up     *)
(* logged in for good.                                                     *)
EventuallyLogined == <>[](~Missed) => <>[](cloud = Subs)
=============================================================================
