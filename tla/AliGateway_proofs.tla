-------------------------- MODULE AliGateway_proofs --------------------------
(***************************************************************************)
(* Proofs about AliGateway for every number of topics and subdevices,      *)
(* every bound on the faults, and either kind of session.                  *)
(***************************************************************************)
EXTENDS AliGateway, TLAPS

FullTypeOK ==
    /\ GatewayTypeOK
    /\ isconnected \in BOOLEAN
    /\ topic \in 1 .. NTopics + 1
    /\ looping \in BOOLEAN
    /\ conn \in {"off", "pending", "up"}
    /\ cb \in {"none", "connected", "refused", "lost"}
    /\ subreq \subseteq AllTopics
    /\ subs \subseteq AllTopics
    /\ missed \in BOOLEAN
    /\ faults \in 0 .. MaxFaults

InTopoget == pc \in {"topo_sub", "topo_pub", "topo_done"}
InLogin   == pc \in {"login_sub", "login_pub", "login_done"}

(* A live connection, reported, whose report the FSM has not lost. *)
Session == conn = "up" /\ cb = "none" /\ ~Missed

(* Before mosquitto_loop_start nothing comes from the network; after it    *)
(* the state of the gateway is never again that of its first branch.       *)
PhaseInv ==
    /\ state # "CONNECTING"
    /\ ~looping => /\ state = "INIT" /\ cb = "none" /\ conn # "up"
                   /\ pc # "set_reconnecting"
    /\ looping /\ pc # "set_reconnecting" => state # "INIT"

(* What the callbacks can have made of the state that a branch read. *)
BranchInv ==
    /\ pc = "suball" => state \in {"CONNECTED", "DISCONNECTED"}
    /\ InTopoget => state \in {"TOPOGET", "CONNECTED", "DISCONNECTED"}
    /\ InLogin => cur \in Subs

CallbackInv ==
    /\ cb \in {"lost", "refused"} => conn # "up"
    /\ conn = "up" /\ cb = "none" => state # "DISCONNECTED"

(* How much of the subscriptions the session has been handed by now. *)
SubscribeInv ==
    Session =>
        /\ pc = "suball" => 1 .. topic - 1 \subseteq subs \union subreq
        /\ state \in {"TOPOGET", "RUNING"} \/ InTopoget
              => Topics \subseteq subs \union subreq
        /\ state = "RUNING" \/ pc \in {"topo_pub", "topo_done"}
              => ReplyTopic \in subs \union subreq

(* A subdevice that waits to log in, or has done so on this connection. *)
Settled(s) ==
    \/ sub[s] = "LOGOUTED"
    \/ sub[s] = "LOGINED" /\ s \in loginq \union cloud

(* How far the topology exchange of the session has come: the request is   *)
(* out, or the answer, or the loop of alink_rcvhandle has settled the      *)
(* subdevices before its index.                                            *)
ExchangeInv ==
    Session =>
        /\ state = "RUNING" \/ pc = "topo_done"
              => \/ topo \/ reply
                 \/ \A s \in Subs : Settled(s) \/ (rcv # 0 /\ rcv <= s)
        /\ state = "RUNING" /\ pc = "login_done" => cur \in loginq \union cloud

GatewayInv ==
    /\ FullTypeOK
    /\ PhaseInv
    /\ BranchInv
    /\ CallbackInv
    /\ SubscribeInv
    /\ ExchangeInv

-----------------------------------------------------------------------------
LEMMA InitGatewayInv == GatewayInit => GatewayInv
<1> SUFFICES ASSUME GatewayInit PROVE GatewayInv
  OBVIOUS
<1>1. FullTypeOK
  <2>1. topic \in 1 .. NTopics + 1 /\ faults \in 0 .. MaxFaults
    BY DeviceAssumption DEF DeviceAssumption, GatewayInit, Init
  <2>2. cur \in 0 .. NSubs /\ rcv \in 0 .. NSubs
    BY GatewayAssumption DEF GatewayAssumption, GatewayInit
  <2>3. QED
    BY <2>1, <2>2 DEF GatewayInit, Init, FullTypeOK, GatewayTypeOK, States
<1>2. QED
  BY <1>1 DEF GatewayInit, Init, GatewayInv, PhaseInv, BranchInv,
              CallbackInv, SubscribeInv, ExchangeInv, Session, InTopoget, InLogin

(* The steps of the main thread that the gateway shares with a direct      *)
(* device.                                                                 *)
LEMMA DirectStepGatewayInv ==
    ASSUME GatewayInv, DirectStep
    PROVE  GatewayInv'
<1> USE DeviceAssumption, GatewayAssumption
    DEF DeviceAssumption, GatewayAssumption, GatewayInv, FullTypeOK,
        GatewayTypeOK, PhaseInv, BranchInv, CallbackInv, SubscribeInv,
        ExchangeInv, Settled, Session, Missed, InTopoget, InLogin, States,
        Topics, AllTopics, ReplyTopic, LoginTopic, Subs, mainvars, libvars,
        subvars, FollowConnection
<1>0. FollowConnection /\ UNCHANGED subvars
  BY DEF DirectStep
<1>1. CASE EnterConnect
  BY <1>0, <1>1 DEF EnterConnect, Enter
<1>2. CASE EnterReconnect
  BY <1>0, <1>2 DEF EnterReconnect, Enter
<1>3. CASE EnterTasks
  BY <1>0, <1>3 DEF EnterTasks, Enter
<1>4. CASE ConnectAsync
  BY <1>0, <1>4 DEF ConnectAsync, Redial
<1>5. CASE LoopStart
  BY <1>0, <1>5 DEF LoopStart
<1>6. CASE SetReconnecting
  BY <1>0, <1>6 DEF SetReconnecting
<1>7. CASE ReconnectAsync
  BY <1>0, <1>7 DEF ReconnectAsync, Redial
<1>8. CASE Subscribe
  BY <1>0, <1>8 DEF Subscribe
<1>9. CASE TasksRun
  BY <1>0, <1>9 DEF TasksRun
<1>10. QED
  BY <1>1, <1>2, <1>3, <1>4, <1>5, <1>6, <1>7, <1>8, <1>9 DEF DirectStep

(* The branches the gateway has of its own, and those of a subdevice.      *)
LEMMA OwnStepGatewayInv ==
    ASSUME GatewayInv,
           \/ GatewayEnterSuball \/ SetTopoget
           \/ EnterTopoget \/ TopoSub \/ TopoPub \/ TopoDone
           \/ LoginSub \/ LoginPub \/ LoginDone
           \/ \E s \in Subs : EnterLogin(s)
    PROVE  GatewayInv'
<1> USE DeviceAssumption, GatewayAssumption
    DEF DeviceAssumption, GatewayAssumption, GatewayInv, FullTypeOK,
        GatewayTypeOK, PhaseInv, BranchInv, CallbackInv, SubscribeInv,
        ExchangeInv, Settled, Session, Missed, InTopoget, InLogin, States,
        Topics, AllTopics, ReplyTopic, LoginTopic, Subs, mainvars, libvars,
        subvars, netvars
<1>1. CASE GatewayEnterSuball
  <2>1. topic' = 1 /\ 1 \in 1 .. NTopics + 1 /\ 1 .. topic' - 1 = {}
    BY <1>1 DEF GatewayEnterSuball, EnterSuball
  <2>2. QED
    BY <1>1, <2>1 DEF GatewayEnterSuball, EnterSuball, Enter
<1>2. CASE SetTopoget
  BY <1>2 DEF SetTopoget, LeaveSuball
<1>3. CASE EnterTopoget
  BY <1>3 DEF EnterTopoget, Enter
<1>4. CASE TopoSub
  BY <1>4 DEF TopoSub, SubscribeTo
<1>5. CASE TopoPub
  BY <1>5 DEF TopoPub
<1>6. CASE TopoDone
  BY <1>6 DEF TopoDone
<1>7. CASE LoginSub
  BY <1>7 DEF LoginSub, SubscribeTo
<1>8. CASE LoginPub
  BY <1>8 DEF LoginPub
<1>9. CASE LoginDone
  BY <1>9 DEF LoginDone
<1>10. ASSUME NEW s \in Subs, EnterLogin(s)
       PROVE  GatewayInv'
  BY <1>10 DEF EnterLogin
<1>11. QED
  BY <1>1, <1>2, <1>3, <1>4, <1>5, <1>6, <1>7, <1>8, <1>9, <1>10

(* The loop thread, the network and the cloud.                             *)
LEMMA NetStepGatewayInv ==
    ASSUME GatewayInv,
           \/ LoopThreadStep
           \/ GatewayFault
           \/ \E t \in AllTopics : GatewaySuback(t)
           \/ CloudTopo
           \/ \E s \in Subs : CloudLogin(s)
    PROVE  GatewayInv'
<1> USE DeviceAssumption, GatewayAssumption
    DEF DeviceAssumption, GatewayAssumption, GatewayInv, FullTypeOK,
        GatewayTypeOK, PhaseInv, BranchInv, CallbackInv, SubscribeInv,
        ExchangeInv, Settled, Session, Missed, InTopoget, InLogin, States,
        Topics, AllTopics, ReplyTopic, LoginTopic, Subs, mainvars,
        LoopFree
<1>1. CASE GatewayLoopStep /\ Accept
  <2>1. reply' \in BOOLEAN /\ overwritten' \in BOOLEAN
    BY <1>1 DEF GatewayLoopStep, FollowConnection
  <2>2. subs' \subseteq AllTopics
    BY <1>1 DEF Accept
  <2>3. cloud' \subseteq Subs
    BY <1>1 DEF GatewayLoopStep, FollowConnection
  <2>4. FullTypeOK'
    BY <1>1, <2>1, <2>2, <2>3 DEF GatewayLoopStep, Accept, FollowConnection
  <2>5. ~Session'
    BY <1>1 DEF Accept
  <2>6. QED
    BY <1>1, <2>4, <2>5 DEF GatewayLoopStep, Accept
<1>2. CASE GatewayLoopStep /\ AutoReconnect
  BY <1>2 DEF GatewayLoopStep, AutoReconnect, FollowConnection
<1>3. CASE GatewayLoopStep /\ OnDisconnect
  BY <1>3 DEF GatewayLoopStep, OnDisconnect, FollowConnection
<1>4. CASE GatewayLoopStep /\ OnConnect
  BY <1>4 DEF GatewayLoopStep, OnConnect, FollowConnection
<1>5. CASE GatewayFault /\ Refuse
  BY <1>5 DEF GatewayFault, Refuse, FollowConnection, subvars
<1>6. CASE GatewayFault /\ Lose
  BY <1>6 DEF GatewayFault, Lose, FollowConnection, subvars
<1>7. CASE EnterRcv
  <2>1. rcv' \in 0 .. NSubs /\ \A s \in Subs : rcv' # 0 /\ rcv' <= s
    BY <1>7 DEF EnterRcv
  <2>2. reply' \in BOOLEAN
    BY <1>7 DEF EnterRcv
  <2>3. UNCHANGED <<vars, sub, cur, overwritten, topo, loginq, cloud>>
    BY <1>7 DEF EnterRcv
  <2>4. ExchangeInv'
    BY <2>1, <2>3 DEF vars, libvars
  <2>5. QED
    BY <2>1, <2>2, <2>3, <2>4 DEF vars, libvars
<1>8. CASE RcvLogout
  BY <1>8 DEF RcvLogout, vars, libvars, netvars
<1>9. ASSUME NEW t \in AllTopics, GatewaySuback(t)
      PROVE  GatewayInv'
  BY <1>9 DEF GatewaySuback, Suback, subvars, netvars
<1>10. CASE CloudTopo
  <2>1. reply' \in BOOLEAN /\ topo' \in BOOLEAN
    BY <1>10 DEF CloudTopo
  <2>2. ReplyTopic \in subs => reply'
    BY <1>10 DEF CloudTopo
  <2>3. ReplyTopic \notin subreq
    BY <1>10 DEF CloudTopo
  <2>4. UNCHANGED <<vars, subvars, loginq, cloud>>
    BY <1>10 DEF CloudTopo
  <2>5. QED
    BY <2>1, <2>2, <2>3, <2>4 DEF vars, libvars, subvars
<1>11. ASSUME NEW s \in Subs, CloudLogin(s)
       PROVE  GatewayInv'
  BY <1>11 DEF CloudLogin, vars, libvars, subvars
<1>12. QED
  BY <1>1, <1>2, <1>3, <1>4, <1>5, <1>6, <1>7, <1>8, <1>9, <1>10, <1>11
  DEF LoopThreadStep, GatewayLoopStep, GatewayFault

LEMMA StutterGatewayInv ==
    ASSUME GatewayInv, UNCHANGED gwvars
    PROVE  GatewayInv'
  BY DEF GatewayInv, FullTypeOK, GatewayTypeOK, PhaseInv, BranchInv,
         CallbackInv, SubscribeInv, ExchangeInv, Settled, Session, Missed,
         InTopoget, InLogin, gwvars, vars, mainvars, libvars, netvars, subvars

(* GatewayInv holds in every reachable state of a gateway. *)
THEOREM GatewayInvariant == GatewaySpec => []GatewayInv
<1>1. GatewayInv /\ [GatewayNext]_gwvars => GatewayInv'
  BY DirectStepGatewayInv, OwnStepGatewayInv, NetStepGatewayInv,
     StutterGatewayInv DEF GatewayNext, MainStep
<1>2. QED
  BY InitGatewayInv, <1>1, PTL DEF GatewaySpec

-----------------------------------------------------------------------------
(* The fields the gateway adds, and the queues of the network, keep their  *)
(* types: the loop of alink_rcvhandle stays inside southarray.             *)
THEOREM GatewayTypeCorrect == GatewaySpec => []GatewayTypeOK
  BY GatewayInvariant, PTL DEF GatewayInv, FullTypeOK

(* In RUNING on a live session the gateway has handed the topics of its    *)
(* list and that of the topology answer to the session, unless an          *)
(* on_connect was overwritten.                                             *)
THEOREM GatewaySubscription == GatewaySpec => []GatewaySubscribed
<1>1. GatewayInv => GatewaySubscribed
  BY DEF GatewayInv, SubscribeInv, Session, GatewaySubscribed
<1>2. QED
  BY <1>1, GatewayInvariant, PTL

(* When nothing of the topology exchange is outstanding, LOGINED means a   *)
(* login sent or accepted on the connection in use, unless an on_connect   *)
(* was overwritten.                                                        *)
THEOREM LoginCurrency == GatewaySpec => []LoginedIsCurrent
<1>1. GatewayInv => LoginedIsCurrent
  BY DEF GatewayInv, ExchangeInv, Settled, Session, LoginedIsCurrent
<1>2. QED
  BY <1>1, GatewayInvariant, PTL

=============================================================================
