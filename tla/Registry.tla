------------------------------ MODULE Registry ------------------------------
(***************************************************************************)
(* The objects of one zhbox process from zhbox_init to zhbox_destory:      *)
(* what each *_init allocates and registers, the arrays that hold the      *)
(* north devices and the subdevices of a gateway, the timers and loop      *)
(* threads that point at them, and what each *_free gives back.            *)
(*                                                                         *)
(* A block of memory is <<i, j, what>>: what belongs to the j-th subdevice *)
(* of the i-th north device, or, with j = 0, to that device itself.        *)
(***************************************************************************)
EXTENDS ObjectClasses

CONSTANTS
    Devices,        \* entries a northls may have: see Device
    MaxNorth        \* bound: entries of the northls

(* type is the "objtype" of the entry, south that of each entry of its     *)
(* "southls", tasks whether the "tasksls" have entries.                    *)
Device ==
    [type  : {"direct", "alidirect", "aligateway", "generalgateway", "other"},
     south : Seq({"opcua", "modbus", "other"}),
     tasks : BOOLEAN]

ASSUME RegistryAssumption ==
    /\ Devices \subseteq Device
    /\ MaxNorth \in Nat

VARIABLES
    northls,        \* the list of the configuration
    pc,             \* the place in main()
    i,              \* loop index of zhbox_init and zhbox_destory
    j,              \* loop index over the subdevices
    at,             \* the step of *_new and *_init that comes next
    fields,         \* members of each object that have been written
    live,           \* blocks allocated and not freed
    held,           \* objects stored in northarray or a southarray
    outside,        \* an object was stored behind the end of its array
    timers,         \* objects whose timer is in the event base
    threads         \* north devices with a loop thread

vars == <<northls, pc, i, j, at, fields, live, held, outside, timers, threads>>

North == 1 .. Len(northls)

(* Only the code of an Aliyun gateway looks for a "southls". *)
South(d) ==
    IF northls[d].type = "aligateway" THEN 1 .. Len(northls[d].south) ELSE {}

Subdevices == UNION {{d} \X South(d) : d \in North}
Objects == {<<d, 0>> : d \in North} \union Subdevices

Config == <<0, 0, "cfg">>
NorthArray == IF North = {} THEN {} ELSE {<<0, 0, "northarray">>}

(* The object in the making and the steps that make it. *)
Current == IF pc = "init" THEN <<i, 0>> ELSE <<i, j>>

Lists(dev) == (IF dev.tasks THEN {"tasksls"} ELSE {})
                  \union (IF dev.south # <<>> THEN {"southls"} ELSE {})

Steps(o) == Programs[IF o[2] > 0 THEN "opcua" ELSE northls[o[1]].type]

(* A step that is not skipped for an empty list. *)
Taken(step) == step.needs \subseteq Lists(northls[i])

(* The class that an entry of a list names. *)
Making(classes) ==
    \/ pc = "init" /\ i \in North /\ northls[i].type \in classes
    \/ pc = "south" /\ j \in South(i) /\ northls[i].south[j] \in classes

MakingObject == Making({"direct", "alidirect", "aligateway", "opcua"})

TypeOK ==
    /\ pc \in {"config", "init", "south", "dispatch", "destroy", "stopped",
               "failed", "corrupt"}
    /\ i \in 1 .. Len(northls) + 1
    /\ j \in Nat \ {0}
    /\ MakingObject => at \in 1 .. Len(Steps(Current)) + 1
    /\ fields \in [Objects -> SUBSET AllMembers]
    /\ live \subseteq {Config} \union NorthArray
                    \union {<<o[1], o[2], b>> : o \in Objects, b \in BlockNames}
    /\ held \subseteq Objects
    /\ outside \in BOOLEAN
    /\ timers \subseteq Objects
    /\ threads \subseteq North

(* zhbox_init has called config_init. *)
Init ==
    /\ northls \in UNION {[1 .. n -> Devices] : n \in 0 .. MaxNorth}
    /\ pc = "config"
    /\ i = 1
    /\ j = 1
    /\ at = 1
    /\ fields = [o \in Objects |-> {}]
    /\ live = {Config}
    /\ held = {}
    /\ outside = FALSE
    /\ timers = {}
    /\ threads = {}

-----------------------------------------------------------------------------
(* The file, "loglevel" and "northls" are read, and northarray allocated.  *)
ReadConfig ==
    /\ pc = "config"
    /\ live' = live \union NorthArray
    /\ pc' = "init"
    /\ UNCHANGED <<northls, i, j, at, fields, held, outside, timers, threads>>

(* A file that cannot be read is the one case that is cleaned up. *)
ConfigFails ==
    /\ pc = "config"
    /\ live' \in {live, {}}
    /\ pc' = "failed"
    /\ UNCHANGED <<northls, i, j, at, fields, held, outside, timers, threads>>

(* Mutant: a device that fails is left out and the next one is tried. *)
NextOnFailure ==
    /\ i' = i + 1
    /\ pc' = "init"
    /\ j' = 1
    /\ at' = 1
    /\ UNCHANGED <<northls, fields, live, held, outside, timers, threads>>

(* main returns as soon as zhbox_init does, with what there is. *)
Fail ==
    /\ pc' = "failed"
    /\ UNCHANGED <<northls, i, j, at, fields, live, held, outside, timers,
                   threads>>

(* No "objtype", or one that is not known. *)
UnknownType == Making({"other"}) /\ Fail

(* generalgatewaydevmqtt_new and aligatewaysubdevmodbus_new end without a  *)
(* return: what the caller takes for the new object is a NULL or any       *)
(* address, which it writes to.                                            *)
NoReturn ==
    /\ Making(Stubs)
    /\ \/ Fail
       \/ /\ pc' = "corrupt"
          /\ UNCHANGED <<northls, i, j, at, fields, live, held, outside,
                         timers, threads>>

(* Members written over whatever was at their place. *)
Overwrite(old, new) ==
    {m \in old : \A n \in new : n[1] # m[1]} \union new

(* The next step of *_new and *_init. *)
InitStep ==
    /\ MakingObject
    /\ at <= Len(Steps(Current))
    /\ LET step == Steps(Current)[at]
       IN  /\ Taken(step)
           /\ fields' = [fields EXCEPT ![Current] = Overwrite(@, step.set)]
           /\ live' = live \union
                      {<<Current[1], Current[2], b>> : b \in step.alloc}
           /\ timers' = timers \union (IF step.arm THEN {Current} ELSE {})
    /\ at' = at + 1
    /\ UNCHANGED <<northls, pc, i, j, held, outside, threads>>

(* if(this->taskstot), if(this->southlstot): nothing is allocated for an   *)
(* empty list.                                                             *)
SkipStep ==
    /\ MakingObject
    /\ at <= Len(Steps(Current))
    /\ ~ Taken(Steps(Current)[at])
    /\ at' = at + 1
    /\ UNCHANGED <<northls, pc, i, j, fields, live, held, outside, timers,
                   threads>>

InitFails ==
    /\ MakingObject
    /\ at <= Len(Steps(Current))
    /\ Taken(Steps(Current)[at])
    /\ Steps(Current)[at].fails
    /\ Fail

(* array[n - 1] = objptr.  northarray and southarray have room for one     *)
(* pointer: a second one is written into whatever follows, the slack of    *)
(* the allocator or something that matters.                                *)
Store(n, obj, next) ==
    /\ held' = held \union {obj}
    /\ outside' = (outside \/ n > 1)
    /\ pc' \in {next} \union (IF n > 1 THEN {"corrupt"} ELSE {})

(* *_init of a direct device has returned 0. *)
HoldDevice ==
    /\ pc = "init"
    /\ MakingObject
    /\ at > Len(Steps(Current))
    /\ northls[i].type # "aligateway"
    /\ Store(i, <<i, 0>>, "init")
    /\ i' = i + 1
    /\ at' = 1
    /\ UNCHANGED <<northls, j, fields, live, timers, threads>>

(* aligatewaydevmqtt_init goes through its southls. *)
EnterSouth ==
    /\ pc = "init"
    /\ MakingObject
    /\ at > Len(Steps(Current))
    /\ northls[i].type = "aligateway"
    /\ pc' = "south"
    /\ j' = 1
    /\ at' = 1
    /\ UNCHANGED <<northls, i, fields, live, held, outside, timers, threads>>

HoldSub ==
    /\ pc = "south"
    /\ MakingObject
    /\ at > Len(Steps(Current))
    /\ Store(j, <<i, j>>, "south")
    /\ j' = j + 1
    /\ at' = 1
    /\ UNCHANGED <<northls, i, fields, live, timers, threads>>

(* The gateway is complete and goes into northarray. *)
HoldGateway ==
    /\ pc = "south"
    /\ j \notin South(i)
    /\ Store(i, <<i, 0>>, "init")
    /\ i' = i + 1
    /\ at' = 1
    /\ UNCHANGED <<northls, j, fields, live, timers, threads>>

(* event_base_dispatch; with nothing to wait for it returns at once. *)
Dispatch ==
    /\ pc = "init"
    /\ i \notin North
    /\ pc' = IF timers = {} THEN "destroy" ELSE "dispatch"
    /\ i' = IF timers = {} THEN 1 ELSE i
    /\ UNCHANGED <<northls, j, at, fields, live, held, outside, timers,
                   threads>>

-----------------------------------------------------------------------------
(* The first timer of a north device starts its loop thread, which writes  *)
(* to the object from now on; no timer is ever left unarmed.               *)
StartLoop(d) ==
    /\ pc = "dispatch"
    /\ <<d, 0>> \in timers
    /\ d \notin threads
    /\ threads' = threads \union {d}
    /\ UNCHANGED <<northls, pc, i, j, at, fields, live, held, outside, timers>>

(* SIGTERM ends event_base_dispatch. *)
Terminate ==
    /\ pc = "dispatch"
    /\ pc' = "destroy"
    /\ i' = 1
    /\ UNCHANGED <<northls, j, at, fields, live, held, outside, timers, threads>>

Own(d) ==
    {<<d, 0, "this">>, <<d, 0, "mosq">>}
        \union (IF northls[d].type = "direct" THEN {}
                ELSE {<<d, 0, str>> : str \in {"addr", "clientid", "usr", "pwd"}})
        \union (IF South(d) = {} THEN {} ELSE {<<d, 0, "southarray">>})

(* Mutant: the loop over southarray stops one short. *)
FreedButLast(d) ==
    Own(d) \union {<<d, s, "this">> : s \in South(d) \ {Len(northls[d].south)}}

(* What the *_free of a device gives back; of a subdevice it is the object *)
(* alone, as aligatewaysubdevopcua_free is never called.                   *)
Freed(d) == Own(d) \union {<<d, s, "this">> : s \in South(d)}

(* Mutant: "i <= northlstot" in the loop. *)
FreePastEnd ==
    /\ pc = "destroy"
    /\ i <= Len(northls) + 1
    /\ i \notin threads
    /\ live' = IF i \in North THEN live \ Freed(i) ELSE live
    /\ i' = i + 1
    /\ UNCHANGED <<northls, pc, j, at, fields, held, outside, timers, threads>>

(* Mutant: the object is freed without waiting for its loop thread. *)
FreeAtOnce ==
    /\ pc = "destroy"
    /\ i \in North
    /\ live' = live \ Freed(i)
    /\ i' = i + 1
    /\ UNCHANGED <<northls, pc, j, at, fields, held, outside, timers, threads>>

(* mosquitto_loop_stop joins the loop thread, if there is one; that thread *)
(* does not end (see ZhboxProcess).  Then the device is freed.             *)
Free ==
    /\ pc = "destroy"
    /\ i \in North
    /\ i \notin threads
    /\ live' = live \ Freed(i)
    /\ i' = i + 1
    /\ UNCHANGED <<northls, pc, j, at, fields, held, outside, timers, threads>>

(* northarray, the configuration, and event_base_free, which looks at the  *)
(* events that are still pending: they lie in objects that are freed.      *)
Stop ==
    /\ pc = "destroy"
    /\ i \notin North
    /\ live' = live \ (NorthArray \union {Config})
    /\ timers' = {}
    /\ pc' \in {"stopped"} \union (IF timers = {} THEN {} ELSE {"corrupt"})
    /\ UNCHANGED <<northls, i, j, at, fields, held, outside, threads>>

Next ==
    \/ ReadConfig \/ ConfigFails
    \/ UnknownType \/ NoReturn \/ InitStep \/ SkipStep \/ InitFails
    \/ HoldDevice \/ EnterSouth \/ HoldSub \/ HoldGateway
    \/ Dispatch
    \/ \E d \in North : StartLoop(d)
    \/ Terminate \/ Free \/ Stop

Spec == Init /\ [][Next]_vars

-----------------------------------------------------------------------------
(* No code reads a member that has not been written, where it looks for    *)
(* it: neither a step of an *_init, nor, once the event loop runs, a timer *)
(* or a callback of libmosquitto.  Members that no step writes count as    *)
(* written when the memset of *_new is relied upon for them.  Code written *)
(* for one struct works on objects of another                              *)
(* (alidirectgatewaydevmqtt_getvar on a gateway, obj_stringexpansion on    *)
(* everything) and a subdevice on those of the gateway behind it.          *)
FieldsDefined ==
    /\ (MakingObject /\ at <= Len(Steps(Current)) /\ Taken(Steps(Current)[at])) =>
           Steps(Current)[at].use \subseteq fields[Current]
    /\ pc = "dispatch" =>
           \A o \in timers :
               IF o[2] = 0 THEN NorthUses[northls[o[1]].type] \subseteq fields[o]
               ELSE /\ AliSubUses \subseteq fields[o]
                    /\ AliSubNorthUses \subseteq fields[<<o[1], 0>>]

(* A loop thread writes to its device and to the subdevices behind it: all *)
(* of them are allocated as long as it runs, in the event loop and while   *)
(* zhbox_destory takes the other devices down.                             *)
ThreadsOnLive ==
    \A d \in threads :
        /\ <<d, 0, "this">> \in live
        /\ \A s \in South(d) : <<d, s, "this">> \in live

(* The event loop never runs a callback of an object that zhbox_destory    *)
(* cannot find, or of one whose initialisation was not completed: every    *)
(* armed timer is that of an object in its array, below one in northarray. *)
TimersHeld ==
    pc = "dispatch" =>
        \A o \in timers : o \in held /\ <<o[1], 0>> \in held

(* A device that zhbox_destory has yet to free is complete: no block is    *)
(* freed twice, no slot is empty.  When it is through, only what no *_free *)
(* gives back is left: the times of the tasks, and the clientid and the    *)
(* UA_Client of a subdevice.                                               *)
DestroyComplete ==
    /\ pc = "destroy" =>
           \A d \in i .. Len(northls) : <<d, 0>> \in held /\ Freed(d) \subseteq live
    /\ pc = "stopped" =>
           \A b \in live : \/ b[3] \in {"lasttime", "interval"}
                           \/ b[2] # 0 /\ b[3] \in {"clientid", "client"}

-----------------------------------------------------------------------------
(* Claims of the repository that the code does not keep.                   *)

(* "Several MQTT connections at the same time" (README): the devices of a  *)
(* list, and the subdevices of a gateway, fit into their array.            *)
StoredInside == ~outside
=============================================================================
