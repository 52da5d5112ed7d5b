--------------------------- MODULE Registry_proofs ---------------------------
(***************************************************************************)
(* Proofs about Registry for every configuration: any list of devices,     *)
(* with any southls.  That armed timers are held does not depend on what   *)
(* the steps of the classes are; that blocks are live does.                *)
(***************************************************************************)
EXTENDS Registry, ObjectClasses_proofs

IndexInv ==
    /\ i \in Nat
    /\ timers \subseteq Nat \X Nat
    /\ pc = "south" => j \in Nat

(* What may be armed without being held: the device in work, and the       *)
(* subdevice that is being made for it.                                    *)
InWork(o) ==
    /\ o[1] = i
    /\ \/ o[2] = 0
       \/ pc = "south" /\ (o \in held \/ (o[2] = j /\ j \in South(i)))

Held(o) == o \in held /\ <<o[1], 0>> \in held

(* While the list is gone through, every armed timer is that of an object  *)
(* in its array, below a device in northarray, or of the entry in work.    *)
ArmedInv ==
    /\ pc = "config" => timers = {}
    /\ pc \in {"init", "south"} =>
           \A o \in timers : o[1] <= i /\ (Held(o) \/ InWork(o))

(* Behind the end of the list nothing is in work. *)
EndInv ==
    pc = "init" => \A o \in timers : o[1] = i => i \in North

RegistryInv == IndexInv /\ ArmedInv /\ EndInv /\ TimersHeld

-----------------------------------------------------------------------------
LEMMA InitRegistryInv == Init => RegistryInv
  BY DEF Init, RegistryInv, IndexInv, ArmedInv, EndInv, TimersHeld

(* A step of *_init arms the object in work and no other. *)
LEMMA InitStepInv ==
    ASSUME RegistryInv, InitStep
    PROVE  RegistryInv'
<1> USE DEF RegistryInv, IndexInv, ArmedInv, EndInv, TimersHeld, Held, InWork
<1>1. \/ pc = "init" /\ i \in North /\ Current = <<i, 0>>
      \/ pc = "south" /\ j \in South(i) /\ Current = <<i, j>>
  BY DEF InitStep, MakingObject, Making, Current
<1>2. timers' = timers \/ timers' = timers \union {Current}
  BY DEF InitStep
<1>3. UNCHANGED <<northls, pc, i, j, held>> /\ pc # "dispatch"
  BY <1>1 DEF InitStep
<1>4. Current \in Nat \X Nat /\ Current[1] = i
  BY <1>1
<1>5. IndexInv'
  BY <1>2, <1>3, <1>4
<1>6. North' = North /\ South(i)' = South(i)
  BY <1>3 DEF North, South
<1>7. ArmedInv'
  BY <1>1, <1>2, <1>3, <1>4, <1>6
<1>8. EndInv'
  BY <1>1, <1>2, <1>3, <1>4, <1>6
<1>9. QED
  BY <1>3, <1>5, <1>7, <1>8

(* With a device stored in northarray nothing is in work. *)
LEMMA HoldInv ==
    ASSUME RegistryInv, HoldDevice \/ HoldGateway
    PROVE  RegistryInv'
<1> USE DEF RegistryInv, IndexInv, ArmedInv, EndInv, TimersHeld, Held, InWork
<1>1. /\ i' = i + 1 /\ timers' = timers /\ j' = j
      /\ held' = held \union {<<i, 0>>}
      /\ pc \in {"init", "south"} /\ pc' \in {"init", "corrupt"}
  BY DEF HoldDevice, HoldGateway, Store
<1>2. \A o \in timers : o[1] \in Nat /\ o[1] <= i /\ Held(o)'
  <2> SUFFICES ASSUME NEW o \in timers
               PROVE  o[1] \in Nat /\ o[1] <= i /\ Held(o)'
    OBVIOUS
  <2>1. o = <<o[1], o[2]>> /\ o[1] \in Nat
    OBVIOUS
  <2>2. CASE HoldDevice
    BY <1>1, <2>1, <2>2 DEF HoldDevice
  <2>3. CASE HoldGateway
    BY <1>1, <2>1, <2>3 DEF HoldGateway
  <2>4. QED
    BY <2>2, <2>3
<1>3. ASSUME NEW o \in timers'
      PROVE  o[1] # i'
  <2>1. o[1] \in Nat /\ o[1] <= i
    BY <1>1, <1>2
  <2>2. i' = i + 1 /\ i \in Nat
    BY <1>1
  <2>3. QED
    BY <2>1, <2>2
<1>4. IndexInv'
  <2>1. i' \in Nat /\ pc' # "south"
    BY <1>1
  <2>2. timers' \subseteq Nat \X Nat
    BY <1>1
  <2>3. QED
    BY <2>1, <2>2
<1>5. EndInv'
  BY <1>3
<1>6. ArmedInv' /\ TimersHeld'
  BY <1>1, <1>2
<1>7. QED
  BY <1>4, <1>5, <1>6

LEMMA EnterSouthInv ==
    ASSUME RegistryInv, EnterSouth
    PROVE  RegistryInv'
  BY DEF RegistryInv, IndexInv, ArmedInv, EndInv, TimersHeld, Held, InWork,
         EnterSouth

LEMMA HoldSubInv ==
    ASSUME RegistryInv, HoldSub
    PROVE  RegistryInv'
<1> USE DEF RegistryInv, IndexInv, ArmedInv, EndInv, TimersHeld, Held, InWork
<1>1. /\ i' = i /\ timers' = timers /\ j' = j + 1 /\ northls' = northls
      /\ held' = held \union {<<i, j>>}
      /\ pc = "south" /\ pc' \in {"south", "corrupt"}
  BY DEF HoldSub, Store
<1>2. ASSUME NEW o \in timers, pc' = "south"
      PROVE  o[1] <= i /\ (Held(o)' \/ InWork(o)')
  <2>1. o = <<o[1], o[2]>>
    OBVIOUS
  <2>2. o[1] <= i /\ (Held(o) \/ InWork(o))
    BY <1>1
  <2>3. Held(o) => Held(o)'
    BY <1>1
  <2>4. InWork(o) => InWork(o)'
    BY <1>1, <1>2, <2>1
  <2>5. QED
    BY <1>1, <2>2, <2>3, <2>4
<1>3. QED
  BY <1>1, <1>2

(* When the loop runs, the list is at its end. *)
LEMMA DispatchInv ==
    ASSUME RegistryInv, Dispatch
    PROVE  RegistryInv'
  BY DEF RegistryInv, IndexInv, ArmedInv, EndInv, TimersHeld, Held, InWork,
         Dispatch

LEMMA OtherInv ==
    ASSUME RegistryInv,
           \/ ReadConfig \/ ConfigFails \/ UnknownType \/ NoReturn
           \/ InitFails \/ SkipStep
           \/ (\E d \in North : StartLoop(d))
           \/ Terminate \/ Free \/ Stop
           \/ UNCHANGED vars
    PROVE  RegistryInv'
<1> USE DEF RegistryInv, IndexInv, ArmedInv, EndInv, TimersHeld, Held, InWork
<1>1. CASE ReadConfig
  BY <1>1 DEF ReadConfig
<1>2. CASE ConfigFails \/ UnknownType \/ NoReturn \/ InitFails \/ SkipStep
  BY <1>2 DEF ConfigFails, UnknownType, NoReturn, InitFails, SkipStep,
              Fail, Making, MakingObject, North, South
<1>3. CASE \E d \in North : StartLoop(d)
  BY <1>3 DEF StartLoop
<1>4. CASE Terminate \/ Free \/ Stop
  BY <1>4 DEF Terminate, Free, Stop
<1>5. CASE UNCHANGED vars
  BY <1>5 DEF vars, North, South
<1>6. QED
  BY <1>1, <1>2, <1>3, <1>4, <1>5

(* At every place of main, the invariant holds, for any lists.             *)
THEOREM RegistryInvariant == Spec => []RegistryInv
<1>1. RegistryInv /\ [Next]_vars => RegistryInv'
  BY InitStepInv, HoldInv, EnterSouthInv, HoldSubInv, DispatchInv, OtherInv
     DEF Next
<1>2. QED
  BY InitRegistryInv, <1>1, PTL DEF Spec

(* Whatever the configuration and wherever an initialisation fails, the    *)
(* event loop runs no callback of an object that is not in its array.      *)
THEOREM OnlyHeldArmed == Spec => []TimersHeld
  BY RegistryInvariant, PTL DEF RegistryInv

-----------------------------------------------------------------------------
(* Types. *)

Classes == {"direct", "alidirect", "aligateway", "opcua"}

BlocksOf ==
    [direct |-> DirectBlocks, alidirect |-> AliBlocks,
     aligateway |-> AliBlocks \union {"southarray"}, opcua |-> SubBlocks]

(* Where main is when the subdevices of a gateway are made. *)
PlaceInv ==
    /\ northls \in Seq(Devices)
    /\ pc = "config" => i = 1 /\ at = 1
    /\ pc = "south" => /\ i \in North /\ northls[i].type = "aligateway"
                       /\ j \in 1 .. Len(northls[i].south) + 1

TypeInv == PlaceInv /\ TypeOK

LEMMA ProgramTyped ==
    ASSUME NEW class \in Classes
    PROVE  /\ Programs[class] \in Seq(StepsOf(BlocksOf[class]))
           /\ Len(Programs[class]) \in Nat
           /\ BlocksOf[class] \subseteq BlockNames
<1>1. /\ AliBlocks \subseteq AliBlocks \union {"southarray"}
      /\ "alidirect" \in {"alidirect", "aligateway"}
  OBVIOUS
<1>2. AliSteps("alidirect") \in Seq(StepsOf(AliBlocks))
  BY <1>1, AliProgram
<1>3. Programs[class] \in Seq(StepsOf(BlocksOf[class]))
  <2>1. /\ Programs["direct"] = DirectSteps /\ BlocksOf["direct"] = DirectBlocks
        /\ Programs["alidirect"] = AliSteps("alidirect")
        /\ BlocksOf["alidirect"] = AliBlocks
        /\ Programs["aligateway"] = GatewaySteps
        /\ BlocksOf["aligateway"] = AliBlocks \union {"southarray"}
        /\ Programs["opcua"] = AliSubSteps /\ BlocksOf["opcua"] = SubBlocks
    BY DEF Programs, BlocksOf
  <2>2. GatewaySteps \in Seq(StepsOf(AliBlocks \union {"southarray"}))
    BY GatewayProgram
  <2>3. QED
    BY <1>2, <2>1, <2>2, DirectProgram, SubProgram DEF Classes
<1>4. BlocksOf[class] \subseteq BlockNames
  BY DEF BlocksOf, Classes, BlockNames, DirectBlocks, AliBlocks, SubBlocks,
         TaskBlocks
<1>5. QED
  BY <1>3, <1>4

LEMMA DeviceTyped ==
    ASSUME NEW list \in Seq(Devices), NEW d \in 1 .. Len(list)
    PROVE  /\ list[d].type \in {"direct", "alidirect", "aligateway",
                                "generalgateway", "other"}
           /\ list[d].south \in Seq({"opcua", "modbus", "other"})
           /\ Len(list[d].south) \in Nat
           /\ list[d].tasks \in BOOLEAN
<1>1. list[d] \in Device
  BY RegistryAssumption
<1>2. QED
  BY <1>1 DEF Device

(* The object in work is one of the configuration. *)
LEMMA MakingCases ==
    ASSUME PlaceInv, MakingObject
    PROVE  \/ /\ pc = "init" /\ i \in North /\ Current = <<i, 0>>
              /\ northls[i].type \in Classes \ {"opcua"}
              /\ Steps(Current) = Programs[northls[i].type]
           \/ /\ pc = "south" /\ i \in North /\ j \in South(i)
              /\ j \in Nat \ {0} /\ Current = <<i, j>>
              /\ Steps(Current) = Programs["opcua"]
<1>1. CASE pc = "init"
  <2>1. i \in North /\ northls[i].type \in {"direct", "alidirect", "aligateway", "opcua"}
    BY <1>1 DEF MakingObject, Making
  <2>2. northls[i].type # "opcua"
    BY <2>1, DeviceTyped DEF PlaceInv, North
  <2>3. Current = <<i, 0>>
    BY <1>1 DEF Current
  <2>4. QED
    BY <1>1, <2>1, <2>2, <2>3 DEF Classes, Steps
<1>2. CASE pc # "init"
  <2>1. pc = "south" /\ j \in South(i) /\ i \in North /\ Current = <<i, j>>
    BY <1>2 DEF MakingObject, Making, PlaceInv, Current
  <2>2. j \in Nat \ {0}
    BY <2>1, DeviceTyped DEF PlaceInv, South, North
  <2>3. QED
    BY <2>1, <2>2 DEF Steps
<1>3. QED
  BY <1>1, <1>2

LEMMA CurrentTyped ==
    ASSUME PlaceInv, MakingObject
    PROVE  /\ Current \in Objects
           /\ \E class \in Classes : /\ Steps(Current) = Programs[class]
                                     /\ Len(Steps(Current)) \in Nat
                                     /\ Steps(Current) \in Seq(StepsOf(BlocksOf[class]))
                                     /\ BlocksOf[class] \subseteq BlockNames
<1>1. Current \in Objects
  BY MakingCases DEF Objects, Subdevices
<1>2. "opcua" \in Classes
  BY DEF Classes
<1>3. QED
  BY <1>1, <1>2, MakingCases, ProgramTyped

(* A list that is not changed leaves everything that is made of it.        *)
LEMMA SameList ==
    ASSUME UNCHANGED northls
    PROVE  /\ North' = North /\ Objects' = Objects /\ NorthArray' = NorthArray
           /\ \A d : South(d)' = South(d) /\ Own(d)' = Own(d)
                     /\ Freed(d)' = Freed(d)
  BY DEF North, Objects, Subdevices, NorthArray, South, Own, Freed

(* Whenever an object is in work, its first step is one of its program.    *)
LEMMA FirstStep ==
    ASSUME PlaceInv', at' = 1
    PROVE  MakingObject' => at' \in 1 .. (Len(Steps(Current)) + 1)'
<1>1. \A class \in Classes : Len(Programs[class]) \in Nat
  BY ProgramTyped
<1>2. SUFFICES ASSUME MakingObject'
               PROVE  \E class \in Classes : Steps(Current)' = Programs[class]
  BY <1>1
<1>3. CASE pc' = "init"
  <2>1. i' \in North' /\ northls'[i'].type \in {"direct", "alidirect", "aligateway", "opcua"}
    BY <1>2, <1>3 DEF MakingObject, Making
  <2>2. Current' = <<i', 0>>
    BY <1>3 DEF Current
  <2>3. QED
    BY <2>1, <2>2 DEF Classes, Steps
<1>4. CASE pc' # "init"
  <2>1. pc' = "south" /\ j' \in South(i)' /\ i' \in North' /\ Current' = <<i', j'>>
    BY <1>2, <1>4 DEF MakingObject, Making, PlaceInv, Current
  <2>2. j' \in Nat \ {0}
    BY <2>1, DeviceTyped DEF PlaceInv, South, North
  <2>3. QED
    BY <2>1, <2>2 DEF Steps, Classes
<1>5. QED
  BY <1>3, <1>4

LEMMA InitTypeInv == Init => TypeInv
<1> SUFFICES ASSUME Init
             PROVE  TypeInv
  OBVIOUS
<1>1. northls \in Seq(Devices)
  <2>1. PICK n \in 0 .. MaxNorth : northls \in [1 .. n -> Devices]
    BY DEF Init
  <2>2. QED
    BY <2>1, RegistryAssumption
<1>2. PlaceInv
  BY <1>1 DEF Init, PlaceInv
<1>3. ~ MakingObject
  BY DEF Init, MakingObject, Making
<1>4. i \in 1 .. Len(northls) + 1
  BY <1>1 DEF Init
<1>5. fields \in [Objects -> SUBSET AllMembers]
  <2>1. fields = [o \in Objects |-> {}]
    BY DEF Init
  <2>2. {} \in SUBSET AllMembers
    OBVIOUS
  <2>3. QED
    BY ONLY <2>1, <2>2
<1>6. /\ pc = "config" /\ j \in Nat \ {0} /\ live \subseteq {Config}
      /\ held \subseteq Objects /\ outside \in BOOLEAN
      /\ timers \subseteq Objects /\ threads \subseteq North
  <2>1. /\ pc = "config" /\ j = 1 /\ live = {Config} /\ held = {}
        /\ outside = FALSE /\ timers = {} /\ threads = {}
    BY DEF Init
  <2>2. outside \in BOOLEAN
    BY ONLY <2>1, Zenon
  <2>3. QED
    BY <2>1, <2>2
<1>7. QED
  BY <1>2, <1>3, <1>4, <1>5, <1>6 DEF TypeInv, TypeOK

(* A step of *_init writes members and allocates blocks of the tables.     *)
LEMMA InitStepType ==
    ASSUME TypeInv, InitStep
    PROVE  TypeInv'
<1> USE DEF TypeInv
<1>1. /\ UNCHANGED <<northls, pc, i, j, held, outside, threads>>
      /\ MakingObject /\ at <= Len(Steps(Current)) /\ at' = at + 1
  BY DEF InitStep
<1>2. PICK class \in Classes : /\ Len(Steps(Current)) \in Nat
                               /\ Steps(Current) \in Seq(StepsOf(BlocksOf[class]))
                               /\ BlocksOf[class] \subseteq BlockNames
  BY <1>1, CurrentTyped
<1>3. /\ Current \in Objects /\ at \in 1 .. Len(Steps(Current))
      /\ Objects' = Objects /\ North' = North /\ NorthArray' = NorthArray
  BY <1>1, <1>2, CurrentTyped, SameList DEF TypeOK
<1> DEFINE step == Steps(Current)[at]
<1>4. step.set \subseteq AllMembers /\ step.alloc \subseteq BlockNames
  <2>1. step \in StepsOf(BlocksOf[class])
    BY <1>2, <1>3
  <2>2. QED
    BY <1>2, <2>1 DEF StepsOf
<1>5. /\ fields' = [fields EXCEPT ![Current] = Overwrite(@, step.set)]
      /\ live' = live \union {<<Current[1], Current[2], b>> : b \in step.alloc}
      /\ timers' = timers \/ timers' = timers \union {Current}
  BY DEF InitStep
<1> HIDE DEF step
<1>6. PlaceInv'
  BY <1>1, <1>3 DEF PlaceInv, MakingObject, Making
<1>7. fields' \in [Objects -> SUBSET AllMembers]
  <2> DEFINE new == Overwrite(fields[Current], step.set)
  <2>1. fields \in [Objects -> SUBSET AllMembers]
    BY DEF TypeOK
  <2>2. new \subseteq AllMembers
    BY <1>3, <1>4, <2>1 DEF Overwrite
  <2>3. fields' = [fields EXCEPT ![Current] = new]
    BY <1>5
  <2> HIDE DEF new
  <2>4. QED
    BY <1>3, <2>1, <2>2, <2>3
<1>8. live' \subseteq {Config} \union NorthArray
                  \union {<<o[1], o[2], b>> : o \in Objects, b \in BlockNames}
  BY <1>3, <1>4, <1>5 DEF TypeOK
<1>9. timers' \subseteq Objects
  BY <1>3, <1>5 DEF TypeOK
<1>10. MakingObject' => at' \in 1 .. (Len(Steps(Current)) + 1)'
  <2>1. Steps(Current)' = Steps(Current)
    BY <1>1 DEF Steps, Current
  <2>2. QED
    BY <1>1, <1>2, <1>3, <2>1
<1>11. QED
  BY <1>1, <1>3, <1>6, <1>7, <1>8, <1>9, <1>10 DEF TypeOK, Config

LEMMA StoreType ==
    ASSUME TypeInv, HoldDevice \/ HoldSub \/ HoldGateway \/ EnterSouth
    PROVE  TypeInv'
<1> USE DEF TypeInv
<1>1. /\ UNCHANGED <<northls, fields, live, timers, threads>> /\ at' = 1
      /\ Objects' = Objects /\ North' = North /\ NorthArray' = NorthArray
  BY SameList DEF HoldDevice, HoldSub, HoldGateway, EnterSouth
<1>2. i \in North /\ Len(northls) \in Nat /\ j \in Nat \ {0}
  <2>1. HoldDevice \/ EnterSouth => i \in North
    BY DEF HoldDevice, EnterSouth, MakingObject, Making
  <2>2. HoldSub \/ HoldGateway => i \in North
    BY DEF HoldSub, HoldGateway, PlaceInv
  <2>3. QED
    BY <2>1, <2>2 DEF TypeOK, PlaceInv
<1>3. /\ i' \in 1 .. Len(northls) + 1 /\ j' \in Nat \ {0}
      /\ pc' \in {"init", "south", "corrupt"}
      /\ held' \subseteq Objects /\ outside' \in BOOLEAN
  <2>1. CASE HoldDevice \/ HoldGateway
    <3>1. <<i, 0>> \in Objects
      BY <1>2 DEF Objects
    <3>2. i + 1 \in 1 .. Len(northls) + 1
      BY <1>2 DEF North
    <3>3. outside' \in BOOLEAN
      BY <2>1 DEF HoldDevice, HoldGateway, Store, TypeOK
    <3>4. QED
      BY <1>2, <2>1, <3>1, <3>2, <3>3 DEF HoldDevice, HoldGateway, Store, TypeOK
  <2>2. CASE HoldSub
    <3>1. <<i, j>> \in Objects
      BY <1>2, <2>2, MakingCases DEF HoldSub, Objects, Subdevices
    <3>2. outside' \in BOOLEAN
      BY <2>2 DEF HoldSub, Store, TypeOK
    <3>3. QED
      BY <1>2, <2>2, <3>1, <3>2 DEF HoldSub, Store, TypeOK
  <2>3. CASE EnterSouth
    BY <1>2, <2>3 DEF EnterSouth, TypeOK
  <2>4. QED
    BY <2>1, <2>2, <2>3
<1>4. PlaceInv'
  <2>1. CASE HoldDevice \/ HoldGateway
    BY <1>1, <2>1 DEF HoldDevice, HoldGateway, Store, PlaceInv
  <2>2. CASE HoldSub
    <3>1. j \in South(i) /\ j \in 1 .. Len(northls[i].south)
          /\ Len(northls[i].south) \in Nat
      BY <1>2, <2>2, MakingCases, DeviceTyped DEF HoldSub, South, North, PlaceInv
    <3>2. i' = i /\ j' = j + 1 /\ pc' # "config"
      BY <2>2 DEF HoldSub, Store
    <3>3. j' \in 1 .. Len(northls[i].south) + 1
      BY <3>1, <3>2
    <3>4. i \in North /\ northls[i].type = "aligateway"
      BY <2>2 DEF HoldSub, PlaceInv
    <3>5. QED
      BY <1>1, <3>2, <3>3, <3>4 DEF PlaceInv
  <2>3. CASE EnterSouth
    <3>1. Len(northls[i].south) \in Nat
      BY <1>2, DeviceTyped DEF North, PlaceInv
    <3>2. i' = i /\ j' = 1 /\ pc' = "south" /\ northls[i].type = "aligateway"
      BY <2>3 DEF EnterSouth
    <3>3. QED
      BY <1>1, <1>2, <3>1, <3>2 DEF PlaceInv
  <2>4. QED
    BY <2>1, <2>2, <2>3
<1>5. MakingObject' => at' \in 1 .. (Len(Steps(Current)) + 1)'
  BY <1>1, <1>4, FirstStep
<1>6. QED
  BY <1>1, <1>3, <1>4, <1>5 DEF TypeOK, Config

LEMMA OtherType ==
    ASSUME TypeInv,
           \/ ReadConfig \/ ConfigFails \/ UnknownType \/ NoReturn
           \/ SkipStep \/ InitFails \/ Dispatch
           \/ (\E d \in North : StartLoop(d))
           \/ Terminate \/ Free \/ Stop
           \/ UNCHANGED vars
    PROVE  TypeInv'
<1> USE DEF TypeInv
<1>1. /\ UNCHANGED <<northls, j, fields, held, outside>>
      /\ Objects' = Objects /\ North' = North /\ NorthArray' = NorthArray
      /\ Len(northls) \in Nat
  <2>1. UNCHANGED <<northls, j, fields, held, outside>>
    BY DEF ReadConfig, ConfigFails, UnknownType, NoReturn, SkipStep,
           InitFails, Fail, Dispatch, StartLoop, Terminate, Free, Stop, vars
  <2>2. QED
    BY <2>1, SameList DEF PlaceInv
<1>2. live' \subseteq live \union NorthArray
      /\ timers' \subseteq timers /\ threads' \subseteq North
  <2>1. CASE ReadConfig \/ ConfigFails
    BY <2>1 DEF ReadConfig, ConfigFails, TypeOK
  <2>2. CASE Free \/ Stop
    BY <2>2 DEF Free, Stop, TypeOK
  <2>3. CASE \E d \in North : StartLoop(d)
    BY <2>3 DEF StartLoop, TypeOK
  <2>4. CASE UnknownType \/ NoReturn \/ SkipStep \/ InitFails \/ Dispatch
    BY <2>4 DEF UnknownType, NoReturn, SkipStep, InitFails, Fail, Dispatch,
                TypeOK
  <2>5. CASE Terminate \/ UNCHANGED vars
    BY <2>5 DEF Terminate, vars, TypeOK
  <2>6. QED
    BY <2>1, <2>2, <2>3, <2>4, <2>5
<1>3. /\ PlaceInv' /\ i' \in 1 .. Len(northls) + 1
      /\ pc' \in {"config", "init", "south", "dispatch", "destroy",
                  "stopped", "failed", "corrupt"}
      /\ MakingObject' => at' \in 1 .. (Len(Steps(Current)) + 1)'
  <2>1. CASE ReadConfig
    <3>1. PlaceInv' /\ at' = 1 /\ i' = 1 /\ pc' = "init"
      BY <1>1, <2>1 DEF ReadConfig, PlaceInv
    <3>2. QED
      BY <1>1, <3>1, FirstStep
  <2>2. CASE SkipStep
    <3>1. /\ UNCHANGED <<northls, pc, i, j>> /\ MakingObject
          /\ at <= Len(Steps(Current)) /\ at' = at + 1
      BY <2>2 DEF SkipStep
    <3>2. Steps(Current)' = Steps(Current)
      BY <3>1 DEF Steps, Current
    <3>3. Len(Steps(Current)) \in Nat /\ at \in 1 .. Len(Steps(Current)) + 1
      BY <3>1, CurrentTyped DEF TypeOK
    <3>4. at' \in 1 .. (Len(Steps(Current)) + 1)'
      BY <3>1, <3>2, <3>3
    <3>5. PlaceInv'
      BY <1>1, <3>1 DEF PlaceInv, MakingObject, Making
    <3>6. QED
      BY <3>1, <3>4, <3>5 DEF TypeOK
  <2>3. CASE UNCHANGED vars \/ \E d \in North : StartLoop(d)
    <3>1. UNCHANGED <<northls, pc, i, j, at>>
      BY <2>3 DEF vars, StartLoop
    <3>2. Steps(Current)' = Steps(Current) /\ MakingObject' = MakingObject
      BY <3>1 DEF Steps, Current, MakingObject, Making, South, North
    <3>3. PlaceInv'
      BY <1>1, <3>1 DEF PlaceInv
    <3>4. QED
      BY <3>1, <3>2, <3>3 DEF TypeOK
  <2>4. ASSUME \/ ConfigFails \/ UnknownType \/ NoReturn \/ InitFails
               \/ Dispatch \/ Terminate \/ Free \/ Stop
        PROVE  /\ pc' \in {"failed", "corrupt", "dispatch", "destroy", "stopped"}
               /\ i' \in 1 .. Len(northls) + 1
    <3>1. 1 \in 1 .. Len(northls) + 1 /\ i \in 1 .. Len(northls) + 1
      BY <1>1 DEF TypeOK
    <3>2. i \in North => i + 1 \in 1 .. Len(northls) + 1
      BY <1>1 DEF North
    <3>3. QED
      BY <2>4, <3>1, <3>2
         DEF ConfigFails, UnknownType, NoReturn, InitFails, Fail, Dispatch,
             Terminate, Free, Stop
  <2>5. CASE \/ ConfigFails \/ UnknownType \/ NoReturn \/ InitFails
             \/ Dispatch \/ Terminate \/ Free \/ Stop
    <3>1. PlaceInv' /\ ~ MakingObject'
      BY <1>1, <2>4, <2>5 DEF PlaceInv, MakingObject, Making
    <3>2. QED
      BY <2>4, <2>5, <3>1
  <2>6. QED
    BY <2>1, <2>2, <2>3, <2>5
<1>4. QED
  BY <1>1, <1>2, <1>3 DEF TypeOK, Config

(* Every variable keeps its type, and the step that *_init takes next is   *)
(* one of its class, for any list of devices.                              *)
THEOREM TypeCorrect == Spec => []TypeOK
<1>1. TypeInv /\ [Next]_vars => TypeInv'
  BY InitStepType, StoreType, OtherType DEF Next
<1>2. QED
  BY InitTypeInv, <1>1, PTL DEF Spec, TypeInv

-----------------------------------------------------------------------------
(* Blocks. *)

Complete(d) == <<d, 0>> \in held /\ Freed(d) \subseteq live

(* What no *_free gives back. *)
Leftover(b) ==
    \/ b[3] \in {"lasttime", "interval"}
    \/ b[2] # 0 /\ b[3] \in {"clientid", "client"}

(* The steps taken so far have allocated their blocks. *)
MakingInv ==
    MakingObject =>
        \A n \in 1 .. at - 1 :
            Taken(Steps(Current)[n]) =>
                \A b \in Steps(Current)[n].alloc :
                    <<Current[1], Current[2], b>> \in live

(* The gateway in work has all of its own, and its subdevices so far.      *)
GatewayInv ==
    pc = "south" => /\ Own(i) \subseteq live
                    /\ \A s \in South(i) : s < j => <<i, s, "this">> \in live

(* The devices before the one in work are complete, and stay so until      *)
(* zhbox_destory comes to them.                                            *)
CompleteInv ==
    /\ pc \in {"init", "south"} => \A d \in North : d < i => Complete(d)
    /\ pc = "dispatch" => \A d \in North : Complete(d)
    /\ pc = "destroy" => \A d \in North : d >= i => Complete(d)

FreedInv ==
    pc = "destroy" => \A d \in North : d < i => Freed(d) \cap live = {}

(* Every block is one that is given back at the end, by a *_free or by     *)
(* zhbox_destory itself, or one of those that are known to be left over.   *)
LiveInv ==
    \A b \in live : \/ b \in {Config} \union NorthArray
                    \/ Leftover(b)
                    \/ \E d \in North : b \in Freed(d)

StoppedInv == pc = "stopped" => \A b \in live : Leftover(b)

ThreadInv ==
    /\ pc \in {"dispatch", "destroy"} \/ threads = {}
    /\ pc = "destroy" => \A d \in threads : d >= i

BlockInv ==
    /\ MakingInv /\ GatewayInv /\ CompleteInv /\ FreedInv
    /\ LiveInv /\ StoppedInv /\ ThreadInv

-----------------------------------------------------------------------------
LEMMA FreedOf ==
    ASSUME NEW d, NEW b \in Freed(d)
    PROVE  b[1] = d
  BY DEF Freed, Own

(* Devices that nothing is taken from stay complete.                       *)
LEMMA CompleteKept ==
    ASSUME UNCHANGED northls, live \subseteq live', held \subseteq held',
           NEW d, Complete(d)
    PROVE  Complete(d)'
<1>1. Freed(d)' = Freed(d)
  BY SameList
<1>2. Freed(d) \subseteq live' /\ <<d, 0>> \in held'
  BY DEF Complete
<1>3. QED
  BY <1>1, <1>2 DEF Complete

LEMMA LiveKept ==
    ASSUME LiveInv, UNCHANGED northls,
           live' \subseteq live \union {Config} \union NorthArray
    PROVE  LiveInv'
<1>1. North' = North /\ NorthArray' = NorthArray /\ \A d : Freed(d)' = Freed(d)
  BY SameList
<1>2. ASSUME NEW b \in live'
      PROVE  \/ b \in {Config} \union NorthArray
             \/ Leftover(b)
             \/ \E d \in North : b \in Freed(d)
  BY DEF LiveInv
<1>3. ASSUME NEW b \in live'
      PROVE  \/ b \in ({Config} \union NorthArray)'
             \/ Leftover(b)
             \/ \E d \in North' : b \in Freed(d)'
  BY <1>1, <1>2 DEF Config
<1>4. QED
  BY <1>3 DEF LiveInv, Leftover

(* Before its first step an object has nothing. *)
LEMMA NothingMade == at' = 1 => MakingInv'
  BY DEF MakingInv

(* An object whose steps are all taken has every block that its program    *)
(* allocates for its lists.                                                *)
LEMMA Made ==
    ASSUME TypeInv, MakingInv, MakingObject, at > Len(Steps(Current)),
           NEW block, Allocates(Steps(Current), block, Lists(northls[i]))
    PROVE  <<Current[1], Current[2], block>> \in live
<1>1. Len(Steps(Current)) \in Nat /\ at \in 1 .. Len(Steps(Current)) + 1
  BY CurrentTyped DEF TypeInv, TypeOK
<1>2. PICK n \in 1 .. Len(Steps(Current)) :
          /\ block \in Steps(Current)[n].alloc
          /\ Steps(Current)[n].needs \subseteq Lists(northls[i])
  BY DEF Allocates
<1>3. n \in 1 .. at - 1
  BY <1>1
<1>4. QED
  BY <1>2, <1>3 DEF MakingInv, Taken

(* A north device whose steps are all taken has all that its *_free gives  *)
(* back, but the subdevices.                                               *)
LEMMA DeviceMade ==
    ASSUME TypeInv, MakingInv, MakingObject, pc = "init",
           at > Len(Steps(Current))
    PROVE  Own(i) \subseteq live
<1> DEFINE lists == Lists(northls[i])
<1>1. /\ i \in North /\ Current = <<i, 0>>
      /\ northls[i].type \in {"direct", "alidirect", "aligateway"}
      /\ Steps(Current) = Programs[northls[i].type]
  BY MakingCases DEF TypeInv, Classes
<1>2. ASSUME NEW block, Allocates(Programs[northls[i].type], block, lists)
      PROVE  <<i, 0, block>> \in live
  BY <1>1, <1>2, Made
<1>3. CASE northls[i].type = "direct"
  <2>1. \A block \in {"this", "mosq"} :
            Allocates(Programs[northls[i].type], block, lists)
    BY <1>3, DirectProgram DEF Programs
  <2>2. QED
    BY <1>2, <1>3, <2>1 DEF Own, South
<1>4. CASE northls[i].type \in {"alidirect", "aligateway"}
  <2>1. \A block \in {"this", "mosq", "addr", "clientid", "usr", "pwd"} :
            Allocates(Programs[northls[i].type], block, lists)
    <3>1. \A block \in {"this", "mosq", "addr", "clientid", "usr", "pwd"} :
              Allocates(AliSteps("alidirect"), block, lists)
      <4>1. "alidirect" \in {"alidirect", "aligateway"} /\ AliBlocks \subseteq AliBlocks
        OBVIOUS
      <4>2. QED
        BY <4>1, AliProgram
    <3>2. \A block \in {"this", "mosq", "addr", "clientid", "usr", "pwd"} :
              Allocates(GatewaySteps, block, lists)
      BY GatewayProgram
    <3>3. QED
      BY <1>4, <3>1, <3>2 DEF Programs
  <2>2. ASSUME South(i) # {}
        PROVE  <<i, 0, "southarray">> \in live
    <3>1. northls[i].type = "aligateway" /\ northls[i].south # <<>>
      BY <2>2 DEF South
    <3>2. "southls" \in lists
      BY <3>1 DEF Lists
    <3>3. Allocates(Programs[northls[i].type], "southarray", lists)
      BY <3>1, <3>2, GatewayProgram DEF Programs
    <3>4. QED
      BY <1>2, <3>3
  <2>3. \A block \in {"this", "mosq", "addr", "clientid", "usr", "pwd"} :
            <<i, 0, block>> \in live
    BY <1>2, <2>1
  <2>4. QED
    BY <2>2, <2>3 DEF Own
<1>5. QED
  BY <1>1, <1>3, <1>4

LEMMA InitBlockInv == Init => BlockInv
<1> SUFFICES ASSUME Init
             PROVE  BlockInv
  OBVIOUS
<1>1. pc = "config" /\ live = {Config} /\ threads = {}
  BY DEF Init
<1>2. ~ MakingObject
  BY <1>1 DEF MakingObject, Making
<1>3. QED
  BY <1>1, <1>2 DEF BlockInv, MakingInv, GatewayInv, CompleteInv, FreedInv,
                    LiveInv, StoppedInv, ThreadInv

(* What a step of *_init allocates is given back by the *_free of the      *)
(* device, or is left over.                                                *)
LEMMA AllocatedKnown ==
    ASSUME TypeInv, InitStep, NEW b \in Steps(Current)[at].alloc
    PROVE  LET block == <<Current[1], Current[2], b>>
           IN  Leftover(block) \/ (i \in North /\ block \in Freed(i))
<1> DEFINE step == Steps(Current)[at]
           block == <<Current[1], Current[2], b>>
<1>1. /\ MakingObject /\ at <= Len(Steps(Current)) /\ Taken(step)
      /\ PlaceInv /\ at \in 1 .. Len(Steps(Current)) + 1
  BY DEF InitStep, TypeInv, TypeOK
<1>2. Len(Steps(Current)) \in Nat /\ at \in 1 .. Len(Steps(Current))
  BY <1>1, CurrentTyped
<1>3. ASSUME NEW class \in Classes, Steps(Current) = Programs[class]
      PROVE  /\ b \in BlocksOf[class]
             /\ b = "southarray" => "southls" \in Lists(northls[i])
  <2>1. step \in StepsOf(BlocksOf[class])
    BY <1>2, <1>3, ProgramTyped
  <2>2. step.needs \subseteq Lists(northls[i])
    BY <1>1 DEF Taken
  <2> HIDE DEF step
  <2>3. step.alloc \subseteq BlocksOf[class]
        /\ ("southarray" \in step.alloc => "southls" \in step.needs)
    BY <2>1 DEF StepsOf
  <2>4. b \in step.alloc
    BY DEF step
  <2>5. QED
    BY <2>2, <2>3, <2>4
<1>4. CASE pc = "south"
  <2>1. /\ i \in North /\ j \in South(i) /\ j \in Nat \ {0}
        /\ Current = <<i, j>> /\ Steps(Current) = Programs["opcua"]
    BY <1>1, <1>4, MakingCases
  <2>2. b \in SubBlocks
    BY <1>3, <2>1 DEF Classes, BlocksOf
  <2>3. block = <<i, j, b>>
    BY <2>1
  <2>4. b = "this" => block \in Freed(i)
    BY <2>1, <2>3 DEF Freed
  <2>5. b # "this" => Leftover(block)
    BY <2>1, <2>2, <2>3 DEF SubBlocks, TaskBlocks, Leftover
  <2>6. QED
    BY <2>1, <2>4, <2>5
<1>5. CASE pc = "init"
  <2>1. /\ i \in North /\ Current = <<i, 0>>
        /\ northls[i].type \in {"direct", "alidirect", "aligateway"}
        /\ Steps(Current) = Programs[northls[i].type]
    BY <1>1, <1>5, MakingCases DEF Classes
  <2>2. /\ b \in BlocksOf[northls[i].type]
        /\ b = "southarray" => "southls" \in Lists(northls[i])
    BY <1>3, <2>1 DEF Classes
  <2>3. block = <<i, 0, b>>
    BY <2>1
  <2>4. b \in TaskBlocks => Leftover(block)
    BY <2>3 DEF TaskBlocks, Leftover
  <2>5. b \in {"this", "mosq"} => block \in Freed(i)
    BY <2>3 DEF Freed, Own
  <2>6. CASE northls[i].type = "direct"
    BY <2>1, <2>2, <2>4, <2>5, <2>6 DEF BlocksOf, DirectBlocks
  <2>7. CASE northls[i].type \in {"alidirect", "aligateway"}
    <3>1. b \in {"addr", "clientid", "usr", "pwd"} => block \in Freed(i)
      BY <2>3, <2>7 DEF Freed, Own
    <3>2. b \in AliBlocks \union {"southarray"}
      BY <2>2, <2>7 DEF BlocksOf
    <3>3. ASSUME b = "southarray"
          PROVE  block \in Freed(i)
      <4>1. northls[i].type = "aligateway"
        <5>1. northls[i].type = "alidirect" => b \in AliBlocks
          BY <2>2 DEF BlocksOf
        <5>2. b \notin AliBlocks
          BY <3>3 DEF AliBlocks, DirectBlocks, TaskBlocks
        <5>3. QED
          BY <2>7, <5>1, <5>2
      <4>2. northls[i].south # <<>>
        BY <2>2, <3>3 DEF Lists
      <4>3. South(i) # {}
        <5>1. northls[i].south \in Seq({"opcua", "modbus", "other"})
          BY <2>1, DeviceTyped DEF TypeInv, PlaceInv, North
        <5>2. 1 \in 1 .. Len(northls[i].south)
          BY <4>2, <5>1
        <5>3. QED
          BY <4>1, <5>2 DEF South
      <4>4. QED
        BY <2>3, <3>3, <4>3 DEF Freed, Own
    <3>4. QED
      BY <2>1, <2>4, <2>5, <3>1, <3>2, <3>3 DEF AliBlocks, DirectBlocks
  <2>8. QED
    BY <2>1, <2>6, <2>7
<1>6. QED
  BY <1>1, <1>4, <1>5, MakingCases

LEMMA InitStepBlocks ==
    ASSUME TypeInv, BlockInv, InitStep
    PROVE  BlockInv'
<1> USE DEF BlockInv
<1> DEFINE step == Steps(Current)[at]
           made == {<<Current[1], Current[2], b>> : b \in step.alloc}
<1>1. /\ UNCHANGED <<northls, pc, i, j, held, threads>>
      /\ live' = live \union made /\ at' = at + 1
      /\ pc \in {"init", "south"} /\ MakingObject
  BY DEF InitStep, MakingObject, Making
<1>2. /\ North' = North /\ NorthArray' = NorthArray
      /\ \A d : South(d)' = South(d) /\ Own(d)' = Own(d) /\ Freed(d)' = Freed(d)
  BY <1>1, SameList
<1>3. Steps(Current)' = Steps(Current) /\ Current' = Current
      /\ at \in 1 .. Len(Steps(Current)) + 1 /\ Len(Steps(Current)) \in Nat
  BY <1>1, CurrentTyped DEF Steps, Current, TypeInv, TypeOK
<1>4. MakingInv'
  <2> SUFFICES ASSUME NEW n \in 1 .. at, Taken(Steps(Current)[n]),
                      NEW b \in Steps(Current)[n].alloc
               PROVE  <<Current[1], Current[2], b>> \in live'
    BY <1>1, <1>3 DEF MakingInv, Taken
  <2>1. CASE n = at
    <3>1. b \in step.alloc
      BY <2>1
    <3>2. <<Current[1], Current[2], b>> \in made
      BY <3>1
    <3>3. QED
      BY <1>1, <3>2
  <2>2. CASE n # at
    <3>1. n \in 1 .. at - 1
      BY <1>3, <2>2
    <3>2. QED
      BY <1>1, <3>1 DEF MakingInv
  <2>3. QED
    BY <2>1, <2>2
<1>5. GatewayInv'
  BY <1>1, <1>2 DEF GatewayInv
<1>6. CompleteInv'
  <2>1. \A d : Complete(d) => Complete(d)'
    BY <1>1, CompleteKept
  <2>2. QED
    BY <1>1, <1>2, <2>1 DEF CompleteInv
<1>7. LiveInv'
  <2> SUFFICES ASSUME NEW b \in live'
               PROVE  \/ b \in {Config} \union NorthArray
                      \/ Leftover(b)
                      \/ \E d \in North : b \in Freed(d)
    BY <1>2 DEF LiveInv, Leftover, Config
  <2>1. CASE b \in live
    BY <2>1 DEF LiveInv
  <2>2. CASE b \in made
    <3>1. PICK a \in step.alloc : b = <<Current[1], Current[2], a>>
      BY <2>2
    <3>2. Leftover(b) \/ (i \in North /\ b \in Freed(i))
      BY <3>1, AllocatedKnown
    <3>3. QED
      BY <3>2
  <2>3. QED
    BY <1>1, <2>1, <2>2
<1>8. FreedInv' /\ StoppedInv' /\ ThreadInv'
  BY <1>1 DEF FreedInv, StoppedInv, ThreadInv
<1>9. QED
  BY <1>4, <1>5, <1>6, <1>7, <1>8

(* A device that is stored is complete. *)
LEMMA StoreBlocks ==
    ASSUME TypeInv, BlockInv, HoldDevice \/ HoldGateway
    PROVE  BlockInv'
<1> USE DEF BlockInv
<1>1. /\ UNCHANGED <<northls, live, threads>> /\ at' = 1 /\ i' = i + 1
      /\ held' = held \union {<<i, 0>>} /\ pc \in {"init", "south"}
      /\ pc' \in {"init", "corrupt"} /\ i \in North
  BY DEF HoldDevice, HoldGateway, Store, MakingObject, Making, TypeInv, PlaceInv
<1>2. North' = North /\ \A d : Freed(d)' = Freed(d)
  BY <1>1, SameList
<1>3. Freed(i) \subseteq live
  <2>1. CASE HoldDevice
    <3>1. Own(i) \subseteq live
      BY <2>1, DeviceMade DEF HoldDevice
    <3>2. South(i) = {}
      BY <2>1 DEF HoldDevice, South
    <3>3. QED
      BY <3>1, <3>2 DEF Freed
  <2>2. CASE HoldGateway
    <3>1. /\ pc = "south" /\ j \notin South(i)
          /\ j \in 1 .. Len(northls[i].south) + 1
          /\ northls[i].type = "aligateway" /\ Len(northls[i].south) \in Nat
      BY <1>1, <2>2, DeviceTyped DEF HoldGateway, TypeInv, PlaceInv, North
    <3>2. \A s \in South(i) : s < j
      BY <3>1 DEF South
    <3>3. QED
      BY <3>1, <3>2 DEF GatewayInv, Freed
  <2>3. QED
    BY <2>1, <2>2
<1>4. ASSUME NEW d, d = i
      PROVE  Complete(d)'
  <2>1. Freed(d)' = Freed(d)
    BY <1>2
  <2>2. Freed(d) \subseteq live' /\ <<d, 0>> \in held'
    BY <1>1, <1>3, <1>4
  <2>3. QED
    BY <2>1, <2>2 DEF Complete
<1>5. CompleteInv'
  <2>1. \A d : Complete(d) => Complete(d)'
    BY <1>1, CompleteKept
  <2>2. \A d \in North : d < i' => d < i \/ d = i
    BY <1>1 DEF North
  <2>3. QED
    BY <1>1, <1>2, <1>4, <2>1, <2>2 DEF CompleteInv
<1>6. LiveInv'
  BY <1>1, LiveKept
<1>7. MakingInv' /\ GatewayInv' /\ FreedInv' /\ StoppedInv' /\ ThreadInv'
  BY <1>1, NothingMade DEF GatewayInv, FreedInv, StoppedInv, ThreadInv
<1>8. QED
  BY <1>5, <1>6, <1>7

LEMMA EnterSouthBlocks ==
    ASSUME TypeInv, BlockInv, EnterSouth
    PROVE  BlockInv'
<1> USE DEF BlockInv
<1>1. /\ UNCHANGED <<northls, live, held, threads, i>> /\ at' = 1
      /\ pc = "init" /\ pc' = "south" /\ j' = 1
      /\ MakingObject /\ at > Len(Steps(Current)) /\ i \in North
  BY DEF EnterSouth, MakingObject, Making
<1>2. /\ North' = North
      /\ \A d : South(d)' = South(d) /\ Own(d)' = Own(d)
  BY <1>1, SameList
<1>3. Own(i) \subseteq live
  BY <1>1, DeviceMade
<1>4. \A s \in South(i) : ~ (s < 1)
  BY DEF South
<1>5. GatewayInv'
  BY <1>1, <1>2, <1>3, <1>4 DEF GatewayInv
<1>6. CompleteInv'
  <2>1. \A d : Complete(d) => Complete(d)'
    BY <1>1, CompleteKept
  <2>2. QED
    BY <1>1, <1>2, <2>1 DEF CompleteInv
<1>7. LiveInv'
  BY <1>1, LiveKept
<1>8. MakingInv' /\ FreedInv' /\ StoppedInv' /\ ThreadInv'
  BY <1>1, NothingMade DEF FreedInv, StoppedInv, ThreadInv
<1>9. QED
  BY <1>5, <1>6, <1>7, <1>8

LEMMA HoldSubBlocks ==
    ASSUME TypeInv, BlockInv, HoldSub
    PROVE  BlockInv'
<1> USE DEF BlockInv
<1>1. /\ UNCHANGED <<northls, live, threads, i>> /\ at' = 1 /\ j' = j + 1
      /\ held' = held \union {<<i, j>>} /\ pc = "south"
      /\ pc' \in {"south", "corrupt"}
      /\ MakingObject /\ at > Len(Steps(Current))
  BY DEF HoldSub, Store
<1>2. /\ North' = North
      /\ \A d : South(d)' = South(d) /\ Own(d)' = Own(d)
  BY <1>1, SameList
<1>3. j \in South(i) /\ j \in Nat /\ Current = <<i, j>>
      /\ Steps(Current) = Programs["opcua"]
  BY <1>1, MakingCases DEF TypeInv
<1>4. <<i, j, "this">> \in live
  <2>1. Allocates(Steps(Current), "this", Lists(northls[i]))
    BY <1>3, SubProgram DEF Programs
  <2>2. QED
    BY <1>1, <1>3, <2>1, Made
<1>5. \A s \in South(i) : s < j + 1 => s < j \/ s = j
  <2>1. South(i) \subseteq Nat
    BY DEF South
  <2>2. QED
    BY <1>3, <2>1
<1>6. GatewayInv'
  BY <1>1, <1>2, <1>4, <1>5 DEF GatewayInv
<1>7. CompleteInv'
  <2>1. \A d : Complete(d) => Complete(d)'
    BY <1>1, CompleteKept
  <2>2. QED
    BY <1>1, <1>2, <2>1 DEF CompleteInv
<1>8. LiveInv'
  BY <1>1, LiveKept
<1>9. MakingInv' /\ FreedInv' /\ StoppedInv' /\ ThreadInv'
  BY <1>1, NothingMade DEF FreedInv, StoppedInv, ThreadInv
<1>10. QED
  BY <1>6, <1>7, <1>8, <1>9

(* The list is at its end: every device is complete. *)
LEMMA DispatchBlocks ==
    ASSUME TypeInv, BlockInv, Dispatch \/ Terminate
    PROVE  BlockInv'
<1> USE DEF BlockInv
<1>1. /\ UNCHANGED <<northls, live, held, threads>>
      /\ pc' \in {"dispatch", "destroy"} /\ (pc' = "destroy" => i' = 1)
  BY DEF Dispatch, Terminate
<1>2. North' = North /\ \A d : Freed(d)' = Freed(d)
  BY <1>1, SameList
<1>3. \A d \in North : Complete(d)
  <2>1. CASE Dispatch
    <3>1. pc = "init" /\ i \notin North /\ i \in 1 .. Len(northls) + 1
          /\ Len(northls) \in Nat
      BY <2>1 DEF Dispatch, TypeInv, TypeOK, PlaceInv
    <3>2. \A d \in North : d < i
      BY <3>1 DEF North
    <3>3. QED
      BY <3>1, <3>2 DEF CompleteInv
  <2>2. CASE Terminate
    BY <2>2 DEF Terminate, CompleteInv
  <2>3. QED
    BY <2>1, <2>2
<1>4. CompleteInv'
  <2>1. \A d : Complete(d) => Complete(d)'
    BY <1>1, CompleteKept
  <2>2. QED
    BY <1>1, <1>2, <1>3, <2>1 DEF CompleteInv
<1>5. FreedInv' /\ ThreadInv'
  <2>1. \A d \in North : d >= 1 /\ ~ (d < 1)
    BY DEF North
  <2>2. threads \subseteq North
    BY DEF TypeInv, TypeOK
  <2>3. QED
    BY <1>1, <1>2, <2>1, <2>2 DEF FreedInv, ThreadInv
<1>6. MakingInv'
  BY <1>1 DEF MakingInv, MakingObject, Making
<1>7. GatewayInv' /\ StoppedInv' /\ LiveInv'
  BY <1>1, LiveKept DEF GatewayInv, StoppedInv
<1>8. QED
  BY <1>4, <1>5, <1>6, <1>7

(* zhbox_destory takes no block of another device. *)
LEMMA FreeBlocks ==
    ASSUME TypeInv, BlockInv, Free
    PROVE  BlockInv'
<1> USE DEF BlockInv
<1>1. /\ UNCHANGED <<northls, pc, held, threads>> /\ pc = "destroy"
      /\ i \in North /\ i \notin threads /\ i' = i + 1
      /\ live' = live \ Freed(i)
  BY DEF Free
<1>2. North' = North /\ \A d : Freed(d)' = Freed(d)
  BY <1>1, SameList
<1>3. \A d \in North : d >= i + 1 => d >= i /\ d # i
  BY <1>1 DEF North
<1>4. \A d \in North : d < i + 1 => d < i \/ d = i
  BY <1>1 DEF North
<1>5. CompleteInv'
  <2> SUFFICES ASSUME NEW d \in North, d >= i + 1
               PROVE  Complete(d)'
    BY <1>1, <1>2 DEF CompleteInv
  <2>1. d # i /\ Complete(d)
    BY <1>1, <1>3 DEF CompleteInv
  <2>2. Freed(d) \cap Freed(i) = {}
    BY <2>1, FreedOf
  <2>3. Freed(d) \subseteq live' /\ <<d, 0>> \in held'
    BY <1>1, <2>1, <2>2 DEF Complete
  <2>4. QED
    BY <1>2, <2>3 DEF Complete
<1>6. FreedInv'
  <2> SUFFICES ASSUME NEW d \in North, d < i + 1
               PROVE  Freed(d) \cap live' = {}
    BY <1>1, <1>2 DEF FreedInv
  <2>1. CASE d = i
    BY <1>1, <2>1
  <2>2. CASE d < i
    BY <1>1, <2>2 DEF FreedInv
  <2>3. QED
    BY <1>4, <2>1, <2>2
<1>7. ThreadInv'
  <2>1. threads \subseteq North
    BY DEF TypeInv, TypeOK
  <2>2. \A d \in threads : d >= i + 1
    <3> SUFFICES ASSUME NEW d \in threads
                 PROVE  d >= i + 1
      OBVIOUS
    <3>1. d >= i /\ d # i /\ d \in Nat /\ i \in Nat
      BY <1>1, <2>1 DEF ThreadInv, North
    <3>2. QED
      BY <3>1
  <2>3. QED
    BY <1>1, <2>2 DEF ThreadInv
<1>8. MakingInv' /\ GatewayInv' /\ StoppedInv'
  BY <1>1 DEF MakingInv, MakingObject, Making, GatewayInv, StoppedInv
<1>9. LiveInv'
  BY <1>1, LiveKept
<1>10. QED
  BY <1>5, <1>6, <1>7, <1>8, <1>9

(* Behind the last device only what is left over remains. *)
LEMMA StopBlocks ==
    ASSUME TypeInv, BlockInv, Stop
    PROVE  BlockInv'
<1> USE DEF BlockInv
<1>1. /\ UNCHANGED <<northls, threads>> /\ pc = "destroy"
      /\ pc' \in {"stopped", "corrupt"} /\ i \notin North
      /\ live' = live \ (NorthArray \union {Config})
  BY DEF Stop
<1>2. \A d \in North : d < i /\ ~ (d >= i)
  <2>1. i \in 1 .. Len(northls) + 1 /\ Len(northls) \in Nat
    BY DEF TypeInv, TypeOK, PlaceInv
  <2>2. QED
    BY <1>1, <2>1 DEF North
<1>3. ASSUME NEW b \in live'
      PROVE  Leftover(b)
  <2>1. b \in live /\ b \notin {Config} \union NorthArray
    BY <1>1
  <2>2. ~ \E d \in North : b \in Freed(d)
    BY <1>1, <1>2, <2>1 DEF FreedInv
  <2>3. QED
    BY <2>1, <2>2 DEF LiveInv
<1>4. StoppedInv'
  BY <1>3 DEF StoppedInv, Leftover
<1>5. ThreadInv'
  <2>1. threads \subseteq North
    BY DEF TypeInv, TypeOK
  <2>2. threads = {}
    BY <1>1, <1>2, <2>1 DEF ThreadInv
  <2>3. QED
    BY <1>1, <2>2 DEF ThreadInv
<1>6. MakingInv' /\ GatewayInv' /\ CompleteInv' /\ FreedInv'
  BY <1>1 DEF MakingInv, MakingObject, Making, GatewayInv, CompleteInv, FreedInv
<1>7. LiveInv'
  BY <1>1, LiveKept
<1>8. QED
  BY <1>4, <1>5, <1>6, <1>7

LEMMA OtherBlocks ==
    ASSUME TypeInv, BlockInv,
           \/ ReadConfig \/ ConfigFails \/ UnknownType \/ NoReturn
           \/ SkipStep \/ InitFails
           \/ (\E d \in North : StartLoop(d))
           \/ UNCHANGED vars
    PROVE  BlockInv'
<1> USE DEF BlockInv
<1>1. CASE ReadConfig
  <2>1. /\ UNCHANGED <<northls, i, at, held, threads>> /\ pc = "config"
        /\ pc' = "init" /\ live' = live \union NorthArray /\ i = 1 /\ at = 1
    BY <1>1 DEF ReadConfig, TypeInv, PlaceInv
  <2>2. North' = North /\ \A d \in North : ~ (d < 1)
    BY <2>1, SameList DEF North
  <2>3. MakingInv' /\ LiveInv'
    BY <2>1, NothingMade, LiveKept
  <2>4. QED
    BY <2>1, <2>2, <2>3
       DEF GatewayInv, CompleteInv, FreedInv, StoppedInv, ThreadInv
<1>2. CASE ConfigFails \/ UnknownType \/ NoReturn \/ InitFails
  <2>1. /\ UNCHANGED <<northls, held, threads>> /\ pc \in {"config", "init", "south"}
        /\ pc' \in {"failed", "corrupt"} /\ live' \subseteq live
    BY <1>2 DEF ConfigFails, UnknownType, NoReturn, InitFails, Fail,
                MakingObject, Making
  <2>2. MakingInv' /\ LiveInv'
    BY <2>1, LiveKept DEF MakingInv, MakingObject, Making
  <2>3. QED
    BY <2>1, <2>2 DEF GatewayInv, CompleteInv, FreedInv, StoppedInv, ThreadInv
<1>3. CASE SkipStep
  <2>1. /\ UNCHANGED <<northls, pc, i, j, held, live, threads>>
        /\ at' = at + 1 /\ MakingObject /\ ~ Taken(Steps(Current)[at])
    BY <1>3 DEF SkipStep
  <2>2. Steps(Current)' = Steps(Current) /\ Current' = Current
        /\ at \in 1 .. Len(Steps(Current)) + 1 /\ Len(Steps(Current)) \in Nat
    BY <2>1, CurrentTyped DEF Steps, Current, TypeInv, TypeOK
  <2>3. \A n \in 1 .. at : n = at \/ n \in 1 .. at - 1
    BY <2>2
  <2>4. MakingInv'
    BY <2>1, <2>2, <2>3 DEF MakingInv, Taken
  <2>5. North' = North /\ \A d : /\ South(d)' = South(d) /\ Own(d)' = Own(d)
                                /\ Freed(d)' = Freed(d)
    BY <2>1, SameList
  <2>6. \A d : Complete(d) => Complete(d)'
    BY <2>1, CompleteKept
  <2>7. LiveInv'
    BY <2>1, LiveKept
  <2>8. QED
    BY <2>1, <2>4, <2>5, <2>6, <2>7
       DEF GatewayInv, CompleteInv, FreedInv, StoppedInv, ThreadInv
<1>4. CASE \/ UNCHANGED vars
           \/ \E d \in North : StartLoop(d)
  <2>1. UNCHANGED <<northls, pc, i, j, at, held, live>>
    BY <1>4 DEF vars, StartLoop
  <2>2. North' = North /\ \A d : /\ South(d)' = South(d) /\ Own(d)' = Own(d)
                                /\ Freed(d)' = Freed(d)
    BY <2>1, SameList
  <2>3. MakingInv'
    BY <2>1 DEF MakingInv, MakingObject, Making, Current, Steps, Taken, South, North
  <2>4. \A d : Complete(d) => Complete(d)'
    BY <2>1, CompleteKept
  <2>5. LiveInv'
    BY <2>1, LiveKept
  <2>6. ThreadInv'
    BY <1>4, <2>1 DEF ThreadInv, StartLoop, vars
  <2>7. QED
    BY <2>1, <2>2, <2>3, <2>4, <2>5, <2>6
       DEF GatewayInv, CompleteInv, FreedInv, StoppedInv
<1>5. QED
  BY <1>1, <1>2, <1>3, <1>4

(* Which blocks are allocated, at every place of main, for any list.       *)
THEOREM BlockInvariant == Spec => [](TypeInv /\ BlockInv)
<1>1. TypeInv /\ BlockInv /\ [Next]_vars => (TypeInv /\ BlockInv)'
  <2>1. TypeInv /\ BlockInv /\ [Next]_vars => TypeInv'
    BY InitStepType, StoreType, OtherType DEF Next
  <2>2. TypeInv /\ BlockInv /\ [Next]_vars => BlockInv'
    BY InitStepBlocks, StoreBlocks, EnterSouthBlocks, HoldSubBlocks,
       DispatchBlocks, FreeBlocks, StopBlocks, OtherBlocks DEF Next
  <2>3. QED
    BY <2>1, <2>2
<1>2. QED
  BY InitTypeInv, InitBlockInv, <1>1, PTL DEF Spec

(* A loop thread, which ends only when its device is freed, never runs on  *)
(* a device or a subdevice that has not been allocated or is freed.        *)
THEOREM LoopsOnLiveObjects == Spec => []ThreadsOnLive
<1>1. TypeInv /\ BlockInv => ThreadsOnLive
  <2> SUFFICES ASSUME TypeInv, BlockInv, NEW d \in threads
               PROVE  /\ <<d, 0, "this">> \in live
                      /\ \A s \in South(d) : <<d, s, "this">> \in live
    BY DEF ThreadsOnLive
  <2>1. d \in North
    BY DEF TypeInv, TypeOK
  <2>2. Complete(d)
    BY <2>1 DEF BlockInv, ThreadInv, CompleteInv
  <2>3. QED
    BY <2>2 DEF Complete, Freed, Own
<1>2. QED
  BY BlockInvariant, <1>1, PTL

(* zhbox_destory finds every device that it has yet to free complete, in   *)
(* its slot, and leaves nothing behind but the blocks that no *_free knows. *)
THEOREM DestroysAll == Spec => []DestroyComplete
<1>1. TypeInv /\ BlockInv => DestroyComplete
  <2> SUFFICES ASSUME TypeInv, BlockInv
               PROVE  DestroyComplete
    OBVIOUS
  <2>1. ASSUME pc = "destroy", NEW d \in i .. Len(northls)
        PROVE  <<d, 0>> \in held /\ Freed(d) \subseteq live
    <3>1. d \in North /\ d >= i
      BY DEF TypeInv, TypeOK, PlaceInv, North
    <3>2. Complete(d)
      BY <2>1, <3>1 DEF BlockInv, CompleteInv
    <3>3. QED
      BY <3>2 DEF Complete
  <2>2. ASSUME pc = "stopped", NEW b \in live
        PROVE  \/ b[3] \in {"lasttime", "interval"}
               \/ b[2] # 0 /\ b[3] \in {"clientid", "client"}
    BY <2>2 DEF BlockInv, StoppedInv, Leftover
  <2>3. QED
    BY <2>1, <2>2 DEF DestroyComplete
<1>2. QED
  BY BlockInvariant, <1>1, PTL

-----------------------------------------------------------------------------
(* Members. *)

(* A north device of a class that is made, or a subdevice, with the        *)
(* members that all its steps leave written.                               *)
Full(o) ==
    /\ o[2] = 0 => northls[o[1]].type \in {"direct", "alidirect", "aligateway"}
    /\ \A m : IsWritten(Steps(o), Lists(northls[o[1]]), Len(Steps(o)), m) =>
                  m \in fields[o]

(* What was made before the object in work. *)
Before(o) == o[1] < i \/ (pc = "south" /\ o[1] = i /\ o[2] < j)

FieldInv ==
    /\ MakingObject =>
           \A m : IsWritten(Steps(Current), Lists(northls[i]), at - 1, m) =>
                     m \in fields[Current]
    /\ pc \in {"init", "south"} => \A o \in Objects : Before(o) => Full(o)
    /\ pc = "dispatch" => \A o \in Objects : Full(o)

(* A member is written by the last step, or was before and is left alone.  *)
LEMMA WrittenStep ==
    ASSUME NEW program, NEW lists, NEW n \in Nat \ {0}, NEW m,
           IsWritten(program, lists, n, m)
    PROVE  \/ program[n].needs \subseteq lists /\ m \in program[n].set
           \/ /\ IsWritten(program, lists, n - 1, m)
              /\ program[n].needs \subseteq lists =>
                     \A w \in program[n].set : w[1] = m[1] => w = m
<1>1. PICK k \in 1 .. n :
          /\ program[k].needs \subseteq lists
          /\ m \in program[k].set
          /\ \A l \in k + 1 .. n :
                 program[l].needs \subseteq lists =>
                     \A w \in program[l].set : w[1] = m[1] => w = m
  BY DEF IsWritten
<1>2. CASE k = n
  BY <1>1, <1>2
<1>3. CASE k # n
  <2>1. k \in 1 .. n - 1 /\ n \in k + 1 .. n
    BY <1>3
  <2>2. \A l \in k + 1 .. n - 1 : l \in k + 1 .. n
    OBVIOUS
  <2>3. IsWritten(program, lists, n - 1, m)
    BY <1>1, <2>1, <2>2 DEF IsWritten
  <2>4. QED
    BY <1>1, <2>1, <2>3
<1>4. QED
  BY <1>2, <1>3

LEMMA NothingWritten ==
    ASSUME NEW program, NEW lists, NEW m
    PROVE  ~ IsWritten(program, lists, 0, m)
  BY DEF IsWritten

LEMMA FullKept ==
    ASSUME UNCHANGED northls, NEW o, Full(o), fields'[o] = fields[o]
    PROVE  Full(o)'
<1>1. Steps(o)' = Steps(o)
  BY DEF Steps
<1>2. QED
  BY <1>1 DEF Full

(* What a program leaves written is found in the object that it made.      *)
LEMMA FullLeaves ==
    ASSUME NEW o, Full(o), NEW uses, Leaves(Steps(o), uses)
    PROVE  uses \subseteq fields[o]
<1> SUFFICES ASSUME NEW m \in uses
             PROVE  m \in fields[o]
  OBVIOUS
<1>1. Lists(northls[o[1]]) \in SUBSET {"tasksls", "southls"}
  BY DEF Lists
<1>2. IsWritten(Steps(o), Lists(northls[o[1]]), Len(Steps(o)), m)
  BY <1>1 DEF Leaves
<1>3. QED
  BY <1>2 DEF Full

LEMMA ObjectTyped ==
    ASSUME PlaceInv, NEW o \in Objects
    PROVE  /\ o[1] \in North /\ o[1] \in Nat \ {0} /\ o[2] \in Nat
           /\ o = <<o[1], o[2]>>
           /\ o[2] = 0 \/ (o[2] > 0 /\ o[2] \in South(o[1]))
<1>1. CASE o \in {<<d, 0>> : d \in North}
  BY <1>1 DEF North
<1>2. CASE o \in Subdevices
  <2>1. PICK d \in North : o \in {d} \X South(d)
    BY <1>2 DEF Subdevices
  <2>2. South(d) \subseteq Nat \ {0}
    BY DEF South
  <2>3. QED
    BY <2>1, <2>2 DEF North
<1>3. QED
  BY <1>1, <1>2 DEF Objects

(* The object in work is full when its steps are taken. *)
LEMMA MadeFull ==
    ASSUME TypeInv, FieldInv, MakingObject, at > Len(Steps(Current))
    PROVE  Full(Current)
<1>1. at - 1 = Len(Steps(Current))
  BY CurrentTyped DEF TypeInv, TypeOK
<1>2. \A m : IsWritten(Steps(Current), Lists(northls[i]), Len(Steps(Current)), m) =>
                m \in fields[Current]
  BY <1>1 DEF FieldInv
<1>3. Current[1] = i /\ (Current[2] = 0 => northls[i].type \in
                             {"direct", "alidirect", "aligateway"})
  BY MakingCases DEF TypeInv, Classes
<1>4. QED
  BY <1>2, <1>3 DEF Full

(* A step writes over the members of the object in work alone. *)
LEMMA InitStepFields ==
    ASSUME TypeInv, FieldInv, InitStep
    PROVE  FieldInv'
<1> DEFINE step == Steps(Current)[at]
           new == Overwrite(fields[Current], step.set)
           lists == Lists(northls[i])
<1>1. /\ UNCHANGED <<northls, pc, i, j>> /\ at' = at + 1
      /\ pc \in {"init", "south"} /\ MakingObject /\ Taken(step)
      /\ fields' = [fields EXCEPT ![Current] = new]
  BY DEF InitStep, MakingObject, Making
<1>2. /\ Steps(Current)' = Steps(Current) /\ Current' = Current
      /\ at \in Nat \ {0} /\ Current \in Objects /\ Objects' = Objects
      /\ lists' = lists
  <2>1. Steps(Current)' = Steps(Current) /\ Current' = Current /\ lists' = lists
    BY <1>1 DEF Steps, Current
  <2>2. Objects' = Objects
    BY <1>1, SameList
  <2>3. at \in Nat \ {0}
    BY <1>1, CurrentTyped DEF TypeInv, TypeOK
  <2>4. Current \in Objects
    BY <1>1, CurrentTyped DEF TypeInv
  <2>5. QED
    BY <2>1, <2>2, <2>3, <2>4
<1>3. DOMAIN fields = Objects
  BY DEF TypeInv, TypeOK
<1>4. fields'[Current] = new /\ \A o \in Objects : o # Current => fields'[o] = fields[o]
  BY <1>1, <1>2, <1>3
<1>5. ASSUME NEW m, IsWritten(Steps(Current), lists, at, m)
      PROVE  m \in new
  <2>1. step.needs \subseteq lists
    BY <1>1 DEF Taken
  <2>2. CASE m \in step.set
    BY <2>2 DEF Overwrite
  <2>3. CASE m \notin step.set
    <3>1. /\ IsWritten(Steps(Current), lists, at - 1, m)
          /\ \A w \in step.set : w[1] = m[1] => w = m
      BY <1>2, <1>5, <2>1, <2>3, WrittenStep
    <3>2. m \in fields[Current]
      BY <1>1, <3>1 DEF FieldInv
    <3>3. \A w \in step.set : w[1] # m[1]
      BY <2>3, <3>1
    <3>4. QED
      BY <3>2, <3>3 DEF Overwrite
  <2>4. QED
    BY <2>2, <2>3
<1>6. \A m : IsWritten(Steps(Current)', lists', at' - 1, m) => m \in fields'[Current']
  BY <1>1, <1>2, <1>4, <1>5
<1>7. ASSUME NEW o \in Objects, Before(o)
      PROVE  Full(o)'
  <2>1. o # Current
    <3>1. /\ Current[1] = i /\ i \in Nat /\ j \in Nat
          /\ pc = "south" => Current[2] = j
      BY <1>1, MakingCases DEF TypeInv, TypeOK, PlaceInv
    <3>2. o[1] \in Nat /\ o[2] \in Nat
      BY ObjectTyped DEF TypeInv
    <3>3. QED
      BY <1>7, <3>1, <3>2 DEF Before
  <2>2. Full(o)
    BY <1>1, <1>7 DEF FieldInv
  <2>3. QED
    BY <1>1, <1>4, <2>1, <2>2, FullKept
<1>8. QED
  BY <1>1, <1>2, <1>6, <1>7 DEF FieldInv, Before

(* What is stored, or has its subdevices made next, is full. *)
LEMMA StoreFields ==
    ASSUME TypeInv, FieldInv,
           HoldDevice \/ HoldSub \/ HoldGateway \/ EnterSouth
    PROVE  FieldInv'
<1>1. /\ UNCHANGED <<northls, fields>> /\ at' = 1
      /\ pc \in {"init", "south"} /\ pc' \in {"init", "south", "corrupt"}
      /\ Objects' = Objects /\ i \in Nat /\ j \in Nat \ {0}
  BY SameList DEF HoldDevice, HoldSub, HoldGateway, EnterSouth, Store,
                  MakingObject, Making, TypeInv, TypeOK, PlaceInv
<1>2. ASSUME NEW o \in Objects, pc' \in {"init", "south"}, Before(o)'
      PROVE  Full(o)
  <2>1. /\ o[1] \in Nat /\ o[2] \in Nat /\ o = <<o[1], o[2]>>
        /\ o[2] = 0 \/ (o[2] > 0 /\ o[2] \in South(o[1]))
    BY ObjectTyped DEF TypeInv
  <2>2. Before(o) => Full(o)
    BY <1>1 DEF FieldInv
  <2>3. CASE HoldDevice
    <3>1. /\ MakingObject /\ at > Len(Steps(Current)) /\ pc = "init"
          /\ i' = i + 1 /\ pc' # "south" /\ northls[i].type # "aligateway"
      BY <2>3 DEF HoldDevice, Store
    <3>2. o[1] < i \/ o[1] = i
      BY <1>1, <1>2, <2>1, <3>1 DEF Before
    <3>3. o[1] = i => o = Current
      BY <2>1, <3>1 DEF South, Current
    <3>4. QED
      BY <2>2, <3>1, <3>2, <3>3, MadeFull DEF Before
  <2>4. CASE EnterSouth
    <3>1. /\ MakingObject /\ at > Len(Steps(Current)) /\ pc = "init"
          /\ i' = i /\ j' = 1
      BY <2>4 DEF EnterSouth
    <3>2. o[1] < i \/ (o[1] = i /\ o[2] < 1)
      BY <1>2, <3>1 DEF Before
    <3>3. o[1] = i /\ o[2] < 1 => o = Current
      BY <2>1, <3>1 DEF Current
    <3>4. QED
      BY <2>2, <3>1, <3>2, <3>3, MadeFull DEF Before
  <2>5. CASE HoldSub
    <3>1. /\ MakingObject /\ at > Len(Steps(Current)) /\ pc = "south"
          /\ i' = i /\ j' = j + 1
      BY <2>5 DEF HoldSub
    <3>2. o[1] < i \/ (o[1] = i /\ o[2] < j) \/ (o[1] = i /\ o[2] = j)
      BY <1>1, <1>2, <2>1, <3>1 DEF Before
    <3>3. o[1] = i /\ o[2] = j => o = Current
      BY <2>1, <3>1 DEF Current
    <3>4. QED
      BY <2>2, <3>1, <3>2, <3>3, MadeFull DEF Before
  <2>6. CASE HoldGateway
    <3>1. /\ pc = "south" /\ j \notin South(i) /\ i' = i + 1 /\ pc' # "south"
          /\ i \in North /\ northls[i].type = "aligateway"
          /\ j \in 1 .. Len(northls[i].south) + 1
      BY <2>6 DEF HoldGateway, Store, TypeInv, PlaceInv
    <3>2. Len(northls[i].south) \in Nat
      BY <3>1, DeviceTyped DEF TypeInv, PlaceInv, North
    <3>3. \A s \in South(i) : s < j
      BY <3>1, <3>2 DEF South
    <3>4. o[1] < i \/ o[1] = i
      BY <1>1, <1>2, <2>1, <3>1 DEF Before
    <3>5. o[1] = i => o[2] < j
      BY <1>1, <2>1, <3>3
    <3>6. QED
      BY <2>2, <3>1, <3>4, <3>5 DEF Before
  <2>7. QED
    BY <2>3, <2>4, <2>5, <2>6
<1>3. ASSUME NEW o \in Objects, pc' \in {"init", "south"}, Before(o)'
      PROVE  Full(o)'
  BY <1>1, <1>2, <1>3, FullKept
<1>4. \A m : ~ IsWritten(Steps(Current)', Lists(northls[i])', 0, m)
  BY NothingWritten
<1>5. QED
  BY <1>1, <1>3, <1>4 DEF FieldInv

LEMMA OtherFields ==
    ASSUME TypeInv, FieldInv,
           \/ ReadConfig \/ ConfigFails \/ UnknownType \/ NoReturn
           \/ SkipStep \/ InitFails \/ Dispatch
           \/ (\E d \in North : StartLoop(d))
           \/ Terminate \/ Free \/ Stop
           \/ UNCHANGED vars
    PROVE  FieldInv'
<1>1. UNCHANGED <<northls, fields>>
  BY DEF ReadConfig, ConfigFails, UnknownType, NoReturn, SkipStep,
         InitFails, Fail, Dispatch, StartLoop, Terminate, Free, Stop, vars
<1>2. Objects' = Objects /\ \A o : Full(o) => Full(o)'
  BY <1>1, SameList, FullKept
<1>3. CASE ReadConfig
  <2>1. pc' = "init" /\ i' = 1 /\ at' = 1
    BY <1>3 DEF ReadConfig, TypeInv, PlaceInv
  <2>2. \A o \in Objects : ~ (o[1] < 1)
    BY ObjectTyped DEF TypeInv
  <2>3. \A m : ~ IsWritten(Steps(Current)', Lists(northls[i])', 0, m)
    BY NothingWritten
  <2>4. QED
    BY <1>2, <2>1, <2>2, <2>3 DEF FieldInv, Before
<1>4. CASE SkipStep
  <2>1. /\ UNCHANGED <<northls, pc, i, j, fields>> /\ at' = at + 1
        /\ MakingObject /\ ~ Taken(Steps(Current)[at])
    BY <1>4 DEF SkipStep
  <2>2. Steps(Current)' = Steps(Current) /\ Current' = Current
        /\ at \in Nat \ {0} /\ Lists(northls[i])' = Lists(northls[i])
    BY <2>1, CurrentTyped DEF Steps, Current, TypeInv, TypeOK
  <2>3. \A m : IsWritten(Steps(Current), Lists(northls[i]), at, m) =>
                  IsWritten(Steps(Current), Lists(northls[i]), at - 1, m)
    BY <2>1, <2>2, WrittenStep DEF Taken
  <2>4. \A m : IsWritten(Steps(Current)', Lists(northls[i])', at' - 1, m) =>
                  m \in fields'[Current']
    BY <2>1, <2>2, <2>3 DEF FieldInv
  <2>5. \A o : Before(o)' = Before(o)
    BY <2>1 DEF Before
  <2>6. QED
    BY <1>2, <2>1, <2>4, <2>5 DEF FieldInv
<1>5. CASE Dispatch
  <2>1. pc = "init" /\ i \notin North /\ i \in 1 .. Len(northls) + 1
        /\ pc' \in {"dispatch", "destroy"} /\ Len(northls) \in Nat
    BY <1>5 DEF Dispatch, TypeInv, TypeOK, PlaceInv
  <2>2. \A o \in Objects : o[1] < i
    BY <2>1, ObjectTyped DEF North, TypeInv
  <2>3. \A o \in Objects : Full(o)
    BY <2>1, <2>2 DEF FieldInv, Before
  <2>4. ~ MakingObject'
    BY <2>1 DEF MakingObject, Making
  <2>5. QED
    BY <1>2, <2>1, <2>3, <2>4 DEF FieldInv
<1>6. CASE \/ UNCHANGED vars
           \/ \E d \in North : StartLoop(d)
  <2>1. UNCHANGED <<northls, pc, i, j, at, fields>>
    BY <1>6 DEF vars, StartLoop
  <2>2. /\ MakingObject' = MakingObject /\ Steps(Current)' = Steps(Current)
        /\ Current' = Current /\ \A o : Before(o)' = Before(o)
    BY <2>1 DEF MakingObject, Making, Steps, Current, Before, South, North
  <2>3. QED
    BY <1>2, <2>1, <2>2 DEF FieldInv
<1>7. CASE \/ ConfigFails \/ UnknownType \/ NoReturn \/ InitFails
           \/ Terminate \/ Free \/ Stop
  <2>1. pc' \in {"failed", "corrupt", "destroy", "stopped"}
    BY <1>7 DEF ConfigFails, UnknownType, NoReturn, InitFails, Fail,
                Terminate, Free, Stop
  <2>2. QED
    BY <2>1 DEF FieldInv, MakingObject, Making
<1>8. QED
  BY <1>3, <1>4, <1>5, <1>6, <1>7

(* As the tables are in order, which does not depend on the configuration, *)
(* no step of an *_init, no timer callback and no callback of libmosquitto *)
(* reads a member that neither a step nor the memset of *_new has written, *)
(* whichever devices there are and whichever lists are empty.              *)
THEOREM MembersDefined ==
    ASSUME TablesInOrder
    PROVE  Spec => []FieldsDefined
<1>1. Init => FieldInv
  BY DEF Init, FieldInv, MakingObject, Making
<1>2. TypeInv /\ FieldInv /\ [Next]_vars => (TypeInv /\ FieldInv)'
  BY InitStepType, StoreType, OtherType, InitStepFields, StoreFields,
     OtherFields DEF Next
<1>3. TypeInv /\ FieldInv => FieldsDefined
  <2> SUFFICES ASSUME TypeInv, FieldInv
               PROVE  FieldsDefined
    OBVIOUS
  <2>1. /\ DOMAIN Programs = Classes
        /\ DOMAIN NorthUses = {"direct", "alidirect", "aligateway"}
    BY DEF Programs, NorthUses, Classes
  <2>2. ASSUME NEW d
        PROVE  Lists(northls[d]) \in SUBSET {"tasksls", "southls"}
    BY DEF Lists
  <2>3. ASSUME MakingObject, at <= Len(Steps(Current)),
               Taken(Steps(Current)[at]), NEW m \in Steps(Current)[at].use
        PROVE  m \in fields[Current]
    <3>1. PICK class \in Classes : /\ Steps(Current) = Programs[class]
                                   /\ Len(Steps(Current)) \in Nat
      BY <2>3, CurrentTyped DEF TypeInv
    <3>2. at \in 1 .. Len(Steps(Current))
      BY <2>3, <3>1 DEF TypeInv, TypeOK
    <3>3. Ordered(Programs[class])
      BY <2>1, <3>1 DEF TablesInOrder
    <3>4. IsWritten(Steps(Current), Lists(northls[i]), at - 1, m)
      BY <2>2, <2>3, <3>1, <3>2, <3>3 DEF Ordered, Taken
    <3>5. QED
      BY <2>3, <3>4 DEF FieldInv
  <2>4. ASSUME pc = "dispatch", NEW o \in timers
        PROVE  IF o[2] = 0 THEN NorthUses[northls[o[1]].type] \subseteq fields[o]
               ELSE /\ AliSubUses \subseteq fields[o]
                    /\ AliSubNorthUses \subseteq fields[<<o[1], 0>>]
    <3>1. o \in Objects
      BY DEF TypeInv, TypeOK
    <3>2. /\ o[1] \in North /\ o[2] \in Nat
          /\ o[2] = 0 \/ (o[2] > 0 /\ o[2] \in South(o[1]))
      BY <3>1, ObjectTyped DEF TypeInv
    <3>3. \A p \in Objects : Full(p)
      BY <2>4 DEF FieldInv
    <3>4. CASE o[2] = 0
      <4>1. northls[o[1]].type \in DOMAIN NorthUses
        BY <2>1, <3>1, <3>3, <3>4 DEF Full
      <4>2. Leaves(Programs[northls[o[1]].type], NorthUses[northls[o[1]].type])
        BY <4>1 DEF TablesInOrder
      <4>3. Steps(o) = Programs[northls[o[1]].type]
        BY <3>4 DEF Steps
      <4>4. NorthUses[northls[o[1]].type] \subseteq fields[o]
        <5>1. Leaves(Steps(o), NorthUses[northls[o[1]].type])
          BY <4>2, <4>3
        <5>2. QED
          BY <3>1, <3>3, <5>1, FullLeaves
      <4>5. QED
        BY <3>4, <4>4
    <3>5. CASE o[2] # 0
      <4>1. o[2] > 0 /\ Steps(o) = Programs["opcua"]
        BY <3>2, <3>5 DEF Steps
      <4>2. AliSubUses \subseteq fields[o]
        <5>1. Leaves(Steps(o), AliSubUses)
          BY <4>1 DEF TablesInOrder
        <5>2. QED
          BY <3>1, <3>3, <5>1, FullLeaves
      <4> DEFINE north == <<o[1], 0>>
      <4>3. north \in Objects
        BY <3>2 DEF Objects
      <4>4. Steps(north) = Programs["aligateway"]
        BY <3>2, <3>5 DEF Steps, South
      <4> HIDE DEF north
      <4>5. Leaves(Steps(north), AliSubNorthUses)
        BY <4>4 DEF TablesInOrder
      <4>6. AliSubNorthUses \subseteq fields[north]
        BY <3>3, <4>3, <4>5, FullLeaves
      <4>7. QED
        BY <3>5, <4>2, <4>6 DEF north
    <3>6. QED
      BY <3>4, <3>5
  <2>5. QED
    BY <2>3, <2>4 DEF FieldsDefined
<1>4. QED
  BY InitTypeInv, <1>1, <1>2, <1>3, PTL DEF Spec
=============================================================================
