------------------------ MODULE ObjectClasses_proofs ------------------------
(***************************************************************************)
(* Proofs about the tables of ObjectClasses: what the steps of each class  *)
(* allocate, and which blocks a class has allocated when all its steps     *)
(* have been taken.                                                        *)
(***************************************************************************)
EXTENDS ObjectClasses, SequenceTheorems, TLAPS

Structs == {"obj", "mqtt", "opcua", "direct", "alidirect", "aligateway", "alisub"}

(* A step that allocates no more than blocks, and a southarray only for a  *)
(* "southls" that is not empty.                                            *)
StepsOf(blocks) ==
    {step \in [use : SUBSET AllMembers, set : SUBSET AllMembers,
               alloc : SUBSET blocks, fails : BOOLEAN, arm : BOOLEAN,
               needs : SUBSET {"tasksls", "southls"}] :
         "southarray" \in step.alloc => "southls" \in step.needs}

(* A block that the program allocates if lists are those that have entries. *)
Allocates(program, block, lists) ==
    \E n \in 1 .. Len(program) : /\ block \in program[n].alloc
                                 /\ program[n].needs \subseteq lists

TaskBlocks == {"lasttime", "interval"}
DirectBlocks == {"this", "mosq"} \union TaskBlocks
AliBlocks == DirectBlocks \union {"addr", "clientid", "usr", "pwd"}
SubBlocks == {"this", "clientid", "client"} \union TaskBlocks

-----------------------------------------------------------------------------
LEMMA AtTyped ==
    ASSUME NEW struct \in Structs, NEW attrs
    PROVE  At(struct, attrs) \subseteq AllMembers
<1>1. DOMAIN Layout = Structs
  BY DEF Layout, Structs
<1>2. QED
  BY <1>1 DEF At, AllMembers

(* The steps that allocate nothing. *)
LEMMA PlainSteps ==
    ASSUME NEW struct \in Structs, NEW attrs,
           NEW uses \in SUBSET AllMembers, NEW blocks
    PROVE  /\ [Step EXCEPT !.use = uses] \in StepsOf(blocks)
           /\ Set(struct, attrs) \in StepsOf(blocks)
           /\ [Set(struct, attrs) EXCEPT !.use = uses] \in StepsOf(blocks)
           /\ Read(struct, attrs) \in StepsOf(blocks)
           /\ [Attempt EXCEPT !.use = uses] \in StepsOf(blocks)
           /\ ArmStep(struct) \in StepsOf(blocks)
<1>1. At(struct, attrs) \subseteq AllMembers
      /\ At(struct, {"fsmtv", "fsmev"}) \subseteq AllMembers
  BY AtTyped
<1>2. [Step EXCEPT !.use = uses] \in StepsOf(blocks)
  BY DEF Step, StepsOf
<1>3. Set(struct, attrs) \in StepsOf(blocks)
  BY <1>1 DEF Step, Set, StepsOf
<1>4. [Set(struct, attrs) EXCEPT !.use = uses] \in StepsOf(blocks)
  BY <1>1 DEF Step, Set, StepsOf
<1>5. Read(struct, attrs) \in StepsOf(blocks)
  BY <1>1 DEF Step, Attempt, Read, StepsOf
<1>6. [Attempt EXCEPT !.use = uses] \in StepsOf(blocks)
  BY DEF Step, Attempt, StepsOf
<1>7. ArmStep(struct) \in StepsOf(blocks)
  BY <1>1 DEF Step, Set, ArmStep, StepsOf
<1>8. QED
  BY <1>2, <1>3, <1>4, <1>5, <1>6, <1>7

(* The steps that allocate a block. *)
LEMMA AllocatingSteps ==
    ASSUME NEW struct \in Structs, NEW attrs,
           NEW uses \in SUBSET AllMembers,
           NEW blocks, NEW block \in blocks,
           NEW needs \in SUBSET {"tasksls", "southls"},
           block = "southarray" => "southls" \in needs
    PROVE  /\ [Read(struct, attrs) EXCEPT !.alloc = {block}, !.needs = needs]
                  \in StepsOf(blocks)
           /\ block # "southarray" =>
                  /\ [Attempt EXCEPT !.use = uses, !.set = At(struct, attrs),
                                     !.alloc = {block}] \in StepsOf(blocks)
                  /\ [Attempt EXCEPT !.set = At(struct, attrs),
                                     !.alloc = {block}] \in StepsOf(blocks)
                  /\ [Read(struct, attrs) EXCEPT !.alloc = {block}]
                         \in StepsOf(blocks)
<1>1. At(struct, attrs) \subseteq AllMembers
  BY AtTyped
<1>2. [Read(struct, attrs) EXCEPT !.alloc = {block}, !.needs = needs]
          \in StepsOf(blocks)
  BY <1>1 DEF Step, Read, Attempt, StepsOf
<1>3. ASSUME block # "southarray"
      PROVE  [Attempt EXCEPT !.use = uses, !.set = At(struct, attrs),
                             !.alloc = {block}] \in StepsOf(blocks)
  BY <1>1, <1>3 DEF Step, Attempt, StepsOf
<1>4. ASSUME block # "southarray"
      PROVE  [Attempt EXCEPT !.set = At(struct, attrs),
                             !.alloc = {block}] \in StepsOf(blocks)
  BY <1>1, <1>4 DEF Step, Attempt, StepsOf
<1>5. ASSUME block # "southarray"
      PROVE  [Read(struct, attrs) EXCEPT !.alloc = {block}] \in StepsOf(blocks)
  BY <1>1, <1>5 DEF Step, Read, Attempt, StepsOf
<1>6. QED
  BY <1>2, <1>3, <1>4, <1>5

(* The same for the operators that the programs are written with. *)
LEMMA NamedSteps ==
    ASSUME NEW struct \in Structs, NEW vars, NEW keys,
           NEW blocks, NEW block \in blocks \ {"southarray"}
    PROVE  /\ ExpandUses(struct, vars, keys) \subseteq AllMembers
           /\ ExpandStep(struct, vars, keys) \in StepsOf(blocks)
           /\ Sign(struct) \in StepsOf(blocks)
           /\ Strdup(struct, block) \in StepsOf(blocks)
           /\ "this" \in blocks => New(struct) \in StepsOf(blocks)
<1>1. ExpandUses(struct, vars, keys) \subseteq AllMembers
  BY AtTyped DEF ExpandUses, Structs
<1>2. ExpandStep(struct, vars, keys) \in StepsOf(blocks)
  BY <1>1, PlainSteps DEF ExpandStep
<1>3. Sign(struct) \in StepsOf(blocks)
  BY AtTyped, PlainSteps DEF Sign
<1>4. Strdup(struct, block) \in StepsOf(blocks)
  BY AllocatingSteps, {} \in SUBSET AllMembers,
     {} \in SUBSET {"tasksls", "southls"} DEF Strdup
<1>5. "this" \in blocks => New(struct) \in StepsOf(blocks)
  BY AllocatingSteps, {} \in SUBSET AllMembers, "this" # "southarray",
     {} \in SUBSET {"tasksls", "southls"} DEF New
<1>6. QED
  BY <1>1, <1>2, <1>3, <1>4, <1>5

LEMMA AllocatesConcat ==
    ASSUME NEW blocks, NEW block, NEW lists,
           NEW p \in Seq(StepsOf(blocks)), NEW q \in Seq(StepsOf(blocks)),
           Allocates(p, block, lists) \/ Allocates(q, block, lists)
    PROVE  Allocates(p \o q, block, lists)
<1>1. /\ Len(p \o q) = Len(p) + Len(q) /\ Len(p) \in Nat /\ Len(q) \in Nat
      /\ \A n \in 1 .. Len(p) : (p \o q)[n] = p[n]
      /\ \A n \in 1 .. Len(q) : (p \o q)[Len(p) + n] = q[n]
  OBVIOUS
<1>2. CASE Allocates(p, block, lists)
  <2>1. PICK n \in 1 .. Len(p) : block \in p[n].alloc /\ p[n].needs \subseteq lists
    BY <1>2 DEF Allocates
  <2>2. n \in 1 .. Len(p \o q) /\ (p \o q)[n] = p[n]
    BY <1>1
  <2>3. QED
    BY <2>1, <2>2 DEF Allocates
<1>3. CASE Allocates(q, block, lists)
  <2>1. PICK n \in 1 .. Len(q) : block \in q[n].alloc /\ q[n].needs \subseteq lists
    BY <1>3 DEF Allocates
  <2>2. Len(p) + n \in 1 .. Len(p \o q) /\ (p \o q)[Len(p) + n] = q[n]
    BY <1>1
  <2>3. QED
    BY <2>1, <2>2 DEF Allocates
<1>4. QED
  BY <1>2, <1>3

-----------------------------------------------------------------------------
(* The programs. *)

LEMMA ListProgram ==
    ASSUME NEW struct \in Structs, NEW blocks, TaskBlocks \subseteq blocks
    PROVE  ListSteps(struct) \in Seq(StepsOf(blocks))
<1>1. {} \in SUBSET AllMembers /\ At(struct, {"cstasksls"}) \in SUBSET AllMembers
  BY AtTyped
<1>2. /\ Read(struct, {"cssubtopicsls"}) \in StepsOf(blocks)
      /\ Read(struct, {"cstasksls"}) \in StepsOf(blocks)
      /\ [Set(struct, {"taskstot"}) EXCEPT !.use = At(struct, {"cstasksls"})]
             \in StepsOf(blocks)
  BY <1>1, PlainSteps
<1>3. /\ "lasttime" \in blocks /\ "interval" \in blocks
      /\ "lasttime" # "southarray" /\ "interval" # "southarray"
      /\ {"tasksls"} \in SUBSET {"tasksls", "southls"}
  BY DEF TaskBlocks
<1>4. /\ [Read(struct, {"taskslasttimels"}) EXCEPT
             !.alloc = {"lasttime"}, !.needs = {"tasksls"}] \in StepsOf(blocks)
      /\ [Read(struct, {"tasksintervalls"}) EXCEPT
             !.alloc = {"interval"}, !.needs = {"tasksls"}] \in StepsOf(blocks)
  BY <1>1, <1>3, AllocatingSteps
<1>5. TasksInitSteps(struct) \in Seq(StepsOf(blocks))
  BY <1>2, <1>4 DEF TasksInitSteps
<1>6. <<Read(struct, {"cssubtopicsls"}), Read(struct, {"cstasksls"})>>
          \in Seq(StepsOf(blocks))
  BY <1>2
<1>7. QED
  BY <1>5, <1>6 DEF ListSteps

LEMMA FinalProgram ==
    ASSUME NEW struct \in Structs, NEW blocks, NEW lists,
           TaskBlocks \union {"mosq"} \subseteq blocks
    PROVE  /\ MqttFinalSteps(struct) \in Seq(StepsOf(blocks))
           /\ Allocates(MqttFinalSteps(struct), "mosq", lists)
<1> DEFINE head == <<MqttShowStep, MqttInitStep>>
           rest == ListSteps("mqtt") \o <<ArmStep(struct)>>
<1>1. "mqtt" \in Structs /\ "mosq" \in blocks \ {"southarray"}
  BY DEF Structs
<1>2. MqttShowStep \in StepsOf(blocks)
  BY <1>1, AtTyped, PlainSteps DEF MqttShowStep
<1>3. MqttInitStep \in StepsOf(blocks)
  BY <1>1, AtTyped, AllocatingSteps, {} \in SUBSET {"tasksls", "southls"}
     DEF MqttInitStep
<1>4. head \in Seq(StepsOf(blocks))
  BY <1>2, <1>3
<1>5. rest \in Seq(StepsOf(blocks))
  <2>1. ListSteps("mqtt") \in Seq(StepsOf(blocks))
    BY <1>1, ListProgram
  <2>2. ArmStep(struct) \in StepsOf(blocks)
    BY PlainSteps, {} \in SUBSET AllMembers
  <2>3. QED
    BY <2>1, <2>2
<1>6. Allocates(head, "mosq", lists)
  <2>1. Len(head) = 2 /\ head[2] = MqttInitStep
    OBVIOUS
  <2>2. MqttInitStep.alloc = {"mosq"} /\ MqttInitStep.needs = {}
    BY DEF MqttInitStep, Attempt, Step
  <2>3. QED
    BY <2>1, <2>2 DEF Allocates
<1>7. MqttFinalSteps(struct) = head \o rest
  <2>1. /\ head \in Seq(StepsOf(blocks)) /\ ListSteps("mqtt") \in Seq(StepsOf(blocks))
        /\ <<ArmStep(struct)>> \in Seq(StepsOf(blocks))
    <3>1. ArmStep(struct) \in StepsOf(blocks)
      BY PlainSteps, {} \in SUBSET AllMembers
    <3>2. QED
      BY <1>1, <1>4, <3>1, ListProgram
  <2>2. (head \o ListSteps("mqtt")) \o <<ArmStep(struct)>>
            = head \o (ListSteps("mqtt") \o <<ArmStep(struct)>>)
    BY <2>1, ConcatAssociative
  <2>3. QED
    BY <2>2 DEF MqttFinalSteps
<1> HIDE DEF head, rest
<1>8. QED
  BY <1>4, <1>5, <1>6, <1>7, AllocatesConcat

LEMMA AllocOf ==
    ASSUME NEW struct, NEW a
    PROVE  /\ Strdup(struct, a).alloc = {a} /\ Strdup(struct, a).needs = {}
           /\ New(struct).alloc = {"this"} /\ New(struct).needs = {}
  BY DEF Strdup, New, Attempt, Step

LEMMA DirectProgram ==
    /\ DirectSteps \in Seq(StepsOf(DirectBlocks))
    /\ \A lists : \A block \in {"this", "mosq"} : Allocates(DirectSteps, block, lists)
<1> DEFINE blocks == DirectBlocks
           head == <<New("direct"), Set("obj", {"objtypestr"}), MqttDefaultStep,
                     Set("direct", {"m_rcvhandle"}),
                     Read("direct", {"name", "addr", "port", "clean_session",
                                     "clientid", "usr", "pwd", "keepalive",
                                     "qos"})>>
<1>1. /\ "direct" \in Structs /\ "obj" \in Structs /\ "mqtt" \in Structs
      /\ "this" \in blocks \ {"southarray"} /\ {} \in SUBSET AllMembers
      /\ TaskBlocks \union {"mosq"} \subseteq blocks
  BY DEF Structs, DirectBlocks, TaskBlocks
<1> HIDE DEF blocks
<1>2. New("direct") \in StepsOf(blocks)
  BY <1>1, NamedSteps
<1>3. MqttDefaultStep \in StepsOf(blocks)
  BY <1>1, PlainSteps DEF MqttDefaultStep
<1>4. /\ Set("obj", {"objtypestr"}) \in StepsOf(blocks)
      /\ Set("direct", {"m_rcvhandle"}) \in StepsOf(blocks)
      /\ Read("direct", {"name", "addr", "port", "clean_session", "clientid",
                         "usr", "pwd", "keepalive", "qos"}) \in StepsOf(blocks)
  BY <1>1, PlainSteps
<1>5. head \in Seq(StepsOf(blocks))
  BY <1>2, <1>3, <1>4
<1>6. MqttFinalSteps("direct") \in Seq(StepsOf(blocks))
  BY <1>1, FinalProgram
<1>7. ASSUME NEW lists
      PROVE  Allocates(head, "this", lists)
  <2>1. Len(head) = 5 /\ head[1] = New("direct")
    OBVIOUS
  <2> HIDE DEF head
  <2>2. "this" \in head[1].alloc /\ head[1].needs \subseteq lists
    BY <2>1, AllocOf
  <2>3. QED
    BY <2>1, <2>2 DEF Allocates
<1>8. ASSUME NEW lists
      PROVE  Allocates(MqttFinalSteps("direct"), "mosq", lists)
  BY <1>1, FinalProgram
<1> HIDE DEF head
<1>9. DirectSteps = head \o MqttFinalSteps("direct")
  BY DEF DirectSteps, head
<1>10. DirectSteps \in Seq(StepsOf(blocks))
  BY <1>5, <1>6, <1>9
<1>11. ASSUME NEW lists, NEW block \in {"this", "mosq"}
       PROVE  Allocates(DirectSteps, block, lists)
  <2>1. Allocates(head, block, lists)
            \/ Allocates(MqttFinalSteps("direct"), block, lists)
    BY <1>7, <1>8
  <2>2. QED
    BY <1>5, <1>6, <1>9, <2>1, AllocatesConcat
<1>12. QED
  BY <1>10, <1>11 DEF blocks

LEMMA AliProgram ==
    ASSUME NEW struct \in {"alidirect", "aligateway"}, NEW blocks,
           AliBlocks \subseteq blocks
    PROVE  /\ AliSteps(struct) \in Seq(StepsOf(blocks))
           /\ \A lists : \A block \in {"this", "mosq", "addr", "clientid", "usr", "pwd"} :
                  Allocates(AliSteps(struct), block, lists)
<1> DEFINE E(keys) == ExpandStep("alidirect", AliDirectVars, keys)
           head == <<New(struct), Set("obj", {"objtypestr"}), MqttDefaultStep,
                     Set(struct, {"m_getvar", "m_rcvhandle"}),
                     Read(struct, {"name", "regionid", "deviceid", "productkey"}),
                     [Set(struct, {"devicename"}) EXCEPT !.use = At(struct, {"name"})],
                     Read(struct, {"devicesecret", "mode", "signmethod"}),
                     E({"ProductKey", "RegionId"}), Strdup(struct, "addr"),
                     Read(struct, {"port", "clean_session"}),
                     E({"DeviceId", "Mode", "SignMethod"}),
                     Strdup(struct, "clientid"),
                     E({"DeviceName", "ProductKey"}), Strdup(struct, "usr"),
                     [Set(struct, {"loginmillisecond"}) EXCEPT
                         !.use = At("obj", {"m_getmilliseconds"})],
                     E({"DeviceId", "DeviceName", "ProductKey"}),
                     Sign(struct), Strdup(struct, "pwd"),
                     Read(struct, {"keepalive", "qos"})>>
<1>1. /\ struct \in Structs /\ "obj" \in Structs /\ "mqtt" \in Structs
      /\ "alidirect" \in Structs
      /\ {"this", "addr", "clientid", "usr", "pwd"} \subseteq blocks \ {"southarray"}
      /\ {} \in SUBSET AllMembers
      /\ TaskBlocks \union {"mosq"} \subseteq blocks
  BY DEF Structs, AliBlocks, DirectBlocks
<1>2. New(struct) \in StepsOf(blocks) /\ Sign(struct) \in StepsOf(blocks)
  BY <1>1, NamedSteps
<1>3. \A a \in {"addr", "clientid", "usr", "pwd"} : Strdup(struct, a) \in StepsOf(blocks)
  BY <1>1, NamedSteps
<1>4. \A keys : E(keys) \in StepsOf(blocks)
  BY <1>1, NamedSteps
<1>5. MqttDefaultStep \in StepsOf(blocks)
  BY <1>1, PlainSteps DEF MqttDefaultStep
<1>6. \A attrs : Read(struct, attrs) \in StepsOf(blocks)
  BY <1>1, PlainSteps
<1>7. \A attrs : Set(struct, attrs) \in StepsOf(blocks)
                 /\ Set("obj", attrs) \in StepsOf(blocks)
  BY <1>1, PlainSteps
<1>8. /\ [Set(struct, {"devicename"}) EXCEPT !.use = At(struct, {"name"})]
             \in StepsOf(blocks)
      /\ [Set(struct, {"loginmillisecond"}) EXCEPT
             !.use = At("obj", {"m_getmilliseconds"})] \in StepsOf(blocks)
  BY <1>1, AtTyped, PlainSteps
<1> HIDE DEF E
<1>9. head \in Seq(StepsOf(blocks))
  BY <1>2, <1>3, <1>4, <1>5, <1>6, <1>7, <1>8
<1>10. MqttFinalSteps(struct) \in Seq(StepsOf(blocks))
  BY <1>1, FinalProgram
<1>11. ASSUME NEW lists, NEW block \in {"this", "addr", "clientid", "usr", "pwd"}
       PROVE  Allocates(head, block, lists)
  <2>1. /\ Len(head) = 19
        /\ head[1] = New(struct) /\ head[9] = Strdup(struct, "addr")
        /\ head[12] = Strdup(struct, "clientid")
        /\ head[14] = Strdup(struct, "usr") /\ head[18] = Strdup(struct, "pwd")
    OBVIOUS
  <2> HIDE DEF head
  <2>2. \E n \in 1 .. 19 : head[n].alloc = {block} /\ head[n].needs = {}
    BY <2>1, AllocOf
  <2>3. QED
    BY <2>1, <2>2 DEF Allocates
<1>12. ASSUME NEW lists
       PROVE  Allocates(MqttFinalSteps(struct), "mosq", lists)
  BY <1>1, FinalProgram
<1>13. AliSteps(struct) = head \o MqttFinalSteps(struct)
  BY DEF AliSteps, E
<1> HIDE DEF head
<1>14. AliSteps(struct) \in Seq(StepsOf(blocks))
  BY <1>9, <1>10, <1>13
<1>15. ASSUME NEW lists,
              NEW block \in {"this", "mosq", "addr", "clientid", "usr", "pwd"}
       PROVE  Allocates(AliSteps(struct), block, lists)
  <2>1. Allocates(head, block, lists)
            \/ Allocates(MqttFinalSteps(struct), block, lists)
    BY <1>11, <1>12
  <2>2. QED
    BY <1>9, <1>10, <1>13, <2>1, AllocatesConcat
<1>16. QED
  BY <1>14, <1>15

LEMMA GatewayProgram ==
    LET blocks == AliBlocks \union {"southarray"}
    IN  /\ GatewaySteps \in Seq(StepsOf(blocks))
        /\ \A lists : \A block \in {"this", "mosq", "addr", "clientid", "usr", "pwd"} :
               Allocates(GatewaySteps, block, lists)
        /\ \A lists : "southls" \in lists =>
               Allocates(GatewaySteps, "southarray", lists)
<1> DEFINE blocks == AliBlocks \union {"southarray"}
           array == [Read("aligateway", {"southarray"}) EXCEPT
                        !.alloc = {"southarray"}, !.needs = {"southls"}]
           tail == <<Read("aligateway", {"southlstot"}), array>>
<1>1. /\ "aligateway" \in Structs /\ "southarray" \in blocks
      /\ AliBlocks \subseteq blocks
      /\ {} \in SUBSET AllMembers /\ {"southls"} \in SUBSET {"tasksls", "southls"}
  BY DEF Structs
<1> HIDE DEF blocks
<1>2. AliSteps("aligateway") \in Seq(StepsOf(blocks))
  BY <1>1, AliProgram
<1>3. array \in StepsOf(blocks)
  BY <1>1, AllocatingSteps
<1>4. tail \in Seq(StepsOf(blocks))
  <2>1. Read("aligateway", {"southlstot"}) \in StepsOf(blocks)
    BY <1>1, PlainSteps
  <2> HIDE DEF array
  <2>2. QED
    BY <1>3, <2>1
<1>5. ASSUME NEW lists, "southls" \in lists
      PROVE  Allocates(tail, "southarray", lists)
  <2>1. Len(tail) = 2 /\ tail[2] = array
    OBVIOUS
  <2>2. array.alloc = {"southarray"} /\ array.needs = {"southls"}
    BY DEF Read, Attempt, Step
  <2> HIDE DEF array, tail
  <2>3. QED
    BY <1>5, <2>1, <2>2 DEF Allocates
<1>6. GatewaySteps = AliSteps("aligateway") \o tail
  BY DEF GatewaySteps
<1> HIDE DEF tail
<1>7. GatewaySteps \in Seq(StepsOf(blocks))
  BY <1>2, <1>4, <1>6
<1>8. ASSUME NEW lists,
             NEW block \in {"this", "mosq", "addr", "clientid", "usr", "pwd"}
      PROVE  Allocates(GatewaySteps, block, lists)
  <2>1. Allocates(AliSteps("aligateway"), block, lists)
    BY <1>1, AliProgram
  <2>2. QED
    BY <1>2, <1>4, <1>6, <2>1, AllocatesConcat
<1>9. ASSUME NEW lists, "southls" \in lists
      PROVE  Allocates(GatewaySteps, "southarray", lists)
  BY <1>2, <1>4, <1>5, <1>6, <1>9, AllocatesConcat
<1>10. QED
  BY <1>7, <1>8, <1>9 DEF blocks

LEMMA SubProgram ==
    /\ AliSubSteps \in Seq(StepsOf(SubBlocks))
    /\ \A lists : Allocates(AliSubSteps, "this", lists)
<1> DEFINE blocks == SubBlocks
           clientid == [Strdup("alisub", "clientid") EXCEPT
                           !.use = At("alisub", {"productkey", "devicename"})]
           client == [Read("opcua", {"client"}) EXCEPT !.alloc = {"client"}]
           head == <<New("alisub"), Set("obj", {"objtypestr", "objtype", "vnorthptr"}),
                     Read("alisub", {"name", "productkey"}),
                     [Set("alisub", {"devicename"}) EXCEPT
                         !.use = At("alisub", {"name"})],
                     Read("alisub", {"devicesecret", "signmethod"}),
                     clientid, Read("alisub", {"addr", "port"})>>
           middle == <<Set("alisub", {"m_getvar", "m_rcvhandle", "m_show"}),
                       AliSubShowStep>>
           last == <<ArmStep("alisub")>>
<1>1. /\ "alisub" \in Structs /\ "obj" \in Structs /\ "opcua" \in Structs
      /\ {"this", "clientid", "client"} \subseteq blocks \ {"southarray"}
      /\ TaskBlocks \subseteq blocks
      /\ {} \in SUBSET AllMembers /\ {} \in SUBSET {"tasksls", "southls"}
  BY DEF Structs, SubBlocks, TaskBlocks
<1> HIDE DEF blocks
<1>2. New("alisub") \in StepsOf(blocks)
  BY <1>1, NamedSteps
<1>3. \A attrs : /\ Set("alisub", attrs) \in StepsOf(blocks)
                 /\ Set("obj", attrs) \in StepsOf(blocks)
                 /\ Set("opcua", attrs) \in StepsOf(blocks)
                 /\ Read("alisub", attrs) \in StepsOf(blocks)
  BY <1>1, PlainSteps
<1>4. [Set("alisub", {"devicename"}) EXCEPT !.use = At("alisub", {"name"})]
          \in StepsOf(blocks)
  BY <1>1, AtTyped, PlainSteps
<1>5. clientid \in StepsOf(blocks)
  <2>1. At("alisub", {"productkey", "devicename"}) \subseteq AllMembers
        /\ At("alisub", {"clientid"}) \subseteq AllMembers
    BY <1>1, AtTyped
  <2>2. "clientid" \in blocks /\ "clientid" # "southarray"
    BY <1>1
  <2>3. QED
    BY <2>1, <2>2 DEF StepsOf, Strdup, Attempt, Step
<1>6. client \in StepsOf(blocks)
  BY <1>1, AllocatingSteps
<1>7. AliSubShowStep \in StepsOf(blocks)
  BY <1>1, AtTyped, PlainSteps DEF AliSubShowStep
<1>8. ArmStep("alisub") \in StepsOf(blocks)
  BY <1>1, PlainSteps
<1> HIDE DEF clientid, client
<1>9. head \in Seq(StepsOf(blocks)) /\ Len(head) = 7 /\ head[1] = New("alisub")
  BY <1>2, <1>3, <1>4, <1>5
<1>10. middle \in Seq(StepsOf(blocks)) /\ last \in Seq(StepsOf(blocks))
  BY <1>3, <1>7, <1>8
<1>11. OpcuaDefaultSteps \in Seq(StepsOf(blocks))
  BY <1>3, <1>6 DEF OpcuaDefaultSteps, client
<1>12. ListSteps("alisub") \in Seq(StepsOf(blocks))
  BY <1>1, ListProgram
<1>13. AliSubSteps = head \o OpcuaDefaultSteps \o middle \o ListSteps("alisub") \o last
  BY DEF AliSubSteps, clientid
<1>14. ASSUME NEW lists
       PROVE  Allocates(head, "this", lists)
  <2>1. "this" \in head[1].alloc /\ head[1].needs \subseteq lists
    BY <1>9, AllocOf
  <2> HIDE DEF head
  <2>2. 1 \in 1 .. Len(head)
    BY <1>9
  <2>3. QED
    BY <2>1, <2>2 DEF Allocates
<1> HIDE DEF head, middle, last
<1> DEFINE p == head \o OpcuaDefaultSteps
           q == p \o middle
           r == q \o ListSteps("alisub")
<1>15. p \in Seq(StepsOf(blocks)) /\ \A lists : Allocates(p, "this", lists)
  BY <1>9, <1>11, <1>14, AllocatesConcat
<1> HIDE DEF p
<1>16. q \in Seq(StepsOf(blocks)) /\ \A lists : Allocates(q, "this", lists)
  BY <1>10, <1>15, AllocatesConcat
<1> HIDE DEF q
<1>17. r \in Seq(StepsOf(blocks)) /\ \A lists : Allocates(r, "this", lists)
  BY <1>12, <1>16, AllocatesConcat
<1> HIDE DEF r
<1>18. AliSubSteps = r \o last
  BY <1>13 DEF p, q, r
<1>19. QED
  BY <1>10, <1>17, <1>18, AllocatesConcat DEF blocks
=============================================================================
