--------------------------- MODULE ObjectClasses ---------------------------
(***************************************************************************)
(* The classes of zhbox as tables: the layout of the struct behind each    *)
(* object, the variables its m_getvar knows, and what its *_new and *_init *)
(* do in which order.  A struct "inherits" by beginning with the members   *)
(* of another, and a method takes the object it is given for the struct it *)
(* knows: the tables keep which one that is.                               *)
(***************************************************************************)
EXTENDS Naturals, Sequences, SequencesExt, FiniteSetsExt

-----------------------------------------------------------------------------
(* Layouts: the members in order. *)

ObjAttributes ==
    <<"objtypestr", "objtype", "name", "vnorthptr", "m_getvar", "m_strexpan",
      "m_show", "m_getmilliseconds">>

TaskAttributes ==
    <<"cstasksls", "taskstot", "taskslasttimels", "tasksintervalls">>

MqttAttributes ==
    ObjAttributes \o TaskAttributes \o
    <<"addr", "port", "clientid", "clean_session", "usr", "pwd", "keepalive",
      "qos", "mosq", "state", "isconnected", "count", "fsmtv", "fsmev",
      "cssubtopicsls", "m_sub", "m_pub", "m_suball", "m_tasksrun",
      "m_rcvhandle", "m_onpub">>

OpcuaAttributes ==
    ObjAttributes \o TaskAttributes \o
    <<"addr", "port", "usr", "pwd", "client", "isconnected", "state", "fsmtv",
      "fsmev", "m_tasksrun", "m_rcvhandle">>

AliDevAttributes ==
    <<"productkey", "devicename", "devicesecret", "loginmillisecond">>

AliDirectAttributes ==
    MqttAttributes \o AliDevAttributes \o
    <<"regionid", "deviceid", "mode", "signmethod">>

(* Mutant: the southls comes before what the gateway shares with a direct  *)
(* device.                                                                 *)
AliGatewaySouthFirst ==
    MqttAttributes \o <<"southlstot", "southarray">> \o AliDevAttributes \o
    <<"regionid", "deviceid", "mode", "signmethod">>

AliGatewayAttributes ==
    MqttAttributes \o AliDevAttributes \o
    <<"regionid", "deviceid", "mode", "signmethod", "southlstot",
      "southarray">>

AliSubAttributes ==
    OpcuaAttributes \o AliDevAttributes \o
    <<"cssubtopicsls", "signmethod", "clientid", "sign">>

Layout ==
    [obj |-> ObjAttributes, mqtt |-> MqttAttributes, opcua |-> OpcuaAttributes,
     direct |-> MqttAttributes, alidirect |-> AliDirectAttributes,
     aligateway |-> AliGatewayAttributes, alisub |-> AliSubAttributes]

(* Where code that takes an object for a struct finds each member: objects *)
(* are written and read through more than one struct.                      *)
Members ==
    [struct \in DOMAIN Layout |->
        {<<n, Layout[struct][n]>> : n \in DOMAIN Layout[struct]}]

At(struct, attrs) == {m \in Members[struct] : m[2] \in attrs}

AllMembers == UNION {Members[struct] : struct \in DOMAIN Layout}

-----------------------------------------------------------------------------
(* The variables of a template in the order m_getvar compares them, with   *)
(* the member that each shows.  "timestamp" is the time alone.             *)

ObjVars ==
    <<<<"objtype", {"objtypestr"}>>, <<"name", {"name"}>>,
      <<"timestamp", {}>>, <<"milliseconds", {"m_getmilliseconds"}>>>>

MqttVars ==
    ObjVars \o
    <<<<"addr", {"addr"}>>, <<"port", {"port"}>>, <<"clientid", {"clientid"}>>,
      <<"usr", {"usr"}>>, <<"pwd", {"pwd"}>>, <<"count", {"count"}>>>>

OpcuaVars ==
    ObjVars \o
    <<<<"addr", {"addr"}>>, <<"port", {"port"}>>, <<"usr", {"usr"}>>,
      <<"pwd", {"pwd"}>>>>

AliDevVars ==
    ObjVars \o
    <<<<"ProductKey", {"productkey"}>>, <<"DeviceName", {"devicename"}>>,
      <<"DeviceSecret", {"devicesecret"}>>,
      <<"LoginMilliSecond", {"loginmillisecond"}>>>>

AliDirectVars ==
    MqttVars \o AliDevVars \o
    <<<<"RegionId", {"regionid"}>>, <<"DeviceId", {"deviceid"}>>,
      <<"Mode", {"mode"}>>, <<"SignMethod", {"signmethod"}>>>>

AliSubVars ==
    OpcuaVars \o AliDevVars \o
    <<<<"SignMethod", {"signmethod"}>>, <<"clientId", {"clientid"}>>,
      <<"sign", {"sign"}>>>>

(* strncmp(name, key, keylen): the first name that begins with the key, 0  *)
(* if none does.                                                           *)
FirstMatch(vars, key) ==
    LET matches == {n \in 1 .. Len(vars) : IsPrefix(key, vars[n][1])}
    IN  IF matches = {} THEN 0 ELSE Min(matches)

(* The members that the keys of a template lead to. *)
Shown(vars, keys) ==
    UNION {vars[FirstMatch(vars, key)][2] :
               key \in {k \in keys : FirstMatch(vars, k) # 0}}

-----------------------------------------------------------------------------
(* What *_new and *_init do, step by step.  A step reads the members in    *)
(* use, writes those in set, allocates the block named alloc, and may end  *)
(* the initialisation instead if it fails; arm says that it arms the       *)
(* timer.  It is taken if the lists it needs are not empty.                *)

BlockNames ==
    {"this", "mosq", "addr", "clientid", "usr", "pwd", "southarray", "client",
     "lasttime", "interval"}

Step ==
    [use |-> {}, set |-> {}, alloc |-> {}, fails |-> FALSE, arm |-> FALSE,
     needs |-> {}]

Attempt == [Step EXCEPT !.fails = TRUE]

Set(struct, attrs) == [Step EXCEPT !.set = At(struct, attrs)]

(* getsetstr, getsetint, getsetbool, and config_setting_lookup of a list:  *)
(* a missing setting makes *_init return -1.                               *)
Read(struct, attrs) == [Attempt EXCEPT !.set = At(struct, attrs)]

(* malloc and memset: the zeroes that are relied upon.  Nothing else ever  *)
(* writes the m_onpub that mqtt_cb_on_pub tests and calls.                 *)
New(struct) ==
    [Attempt EXCEPT
        !.set = At(struct, {"count", "sign", "southarray", "m_onpub",
                            "taskslasttimels", "tasksintervalls"}),
        !.alloc = {"this"}]

(* m_strexpan of an object whose m_getvar takes it for struct.  It never   *)
(* fails: the caller's "ret < 0" is never true.                            *)
ExpandUses(struct, vars, keys) ==
    At("obj", {"m_strexpan", "m_getvar"}) \union At(struct, Shown(vars, keys))

ExpandStep(struct, vars, keys) ==
    [Step EXCEPT !.use = ExpandUses(struct, vars, keys)]

Strdup(struct, a) ==
    [Attempt EXCEPT !.set = At(struct, {a}), !.alloc = {a}]

(* strcmp(signmethod, "hmacmd5") and HMAC. *)
Sign(struct) ==
    [Attempt EXCEPT !.use = At(struct, {"signmethod", "devicesecret"})]

ObjMethods == {"m_getvar", "m_strexpan", "m_show", "m_getmilliseconds"}

(* *_tasksinit: an empty list needs no times. *)
TasksInitSteps(struct) ==
    <<[Set(struct, {"taskstot"}) EXCEPT !.use = At(struct, {"cstasksls"})],
      [Read(struct, {"taskslasttimels"}) EXCEPT
          !.alloc = {"lasttime"}, !.needs = {"tasksls"}],
      [Read(struct, {"tasksintervalls"}) EXCEPT
          !.alloc = {"interval"}, !.needs = {"tasksls"}]>>

ListSteps(struct) ==
    <<Read(struct, {"cssubtopicsls"}), Read(struct, {"cstasksls"})>>
    \o TasksInitSteps(struct)

ArmStep(struct) ==
    [Set(struct, {"fsmtv", "fsmev"}) EXCEPT !.arm = TRUE]

MqttDefaultStep ==
    Set("mqtt", ObjMethods \union
                {"m_sub", "m_pub", "m_suball", "m_tasksrun", "state"})

MqttShowStep ==
    [Step EXCEPT !.use =
        At("mqtt", {"m_show", "name", "addr", "port", "clientid",
                    "clean_session", "usr", "pwd", "keepalive", "qos"})]

MqttInitStep ==
    [Attempt EXCEPT
        !.use = At("mqtt", {"clientid", "clean_session", "usr", "pwd"}),
        !.set = At("mqtt", {"mosq"}), !.alloc = {"mosq"}]

(* The end of every north device. *)
MqttFinalSteps(struct) ==
    <<MqttShowStep, MqttInitStep>> \o ListSteps("mqtt") \o <<ArmStep(struct)>>

DirectSteps ==
    <<New("direct"), Set("obj", {"objtypestr"}), MqttDefaultStep,
      Set("direct", {"m_rcvhandle"}),
      Read("direct", {"name", "addr", "port", "clean_session", "clientid",
                      "usr", "pwd", "keepalive", "qos"})>>
    \o MqttFinalSteps("direct")

(* The steps that a direct device and a gateway have in common. *)
AliSteps(struct) ==
    LET Expand(keys) == ExpandStep("alidirect", AliDirectVars, keys)
    IN  <<New(struct), Set("obj", {"objtypestr"}), MqttDefaultStep,
          Set(struct, {"m_getvar", "m_rcvhandle"}),
          Read(struct, {"name", "regionid", "deviceid", "productkey"}),
          [Set(struct, {"devicename"}) EXCEPT !.use = At(struct, {"name"})],
          Read(struct, {"devicesecret", "mode", "signmethod"}),
          Expand({"ProductKey", "RegionId"}), Strdup(struct, "addr"),
          Read(struct, {"port", "clean_session"}),
          Expand({"DeviceId", "Mode", "SignMethod"}),
          Strdup(struct, "clientid"),
          Expand({"DeviceName", "ProductKey"}), Strdup(struct, "usr"),
          [Set(struct, {"loginmillisecond"}) EXCEPT
              !.use = At("obj", {"m_getmilliseconds"})],
          Expand({"DeviceId", "DeviceName", "ProductKey"}),
          Sign(struct), Strdup(struct, "pwd"),
          Read(struct, {"keepalive", "qos"})>>
        \o MqttFinalSteps(struct)

(* A gateway goes on with its "southls" when its timer is armed. *)
GatewaySteps ==
    AliSteps("aligateway") \o
    <<Read("aligateway", {"southlstot"}),
      [Read("aligateway", {"southarray"}) EXCEPT
          !.alloc = {"southarray"}, !.needs = {"southls"}]>>

OpcuaDefaultSteps ==
    <<Set("opcua", ObjMethods \union {"m_tasksrun"}),
      [Read("opcua", {"client"}) EXCEPT !.alloc = {"client"}],
      Set("opcua", {"state"})>>

AliSubShowStep ==
    [Step EXCEPT !.use =
        At("alisub", {"m_show", "objtypestr", "name", "addr", "port"})]

AliSubSteps ==
    <<New("alisub"), Set("obj", {"objtypestr", "objtype", "vnorthptr"}),
      Read("alisub", {"name", "productkey"}),
      [Set("alisub", {"devicename"}) EXCEPT !.use = At("alisub", {"name"})],
      Read("alisub", {"devicesecret", "signmethod"}),
      [Strdup("alisub", "clientid") EXCEPT
          !.use = At("alisub", {"productkey", "devicename"})],
      Read("alisub", {"addr", "port"})>>
    \o OpcuaDefaultSteps \o
    <<Set("alisub", {"m_getvar", "m_rcvhandle", "m_show"}), AliSubShowStep>>
    \o ListSteps("alisub") \o <<ArmStep("alisub")>>

(* The classes whose *_new ends without a return, and *_init does nothing. *)
Stubs == {"generalgateway", "modbus"}

Programs ==
    [direct     |-> DirectSteps,
     alidirect  |-> AliSteps("alidirect"),
     aligateway |-> GatewaySteps,
     opcua      |-> AliSubSteps]

-----------------------------------------------------------------------------
(* The members that the callbacks of an object read once it is armed.      *)

(* mqtt_cb_on_*, which run on the loop thread: the check of mosq, the log  *)
(* lines, and the two methods that they call if they are set.              *)
MqttCallbackUses ==
    At("mqtt", {"mosq", "name", "clientid", "count", "m_onpub", "m_rcvhandle"})

(* mqtt_suballtopic and mqtt_tasksrun with the methods that they call;     *)
(* their templates may use any variable, which vars lists.                 *)
MqttMethodUses(struct, vars) ==
    At("mqtt", {"mosq", "name", "clientid", "count", "m_sub", "m_pub",
                "cssubtopicsls", "cstasksls", "taskstot", "taskslasttimels",
                "tasksintervalls"})
    \union ExpandUses(struct, vars, {vars[n][1] : n \in 1 .. Len(vars)})

(* The FSM callback, and all of the above.                                 *)
MqttUses(struct, vars) ==
    At("mqtt", {"state", "mosq", "addr", "port", "keepalive", "name",
                "clientid", "m_suball", "m_tasksrun", "fsmtv", "fsmev"})
    \union MqttCallbackUses \union MqttMethodUses(struct, vars)

NorthUses ==
    [direct     |-> MqttUses("mqtt", MqttVars),
     alidirect  |-> MqttUses("alidirect", AliDirectVars),
     aligateway |-> MqttUses("alidirect", AliDirectVars)
                        \union At("aligateway", {"southlstot", "southarray"})]

(* aligatewaysubdevopcua_fsm_cb up to LOGINED; RUNING is never reached.    *)
AliSubUses ==
    At("alisub", {"state", "name", "addr", "port", "vnorthptr", "signmethod",
                  "devicesecret", "m_getmilliseconds", "fsmtv", "fsmev"})
    \union
    (ExpandUses("alisub", AliSubVars,
                {"clientId", "DeviceName", "ProductKey", "LoginMilliSecond",
                 "SignMethod", "sign"})
        \ At("alisub", {"loginmillisecond"}))

(* What it reads of the gateway behind vnorthptr, in m_sub and m_pub too.  *)
AliSubNorthUses ==
    At("aligateway", {"m_sub", "m_pub", "mosq", "name", "clientid"}) \union
    ExpandUses("alidirect", AliDirectVars,
               {"ProductKey", "DeviceName", "count"})

-----------------------------------------------------------------------------
(* What a theorem about the members relies on: facts about the tables      *)
(* alone, the same for every configuration.                                *)

(* One of the first n steps writes the member, if lists are those with     *)
(* entries, and no later one puts another at its place.                    *)
IsWritten(program, lists, n, m) ==
    \E k \in 1 .. n :
        /\ program[k].needs \subseteq lists
        /\ m \in program[k].set
        /\ \A l \in k + 1 .. n :
               program[l].needs \subseteq lists =>
                   \A w \in program[l].set : w[1] = m[1] => w = m

(* No step reads a member before it is written. *)
Ordered(program) ==
    \A lists \in SUBSET {"tasksls", "southls"} :
        \A n \in 1 .. Len(program) :
            program[n].needs \subseteq lists =>
                \A m \in program[n].use : IsWritten(program, lists, n - 1, m)

(* At the end of the program the members in uses are written. *)
Leaves(program, uses) ==
    \A lists \in SUBSET {"tasksls", "southls"} :
        \A m \in uses : IsWritten(program, lists, Len(program), m)

TablesInOrder ==
    /\ \A class \in DOMAIN Programs : Ordered(Programs[class])
    /\ \A class \in DOMAIN NorthUses : Leaves(Programs[class], NorthUses[class])
    /\ Leaves(Programs["opcua"], AliSubUses)
    /\ Leaves(Programs["aligateway"], AliSubNorthUses)
=============================================================================
