----------------------------- MODULE MCRegistry -----------------------------
(* Model checking of Registry: lists of up to two devices of every kind,   *)
(* gateways with up to two subdevices.                                     *)
EXTENDS Registry

DevicesDef ==
    [type  : {"direct", "alidirect", "generalgateway", "other"},
     south : {<<>>}, tasks : BOOLEAN]
    \union
    [type  : {"aligateway"},
     south : UNION {[1 .. n -> {"opcua", "modbus", "other"}] : n \in 0 .. 2},
     tasks : BOOLEAN]
=============================================================================
