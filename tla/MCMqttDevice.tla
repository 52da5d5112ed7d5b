---------------------------- MODULE MCMqttDevice ----------------------------
(* Model checking of MqttDevice: the constants are given in the configs.   *)
EXTENDS MqttDevice
=============================================================================
