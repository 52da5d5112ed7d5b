---------------------------- MODULE MCAliGateway ----------------------------
(* Model checking of AliGateway: the constants are given in the configs.   *)
EXTENDS AliGateway
=============================================================================
