----------------------------- MODULE MCStrExpan -----------------------------
(* Model checking of StrExpan with the variables of a subdevice: its own   *)
(* come first, then those of the gateway behind it.  One of them is empty, *)
(* and the two lists differ in their values.  Of the keys, "DeviceId" and  *)
(* "count" are known to the gateway alone, "D" and "c" abbreviate several  *)
(* variables, and no variable begins with "w".                             *)
EXTENDS StrExpan, ObjectClasses

NamesDef == [n \in 1 .. Len(AliSubVars \o AliDirectVars) |->
                 (AliSubVars \o AliDirectVars)[n][1]]
ValueDef == [n \in DOMAIN NamesDef |->
                 IF NamesDef[n] = "clientId" THEN <<>>
                 ELSE IF n <= Len(AliSubVars) THEN <<<<"x">>>>
                 ELSE <<<<"y">>, <<"x">>>>]
KeysDef  == {"ProductKey", "DeviceId", "count", "D", "c", "w"}
PlainDef == {<<"x">>, <<"y">>}

(* The instance is one that the theorems about StrExpan speak of. *)
ASSUME RoomyHolds == Roomy

(* The tables of ObjectClasses, which no constant changes, are in order:   *)
(* a theorem about Registry rests on that.                                 *)
ASSUME TablesHold == TablesInOrder
=============================================================================
