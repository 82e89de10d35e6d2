---------------------------- MODULE MCDBusObject ----------------------------
(***************************************************************************)
(* One bus, two services and a path.                                       *)
(***************************************************************************)
EXTENDS DBusObject

\* A handler of the new rows calls stop().
StopInAppear == [k \in Kinds |-> IF k = "appear" THEN {"stop"} ELSE {}]
=============================================================================
