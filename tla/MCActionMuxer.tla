--------------------------- MODULE MCActionMuxer ---------------------------
(***************************************************************************)
(* One prefix and two names: a plain item and a radio item of one action,  *)
(* and a check item of the other.                                          *)
(***************************************************************************)
EXTENDS ActionMuxer

CONSTANTS app, quit, mode, i1, i2, i3, v1, tt, ff

MCItemAction == [i \in {i1, i2, i3} |-> IF i = i3 THEN <<app, quit>> ELSE <<app, mode>>]
MCValues == {v1, tt, ff}
MCTypeOf == [v \in MCValues |-> IF v = v1 THEN "s" ELSE "b"]
MCTarget == [i \in {i1, i2, i3} |-> IF i = i2 THEN v1 ELSE NoValue]

act(p, s) == [param |-> p, enabled |-> TRUE, state |-> s]
Checked == act(NoType, tt)
Choice == act("s", v1)
MCContents == {[n \in {quit, mode} |-> Absent],
               [n \in {quit, mode} |-> IF n = mode THEN Choice ELSE Absent],
               [n \in {quit, mode} |-> IF n = mode THEN Checked ELSE act(NoType, NoValue)]}
=============================================================================
