----------------------- MODULE MCUnityMenuLifecycle -----------------------
(***************************************************************************)
(* A small UnityMenuModel for TLC: what its application sets, and what it  *)
(* sets from which handler.                                                *)
(***************************************************************************)
EXTENDS UnityMenuLifecycle, TLC

CONSTANTS p, x, y

\* No table, and one prefix at either path.
MCActionMaps == {[k \in {p} |-> path] : path \in {NoPath, x, y}}

\* Anything from any handler, with three exceptions.  A path set when the model
\* has been reset for a new tracker, and a name or path set when the first rows
\* of a new tracker are inserted, are well defined but break the properties:
\* in the first case the rows of a tracker stay when it is freed, in the second
\* the tracker made first is assigned last.  A name or path set when a tracker
\* that is held inserts or removes rows frees that tracker while it is working.
MCReentry == [s \in Signals |->
  CASE s = "menuReset" -> {"name", "actions"}
    [] s \in {"firstRows", "rows"} -> {"actions"}
    [] OTHER -> Setters]

\* Names and owners are only compared with each other.
NamesAndOwners == Permutations(BusNames) \cup Permutations(Owners)
=============================================================================
