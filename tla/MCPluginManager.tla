---------------------------- MODULE MCPluginManager ----------------------------
(* Small instances of PluginManager for TLC. *)
EXTENDS PluginManager

CONSTANT a
OneId == {a}
NoneOrOne == {{}, {a}}

(* Writes fail where no sign-in takes part, and no integration that was enabled at the start: *)
(* these are explored with a store that works.                                                *)
Faulty(i) == rows[i].kind = "child" \/ (rows[i].kind = "native" /\ ~rows[i].enabled)
MCInit == Init /\ faults = IF \A i \in records : Faulty(i) THEN 0 ELSE MaxFaults
MCSpec == MCInit /\ [][Next]_vars
===============================================================================
