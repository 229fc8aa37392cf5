------------------------------ MODULE MCReporting ------------------------------
(***************************************************************************)
(* An instance of Reporting for TLC: two modules, of which one has two     *)
(* commands and the other shares one of them.                              *)
(***************************************************************************)
EXTENDS Reporting

Atoi == [t \in {"Zoom", "Pan"} \cup {ToString(n) : n \in 0 .. 9} |->
           IF t \in {"Zoom", "Pan"} THEN 0 ELSE CHOOSE n \in 0 .. 9 : ToString(n) = t]

Commands == [ROAD_ID |-> {"Zoom", "Pan"}, WATER_ID |-> {"Pan"}]
TwoModules == <<"ROAD_ID", "WATER_ID">>
FewCommands == {-1, 0, 2}
=============================================================================
