-------------------------------- MODULE Learning --------------------------------
(***************************************************************************)
(* The two things the agent learns, side by side: the diagnosis cases and  *)
(* the route corrections.  Each is switched on or off by the               *)
(* configuration (caseLibraryEnabled, routeLearningEnabled), and they      *)
(* share nothing but the four slots for background calls, which a task     *)
(* gets or gives up within seconds.                                        *)
(***************************************************************************)
EXTENDS Cases, RouteLearning

Init == CasesInit /\ RouteInit

Next == \/ CasesNext /\ UNCHANGED rvars
        \/ RouteNext /\ UNCHANGED cvars

Spec == Init /\ [][Next]_<<cvars, rvars>>

TypeOK == CasesTypeOK /\ RouteTypeOK
=============================================================================
