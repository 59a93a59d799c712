-------------------------- MODULE MCScenarioRestart --------------------------
(***************************************************************************)
(* ScenarioRestart on the transitions of fsm-config-main.yaml that move a  *)
(* scenario between its regions.                                           *)
(***************************************************************************)
EXTENDS ScenarioRestart, TLC

CONSTANTS m1, m2, r1, r2

Regions == {"RegionAActive", "RegionBActive"}
Transient == {"SwitchingToB", "SwitchingToA"}
AllStates == Regions \cup Transient \cup {"ErrorState"}

FromUser == {"RegionAFailed", "RegionARecovered"}

\* in the order the code assumes (fsm-config.yaml)
FromSystem == <<"SwitchFailed", "SwitchComplete">>

Change(e, s) ==
  CASE e = "RegionAFailed" /\ s = "RegionAActive" -> "SwitchingToB"
    [] e = "RegionARecovered" /\ s = "RegionBActive" -> "SwitchingToA"
    [] e = "SwitchComplete" /\ s = "SwitchingToB" -> "RegionBActive"
    [] e = "SwitchComplete" /\ s = "SwitchingToA" -> "RegionAActive"
    [] e = "SwitchFailed" /\ s \in Transient -> "ErrorState"
    [] OTHER -> s

Table == [e \in FromUser \cup {"SwitchFailed", "SwitchComplete"} |->
            [s \in AllStates |-> Change(e, s)]]

\* An unknown command is refused; an internal event can be asked for, too.
Asked == FromUser \cup {"SwitchComplete", "Unknown"}

\* The shipped files bind tasks to the transient states.  With tasks of
\* RegionAActive as well, one of the two transitions runs some.
SomeTasks == Transient \cup {"RegionAActive"}

SomeCount == [s \in AllStates |-> CASE s = "RegionAActive" -> 2
                                    [] s \in Transient -> 1
                                    [] OTHER -> 0]

Anything == {TRUE, FALSE}
Alone == {FALSE}
=============================================================================
