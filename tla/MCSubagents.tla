---------------------------- MODULE MCSubagents ----------------------------
(* Instances of Subagents for TLC. *)
EXTENDS Subagents

NoFile  == [state |-> "absent", limits |-> FALSE, allowed |-> {}]
Broken  == [state |-> "broken", limits |-> FALSE, allowed |-> {}]
Role(t) == [state |-> "read", limits |-> TRUE, allowed |-> t]
MCProfileFiles ==
    {<<NoFile, NoFile, Role({})>>,
     <<NoFile, Role({}), Role(SubagentTools)>>,
     <<Broken, NoFile, Role({})>>}
=============================================================================
