---------------------------- MODULE MCLifecycle ----------------------------
(* Instances of Lifecycle for TLC. *)
EXTENDS Lifecycle

File(state, sets, servers) == [state |-> state, sets |-> sets, servers |-> servers]
MCFiles ==
    {File("absent", {}, <<>>), File("broken", {}, <<>>), File("wrong", {}, <<>>),
     File("read", {"max_steps"}, <<"a">>), File("read", {"router"}, <<>>),
     File("read", {"max_steps", "router"}, <<"a", "b">>)}
MCMachines ==
    [global : MCFiles, project : MCFiles,
     explicit : {File("absent", {}, <<>>), File("read", {"router"}, <<"b">>)}, asked : BOOLEAN,
     dotenv : SUBSET EnvSettings, shell : SUBSET EnvSettings, wrong : BOOLEAN]
=============================================================================
