------------------------ MODULE MCPermissionManager ------------------------
(* Instances of PermissionManager for TLC. *)
EXTENDS PermissionManager

\* bash asks (DEFAULT_POLICIES), the other tool is read_file-like.
AskAll     == [t \in Tools |-> "ask"]
BashAsks   == [t \in Tools |-> IF t = Bash THEN "ask" ELSE "allow"]
=============================================================================
