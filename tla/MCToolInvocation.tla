------------------------- MODULE MCToolInvocation -------------------------
(* Instances of ToolInvocation for TLC. *)
EXTENDS ToolInvocation
=============================================================================
