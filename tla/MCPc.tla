------------------------------ MODULE MCPc -------------------------------
(* Constants of PcMachine that a configuration file cannot write. *)
EXTENDS PcMachine
MCMaxOps == [x \in Menus |-> CASE x = "pic" -> 2 [] x = "kbd" -> 2 [] x = "timer" -> 3
                               [] x = "ide" -> 2 [] x = "os" -> 0]
==========================================================================
