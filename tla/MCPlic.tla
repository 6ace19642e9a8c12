--------------------------------- MODULE MCPlic ---------------------------------
(* Two contexts that may be exchanged.                                       *)
EXTENDS Plic, TLC

CONSTANTS machine, supervisor

MCContext == {machine, supervisor}
Contexts  == Permutations(MCContext)
=============================================================================
