------------------------------ MODULE MCPrBot ------------------------------
(* Instances of PrBot for TLC.  Nothing tells two handlers apart. *)
EXTENDS PrBot
CONSTANTS p1, p2

EveryKind == {"review", "dismiss", "close", "reopen", "label", "check", "thread"}
AllThenClose == (p1 :> EveryKind) @@ (p2 :> {"close"})
ReviewAndCheck == (p1 :> {"review", "check"})
NoneOrBoth == {{}, {p1, p2}}
NoneOrOne == {{}, {p1}}
HandlerSymmetry == Permutations(Handlers)
=============================================================================
