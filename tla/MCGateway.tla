----------------------------- MODULE MCGateway -----------------------------
(* The values TLC gives the constants of Gateway. *)
EXTENDS Gateway, TLC

CONSTANTS small, fallback, m1, m2

Logical == {small, fallback}
Mapped == (small :> m1) @@ (fallback :> m2)
Fallbacks == <<fallback>>

=============================================================================
