----------------------------- MODULE MCStacking -----------------------------
(* Two commands; cycles of four blocks, so that one starts or ends among     *)
(* them; an amount that leaves nothing but the fee.                          *)
EXTENDS Stacking, TLC

CONSTANTS call1, call2
MCOffered == call1 :> {"stack", "can_stack"} @@ call2 :> {"stack", "status"}
=============================================================================
