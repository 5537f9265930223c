------------------------------- MODULE MCLogger -------------------------------
(* Each request comes in by an endpoint of its own. *)
EXTENDS GatewayLogger
CONSTANTS r1, r2, e1, e2
Apart == r1 :> e1 @@ r2 :> e2
================================================================================
