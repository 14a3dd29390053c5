--------------------------- MODULE MCIgdRequests ---------------------------
(* Instances of IgdRequests for TLC: discover has found two gateways.      *)
EXTENDS IgdRequests, TLC

CONSTANTS igd1, igd2, gateway1, gateway2

MCDiscovered == igd1 :> gateway1 @@ igd2 :> gateway2
=============================================================================
