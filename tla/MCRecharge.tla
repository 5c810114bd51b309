----------------------------- MODULE MCRecharge -----------------------------
(* Two orders at each of the three gateways.                                *)
EXTENDS Recharge

MCGateways == {"shouqianba", "payApply", "epay"}
MCOrders   == 1..2
MCAmounts  == {2}
=============================================================================
