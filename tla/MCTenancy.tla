----------------------------- MODULE MCTenancy ------------------------------
(* An instance of Tenancy: a shop, the same shop on another port, and a     *)
(* second host.                                                             *)
EXTENDS Tenancy, TLC

MCHosts == {"shop", "shop:8443", "pay"}
MCStripPort == [h \in MCHosts |-> IF h = "shop:8443" THEN "shop" ELSE h]
=============================================================================
