----------------------------- MODULE ClashTunMC ------------------------------
(* Two routers, so that a lease can move and a cable can have another        *)
(* gateway than the wireless network, or the same one.                      *)
EXTENDS ClashTun

CONSTANTS g1, g2

MCGateways == {g1, g2}
==============================================================================
