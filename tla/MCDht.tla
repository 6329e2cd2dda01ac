-------------------------------- MODULE MCDht --------------------------------
(* Two copies of two entries: the copies of the first go to two gateways,  *)
(* those of the second hash to one gateway, which both entries share.      *)
EXTENDS Dht

CONSTANTS k1, k2, g1, g2

Place(k, i) == IF k = k1 /\ i = 1 THEN g2 ELSE g1
=============================================================================
