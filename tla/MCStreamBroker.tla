--------------------------- MODULE MCStreamBroker ---------------------------
(* StreamBroker for TLC: two consumers of one group.                       *)
EXTENDS StreamBroker

CONSTANTS k1, k2

MCConsumer == {k1, k2}
=============================================================================
