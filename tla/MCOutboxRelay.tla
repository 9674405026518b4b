--------------------------- MODULE MCOutboxRelay ----------------------------
(* OutboxRelay for TLC.                                                      *)
EXTENDS OutboxRelay
=============================================================================
