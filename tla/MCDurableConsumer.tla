------------------------- MODULE MCDurableConsumer --------------------------
EXTENDS DurableConsumer

=============================================================================
