--------------------------- MODULE MCActivityFeed ---------------------------
EXTENDS ActivityFeed

CONSTANTS lending, registry
=============================================================================
