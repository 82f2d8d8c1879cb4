--------------------------- MODULE MCLinkTraffic ----------------------------
EXTENDS LinkTraffic

MCTicket == {"connect", "frame", "reply"}
=============================================================================
