--------------------------- MODULE MCPushDelivery ---------------------------
(* PushDelivery on one post and one or two clubs.                          *)
EXTENDS PushDelivery
=============================================================================
