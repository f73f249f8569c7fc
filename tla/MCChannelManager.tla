--------------------------- MODULE MCChannelManager ---------------------------
(* Instances of ChannelManager for TLC. *)
EXTENDS ChannelManager
=============================================================================
