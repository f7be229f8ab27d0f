---------------------------- MODULE MCChannelState ----------------------------
EXTENDS ChannelState
=============================================================================
