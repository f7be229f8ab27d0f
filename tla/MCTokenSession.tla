---------------------------- MODULE MCTokenSession ----------------------------
EXTENDS TokenSession
=============================================================================
