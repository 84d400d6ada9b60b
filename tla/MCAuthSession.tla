--------------------------- MODULE MCAuthSession ----------------------------
EXTENDS AuthSession
=============================================================================
