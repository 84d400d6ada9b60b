---------------------------- MODULE MCPhoneAuth ----------------------------
EXTENDS PhoneAuth
=============================================================================
