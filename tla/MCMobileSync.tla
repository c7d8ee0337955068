---------------------------- MODULE MCMobileSync ----------------------------
EXTENDS MobileSync
CONSTANTS r1, u1, u2
MCReports == {r1}
MCUsers == {u1, u2}
MCLogins == <<u1, u2>>
MCOneLogin == <<u1>>
=============================================================================
