----------------------------- MODULE MCSyncTest -----------------------------
(***************************************************************************)
(* The tests with three threads in place of three, three, five and eight.  *)
(***************************************************************************)
EXTENDS SyncTest

CONSTANTS t1, t2, t3

One == <<t1>>
TwoThree == <<t2, t3>>
OneTwo == <<t1, t2>>
Three == <<t3>>
OneTwoThree == <<t1, t2, t3>>
=============================================================================
