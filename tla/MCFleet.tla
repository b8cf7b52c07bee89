------------------------------ MODULE MCFleet ------------------------------
(* Small instances of Fleet for TLC.                                       *)
EXTENDS Fleet

CONSTANTS p1, p2, r1

(* Two waves: the second task shares a file with the first and the third.  *)
ThreeTasks == << <<p1>>, <<p1, p2>>, <<p2>> >>
=============================================================================
