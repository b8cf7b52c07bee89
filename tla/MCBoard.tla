------------------------------ MODULE MCBoard ------------------------------
(* Small instances of Board for TLC.                                       *)
EXTENDS Board, TLC

CONSTANTS a1, a2, a3, f1, f2, g, s1, s2, n

HomeOf    == s1 :> f1 @@ s2 :> f2 @@ n :> g
TwoOnOne  == a1 :> f1 @@ a2 :> f2 @@ a3 :> f1
ReadOther == a1 :> s2 @@ a2 :> s1 @@ a3 :> s2

(* a1 edits f1 and adds a file with a symbol; a2 removes s2 from f2, on    *)
(* which the others depend; a3 deletes f1, on which a2 depends.            *)
EditsOf   == a1 :> {f1, s1, g, n} @@ a2 :> {f2} @@ a3 :> {}
AddsOf    == a1 :> {g, n} @@ a2 :> {} @@ a3 :> {}
RemovesOf == a1 :> {} @@ a2 :> {s2} @@ a3 :> {f1}

(* s1 loses a dependent with a2, s2 gains one with a1.                     *)
SharedIn  == s1 :> {t \in Tree : a2 \notin t} @@ s2 :> {t \in Tree : a1 \in t} @@ n :> Tree

FirstTwice == a1 :> 2 @@ a2 :> 1 @@ a3 :> 1
=============================================================================
