----------------------------- MODULE ParcelLock -----------------------------
(***************************************************************************)
(* What the lease table of blackboard/leases.py promises its callers,      *)
(* without rows, time-to-live, reaper or requests: every parcel is a       *)
(* readers/writer lock.  A claim is a pair <<agent, mode>>.  A claim is    *)
(* admitted only while it is compatible with every claim that stands, and  *)
(* claims go away for reasons this level does not distinguish (release,    *)
(* lapse of the time-to-live, retirement of the parcel).                   *)
(***************************************************************************)
CONSTANTS
  Agents,     \* agent ids
  Parcels,    \* parcel ids
  Modes       \* the lease modes in use, a subset of read, write, exclusive

VARIABLE claims   \* the standing claims of every parcel

Writers == {"write", "exclusive"}

(* The rule of the CAS predicate: two claims conflict if one of them       *)
(* writes, unless they are the same claim.                                 *)
Compatible(c, d) == \/ c = d
                    \/ c[2] \notin Writers /\ d[2] \notin Writers

Init == claims = [p \in Parcels |-> {}]

Claim(p, c) ==
  /\ \A d \in claims[p] : Compatible(c, d)
  /\ claims' = [claims EXCEPT ![p] = @ \cup {c}]

(* Any number of claims, of any parcels, may end in one step: the clock    *)
(* can pass the expiry of several leases at once.                          *)
Unclaim ==
  claims' \in [Parcels -> SUBSET (Agents \X Modes)]
    /\ \A p \in Parcels : claims'[p] \subseteq claims[p]

Next == Unclaim \/ \E p \in Parcels, c \in Agents \X Modes : Claim(p, c)

Spec == Init /\ [][Next]_claims

-----------------------------------------------------------------------------
TypeOK == claims \in [Parcels -> SUBSET (Agents \X Modes)]

(* The promise: the standing claims of a parcel are pairwise compatible,   *)
(* so a writer never shares a parcel.                                      *)
Exclusion == \A p \in Parcels : \A c, d \in claims[p] : Compatible(c, d)
=============================================================================
