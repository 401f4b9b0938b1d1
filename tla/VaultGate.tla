------------------------------ MODULE VaultGate ------------------------------
(***************************************************************************)
(* What package vaultlock promises the rest of the program, with no lock,  *)
(* counter or goroutine in it: exclusive access for one caller at a time,  *)
(* shared access that excludes it, and leases for background reads that    *)
(* are only granted while nobody claims exclusive access and are revoked   *)
(* only for somebody who does.                                             *)
(***************************************************************************)
CONSTANTS Claimants, Lows, Sharers

VARIABLES
    claims,     \* callers asking for exclusive access
    exclusive,  \* the caller that was granted it, as a set of at most one
    shared,     \* ordinary readers inside
    leases,     \* background readers inside
    revoked     \* leases told to stop

vars == <<claims, exclusive, shared, leases, revoked>>

Init == claims = {} /\ exclusive = {} /\ shared = {} /\ leases = {} /\ revoked = {}

Ask(c) ==
    /\ c \notin claims \cup exclusive
    /\ claims' = claims \cup {c}
    /\ UNCHANGED <<exclusive, shared, leases, revoked>>

Grant(c) ==
    /\ c \in claims
    /\ exclusive = {} /\ shared = {} /\ leases = {}
    /\ claims' = claims \ {c}
    /\ exclusive' = {c}
    /\ UNCHANGED <<shared, leases, revoked>>

\* Busy, or the caller's context ended.
Refuse(c) ==
    /\ c \in claims
    /\ claims' = claims \ {c}
    /\ UNCHANGED <<exclusive, shared, leases, revoked>>

\* Readers that waited for the holder enter at once.
Release(c) ==
    /\ exclusive = {c}
    /\ exclusive' = {}
    /\ \E S \in SUBSET Sharers : shared' = shared \cup S
    /\ UNCHANGED <<claims, leases, revoked>>

Enter ==
    /\ exclusive = {}
    /\ \E S \in SUBSET Sharers : shared' = shared \cup S
    /\ UNCHANGED <<claims, exclusive, leases, revoked>>

Leave(s) ==
    /\ shared' = shared \ {s}
    /\ UNCHANGED <<claims, exclusive, leases, revoked>>

Lease(p) ==
    /\ claims = {} /\ exclusive = {}
    /\ leases' = leases \cup {p}
    /\ UNCHANGED <<claims, exclusive, shared, revoked>>

Revoke(p) ==
    /\ claims # {}
    /\ p \in leases
    /\ revoked' = revoked \cup {p}
    /\ UNCHANGED <<claims, exclusive, shared, leases>>

Return(p) ==
    /\ leases' = leases \ {p}
    /\ revoked' = revoked \ {p}
    /\ UNCHANGED <<claims, exclusive, shared>>

Next ==
    \/ \E c \in Claimants : Ask(c) \/ Grant(c) \/ Refuse(c) \/ Release(c)
    \/ Enter
    \/ \E s \in Sharers : Leave(s)
    \/ \E p \in Lows : Lease(p) \/ Revoke(p) \/ Return(p)

Spec == Init /\ [][Next]_vars
=============================================================================
