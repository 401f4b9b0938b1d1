--------------------------- MODULE MCMetadataCache ---------------------------
(* Small instances of MetadataCache for TLC: a backup with another use of the *)
(* vault beside it and one event, or a backup alone, over a vault that may    *)
(* hold a snapshot already, with as many events as the bound leaves.          *)
EXTENDS MetadataCache

RetryOrForce == {RetryEntries, ForceAll}

MCInit ==
    /\ Init
    /\ LET Others == Writers \ Backups IN
       \/ events = Events /\ \A w \in Others : At(w, "done") /\ writer[w].kind = "check"
       \/ events = 1 /\ native = {} /\ \A w \in Others : At(w, "idle")
MCFairSpec == MCInit /\ [][Next]_vars /\ Fairness
=============================================================================
