--------------------------- MODULE CatchUpPromise ---------------------------
(***************************************************************************)
(* What the catch-up bookkeeping of one scheduled job owes its user.       *)
(*                                                                         *)
(* For each vault the job is a bag of occurrences that came due.  Each one *)
(* is waiting, or held by the one run that took all the waiting ones.  A   *)
(* run gives its occurrences back only if its native backup never started, *)
(* and only the user's edit or a 30-day notice drops a waiting one.        *)
(* A step of the bookkeeping may move several vaults at once.              *)
(***************************************************************************)
EXTENDS Naturals

CONSTANT Vaults

VARIABLES
    waiting,    \* waiting[v]: occurrences that came due and wait for a run
    held,       \* held[v]: occurrences the run of v in progress took
    launched    \* vaults whose run in progress has started its native backup

vars == <<waiting, held, launched>>

Init == waiting = [v \in Vaults |-> 0] /\ held = [v \in Vaults |-> 0] /\ launched = {}

Holding == {v \in Vaults : held[v] > 0}

\* The bag of v becomes w waiting and h held.
Becomes(v, w, h) == waiting'[v] = w /\ held'[v] = h
KeepsLaunched(v) == v \in launched' <=> v \in launched

Stay(v) == Becomes(v, waiting[v], held[v]) /\ KeepsLaunched(v)

ComeDue(v) == Becomes(v, waiting[v] + 1, held[v]) /\ KeepsLaunched(v)

\* A run starts with everything that waits, and perhaps one occurrence more.
Take(v) ==
    /\ v \notin Holding /\ v \notin launched'
    /\ Becomes(v, 0, waiting[v]) \/ Becomes(v, 0, waiting[v] + 1)
    /\ held'[v] > 0

Launch(v) ==
    /\ v \in Holding /\ v \in launched'
    /\ Becomes(v, waiting[v], held[v])

GiveBack(v) ==
    /\ v \in Holding \ launched /\ v \notin launched'
    /\ Becomes(v, waiting[v] + held[v], 0)

\* The run had an outcome of its own: success, failure or interruption.
Finish(v) ==
    /\ v \in Holding /\ v \notin launched'
    /\ Becomes(v, waiting[v], 0)

\* The run is the notice that storage has been away too long; the count restarts.
Notice(v) ==
    /\ v \in Holding \ launched /\ v \notin launched'
    /\ Becomes(v, 0, 0)

(* What waits is dropped when another vault's run is the notice for it, or  *)
(* when the user edits the job, which no run in progress allows.            *)
Drop(v) ==
    /\ Holding = {} \/ \E u \in Vaults \ {v} : Take(u)
    /\ Becomes(v, 0, held[v]) /\ KeepsLaunched(v)

Move(v) ==
    \/ Stay(v)
    \/ ComeDue(v)
    \/ Take(v)
    \/ Launch(v)
    \/ GiveBack(v)
    \/ Finish(v)
    \/ Notice(v)
    \/ Drop(v)

Next ==
    /\ \A v \in Vaults : Move(v)
    /\ DOMAIN waiting' = Vaults /\ DOMAIN held' = Vaults /\ launched' \subseteq Vaults

Spec == Init /\ [][Next]_vars
=============================================================================
