--------------------------- MODULE QueryPromise ---------------------------
(***************************************************************************)
(* What the ADNL backend promises about queries: each query is settled     *)
(* once.  It may wait, at most one at a time for a stream, until a frame   *)
(* of its stream answers it or a later query takes its place; when the     *)
(* backend is destroyed nobody waits any more.                             *)
(***************************************************************************)
EXTENDS Naturals

CONSTANTS Queries, Streams

VARIABLES
    waiting,   \* pairs <<stream, query>>
    settled,   \* how often the promise of each query was settled
    open       \* the backend exists

vars == <<waiting, settled, open>>

Init ==
    /\ waiting = {}
    /\ settled = [q \in Queries |-> 0]
    /\ open = TRUE

New(q) == settled[q] = 0 /\ \A w \in waiting : w[2] # q

Settle(S) == settled' = [q \in Queries |-> IF q \in S THEN settled[q] + 1 ELSE settled[q]]

\* A query that names no stream is refused at once.
Refuse(q) ==
    /\ open  /\ New(q)
    /\ Settle({q})
    /\ UNCHANGED <<waiting, open>>

\* A query begins to wait; one that waited for the stream is settled.
Wait(q, s) ==
    /\ open  /\ New(q)
    /\ Settle({r \in Queries : <<s, r>> \in waiting})
    /\ waiting' = {w \in waiting : w[1] # s} \cup {<<s, q>>}
    /\ UNCHANGED open

Answer(w) ==
    /\ w \in waiting
    /\ Settle({w[2]})
    /\ waiting' = waiting \ {w}
    /\ UNCHANGED open

Destroy ==
    /\ open
    /\ Settle({w[2] : w \in waiting})
    /\ waiting' = {}
    /\ open' = FALSE

Next ==
    \/ \E q \in Queries : Refuse(q) \/ \E s \in Streams : Wait(q, s)
    \/ \E w \in waiting : Answer(w)
    \/ Destroy

Spec == Init /\ [][Next]_vars
=============================================================================
