---------------------------- MODULE MCEgressNode ----------------------------
(* EgressNode on a small instance.  The Stream objects are interchangeable,  *)
(* and so are the numbers and the ids.  Symmetry would be unsound for          *)
(* liveness: that run instead fixes which id and which Stream come first, and  *)
(* leaves out the ageing of recently closed keys, on which no thread waits.    *)
(* Both only cut steps to which FairSpec gives no fairness.                    *)
EXTENDS EgressNode, TLC

Symmetry == Permutations(Streams) \cup Permutations(FDs) \cup Permutations(StreamIds)

FirstStream == CHOOSE s \in Streams : TRUE
FirstId     == CHOOSE i \in StreamIds : TRUE

FirstComesFirst ==
    \A s \in Streams : Allocated(s) =>
        Allocated(FirstStream) /\ keyOf[FirstStream][2] = FirstId

GraceLasts == recent \subseteq recent'
=============================================================================
