---------------------------- MODULE FinalizedLog ----------------------------
(***************************************************************************)
(* What the executor promises about finalization: the locally finalized    *)
(* block follows the network's finalized tip one block at a time, on the   *)
(* tip's own chain, without a gap, and never passes it.  Only a new run of *)
(* the node may move them otherwise, and never to another branch.          *)
(***************************************************************************)
EXTENDS BlockTree

VARIABLES
    network,  \* the network's finalized tip
    final,    \* the locally finalized block
    run       \* the number of times the node was restarted

Init == network = Genesis /\ final = Genesis /\ run = 0

(* The network finalizes more blocks.                                      *)
Observe ==
    /\ network' \in Block
    /\ network \in Chain[network']
    /\ UNCHANGED <<final, run>>

(* The next block of the network's chain is finalized locally.             *)
Finalize ==
    /\ final' \in Chain[network]
    /\ Height[final'] = Height[final] + 1
    /\ UNCHANGED <<network, run>>

Crash ==
    /\ run' = run + 1
    /\ network' \in Block
    /\ network' \in Chain[network] \/ network \in Chain[network']
    /\ final' \in Chain[network']

Next == Observe \/ Finalize \/ Crash

Spec == Init /\ [][Next]_<<network, final, run>>
==============================================================================
