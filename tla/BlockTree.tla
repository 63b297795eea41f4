------------------------------ MODULE BlockTree ------------------------------
(***************************************************************************)
(* The blocks consensus may propose, as a constant tree.                   *)
(*                                                                         *)
(* A digest commits to its block, and through the parent digest to the     *)
(* whole ancestry, so the model identifies a block with its digest and     *)
(* takes the tree of all possible proposals as a constant.  A block also   *)
(* carries the consensus context it was proposed in: its own round, and    *)
(* the round its context gives its parent.                                 *)
(***************************************************************************)
EXTENDS Integers

CONSTANTS
    Block,        \* every block that may be proposed, and the genesis block
    Genesis,
    Parent,       \* [Block -> Block], the parent digest (Genesis is its own)
    Height,       \* [Block -> Nat]
    Round,        \* [Block -> Nat], the round a block is proposed in
    ParentRound,  \* [Block -> Nat], the round its context names for its parent
    Chain         \* [Block -> SUBSET Block], a block and all its ancestors

(* A round (epoch, view) is a natural number, ordered like the pair.  The  *)
(* first block of an epoch names (epoch, 0) for its parent, which is not   *)
(* the round the parent was proposed in, hence <= and not = below.         *)
ASSUME TreeAssumption ==
    /\ Genesis \in Block
    /\ Parent \in [Block -> Block]
    /\ Height \in [Block -> Nat]
    /\ Round \in [Block -> Nat]
    /\ ParentRound \in [Block -> Nat]
    /\ Chain \in [Block -> SUBSET Block]
    /\ Height[Genesis] = 0
    /\ Round[Genesis] = 0
    /\ \A b \in Block \ {Genesis} :
          /\ Height[b] = Height[Parent[b]] + 1
          /\ Round[Parent[b]] <= ParentRound[b]
          /\ ParentRound[b] < Round[b]

(* The ancestry is a chain: what each parent link adds to it, that it is   *)
(* closed, and that it holds exactly one block of each height up to its    *)
(* own.                                                                    *)
ASSUME ChainAssumption ==
    /\ Chain[Genesis] = {Genesis}
    /\ \A b \in Block \ {Genesis} : Chain[b] = {b} \cup Chain[Parent[b]]
    /\ \A b \in Block : b \in Chain[b]
    /\ \A a, b, c \in Block : a \in Chain[b] /\ b \in Chain[c] => a \in Chain[c]
    /\ \A a, b \in Block : a \in Chain[b] => Height[a] <= Height[b]
    /\ \A a, b, c \in Block :
          a \in Chain[c] /\ b \in Chain[c] /\ Height[a] <= Height[b] => a \in Chain[b]
    /\ \A a, b \in Block : a \in Chain[b] /\ Height[a] = Height[b] => a = b
    /\ \A b \in Block : \A h \in 0 .. Height[b] : \E a \in Chain[b] : Height[a] = h

(* The ancestor of b at height h, for a height b's chain covers.           *)
AncestorAt(b, h) == CHOOSE a \in Chain[b] : Height[a] = h
==============================================================================
