---------------------------- MODULE NotarizedTree ----------------------------
(***************************************************************************)
(* The notarized tree of the executor                                      *)
(* (src/tempo/crates/consensus/src/executor/actor/notarized_tree/mod.rs):  *)
(* the chain above the network's finalized tip, the forkchoice state the   *)
(* execution layer last accepted, and the next step that converges the     *)
(* execution layer onto the pending head.                                  *)
(*                                                                         *)
(* A tree is a record t:                                                   *)
(*   netTip    the network's finalized tip, [round, digest]                *)
(*   fin, head the local finalized tip and the local head, blocks          *)
(*   pend      the pending head, [round, digest]                           *)
(*   blocks    the bodies held                                             *)
(*   withheld  the bodies rejected less than the retry delay ago           *)
(* Heights are not stored: they are a function of the digest.              *)
(***************************************************************************)
EXTENDS BlockTree

Tip == [round : Nat, digest : Block]

TreeState == [netTip : Tip, fin : Block, head : Block, pend : Tip,
              blocks : SUBSET Block, withheld : SUBSET Block]

(* A LocalState: the forkchoice state a task extends and reports back.     *)
LocalState == [head : Block, fin : Block]

LocalOf(t) == [head |-> t.head, fin |-> t.fin]

\* Variant: the head does not follow the finalized block.
UpdateFinalizedOnly(ls, b) ==
    [ls EXCEPT !.fin = IF Height[b] > Height[ls.fin] THEN b ELSE @]

UpdateFinalized(ls, b) ==
    [fin  |-> IF Height[b] > Height[ls.fin] THEN b ELSE ls.fin,
     head |-> IF Height[b] >= Height[ls.head] THEN b ELSE ls.head]

UpdateHead(ls, b) ==
    IF Height[b] > Height[ls.fin] \/ b = ls.fin THEN [ls EXCEPT !.head = b] ELSE ls

NewTree(tip, b) ==
    [netTip |-> tip, fin |-> b, head |-> b, pend |-> tip,
     blocks |-> {}, withheld |-> {}]

\* Variant: the finalized side is taken from the network's tip.
SetLocalStateAtTip(t, ls) == [t EXCEPT !.head = ls.head, !.fin = t.netTip.digest]

SetLocalState(t, ls) == [t EXCEPT !.head = ls.head, !.fin = ls.fin]

SetPendingHead(t, r, b) == [t EXCEPT !.pend = [round |-> r, digest |-> b]]

Remove(t, b) ==
    [t EXCEPT !.blocks = @ \ {b},
              !.withheld = @ \ {b},
              !.pend = IF @.digest = b THEN t.netTip ELSE @]

(* A recorded body replaces an entry of the same digest and, with it, the  *)
(* time it was rejected at.                                                *)
RecordBlock(t, b) ==
    IF Height[b] <= Height[t.netTip.digest]
    THEN Remove(t, b)
    ELSE [t EXCEPT !.blocks = @ \cup {b}, !.withheld = @ \ {b}]

MarkRejected(t, b) ==
    [t EXCEPT !.withheld = IF b \in t.blocks THEN @ \cup {b} ELSE @]

SetNetworkFinalizedTip(t, b) ==
    IF Round[b] > t.netTip.round
    THEN [t EXCEPT !.netTip = [round |-> Round[b], digest |-> b]]
    ELSE t

Heal(t) ==
    LET above == {b \in t.blocks : Height[b] > Height[t.netTip.digest]}
        stale == t.pend.round <= t.netTip.round /\ t.pend.digest # t.netTip.digest
    IN  [t EXCEPT !.blocks = above,
                  !.withheld = @ \cap above,
                  !.pend = IF stale THEN t.netTip ELSE @]

IsLocalTip(t, b) == b = t.head \/ b = t.fin

ConvergesImminently(t, b) ==
    \/ IsLocalTip(t, b)
    \/ b = t.netTip.digest /\ Height[t.fin] + 1 = Height[b]
    \/ b = t.pend.digest /\ b \in t.blocks /\ IsLocalTip(t, Parent[b])

------------------------------------------------------------------------------
Highest(S) == CHOOSE a \in S : \A b \in S : Height[b] <= Height[a]

NoStep == [kind |-> "none", block |-> Genesis]

\* Variant: a notarized child of the local head is forwarded while finalized
\* blocks are still on their way.
ForwardWhileBehind(t) ==
    LET pend == t.pend.digest
    IN  IF pend \in t.blocks \ t.withheld /\ Parent[pend] = t.head
        THEN [kind |-> "block", block |-> pend]
        ELSE NoStep

(* The next convergence step.  The walk down the pending head's ancestry   *)
(* stops at the first anchor, the local head or the network's tip, and     *)
(* needs the bodies it passes.  The step delivers the block above the      *)
(* anchor, or repoints the head onto the finalized tip.                    *)
NextToForward(t) ==
    LET tip == t.netTip.digest
        path == Chain[t.pend.digest]
        anchors == path \cap {t.head, tip}
        anchor == Highest(anchors)
        walked == {b \in path : Height[b] > Height[anchor]}
        child == CHOOSE b \in walked : Parent[b] = anchor
    IN  IF Height[t.fin] < Height[tip] \/ anchors = {}
        THEN NoStep
        ELSE IF \E b \in walked : b \notin t.blocks \/ Height[b] <= Height[tip]
        THEN NoStep
        ELSE IF walked # {}
        THEN IF child \in t.withheld THEN NoStep ELSE [kind |-> "block", block |-> child]
        ELSE IF anchor = tip /\ t.head # tip
        THEN [kind |-> "repoint", block |-> tip]
        ELSE NoStep

NoFetch == [round |-> 0, digest |-> Genesis]

(* The round the walk gives an ancestor: the report's for the pending head *)
(* itself, the one the child's context names for the others.               *)
WalkRound(t, b) ==
    IF b = t.pend.digest
    THEN t.pend.round
    ELSE ParentRound[CHOOSE c \in Chain[t.pend.digest] : c # b /\ Parent[c] = b]

(* The first body the walk misses, unless it meets the finalized tip, a    *)
(* round the tip covers, or a body at the tip's height first.              *)
FirstMissingAncestor(t) ==
    LET tip == t.netTip
        path == Chain[t.pend.digest]
        gap == Highest(path \ t.blocks)
        visited == {b \in path : Height[b] >= Height[gap]}
    IN  IF /\ path \ t.blocks # {}
           /\ \A b \in visited :
                /\ b # tip.digest
                /\ WalkRound(t, b) > tip.round
                /\ b # gap => Height[b] > Height[tip.digest]
        THEN [round |-> WalkRound(t, gap), digest |-> gap]
        ELSE NoFetch
==============================================================================
