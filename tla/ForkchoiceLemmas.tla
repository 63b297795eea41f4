-------------------------- MODULE ForkchoiceLemmas ---------------------------
(***************************************************************************)
(* The forkchoice state the executor tracks and the execution layer it     *)
(* drives: what a payload, an update or a finalization does to a layer that*)
(* follows the tracked state, and that the top of the loop starts only     *)
(* tasks the layer will accept.                                            *)
(***************************************************************************)
EXTENDS ExecutorLemmas

------------------------------------------------------------------------------
(* The forkchoice state and the layer.                                    *)

(* The invariant in the select loop, of a tree t, an actor a, a layer e,   *)
(* the next height n and the last acknowledged height k.                   *)
Sound(t, a, e, n, k) ==
    /\ LayerSound(e)
    /\ t.netTip.round = Round[t.netTip.digest]
    /\ Height[e.fin] > Height[t.netTip.digest] => Comparable(t.pend.digest, e.fin)
    /\ t.fin \in Chain[t.head]
    /\ Follows(e, Latest(t, a))
    /\ TaskSound(t, a, e, n, k)

(* Two blocks of one chain are comparable.                                 *)
LEMMA OnOneChain ==
    ASSUME NEW a \in Block, NEW b \in Block, NEW c \in Block,
           a \in Chain[c], b \in Chain[c]
    PROVE  Comparable(a, b)
<1>1. Height[a] \in Nat /\ Height[b] \in Nat
  BY Zenon, ChainOfBlocks
<1>2. Height[a] <= Height[b] \/ Height[b] <= Height[a]
  BY <1>1
<1> QED
  BY Zenon, <1>2, ChainOrdered DEF Comparable

(* Comparable blocks are ordered by their heights.                         *)
LEMMA ComparableByHeight ==
    ASSUME NEW a \in Block, NEW b \in Block, Comparable(a, b), Height[a] <= Height[b]
    PROVE  a \in Chain[b]
<1>1. Height[a] \in Nat /\ Height[b] \in Nat
  BY Zenon, ChainOfBlocks
<1>2. CASE b \in Chain[a]
  <2>1. Height[b] <= Height[a]
    BY Zenon, <1>2, ChainHeight
  <2>2. Height[b] = Height[a]
    BY <1>1, <2>1
  <2> QED
    BY Zenon, <1>2, <2>2, ChainAssumption
<1> QED
  BY Zenon, <1>2 DEF Comparable

(* An ancestor of a block comparable with f is comparable with f.          *)
LEMMA AncestorComparable ==
    ASSUME NEW a \in Block, NEW b \in Block, NEW f \in Block,
           a \in Chain[b], Comparable(b, f)
    PROVE  Comparable(a, f)
<1>1. CASE b \in Chain[f]
  BY Zenon, <1>1, ChainTransitive DEF Comparable
<1>2. CASE f \in Chain[b]
  BY Zenon, <1>2, OnOneChain
<1> QED
  BY Zenon, <1>1, <1>2 DEF Comparable

(* On a chain, the block one above another is its child.                   *)
LEMMA ChildOf ==
    ASSUME NEW a \in Block, NEW b \in Block, NEW c \in Block,
           a \in Chain[c], b \in Chain[c], Height[b] = Height[a] + 1
    PROVE  Parent[b] = a
<1>1. Height[a] \in Nat /\ Height[b] \in Nat
  BY Zenon, ChainOfBlocks
<1>2. b # Genesis
  BY <1>1, TreeAssumption
<1>3. Parent[b] \in Block /\ Height[Parent[b]] \in Nat /\ Height[b] = Height[Parent[b]] + 1
  BY Zenon, <1>2, TreeAssumption
<1>4. Height[Parent[b]] = Height[a]
  BY <1>1, <1>3
<1>5. Parent[b] \in Chain[b]
  BY <1>2, <1>3, ChainAssumption
<1>6. Parent[b] \in Chain[c]
  BY Zenon, <1>3, <1>5, ChainTransitive
<1>7. Parent[b] \in Chain[a]
  BY <1>1, <1>3, <1>4, <1>6, ChainOrdered
<1> QED
  BY Zenon, <1>3, <1>4, <1>7, ChainAssumption

(* Rounds grow along a chain: a block with the fewest ancestors that       *)
(* breaks this would have a parent that breaks it.                         *)
LEMMA RoundsGrow ==
    ASSUME NEW a \in Block, NEW b \in Block, a \in Chain[b], a # b
    PROVE  Round[a] < Round[b]
<1> DEFINE Bad(x) == \E y \in Chain[x] : y # x /\ ~ (Round[y] < Round[x])
           H == {h \in Nat : \E x \in Block : h = Height[x] /\ Bad(x)}
<1>1. SUFFICES ASSUME H # {} PROVE FALSE
  <2>1. Height[b] \in Nat
    BY Zenon, ChainOfBlocks
  <2> QED
    BY Zenon, <2>1
<1>2. PICK h \in H : \A k \in H : ~ (k < h)
  <2>1. H \in SUBSET Nat
    BY Zenon
  <2> HIDE DEF H
  <2>2. PICK h \in H : \A k \in H : ~ (<<k, h>> \in OpToRel(<, Nat))
    BY Zenon, <1>1, <2>1, WFMin, NatLessThanWellFounded
  <2> QED
    BY Zenon, <2>1, <2>2 DEF OpToRel
<1>3. PICK x \in Block : h = Height[x] /\ Bad(x)
  BY Zenon, <1>2
<1>4. PICK y \in Chain[x] : y # x /\ ~ (Round[y] < Round[x])
  BY Zenon, <1>3
<1>5. x # Genesis /\ y \in Block
  BY Zenon, <1>3, <1>4, ChainAssumption, ChainOfBlocks
<1>6. /\ Parent[x] \in Block /\ Height[Parent[x]] \in Nat /\ Height[x] = Height[Parent[x]] + 1
      /\ Round[Parent[x]] <= ParentRound[x] /\ ParentRound[x] < Round[x]
      /\ Round[Parent[x]] \in Nat /\ ParentRound[x] \in Nat /\ Round[x] \in Nat
      /\ Round[y] \in Nat
  BY Zenon, <1>3, <1>5, TreeAssumption
<1>7. y \in Chain[Parent[x]]
  BY <1>3, <1>4, <1>5, ChainAssumption
<1>8. CASE y = Parent[x]
  BY <1>4, <1>6, <1>8
<1>9. CASE y # Parent[x]
  <2>1. ~ (Round[y] < Round[Parent[x]])
    BY <1>4, <1>6
  <2>2. Bad(Parent[x])
    BY Zenon, <1>7, <1>9, <2>1
  <2>3. Height[Parent[x]] \in H
    BY Zenon, <1>6, <2>2
  <2> QED
    BY <1>2, <1>3, <1>6, <2>3
<1> QED
  BY Zenon, <1>8, <1>9

(* The layer.                                                              *)

------------------------------------------------------------------------------

(* An executed block has executed ancestors.                               *)
LEMMA NewPayloadSound ==
    ASSUME NEW e \in LayerState, NEW b \in Block, LayerSound(e)
    PROVE  LET p == NewPayload(e, b)
           IN  /\ p \in LayerState /\ LayerSound(p)
               /\ p.head = e.head /\ p.fin = e.fin /\ e.known \subseteq p.known
               /\ PayloadValid(e, b) => b \in p.known
<1> DEFINE p == NewPayload(e, b)
<1>1. CASE ~ PayloadValid(e, b)
  BY Zenon, <1>1 DEF NewPayload
<1>2. CASE PayloadValid(e, b)
  <2>1. /\ p \in LayerState /\ p.known = e.known \cup {b}
        /\ p.head = e.head /\ p.fin = e.fin
    BY Zenon, <1>2 DEF NewPayload, LayerState
  <2> HIDE DEF p
  <2>2. Chain[b] \subseteq e.known \cup {b}
    <3>1. CASE b \in e.known
      BY Zenon, <3>1 DEF LayerSound
    <3>2. CASE b = Genesis
      BY Zenon, <3>2, ChainAssumption
    <3>3. CASE b # Genesis /\ Parent[b] \in e.known
      <4>1. Chain[Parent[b]] \subseteq e.known
        BY Zenon, <3>3 DEF LayerSound
      <4> QED
        BY <3>3, <4>1, ChainAssumption
    <3> QED
      BY Zenon, <1>2, <3>1, <3>2, <3>3 DEF PayloadValid
  <2>3. LayerSound(p)
    BY Zenon, <2>1, <2>2 DEF LayerSound
  <2> QED
    BY Zenon, <2>1, <2>3 DEF p
<1> QED
  BY Zenon, <1>1, <1>2

(* What a forkchoice state needs for the layer to accept it.               *)
Acceptable(e, ls) ==
    /\ ls.fin \in Chain[ls.head]
    /\ ls.head \in e.known
    /\ Comparable(ls.fin, e.fin)
    /\ Height[e.fin] > Height[ls.fin] => Comparable(ls.head, e.fin)

(* An acceptable state is accepted, and the layer follows it.              *)
LEMMA SubmitSound ==
    ASSUME NEW e \in LayerState, NEW ls \in LocalState, LayerSound(e), Acceptable(e, ls)
    PROVE  LET e2 == SubmitForkchoiceUpdate(e, ls)
           IN  /\ FcuAccepted(e, ls)
               /\ e2 \in LayerState /\ LayerSound(e2) /\ Follows(e2, ls)
               /\ e2.known = e.known
               /\ e2.fin \in {e.fin, ls.fin}
<1>1. /\ e.head \in Block /\ e.fin \in Block /\ ls.head \in Block /\ ls.fin \in Block
      /\ Height[e.fin] \in Nat /\ Height[ls.fin] \in Nat
  BY Zenon, ChainOfBlocks DEF LayerState, LocalState
<1>2. e.fin \in Chain[e.head]
  BY Zenon DEF LayerSound
<1>3. ~ FcuConflicts(e, ls)
  <2>1. SUFFICES ASSUME Height[e.fin] >= Height[ls.fin] PROVE ls.fin \in Chain[e.head]
    BY Zenon DEF FcuConflicts, IsCanonical
  <2>2. ls.fin \in Chain[e.fin]
    BY Zenon, <1>1, <2>1, ComparableByHeight DEF Acceptable
  <2> QED
    BY Zenon, <1>1, <1>2, <2>2, ChainTransitive
<1>4. CASE FcuSkipped(e, ls)
  <2>1. SubmitForkchoiceUpdate(e, ls) = e /\ FcuAccepted(e, ls)
    BY Zenon, <1>3, <1>4 DEF SubmitForkchoiceUpdate, FcuAccepted
  <2>2. Follows(e, ls)
    BY <1>1, <1>4 DEF FcuSkipped, Follows, Acceptable
  <2> QED
    BY Zenon, <2>1, <2>2
<1>5. CASE ~ FcuSkipped(e, ls)
  <2>1. SubmitForkchoiceUpdate(e, ls) = ForkChoiceUpdated(e, ls.head, ls.fin)
    BY Zenon, <1>3, <1>5 DEF SubmitForkchoiceUpdate
  <2>2. FcuAccepted(e, ls)
    BY Zenon, <1>3 DEF FcuAccepted, ForkchoiceValid, Acceptable
  <2>3. Height[e.fin] <= Height[ls.fin]
    BY <1>1, <1>5 DEF FcuSkipped
  <2>4. CASE NoOpHead(e, ls.head)
    <3>1. SubmitForkchoiceUpdate(e, ls) = e
      BY Zenon, <2>1, <2>4 DEF ForkChoiceUpdated
    <3>2. Follows(e, ls)
      BY Zenon, <2>3, <2>4 DEF NoOpHead, Follows, Acceptable
    <3> QED
      BY Zenon, <2>2, <3>1, <3>2
  <2>5. CASE ~ NoOpHead(e, ls.head)
    <3> DEFINE e2 == [e EXCEPT !.head = ls.head, !.fin = ls.fin]
    <3>1. SubmitForkchoiceUpdate(e, ls) = e2
      BY Zenon, <2>1, <2>5 DEF ForkChoiceUpdated, Acceptable
    <3>2. /\ e2 \in LayerState /\ e2.known = e.known
          /\ e2.head = ls.head /\ e2.fin = ls.fin
      BY Zenon, <1>1 DEF LayerState
    <3> HIDE DEF e2
    <3>3. LayerSound(e2)
      BY Zenon, <3>2 DEF LayerSound, Acceptable
    <3>4. Follows(e2, ls)
      BY <1>1, <3>2, ChainReflexive DEF Follows, Acceptable, IsCanonical
    <3> QED
      BY Zenon, <2>2, <3>1, <3>2, <3>3, <3>4
  <2> QED
    BY Zenon, <2>4, <2>5
<1> QED
  BY Zenon, <1>4, <1>5

(* A layer that executed more still follows.                               *)
LEMMA FollowsMore ==
    ASSUME NEW e, NEW p, NEW ls, Follows(e, ls),
           p.head = e.head, p.fin = e.fin, e.known \subseteq p.known
    PROVE  Follows(p, ls)
BY Zenon DEF Follows, IsCanonical

(* The state the layer follows is acceptable to it.                        *)
LEMMA FollowedIsAcceptable ==
    ASSUME NEW e, NEW ls, Follows(e, ls), Comparable(ls.fin, e.fin),
           Height[e.fin] \in Nat, Height[ls.fin] \in Nat
    PROVE  Acceptable(e, ls)
BY DEF Follows, Acceptable

(* Forwarding a finalized block: the next block of the network's chain, or *)
(* the tracked one again, is accepted, whichever target the layer's        *)
(* canonical chain suggests.                                               *)
LEMMA FinalizeSound ==
    ASSUME NEW e \in LayerState, NEW on \in LocalState, NEW b \in Block, NEW tip \in Block,
           LayerSound(e), Follows(e, on),
           Comparable(on.fin, e.fin), Comparable(b, e.fin),
           on.fin \in Chain[tip], b \in Chain[tip],
           Height[on.fin] <= Height[b], Height[b] <= Height[on.fin] + 1
    PROVE  LET target == FinalizationTarget(e, on, b)
               e2 == ForwardFinalized(e, on, b)
           IN  /\ FinalizationAccepted(e, on, b)
               /\ target \in LocalState /\ target.fin = b /\ b \in Chain[target.head]
               /\ e2 \in LayerState /\ LayerSound(e2) /\ Follows(e2, target)
               /\ e2.fin \in {e.fin, b}
<1> DEFINE target == FinalizationTarget(e, on, b)
           p == NewPayload(e, b)
<1>1. /\ e.head \in Block /\ e.fin \in Block /\ on.head \in Block /\ on.fin \in Block
      /\ Height[e.fin] \in Nat /\ Height[on.fin] \in Nat /\ Height[b] \in Nat
      /\ Height[on.head] \in Nat
  BY Zenon, ChainOfBlocks DEF LayerState, LocalState
<1>2. b = on.fin \/ Height[b] = Height[on.fin] + 1
  <2>1. CASE Height[b] = Height[on.fin]
    <3>1. b \in Chain[on.fin]
      BY Zenon, <1>1, <2>1, ChainOrdered
    <3> QED
      BY Zenon, <1>1, <2>1, <3>1, ChainAssumption
  <2>2. CASE Height[b] # Height[on.fin]
    BY <1>1, <2>2
  <2> QED
    BY Zenon, <2>1, <2>2
<1>3. DeliveryInOrder(on, b)
  BY <1>1, <1>2 DEF DeliveryInOrder
<1>4. on.fin \in e.known
  BY Zenon DEF Follows, LayerSound
<1>5. PayloadValid(e, b)
  <2>1. CASE b = on.fin
    BY Zenon, <1>4, <2>1 DEF PayloadValid
  <2>2. CASE Height[b] = Height[on.fin] + 1
    <3>1. Parent[b] = on.fin
      BY Zenon, <1>1, <2>2, ChildOf
    <3> QED
      BY Zenon, <1>4, <3>1 DEF PayloadValid
  <2> QED
    BY Zenon, <1>2, <2>1, <2>2
<1>6. /\ p \in LayerState /\ LayerSound(p)
      /\ p.head = e.head /\ p.fin = e.fin /\ e.known \subseteq p.known
      /\ b \in p.known
  BY Zenon, <1>5, NewPayloadSound
<1>7. target \in LocalState /\ target.fin = b
  BY Zenon, <1>3, LocalStateUpdates
<1>8. target.head \in {on.head, b}
  <2>1. UpdateFinalized(on, b).head \in {on.head, b}
    BY Zenon DEF UpdateFinalized
  <2>2. UpdateHead(UpdateFinalized(on, b), b).head \in {UpdateFinalized(on, b).head, b}
    BY Zenon DEF UpdateHead, UpdateFinalized
  <2> QED
    BY Zenon, <2>1, <2>2 DEF FinalizationTarget
<1>9. target.head # b => b = on.fin \/ (IsCanonical(e, b) /\ Height[b] < Height[on.head])
  <2>1. ASSUME b # on.fin, ~ IsCanonical(e, b)
        PROVE  target.head = b
    <3> DEFINE u == UpdateFinalized(on, b)
    <3>1. Height[b] > Height[on.fin]
      BY <1>1, <1>2, <2>1
    <3>2. u.fin = b /\ u \in LocalState
      BY Zenon, <1>1, <3>1 DEF UpdateFinalized, LocalState
    <3>3. target = UpdateHead(u, b)
      BY Zenon, <2>1 DEF FinalizationTarget
    <3> HIDE DEF u
    <3>4. UpdateHead(u, b) = [u EXCEPT !.head = b]
      BY Zenon, <3>2 DEF UpdateHead
    <3> QED
      BY Zenon, <3>2, <3>3, <3>4 DEF LocalState
  <2>2. ASSUME b # on.fin, IsCanonical(e, b), ~ (Height[b] < Height[on.head])
        PROVE  target.head = b
    <3>1. target = UpdateFinalized(on, b)
      BY Zenon, <2>2 DEF FinalizationTarget
    <3> QED
      BY <1>1, <2>2, <3>1 DEF UpdateFinalized
  <2> QED
    BY Zenon, <2>1, <2>2
<1> HIDE DEF target, p
<1>10. Acceptable(p, target)
  <2>1. CASE target.head = b
    BY Zenon, <1>6, <1>7, <2>1, ChainReflexive DEF Acceptable
  <2>2. CASE target.head # b /\ b = on.fin
    <3>1. target.head = on.head /\ target.fin = on.fin
      BY Zenon, <1>7, <1>8, <2>2
    <3> QED
      BY <1>1, <1>6, <3>1 DEF Acceptable, Follows
  <2>3. CASE target.head # b /\ b # on.fin
    <3>1. /\ target.head = on.head /\ IsCanonical(e, b) /\ Height[b] < Height[on.head]
          /\ Height[b] = Height[on.fin] + 1
      BY Zenon, <1>2, <1>8, <1>9, <2>3
    <3>2. b \in Chain[on.head]
      <4>1. CASE Height[e.fin] <= Height[on.fin]
        <5>1. on.head \in Chain[e.head] /\ b \in Chain[e.head]
          BY Zenon, <3>1, <4>1 DEF Follows, IsCanonical
        <5> QED
          BY <1>1, <3>1, <5>1, ChainOrdered
      <4>2. CASE Height[e.fin] > Height[on.fin]
        <5>1. Comparable(on.head, e.fin)
          BY <1>1, <4>2 DEF Follows
        <5>2. b \in Chain[e.fin]
          BY SMTT(30), <1>1, <3>1, <4>2, ComparableByHeight
        <5>3. CASE e.fin \in Chain[on.head]
          BY Zenon, <1>1, <5>2, <5>3, ChainTransitive
        <5>4. CASE on.head \in Chain[e.fin]
          BY SMTT(30), <1>1, <3>1, <5>2, <5>4, ChainOrdered
        <5> QED
          BY Zenon, <5>1, <5>3, <5>4 DEF Comparable
      <4> QED
        BY <1>1, <4>1, <4>2
    <3>3. Height[e.fin] > Height[b] => Comparable(on.head, e.fin)
      BY <1>1, <3>1 DEF Follows
    <3>4. on.head \in p.known
      BY Zenon, <1>6 DEF Follows
    <3> QED
      BY Zenon, <1>6, <1>7, <3>1, <3>2, <3>3, <3>4 DEF Acceptable
  <2> QED
    BY Zenon, <2>1, <2>2, <2>3
<1>11. /\ FcuAccepted(p, target)
       /\ SubmitForkchoiceUpdate(p, target) \in LayerState
       /\ LayerSound(SubmitForkchoiceUpdate(p, target))
       /\ Follows(SubmitForkchoiceUpdate(p, target), target)
       /\ SubmitForkchoiceUpdate(p, target).fin \in {p.fin, target.fin}
  BY Zenon, <1>6, <1>7, <1>10, SubmitSound
<1>12. ForwardFinalized(e, on, b) = SubmitForkchoiceUpdate(p, target)
  BY Zenon, <1>3, <1>5 DEF ForwardFinalized, p, target
<1>13. FinalizationAccepted(e, on, b)
  BY Zenon, <1>3, <1>5, <1>11 DEF FinalizationAccepted, p, target
<1>14. b \in Chain[target.head]
  BY Zenon, <1>7, <1>10 DEF Acceptable
<1> QED
  BY Zenon, <1>6, <1>7, <1>11, <1>12, <1>13, <1>14 DEF target

(* The select loop.                                                        *)

------------------------------------------------------------------------------

(* The invariant is a matter of the tips, the head, the queue and the      *)
(* task; the pending head may fall back onto the network's tip.            *)
LEMMA SoundDepends ==
    ASSUME NEW t, NEW u, NEW a, NEW s, NEW e, NEW n, NEW k,
           Sound(t, a, e, n, k), Comparable(t.netTip.digest, e.fin),
           u.netTip = t.netTip, u.fin = t.fin, u.head = t.head,
           u.pend.digest \in {t.pend.digest, t.netTip.digest},
           s.queue = a.queue, s.task = a.task
    PROVE  Sound(u, s, e, n, k)
<1>1. LocalOf(u) = LocalOf(t) /\ Latest(u, s) = Latest(t, a)
  BY Zenon DEF LocalOf, Latest
<1>2. TaskSound(u, s, e, n, k)
  BY <1>1 DEF TaskSound, Sound
<1> QED
  BY Zenon, <1>1, <1>2 DEF Sound

(* What recording and pruning do to the head and the pending head.         *)
LEMMA TreeHeads ==
    ASSUME NEW t \in TreeState, NEW b \in Block
    PROVE  \A u \in {Remove(t, b), RecordBlock(t, b), MarkRejected(t, b), Heal(t)} :
              u.head = t.head /\ u.pend.digest \in {t.pend.digest, t.netTip.digest}
<1> USE DEF TreeState, Tip
<1>1. Remove(t, b).head = t.head
      /\ Remove(t, b).pend.digest \in {t.pend.digest, t.netTip.digest}
  BY Zenon DEF Remove
<1>2. RecordBlock(t, b).head = t.head
      /\ RecordBlock(t, b).pend.digest \in {t.pend.digest, t.netTip.digest}
  BY Zenon, <1>1 DEF RecordBlock
<1>3. MarkRejected(t, b).head = t.head
      /\ MarkRejected(t, b).pend.digest \in {t.pend.digest, t.netTip.digest}
  BY Zenon DEF MarkRejected
<1>4. Heal(t).head = t.head /\ Heal(t).pend.digest \in {t.pend.digest, t.netTip.digest}
  BY Zenon DEF Heal
<1> QED
  BY Zenon, <1>1, <1>2, <1>3, <1>4

(* The slot holds the old task, a request, a finalization or the           *)
(* convergence step.                                                       *)
LEMMA StartedTask ==
    ASSUME NEW t \in TreeState, NEW a \in ActorState
    PROVE  LET s == StartNextExecutionTask(t, a)
           IN  \/ s.task = a.task
               \/ s.task.type \in {"verify", "build", "finalize"}
               \/ /\ NextToForward(t) # NoStep
                  /\ s.task.type = NextToForward(t).kind
                  /\ s.task.block = NextToForward(t).block
<1> DEFINE step == NextToForward(t)
           kept == IF RequestKept(t, a) THEN a.request ELSE NoRequest
           s == StartNextExecutionTask(t, a)
<1>1. CASE ~ Idle(a)
  BY Zenon, <1>1 DEF StartNextExecutionTask
<1>2. CASE Idle(a) /\ RequestStarts(t, a)
  <2>1. s = [a EXCEPT !.task = NewTask(a.request.kind, t, a.request.block),
                      !.request = NoRequest]
    BY Zenon, <1>2 DEF StartNextExecutionTask
  <2>2. s.task.type = a.request.kind
    BY <2>1 DEF ActorState, NewTask
  <2> QED
    BY Zenon, <1>2, <2>2 DEF RequestStarts
<1>3. CASE Idle(a) /\ ~ RequestStarts(t, a) /\ step # NoStep
  <2>1. s = [a EXCEPT !.task = NewTask(step.kind, t, step.block), !.request = kept]
    BY Zenon, <1>3 DEF StartNextExecutionTask
  <2>2. s.task = NewTask(step.kind, t, step.block)
    <3> HIDE DEF step, kept
    <3> QED
      BY Zenon, <2>1 DEF ActorState
  <2>3. s.task.type = step.kind /\ s.task.block = step.block
    BY <2>2 DEF NewTask
  <2> QED
    BY Zenon, <1>3, <2>3
<1>4. CASE Idle(a) /\ ~ RequestStarts(t, a) /\ step = NoStep /\ a.queue # <<>>
  <2>1. s = [[a EXCEPT !.task = NewTask("finalize", t, Head(a.queue)), !.queue = Tail(@)]
               EXCEPT !.request = kept]
    BY Zenon, <1>4 DEF StartNextExecutionTask, StartFinalization
  <2>2. s.task = NewTask("finalize", t, Head(a.queue))
    <3> HIDE DEF kept
    <3> QED
      BY Zenon, <2>1 DEF ActorState
  <2> QED
    BY <2>2 DEF NewTask
<1>5. CASE Idle(a) /\ ~ RequestStarts(t, a) /\ step = NoStep /\ a.queue = <<>>
  <2>1. s = [a EXCEPT !.request = kept]
    BY Zenon, <1>5 DEF StartNextExecutionTask
  <2> QED
    BY Zenon, <2>1 DEF ActorState
<1> QED
  BY Zenon, <1>1, <1>2, <1>3, <1>4, <1>5

(* The convergence step: a repoint goes to the finalized block, and a      *)
(* block is a proper descendant of it whose parent is the tracked head or  *)
(* the finalized block, on the pending head's chain.                       *)
LEMMA StepIsSound ==
    ASSUME NEW t \in TreeState, t.fin \in Chain[t.netTip.digest], t.fin \in Chain[t.head],
           NEW step, step = NextToForward(t), step # NoStep
    PROVE  /\ step.kind \in {"block", "repoint"}
           /\ t.fin = t.netTip.digest
           /\ step.kind = "repoint" => step.block = t.fin
           /\ step.kind = "block" =>
                 /\ step.block \in Block /\ step.block \in Chain[t.pend.digest]
                 /\ Parent[step.block] \in {t.head, t.fin}
                 /\ t.fin \in Chain[step.block] \ {step.block}
<1> DEFINE tip == t.netTip.digest
           top == t.pend.digest
           path == Chain[top]
           anchors == path \cap {t.head, tip}
           anchor == Highest(anchors)
           walked == {b \in path : Height[b] > Height[anchor]}
           child == CHOOSE b \in walked : Parent[b] = anchor
<1>1. /\ tip \in Block /\ top \in Block /\ t.head \in Block /\ t.fin \in Block
      /\ path \subseteq Block /\ \A b \in Block : Height[b] \in Nat
  BY Zenon, TreeAssumption DEF TreeState, Tip
<1>2. ~ (Height[t.fin] < Height[tip]) /\ anchors # {}
  BY Zenon DEF NextToForward
<1>3. t.fin = tip
  <2>1. Height[t.fin] <= Height[tip]
    BY Zenon, <1>1, ChainHeight
  <2>2. Height[t.fin] = Height[tip]
    BY <1>1, <1>2, <2>1
  <2> QED
    BY <1>1, <2>2, ChainAssumption
<1>4. anchor \in anchors
  BY Zenon, <1>1, <1>2, HighestExists DEF Highest
<1>5. /\ step.kind \in {"block", "repoint"}
      /\ step.kind = "repoint" => step.block = tip
      /\ step.kind = "block" =>
            /\ step.block = child /\ walked # {}
            /\ \A b \in walked : ~ (Height[b] <= Height[tip])
  BY Zenon DEF NextToForward, NoStep
<1>6. ASSUME step.kind = "block"
      PROVE  /\ child \in path /\ Parent[child] = anchor /\ child \in walked
  <2> HIDE DEF anchor
  <2>1. anchor \in path /\ anchor \in Block
    BY Zenon, <1>1, <1>4
  <2>2. PICK b \in path : Height[b] > Height[anchor]
    BY Zenon, <1>5, <1>6
  <2>3. Height[b] <= Height[top]
    BY Zenon, <1>1, <2>2, ChainHeight
  <2>4. Height[anchor] < Height[top]
    BY SMTT(30), <1>1, <2>1, <2>2, <2>3
  <2>5. PICK c \in path : Parent[c] = anchor /\ Height[c] = Height[anchor] + 1
    BY SMTT(30), <1>1, <2>1, <2>4, ChildOnChain
  <2>6. c \in walked
    BY <1>1, <2>1, <2>5
  <2> QED
    BY Zenon, <2>5, <2>6
<1>7. ASSUME step.kind = "block"
      PROVE  /\ child \in Block /\ child \in path /\ Parent[child] \in {t.head, t.fin}
             /\ t.fin \in Chain[child] /\ t.fin # child
  <2>1. child \in Block /\ child \in walked /\ child \in path /\ Parent[child] = anchor
    BY Zenon, <1>1, <1>6, <1>7
  <2>2. ~ (Height[child] <= Height[tip])
    BY Zenon, <1>5, <1>7, <2>1
  <2>3. anchor \in {t.head, t.fin}
    BY Zenon, <1>3, <1>4
  <2> HIDE DEF child, anchor
  <2>4. t.fin # child
    BY SMTT(30), <1>1, <1>3, <2>2
  <2>5. child # Genesis
    <3>1. Height[tip] \in Nat
      BY Zenon, <1>1
    <3> QED
      BY <2>2, <3>1, TreeAssumption
  <2>6. t.fin \in Chain[Parent[child]]
    BY Zenon, <1>1, <2>1, <2>3, ChainReflexive
  <2>7. t.fin \in Chain[child]
    BY <2>1, <2>5, <2>6, ChainAssumption
  <2> QED
    BY Zenon, <2>1, <2>3, <2>4, <2>7
<1> HIDE DEF child
<1> QED
  BY Zenon, <1>3, <1>5, <1>7

(* Starting the next task keeps the invariant.                             *)
LEMMA StartSound ==
    ASSUME NEW t \in TreeState, NEW a \in ActorState, NEW e \in LayerState,
           NEW n \in Nat, NEW k \in Int,
           t.fin \in Chain[t.netTip.digest], Pipeline(t, a, n), Sound(t, a, e, n, k)
    PROVE  Sound(t, StartNextExecutionTask(t, a), e, n, k)
<1> DEFINE s == StartNextExecutionTask(t, a)
<1> SUFFICES Sound(t, s, e, n, k)
  BY Zenon
<1>1. /\ s \in ActorState
      /\ \/ s.queue = a.queue /\ s.task = a.task
         \/ /\ Idle(a)
            /\ s.queue = a.queue
            /\ s.task.type \notin {"none", "finalize"}
            /\ s.task.on = LocalOf(t)
            /\ s.task.outcome = Running
         \/ /\ Idle(a)
            /\ a.queue # <<>>
            /\ s.queue = Tail(a.queue)
            /\ s.task = NewTask("finalize", t, Head(a.queue))
  BY Zenon, StartNextExecutionTaskEffect
<1>2. \/ s.task = a.task
      \/ s.task.type \in {"verify", "build", "finalize"}
      \/ /\ NextToForward(t) # NoStep
         /\ s.task.type = NextToForward(t).kind
         /\ s.task.block = NextToForward(t).block
  BY Zenon, StartedTask
<1> HIDE DEF s
<1>3. /\ Running.kind = "running"
      /\ Idle(a) => a.task.outcome.kind = "running" /\ Latest(t, a) = LocalOf(t)
                    /\ Height[t.fin] <= n - Len(a.queue) /\ k <= Height[t.fin]
  BY Zenon DEF Running, Idle, Sound, TaskSound, Latest, LocalOf
<1>4. CASE s.queue = a.queue /\ s.task = a.task
  <2>1. Latest(t, s) = Latest(t, a)
    BY Zenon, <1>4 DEF Latest
  <2>2. TaskSound(t, s, e, n, k)
    BY <1>4, <2>1 DEF Sound, TaskSound
  <2> QED
    BY Zenon, <2>1, <2>2 DEF Sound
<1>5. ASSUME Idle(a), s.queue = a.queue, s.task.on = LocalOf(t), s.task.outcome = Running,
             s.task.type \notin {"none", "finalize"},
             s.task.type = "repoint" => s.task.block = t.fin,
             s.task.type = "block" =>
                /\ t.fin \in Chain[s.task.block] \ {s.task.block}
                /\ Parent[s.task.block] \in e.known
                /\ Height[e.fin] > Height[t.fin] => Comparable(s.task.block, e.fin)
      PROVE  Sound(t, s, e, n, k)
  <2>1. Latest(t, s) = LocalOf(t) /\ LocalOf(t).fin = t.fin
    BY Zenon, <1>3, <1>5 DEF Latest, LocalOf
  <2>2. TaskSound(t, s, e, n, k)
    BY Zenon, <1>3, <1>5, <2>1 DEF TaskSound
  <2> QED
    BY Zenon, <1>3, <1>5, <2>1, <2>2 DEF Sound
<1>6. CASE /\ Idle(a) /\ s.queue = a.queue
           /\ s.task.type \notin {"none", "finalize"}
           /\ s.task.on = LocalOf(t) /\ s.task.outcome = Running
  <2>1. CASE s.task.type \in {"verify", "build"}
    BY Zenon, <1>5, <1>6, <2>1
  <2>2. CASE /\ NextToForward(t) # NoStep
             /\ s.task.type = NextToForward(t).kind
             /\ s.task.block = NextToForward(t).block
    <3>1. PICK step : step = NextToForward(t)
      BY Zenon
    <3>2. /\ t.fin = t.netTip.digest
          /\ step.kind = "repoint" => step.block = t.fin
          /\ step.kind = "block" =>
                /\ step.block \in Block /\ step.block \in Chain[t.pend.digest]
                /\ Parent[step.block] \in {t.head, t.fin}
                /\ t.fin \in Chain[step.block] \ {step.block}
      BY Zenon, <2>2, <3>1, StepIsSound DEF Sound
    <3>3. ASSUME step.kind = "block"
          PROVE  Parent[step.block] \in e.known
      <4>1. t.head \in e.known /\ t.fin \in Chain[t.head]
        BY <1>3, <1>6 DEF Sound, Follows, LocalOf
      <4>2. t.fin \in e.known
        BY Zenon, <4>1 DEF Sound, LayerSound
      <4> QED
        BY Zenon, <3>2, <3>3, <4>1, <4>2
    <3>4. ASSUME step.kind = "block", Height[e.fin] > Height[t.fin]
          PROVE  Comparable(step.block, e.fin)
      <4>1. Comparable(t.pend.digest, e.fin)
        BY Zenon, <3>2, <3>4 DEF Sound
      <4>2. t.pend.digest \in Block /\ e.fin \in Block
        BY Zenon DEF TreeState, Tip, LayerState
      <4> QED
        BY Zenon, <3>2, <3>4, <4>1, <4>2, AncestorComparable
    <3> QED
      BY Zenon, <1>5, <1>6, <2>2, <3>1, <3>2, <3>3, <3>4
  <2>3. CASE s.task = a.task
    BY Zenon, <1>6, <2>3 DEF Idle
  <2> QED
    BY Zenon, <1>2, <1>6, <2>1, <2>2, <2>3
<1>7. CASE /\ Idle(a) /\ a.queue # <<>>
           /\ s.queue = Tail(a.queue)
           /\ s.task = NewTask("finalize", t, Head(a.queue))
  <2>1. /\ s.task.type = "finalize" /\ s.task.block = Head(a.queue)
        /\ s.task.on = LocalOf(t) /\ s.task.outcome = Running
    BY <1>7 DEF NewTask
  <2>2. Latest(t, s) = LocalOf(t) /\ LocalOf(t).fin = t.fin
    BY Zenon, <1>3, <2>1 DEF Latest, LocalOf
  <2>3. a.queue \in Seq(Block) /\ Len(a.queue) \in Nat /\ Len(a.queue) # 0
        /\ Head(a.queue) = a.queue[1]
    BY <1>7 DEF ActorState
  <2>4. Height[a.queue[1]] = n - Len(a.queue) + 1 - 1
    <3>1. 1 \in 1 .. Len(a.queue)
      BY <2>3
    <3> QED
      BY Zenon, <3>1 DEF Pipeline
  <2>5. Height[t.fin] <= Height[s.task.block]
    <3>1. n - Len(a.queue) + 1 - 1 = n - Len(a.queue)
      BY <2>3
    <3> QED
      BY Zenon, <1>3, <1>7, <2>1, <2>3, <2>4, <3>1
  <2>6. TaskSound(t, s, e, n, k)
    BY Zenon, <1>3, <1>7, <2>1, <2>2, <2>5 DEF TaskSound
  <2> QED
    BY Zenon, <1>3, <1>7, <2>2, <2>6 DEF Sound
<1> QED
  BY Zenon, <1>1, <1>4, <1>6, <1>7

(* The top of the loop keeps the invariant.                                *)
LEMMA LoopTopSound ==
    ASSUME NEW t \in TreeState, t.withheld \subseteq t.blocks,
           NEW a \in ActorState, NEW e \in LayerState, NEW n \in Nat, NEW k \in Int,
           t.fin \in Chain[t.netTip.digest], Comparable(t.netTip.digest, e.fin),
           Pipeline(t, a, n), Sound(t, a, e, n, k), LoopTop(t, a)
    PROVE  Sound(tree', actor', e, n, k)
<1> DEFINE h == Heal(t)
           s == StartNextExecutionTask(h, a)
           f == UpdateNotarizedBlockFetch(h, s)
<1>1. tree' = h /\ actor' = UpdateFcuHeartbeatTimer(f)
  BY Zenon DEF LoopTop
<1>2. SameTips(t, h) /\ h.head = t.head /\ h.pend.digest \in {t.pend.digest, t.netTip.digest}
  BY Zenon, TreeUpdates, TreeHeads, TreeAssumption
<1> HIDE DEF h
<1>3. /\ h \in TreeState /\ h.netTip = t.netTip /\ h.fin = t.fin
      /\ Pipeline(h, a, n) /\ Sound(h, a, e, n, k)
  BY Zenon, <1>2, PipelineDepends, SoundDepends DEF SameTips
<1>4. s \in ActorState /\ Sound(h, s, e, n, k)
  BY Zenon, <1>3, StartSound, StartNextExecutionTaskEffect
<1> HIDE DEF s
<1>5. f \in ActorState /\ f.queue = s.queue /\ f.task = s.task
  BY Zenon, <1>3, <1>4, FirstMissingAncestorType DEF UpdateNotarizedBlockFetch, ActorState
<1> HIDE DEF f
<1>6. LET g == UpdateFcuHeartbeatTimer(f) IN g.queue = f.queue /\ g.task = f.task
  BY Zenon, <1>5 DEF UpdateFcuHeartbeatTimer, ActorState
<1> QED
  BY Zenon, <1>1, <1>3, <1>4, <1>5, <1>6, SoundDepends
==============================================================================
