--------------------------- MODULE ExecutionLayer ---------------------------
(***************************************************************************)
(* The execution layer, as the executor's calls see it (the ExecutionLayer *)
(* trait of executor/mod.rs, answered by reth's engine).                   *)
(*                                                                         *)
(* A layer is a record e:                                                  *)
(*   known  the blocks it has executed                                     *)
(*   head   its canonical head; the canonical chain is Chain[head]         *)
(*   fin    its finalized block                                            *)
(* Every call is answered from a layer that is not syncing: the executor   *)
(* waits for that before it makes its first one.                           *)
(***************************************************************************)
EXTENDS BlockTree

LayerState == [known : SUBSET Block, head : Block, fin : Block]

(* canonical_block_hash(h) = b, for a height the canonical chain may not   *)
(* reach.                                                                  *)
IsCanonical(e, b) == b \in Chain[e.head]

(* new_payload: a block whose parent was executed is executed, another one *)
(* is answered SYNCING.                                                    *)
PayloadValid(e, b) == b \in e.known \/ Parent[b] \in e.known

NewPayload(e, b) ==
    IF PayloadValid(e, b) THEN [e EXCEPT !.known = @ \cup {b}] ELSE e

(* fork_choice_updated with head h and finalized block f.  A head on the   *)
(* canonical chain below the current one is answered VALID and changes     *)
(* nothing, the finalized block included (tempo enables                    *)
(* always_process_payload_attributes_on_canonical_head and leaves          *)
(* allow_unwind_canonical_header off); a head that was never executed is   *)
(* answered SYNCING.                                                       *)
NoOpHead(e, h) == IsCanonical(e, h) /\ h # e.head

ForkchoiceValid(e, h, f) ==
    \/ NoOpHead(e, h)
    \/ h \in e.known /\ f \in Chain[h]

(* The head moves before the finalized block is looked up on the chain it  *)
(* selects, so an update that names a finalized block off that chain is    *)
(* answered INVALID and still moves the head.                              *)
ForkChoiceUpdated(e, h, f) ==
    IF NoOpHead(e, h) \/ h \notin e.known
    THEN e
    ELSE [e EXCEPT !.head = h, !.fin = IF f \in Chain[h] THEN f ELSE @]
==============================================================================
