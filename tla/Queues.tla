------------------------------- MODULE Queues -------------------------------
(* The operations of Rust's VecDeque on the relay's mailboxes and on the     *)
(* streams made from them.  They are written out, rather than taken from     *)
(* SequencesExt, because their effect on order and content is part of what   *)
(* is proved of the relay, and SelectSeq has no definition to prove it from. *)
EXTENDS Naturals, Sequences, Functions

\* VecDeque::retain: the elements that belong to S, in their old order.
Retain(s, S) ==
    LET kept[i \in 0..Len(s)] ==
          IF i = 0 THEN <<>>
          ELSE IF s[i] \in S THEN Append(kept[i - 1], s[i]) ELSE kept[i - 1]
    IN kept[Len(s)]

\* VecDeque::remove at the position of the first x, if there is one.
RemoveFirst(s, x) ==
    LET at == {i \in DOMAIN s : s[i] = x}
        first == CHOOSE i \in at : \A j \in at : i <= j
    IN IF at = {} THEN s
       ELSE [i \in 1..(Len(s) - 1) |-> IF i < first THEN s[i] ELSE s[i + 1]]
=============================================================================
