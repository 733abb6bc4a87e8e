----------------------------- MODULE AcceptOnce -----------------------------
(***************************************************************************)
(* What an Idempotency-Key promises at POST /api/v1/cards: the first       *)
(* submission under a key is accepted, and from then on the key stands for *)
(* that card.  A later submission under the key changes nothing.           *)
(*                                                                         *)
(* Both ends of the interface implement it: the ingestion API              *)
(* (KnowledgeIngestion) and the pipeline that calls it (SourcePipeline).   *)
(***************************************************************************)
CONSTANTS Key, Card

VARIABLE accepted       \* the submissions accepted so far

Submission == [key : Key, card : Card]

Init == accepted = {}

Accept(s) ==
    /\ \A t \in accepted : t.key # s.key
    /\ accepted' = accepted \cup {s}

Next == \E s \in Submission : Accept(s)

Spec == Init /\ [][Next]_accepted

=============================================================================
