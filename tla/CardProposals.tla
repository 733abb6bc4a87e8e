--------------------------- MODULE CardProposals ---------------------------
(***************************************************************************)
(* Proposals to create, edit or delete a card, and the requests that       *)
(* accept, reject or withdraw them.  Requests run concurrently, each in a  *)
(* READ COMMITTED transaction of its own: what a request has changed is    *)
(* seen by the others when it commits, a row it has updated is locked      *)
(* until then, and card_versions has a unique index on (node, version).    *)
(*                                                                         *)
(* A card's text is named by the proposal it comes from; text 0 is what    *)
(* ingestion wrote.  A request by a user who may not make it, and one that *)
(* finds its proposal not pending, changes nothing and is left out; so are *)
(* the taxonomy assignment a created card gets in the same transaction,    *)
(* and the embeddings.                                                     *)
(***************************************************************************)
EXTENDS Naturals, FiniteSets

CONSTANTS
    MaxProposals,   \* bound: proposals submitted
    MaxNodes,       \* bound: cards
    Ingested,       \* cards ingestion has made, each at version 1
    MaxVersion,     \* bound: versions of a card
    Request,        \* bound: review requests
    Contended       \* proposals whose requests may run at the same time

ASSUME ConstantsAssumption ==
    /\ MaxProposals \in Nat
    /\ MaxNodes \in Nat
    /\ Ingested \in 0..MaxNodes
    /\ MaxVersion \in Nat \ {0}
    /\ Contended \subseteq 1..MaxProposals

ProposalId == 1..MaxProposals
NodeId == 1..MaxNodes
Version == 1..MaxVersion
Text == 0..MaxProposals

Final == {"accepted_applied", "rejected", "withdrawn"}

\* A CardVersion.
VersionRow == [node : NodeId, version : Version, text : Text]

VARIABLES
    type,       \* proposal_type of each proposal, "none" before it exists
    target,     \* its target node; of a create proposal, the node it made
    status,
    audits,     \* number of its ProposalApplyAudit rows
    lifecycle,  \* lifecycle_state of each node
    current,    \* its current_version
    text,       \* its current text
    versions,   \* card_versions
    pc,         \* what each request is doing
    decision,   \* the status it wants to set
    on,         \* its proposal
    seen        \* the current_version it has read of the target

cards == <<lifecycle, current, text, versions>>
proposals == <<type, target, status, audits>>
requests == <<pc, decision, on, seen>>
vars == <<type, target, status, audits, lifecycle, current, text, versions,
          pc, decision, on, seen>>

TypeOK ==
    /\ type \in [ProposalId -> {"none", "create", "edit", "delete"}]
    /\ target \in [ProposalId -> 0..MaxNodes]
    /\ status \in [ProposalId -> {"pending_review"} \cup Final]
    /\ audits \in [ProposalId -> Nat]
    /\ lifecycle \in [NodeId -> {"absent", "active", "archived"}]
    /\ current \in [NodeId -> 0..MaxVersion]
    /\ text \in [NodeId -> Text]
    /\ versions \subseteq VersionRow
    /\ pc \in [Request -> {"idle", "checked", "read", "applied", "marked", "done"}]
    /\ decision \in [Request -> Final]
    /\ on \in [Request -> 0..MaxProposals]
    /\ seen \in [Request -> 0..MaxVersion]

Init ==
    /\ type = [p \in ProposalId |-> "none"]
    /\ target = [p \in ProposalId |-> 0]
    /\ status = [p \in ProposalId |-> "pending_review"]
    /\ audits = [p \in ProposalId |-> 0]
    /\ lifecycle = [n \in NodeId |-> IF n <= Ingested THEN "active" ELSE "absent"]
    /\ current = [n \in NodeId |-> IF n <= Ingested THEN 1 ELSE 0]
    /\ text = [n \in NodeId |-> 0]
    /\ versions = {[node |-> n, version |-> 1, text |-> 0] : n \in {m \in NodeId : m <= Ingested}}
    /\ pc = [r \in Request |-> "idle"]
    /\ decision = [r \in Request |-> "rejected"]
    /\ on = [r \in Request |-> 0]
    /\ seen = [r \in Request |-> 0]

-----------------------------------------------------------------------------
(* submit_card_proposal, submit_card_suggested_edit *)

HasVersion(n, v) == \E w \in versions : w.node = n /\ w.version = v

SubmitCreate(p) ==
    /\ type[p] = "none"
    /\ type' = [type EXCEPT ![p] = "create"]
    /\ UNCHANGED <<target, status, audits, cards, requests>>

\* The base version only has to exist: it may be an old one, and its card may
\* be archived.
SubmitChange(p, t, n) ==
    /\ type[p] = "none"
    /\ \E base \in Version : HasVersion(n, base)
    /\ type' = [type EXCEPT ![p] = t]
    /\ target' = [target EXCEPT ![p] = n]
    /\ UNCHANGED <<status, audits, cards, requests>>

-----------------------------------------------------------------------------
(* accept_card_proposal, reject_card_proposal, withdraw_card_proposal *)

Accepting(r) == decision[r] = "accepted_applied"

Busy(r) == pc[r] \in {"checked", "read", "applied", "marked"}

\* A request that has updated its target and not ended yet holds the row.  A
\* delete updates the card only when it is active.
HoldsNode(r, n) ==
    /\ pc[r] \in {"applied", "marked"} /\ Accepting(r)
    /\ target[on[r]] = n
    /\ type[on[r]] = "edit" \/ (type[on[r]] = "delete" /\ lifecycle[n] = "active")

HoldsProposal(r, p) == pc[r] = "marked" /\ on[r] = p

\* Mutant: a proposal in any state.
CheckExists(r, p, d) ==
    /\ pc[r] = "idle"
    /\ type[p] # "none"
    /\ p \in Contended \/ \A q \in Request : on[q] = p => ~ Busy(q)
    /\ pc' = [pc EXCEPT ![r] = "checked"]
    /\ decision' = [decision EXCEPT ![r] = d]
    /\ on' = [on EXCEPT ![r] = p]
    /\ UNCHANGED <<proposals, cards, seen>>

\* _fetch_pending_proposal.  Nothing is locked.
Check(r, p, d) ==
    /\ pc[r] = "idle"
    /\ type[p] # "none" /\ status[p] = "pending_review"
    /\ p \in Contended \/ \A q \in Request : on[q] = p => ~ Busy(q)
    /\ pc' = [pc EXCEPT ![r] = "checked"]
    /\ decision' = [decision EXCEPT ![r] = d]
    /\ on' = [on EXCEPT ![r] = p]
    /\ UNCHANGED <<proposals, cards, seen>>

\* An accepted create proposal, after the embedding call: create_node.  The
\* node exists for the others when the request commits.
ApplyCreate(r) ==
    /\ pc[r] = "checked" /\ Accepting(r) /\ type[on[r]] = "create"
    /\ pc' = [pc EXCEPT ![r] = "applied"]
    /\ UNCHANGED <<proposals, cards, decision, on, seen>>

\* An edit, after the embedding call: create_next_card_version reads the node.
ReadNode(r) ==
    LET n == target[on[r]] IN
    /\ pc[r] = "checked" /\ Accepting(r) /\ type[on[r]] = "edit"
    /\ lifecycle[n] = "active" /\ current[n] < MaxVersion
    /\ pc' = [pc EXCEPT ![r] = "read"]
    /\ seen' = [seen EXCEPT ![r] = current[n]]
    /\ UNCHANGED <<proposals, cards, decision, on>>

\* Mutant: no unique index on (node, version).
ApplyEditUnchecked(r) ==
    LET n == target[on[r]] IN
    /\ pc[r] = "read"
    /\ \A q \in Request : ~ HoldsNode(q, n)
    /\ pc' = [pc EXCEPT ![r] = "applied"]
    /\ UNCHANGED <<proposals, cards, decision, on, seen>>

\* Mutant: the edit is committed before the proposal is marked.
ApplyEditCommits(r) ==
    LET n == target[on[r]] IN
    /\ pc[r] = "read"
    /\ \A q \in Request : ~ HoldsNode(q, n)
    /\ ~ HasVersion(n, seen[r] + 1)
    /\ pc' = [pc EXCEPT ![r] = "applied"]
    /\ current' = [current EXCEPT ![n] = seen[r] + 1]
    /\ text' = [text EXCEPT ![n] = on[r]]
    /\ versions' = versions \cup {[node |-> n, version |-> seen[r] + 1, text |-> on[r]]}
    /\ UNCHANGED <<proposals, lifecycle, decision, on, seen>>

\* ... and writes it and the next version.  Another request's update of the
\* node is waited for; if it wrote the same version, the insert fails: Abort.
ApplyEdit(r) ==
    LET n == target[on[r]] IN
    /\ pc[r] = "read"
    /\ \A q \in Request : ~ HoldsNode(q, n)
    /\ ~ HasVersion(n, seen[r] + 1)
    /\ pc' = [pc EXCEPT ![r] = "applied"]
    /\ UNCHANGED <<proposals, cards, decision, on, seen>>

\* A delete: archive_node.
ApplyDelete(r) ==
    /\ pc[r] = "checked" /\ Accepting(r) /\ type[on[r]] = "delete"
    /\ lifecycle[target[on[r]]] = "active" =>
           \A q \in Request : ~ HoldsNode(q, target[on[r]])
    /\ pc' = [pc EXCEPT ![r] = "applied"]
    /\ UNCHANGED <<proposals, cards, decision, on, seen>>

\* _transition_card_proposal: the status is not looked at again.
Mark(r) ==
    /\ pc[r] = IF Accepting(r) THEN "applied" ELSE "checked"
    /\ \A q \in Request : ~ HoldsProposal(q, on[r])
    /\ pc' = [pc EXCEPT ![r] = "marked"]
    /\ UNCHANGED <<proposals, cards, decision, on, seen>>

\* What the transaction wrote to the cards becomes visible.
CommitCreate(p) ==
    \E n \in NodeId :
        /\ lifecycle[n] = "absent" /\ \A m \in NodeId : lifecycle[m] = "absent" => n <= m
        /\ target' = [target EXCEPT ![p] = n]
        /\ lifecycle' = [lifecycle EXCEPT ![n] = "active"]
        /\ current' = [current EXCEPT ![n] = 1]
        /\ text' = [text EXCEPT ![n] = p]
        /\ versions' = versions \cup {[node |-> n, version |-> 1, text |-> p]}

\* Mutant: every column of the node is written, lifecycle_state too.
CommitWholeRow(p, v) ==
    LET n == target[p] IN
    /\ current' = [current EXCEPT ![n] = v]
    /\ text' = [text EXCEPT ![n] = p]
    /\ versions' = versions \cup {[node |-> n, version |-> v, text |-> p]}
    /\ lifecycle' = [lifecycle EXCEPT ![n] = "active"]
    /\ UNCHANGED target

CommitEdit(p, v) ==
    LET n == target[p] IN
    /\ current' = [current EXCEPT ![n] = v]
    /\ text' = [text EXCEPT ![n] = p]
    /\ versions' = versions \cup {[node |-> n, version |-> v, text |-> p]}
    /\ UNCHANGED <<target, lifecycle>>

\* Mutant: a lifecycle state the table does not have.
CommitDeleted(p) ==
    /\ lifecycle' = [lifecycle EXCEPT ![target[p]] = "deleted"]
    /\ UNCHANGED <<target, current, text, versions>>

CommitDelete(p) ==
    /\ lifecycle' = [lifecycle EXCEPT ![target[p]] = "archived"]
    /\ UNCHANGED <<target, current, text, versions>>

\* The change of the cards, the status and the audit row in one commit.
Commit(r) ==
    LET p == on[r] IN
    /\ pc[r] = "marked"
    /\ pc' = [pc EXCEPT ![r] = "done"]
    /\ status' = [status EXCEPT ![p] = decision[r]]
    /\ \/ /\ ~ Accepting(r)
          /\ UNCHANGED <<audits, target, cards>>
       \/ /\ Accepting(r)
          /\ audits' = [audits EXCEPT ![p] = @ + 1]
          /\ \/ type[p] = "create" /\ CommitCreate(p)
             \/ type[p] = "edit" /\ CommitEdit(p, seen[r] + 1)
             \/ type[p] = "delete" /\ CommitDelete(p)
    /\ UNCHANGED <<type, decision, on, seen>>

\* Rollback: the embedding call, a statement or the commit fails, the target
\* is archived, or the process dies.
Abort(r) ==
    /\ Busy(r)
    /\ pc' = [pc EXCEPT ![r] = "done"]
    /\ UNCHANGED <<proposals, cards, decision, on, seen>>

-----------------------------------------------------------------------------

Submit(p) ==
    \/ SubmitCreate(p)
    \/ \E n \in NodeId, t \in {"edit", "delete"} : SubmitChange(p, t, n)

Review(r) ==
    \/ \E p \in ProposalId, d \in Final : Check(r, p, d)
    \/ ApplyCreate(r) \/ ReadNode(r) \/ ApplyEdit(r) \/ ApplyDelete(r)
    \/ Mark(r) \/ Commit(r) \/ Abort(r)

Next ==
    \/ \E p \in ProposalId : Submit(p)
    \/ \E r \in Request : Review(r)

Spec == Init /\ [][Next]_vars

-----------------------------------------------------------------------------
(* Properties *)

\* "nodes.current_version equals the highest formal card_versions.version for
\* that card": the versions of a card are 1 to current_version, one row each,
\* and the current text is that of the last, however edits race.
VersionsConsistent ==
    \A n \in NodeId :
        /\ \A v \in Version : HasVersion(n, v) <=> v <= current[n]
        /\ \A w, x \in versions : w.node = n /\ x.node = n /\ w.version = x.version => w = x
        /\ \A w \in versions : w.node = n /\ w.version = current[n] => w.text = text[n]

\* "Reviewer acceptance is the only proposal transition that applies formal
\* knowledge changes", and it is audited: every version a proposal wrote has
\* an audit row for it.
ChangesAreAudited ==
    \A w \in versions :
        w.text # 0 => Cardinality({x \in versions : x.text = w.text}) <= audits[w.text]

\* An archived card is never active again, whatever edit was under way.
ArchiveIsFinal ==
    [][\A n \in NodeId : lifecycle[n] = "archived" => lifecycle'[n] = "archived"]_vars

\* A proposal whose requests do not overlap is settled once: it is applied
\* when it ends accepted, exactly once, and never when it ends otherwise.
SettledOnce ==
    \A p \in ProposalId \ Contended :
        audits[p] = IF status[p] = "accepted_applied" THEN 1 ELSE 0

\* "rejected and withdrawn proposals do not change formal card state."
RejectedChangesNothing ==
    \A p \in ProposalId : status[p] \in {"rejected", "withdrawn"} => audits[p] = 0

=============================================================================
