------------------------------- MODULE CardProofs -------------------------------
(***************************************************************************)
(* Proofs about the cards.  CardProposals: types, the version history,     *)
(* archived cards, the audit of every change, and that requests which take *)
(* turns settle a proposal once.  CardGraph: edges are to the best older   *)
(* cards, both planners plan the same edges, a search favours better       *)
(* cards, connected titles are next to a match.                            *)
(***************************************************************************)
EXTENDS CardProposals, CardGraph, OrderingProofs

\* What a request that is under way works on.
Working ==
    \A r \in Request :
        /\ Busy(r) => on[r] \in ProposalId /\ type[on[r]] # "none"
        /\ pc[r] = "read" => Accepting(r) /\ type[on[r]] = "edit"

\* The target of a change exists, and a node exists when it has a version.
Targets ==
    /\ \A p \in ProposalId :
        type[p] \in {"edit", "delete"} => target[p] \in NodeId /\ current[target[p]] >= 1
    /\ \A n \in NodeId : lifecycle[n] = "absent" <=> current[n] = 0

\* A request that read a version saw no later one than there is, and one that
\* wrote the next version holds the node, alone, with no version in between.
Writers ==
    /\ \A r \in Request : pc[r] = "read" =>
           seen[r] <= current[target[on[r]]] /\ seen[r] < MaxVersion
    /\ \A r \in Request :
        pc[r] \in {"applied", "marked"} /\ Accepting(r) /\ type[on[r]] = "edit" =>
           seen[r] = current[target[on[r]]] /\ seen[r] < MaxVersion
    /\ \A q, r \in Request, n \in NodeId : HoldsNode(q, n) /\ HoldsNode(r, n) => q = r

IndInv == TypeOK /\ Working /\ Targets /\ Writers /\ VersionsConsistent

-----------------------------------------------------------------------------

LEMMA InitInv == Init => IndInv
  <1> USE ConstantsAssumption
  <1> SUFFICES ASSUME Init PROVE IndInv
    OBVIOUS
  <1>1. versions \subseteq VersionRow
    BY DEF Init, VersionRow, Version, Text, NodeId
  <1>2. TypeOK
    BY <1>1 DEF Init, TypeOK, Final, Text, NodeId, Version
  <1>3. Working /\ Targets /\ Writers
    BY DEF Init, Working, Targets, Writers, Busy, HoldsNode, NodeId, Accepting
  <1>4. VersionsConsistent
    <2>1. \A w \in versions : w.version = 1 /\ w.text = 0 /\ w.node \in NodeId
                               /\ w = [node |-> w.node, version |-> 1, text |-> 0]
      BY DEF Init
    <2>2. \A n \in NodeId : n <= Ingested => [node |-> n, version |-> 1, text |-> 0] \in versions
      BY DEF Init
    <2>3. \A w \in versions : w.node <= Ingested
      BY DEF Init
    <2>4. ASSUME NEW n \in NodeId, NEW v \in Version PROVE HasVersion(n, v) <=> v <= current[n]
      <3>1. HasVersion(n, v) <=> n <= Ingested /\ v = 1
        BY <2>1, <2>2, <2>3 DEF HasVersion
      <3>2. current[n] = IF n <= Ingested THEN 1 ELSE 0
        BY DEF Init
      <3>3. v \in Nat /\ v >= 1
        BY DEF Version
      <3> QED BY <3>1, <3>2, <3>3
    <2>5. \A w, x \in versions : w.node = x.node => w = x
      BY <2>1
    <2>6. \A n \in NodeId : text[n] = 0
      BY DEF Init
    <2> QED BY <2>1, <2>4, <2>5, <2>6 DEF VersionsConsistent
  <1> QED BY <1>2, <1>3, <1>4 DEF IndInv

LEMMA SubmitStep ==
    ASSUME IndInv, NEW p \in ProposalId, Submit(p) PROVE IndInv'
  <1> USE ConstantsAssumption DEF IndInv, cards, requests
  <1>1. /\ type[p] = "none" /\ UNCHANGED <<status, audits>>
        /\ UNCHANGED <<lifecycle, current, text, versions, pc, decision, on, seen>>
        /\ \/ type' = [type EXCEPT ![p] = "create"] /\ target' = target
           \/ \E n \in NodeId, t \in {"edit", "delete"} :
                /\ \E base \in Version : HasVersion(n, base)
                /\ type' = [type EXCEPT ![p] = t] /\ target' = [target EXCEPT ![p] = n]
    BY DEF Submit, SubmitCreate, SubmitChange
  <1>2. TypeOK'
    <2>1. type' \in [ProposalId -> {"none", "create", "edit", "delete"}]
      BY <1>1 DEF TypeOK
    <2>2. target' \in [ProposalId -> 0..MaxNodes]
      <3>1. target \in [ProposalId -> 0..MaxNodes] /\ NodeId \subseteq 0..MaxNodes
        BY DEF TypeOK, NodeId
      <3>2. target' = target \/ \E n \in NodeId : target' = [target EXCEPT ![p] = n]
        BY <1>1
      <3> QED BY <3>1, <3>2
    <2> QED BY <1>1, <2>1, <2>2 DEF TypeOK
  <1>3. Targets'
    BY <1>1 DEF Targets, VersionsConsistent, TypeOK, Version, NodeId
  <1>4. \A q \in ProposalId \ {p} : type'[q] = type[q] /\ target'[q] = target[q]
    BY <1>1 DEF TypeOK
  <1>5. \A r \in Request : Busy(r) => on[r] \in ProposalId \ {p}
    BY <1>1 DEF Working
  <1>6. Working' /\ Writers'
    BY <1>1, <1>4, <1>5 DEF Working, Writers, Busy, Accepting, HoldsNode
  <1>7. VersionsConsistent'
    BY <1>1 DEF VersionsConsistent, HasVersion
  <1> QED BY <1>2, <1>3, <1>6, <1>7

\* The steps of a request before it commits leave the tables alone.
LEMMA RequestStep ==
    ASSUME IndInv, NEW r \in Request,
           \/ \E p \in ProposalId, d \in Final : Check(r, p, d)
           \/ ApplyCreate(r) \/ ReadNode(r) \/ ApplyEdit(r) \/ ApplyDelete(r)
           \/ Mark(r) \/ Abort(r)
    PROVE  IndInv'
  <1> USE ConstantsAssumption DEF IndInv, cards, proposals
  <1>1. UNCHANGED <<type, target, status, audits, lifecycle, current, text, versions>>
    BY DEF Check, ApplyCreate, ReadNode, ApplyEdit, ApplyDelete, Mark, Abort
  <1>2. Targets' /\ VersionsConsistent'
    BY <1>1 DEF Targets, VersionsConsistent, HasVersion
  <1>3. TypeOK' /\ Working' /\ Writers'
    <2>1. ASSUME NEW p \in ProposalId, NEW d \in Final, Check(r, p, d)
          PROVE  TypeOK' /\ Working' /\ Writers'
      <3>1. TypeOK'
        BY <1>1, <2>1 DEF Check, TypeOK, ProposalId
      <3>2. Working' /\ Writers'
        BY <1>1, <2>1 DEF Check, TypeOK, Working, Writers, Busy, Accepting, HoldsNode
      <3> QED BY <3>1, <3>2
    <2>2. CASE ApplyCreate(r)
      BY <1>1, <2>2 DEF ApplyCreate, TypeOK, Working, Writers, Busy, Accepting, HoldsNode
    <2>3. CASE ReadNode(r)
      <3>1. target[on[r]] \in NodeId /\ current[target[on[r]]] \in 0..MaxVersion
        BY <2>3 DEF ReadNode, Working, Busy, Targets, TypeOK
      <3>2. TypeOK'
        BY <1>1, <2>3, <3>1 DEF ReadNode, TypeOK
      <3>3. Working' /\ Writers'
        BY <1>1, <2>3, <3>1 DEF ReadNode, TypeOK, Working, Writers, Busy, Accepting, HoldsNode
      <3> QED BY <3>2, <3>3
    <2>4. CASE ApplyEdit(r)
      <3>1. target[on[r]] \in NodeId /\ seen[r] \in 0..MaxVersion /\ seen[r] + 1 \in Version
        BY <2>4 DEF ApplyEdit, Working, Writers, Busy, Targets, TypeOK, Version
      <3>2. current[target[on[r]]] \in 0..MaxVersion
        BY <3>1 DEF TypeOK
      <3>3. seen[r] = current[target[on[r]]]
        BY <2>4, <3>1, <3>2 DEF ApplyEdit, VersionsConsistent, Writers
      <3>4. TypeOK' /\ Working'
        BY <1>1, <2>4 DEF ApplyEdit, TypeOK, Working, Busy, Accepting
      <3>5. Writers'
        BY <1>1, <2>4, <3>3 DEF ApplyEdit, TypeOK, Writers, Accepting, HoldsNode
      <3> QED BY <3>4, <3>5
    <2>5. CASE ApplyDelete(r)
      BY <1>1, <2>5 DEF ApplyDelete, TypeOK, Working, Writers, Busy, Accepting, HoldsNode
    <2>6. CASE Mark(r)
      BY <1>1, <2>6 DEF Mark, TypeOK, Working, Writers, Busy, Accepting, HoldsNode
    <2>7. CASE Abort(r)
      BY <1>1, <2>7 DEF Abort, TypeOK, Working, Writers, Busy, Accepting, HoldsNode
    <2> QED BY <2>1, <2>2, <2>3, <2>4, <2>5, <2>6, <2>7
  <1> QED BY <1>2, <1>3

\* What every commit does besides its change of the cards.
LEMMA CommitEffect ==
    ASSUME IndInv, NEW r \in Request, Commit(r)
    PROVE  /\ on[r] \in ProposalId /\ type[on[r]] # "none" /\ Busy(r)
           /\ pc[r] = "marked" /\ pc' = [pc EXCEPT ![r] = "done"]
           /\ UNCHANGED <<type, decision, on, seen>>
           /\ status' \in [ProposalId -> {"pending_review"} \cup Final]
           /\ audits' \in [ProposalId -> Nat]
           /\ pc' \in [Request -> {"idle", "checked", "read", "applied", "marked", "done"}]
  BY DEF IndInv, Commit, Working, Busy, TypeOK

LEMMA CommitStep ==
    ASSUME IndInv, NEW r \in Request, Commit(r) PROVE IndInv'
  <1> USE ConstantsAssumption DEF IndInv
  <1> DEFINE p == on[r]
  <1>1. /\ p \in ProposalId /\ type[p] # "none"
        /\ pc[r] = "marked" /\ pc'[r] = "done"
        /\ \A q \in Request \ {r} : pc'[q] = pc[q]
        /\ UNCHANGED <<type, decision, on, seen>>
    BY CommitEffect DEF TypeOK
  <1>2. /\ status' \in [ProposalId -> {"pending_review"} \cup Final]
        /\ audits' \in [ProposalId -> Nat]
        /\ pc' \in [Request -> {"idle", "checked", "read", "applied", "marked", "done"}]
    BY CommitEffect
  <1>3. Working'
    BY <1>1 DEF Working, Busy, Accepting
  <1>4. CASE UNCHANGED <<target, lifecycle, current, text, versions>>
    <2>1. TypeOK'
      BY <1>1, <1>2, <1>4 DEF TypeOK
    <2>2. Targets' /\ Writers' /\ VersionsConsistent'
      BY <1>1, <1>4 DEF Targets, Writers, VersionsConsistent, HasVersion, Accepting, HoldsNode
    <2> QED BY <1>3, <2>1, <2>2
  <1>5. CASE Accepting(r) /\ type[p] = "create" /\ CommitCreate(p)
    <2>1. PICK n \in NodeId :
              /\ lifecycle[n] = "absent"
              /\ target' = [target EXCEPT ![p] = n]
              /\ lifecycle' = [lifecycle EXCEPT ![n] = "active"]
              /\ current' = [current EXCEPT ![n] = 1]
              /\ text' = [text EXCEPT ![n] = p]
              /\ versions' = versions \cup {[node |-> n, version |-> 1, text |-> p]}
      BY <1>5 DEF CommitCreate
    <2>2. current[n] = 0 /\ [node |-> n, version |-> 1, text |-> p] \in VersionRow
      BY <1>1, <2>1 DEF Targets, VersionRow, Version, Text, ProposalId
    <2>3. TypeOK'
      <3>1. versions' \subseteq VersionRow
        BY <2>1, <2>2 DEF TypeOK
      <3>2. /\ target' \in [ProposalId -> 0..MaxNodes]
            /\ lifecycle' \in [NodeId -> {"absent", "active", "archived"}]
            /\ current' \in [NodeId -> 0..MaxVersion]
            /\ text' \in [NodeId -> Text]
        BY <1>1, <2>1 DEF TypeOK, NodeId, Text, ProposalId
      <3> QED BY <1>1, <1>2, <3>1, <3>2 DEF TypeOK
    <2>4. Targets'
      BY <1>1, <1>5, <2>1, <2>2 DEF Targets, TypeOK
    <2>5. \A q \in ProposalId : type[q] \in {"edit", "delete"} =>
              /\ target'[q] = target[q] /\ current'[target[q]] = current[target[q]]
              /\ lifecycle'[target[q]] = lifecycle[target[q]]
      BY <1>1, <1>5, <2>1, <2>2 DEF Targets, TypeOK
    <2>6. \A q \in Request, m \in NodeId : HoldsNode(q, m)' => HoldsNode(q, m)
      BY <1>1, <2>5 DEF HoldsNode, Accepting, Working, Busy, TypeOK
    <2>7. Writers'
      BY <1>1, <2>5, <2>6 DEF Writers, Accepting, Working, Busy
    <2>8. VersionsConsistent'
      <3> DEFINE new == [node |-> n, version |-> 1, text |-> p]
      <3>1. \A w \in versions : w.node # n
        BY <2>2 DEF VersionsConsistent, HasVersion, TypeOK, VersionRow, Version
      <3>2. \A w \in versions' : (w \in versions /\ w.node # n) \/ w = new
        BY <2>1, <3>1
      <3>3. \A m \in NodeId \ {n} : current'[m] = current[m] /\ text'[m] = text[m]
        BY <2>1 DEF TypeOK
      <3>4. current'[n] = 1 /\ text'[n] = p
        BY <2>1 DEF TypeOK
      <3>5. ASSUME NEW m \in NodeId, NEW v \in Version PROVE HasVersion(m, v)' <=> v <= current'[m]
        <4>1. CASE m = n
          <5>1. new \in versions' /\ new.node = n /\ new.version = 1
            BY <2>1
          <5>2. HasVersion(m, v)' <=> v = 1
            BY <3>2, <4>1, <5>1 DEF HasVersion
          <5> QED BY <3>4, <4>1, <5>2 DEF Version
        <4>2. CASE m # n
          BY <2>1, <3>2, <3>3, <4>2 DEF HasVersion, VersionsConsistent
        <4> QED BY <4>1, <4>2
      <3>6. \A m \in NodeId : \A w, x \in versions' :
                w.node = m /\ x.node = m /\ w.version = x.version => w = x
        BY <3>2 DEF VersionsConsistent
      <3>7. \A m \in NodeId : \A w \in versions' :
                w.node = m /\ w.version = current'[m] => w.text = text'[m]
        BY <3>2, <3>3, <3>4 DEF VersionsConsistent
      <3> QED BY <3>5, <3>6, <3>7 DEF VersionsConsistent
    <2> QED BY <1>3, <2>3, <2>4, <2>7, <2>8
  <1>6. CASE Accepting(r) /\ type[p] = "edit" /\ CommitEdit(p, seen[r] + 1)
    <2> DEFINE n == target[p]
               new == [node |-> n, version |-> seen[r] + 1, text |-> p]
    <2>1. n \in NodeId /\ current[n] \in 0..MaxVersion /\ current[n] >= 1
      BY <1>1, <1>6 DEF Targets, TypeOK
    <2>2. seen[r] = current[n] /\ seen[r] < MaxVersion
      BY <1>1, <1>6 DEF Writers
    <2>3. /\ current' = [current EXCEPT ![n] = current[n] + 1]
          /\ text' = [text EXCEPT ![n] = p]
          /\ versions' = versions \cup {new}
          /\ UNCHANGED <<target, lifecycle>>
      BY <1>6, <2>2 DEF CommitEdit
    <2>4. new \in VersionRow
      BY <1>1, <2>1, <2>2 DEF VersionRow, Version, Text, ProposalId
    <2>5. TypeOK'
      <3>1. current[n] + 1 \in 0..MaxVersion /\ p \in Text
        BY <1>1, <2>1, <2>2 DEF Text, ProposalId
      <3>2. current' \in [NodeId -> 0..MaxVersion] /\ text' \in [NodeId -> Text]
        BY <2>1, <2>3, <3>1 DEF TypeOK
      <3>3. versions' \subseteq VersionRow
        BY <2>3, <2>4 DEF TypeOK
      <3> QED BY <1>1, <1>2, <2>3, <3>2, <3>3 DEF TypeOK
    <2>6. Targets'
      BY <1>1, <2>1, <2>3 DEF Targets, TypeOK
    <2>7. \A q \in Request \ {r} : ~ HoldsNode(q, n)
      BY <1>1, <1>6, <2>1 DEF Writers, HoldsNode
    <2>8. Writers'
      <3>1. ASSUME NEW q \in Request, pc'[q] = "read"
            PROVE  seen[q] <= current'[target[on[q]]] /\ seen[q] < MaxVersion
        <4>1. on[q] \in ProposalId /\ type[on[q]] = "edit" /\ pc[q] = "read"
          BY <1>1, <3>1 DEF Working, Busy
        <4>2. target[on[q]] \in NodeId
          BY <4>1 DEF Targets
        <4> QED BY <2>1, <2>3, <4>1, <4>2 DEF Writers, TypeOK
      <3>2. ASSUME NEW q \in Request, pc'[q] \in {"applied", "marked"}, Accepting(q),
                   type[on[q]] = "edit"
            PROVE  seen[q] = current'[target[on[q]]] /\ seen[q] < MaxVersion
        <4>1. q # r /\ on[q] \in ProposalId /\ pc[q] \in {"applied", "marked"}
          BY <1>1, <3>2 DEF Working, Busy
        <4>2. target[on[q]] \in NodeId /\ target[on[q]] # n
          BY <2>7, <3>2, <4>1 DEF Targets, HoldsNode
        <4> QED BY <2>1, <2>3, <3>2, <4>1, <4>2 DEF Writers, TypeOK
      <3>3. \A q \in Request, m \in NodeId : HoldsNode(q, m)' => HoldsNode(q, m)
        BY <1>1, <2>3 DEF HoldsNode, Accepting
      <3> QED BY <1>1, <2>3, <3>1, <3>2, <3>3 DEF Writers, Accepting
    <2>9. VersionsConsistent'
      <3>1. \A w \in versions : w.node = n => w.version # current[n] + 1
        BY <2>1, <2>2 DEF VersionsConsistent, HasVersion, TypeOK, VersionRow, Version
      <3>2. \A w \in versions' : w \in versions \/ w = new
        BY <2>3
      <3>3. \A m \in NodeId \ {n} : current'[m] = current[m] /\ text'[m] = text[m]
        BY <2>3 DEF TypeOK
      <3>4. current'[n] = current[n] + 1 /\ text'[n] = p
        BY <2>1, <2>3 DEF TypeOK
      <3>5. new.node = n /\ new.version = current[n] + 1 /\ new.text = p
        BY <2>2
      <3>6. ASSUME NEW m \in NodeId, NEW v \in Version PROVE HasVersion(m, v)' <=> v <= current'[m]
        <4>1. HasVersion(m, v) <=> v <= current[m]
          BY DEF VersionsConsistent
        <4>2. HasVersion(m, v)' <=> HasVersion(m, v) \/ (m = n /\ v = current[n] + 1)
          BY <2>3, <3>2, <3>5 DEF HasVersion
        <4>3. CASE m = n
          BY <2>1, <3>4, <4>1, <4>2, <4>3 DEF Version
        <4>4. CASE m # n
          BY <3>3, <4>1, <4>2, <4>4
        <4> QED BY <4>3, <4>4
      <3>7. \A m \in NodeId : \A w, x \in versions' :
                w.node = m /\ x.node = m /\ w.version = x.version => w = x
        BY <3>1, <3>2, <3>5 DEF VersionsConsistent
      <3>8. \A m \in NodeId : \A w \in versions' :
                w.node = m /\ w.version = current'[m] => w.text = text'[m]
        <4>1. ASSUME NEW w \in versions', w.node = n, w.version = current'[n] PROVE w.text = text'[n]
          BY <3>1, <3>2, <3>4, <3>5, <4>1
        <4>2. ASSUME NEW m \in NodeId \ {n}, NEW w \in versions', w.node = m,
                     w.version = current'[m]
              PROVE  w.text = text'[m]
          BY <3>2, <3>3, <3>5, <4>2 DEF VersionsConsistent
        <4> QED BY <4>1, <4>2
      <3> QED BY <3>6, <3>7, <3>8 DEF VersionsConsistent
    <2> QED BY <1>3, <2>5, <2>6, <2>8, <2>9
  <1>7. CASE Accepting(r) /\ type[p] = "delete" /\ CommitDelete(p)
    <2>1. target[p] \in NodeId /\ current[target[p]] >= 1
      BY <1>1, <1>7 DEF Targets
    <2>2. /\ lifecycle' = [lifecycle EXCEPT ![target[p]] = "archived"]
          /\ UNCHANGED <<target, current, text, versions>>
      BY <1>7 DEF CommitDelete
    <2>3. TypeOK'
      BY <1>1, <1>2, <2>1, <2>2 DEF TypeOK
    <2>4. Targets'
      BY <1>1, <2>1, <2>2 DEF Targets, TypeOK
    <2>5. Writers' /\ VersionsConsistent'
      BY <1>1, <2>2 DEF Writers, VersionsConsistent, HasVersion, Accepting, HoldsNode
    <2> QED BY <1>3, <2>3, <2>4, <2>5
  <1> QED BY <1>4, <1>5, <1>6, <1>7 DEF Commit, cards

\* The inductive invariant of the proposals: types, targets, the locks of the
\* writers, and versions without gap.
THEOREM Invariant == Spec => []IndInv
  <1>1. IndInv /\ [Next]_vars => IndInv'
    <2> SUFFICES ASSUME IndInv, [Next]_vars PROVE IndInv'
      OBVIOUS
    <2>1. CASE UNCHANGED vars
      BY <2>1 DEF vars, IndInv, TypeOK, Working, Targets, Writers, VersionsConsistent,
                  HasVersion, Busy, Accepting, HoldsNode
    <2>2. ASSUME NEW p \in ProposalId, Submit(p) PROVE IndInv'
      BY <2>2, SubmitStep
    <2>3. ASSUME NEW r \in Request, Review(r) PROVE IndInv'
      BY <2>3, RequestStep, CommitStep DEF Review
    <2> QED BY <2>1, <2>2, <2>3 DEF Next
  <1> QED BY <1>1, InitInv, PTL DEF Spec

\* The variables keep their types, for any number of proposals and requests.
THEOREM TypeCorrect == Spec => []TypeOK
  BY Invariant, PTL DEF IndInv

\* However many edits race, a card's versions are numbered without gap or
\* repetition and its current text is the last one's (create_next_card_version).
THEOREM VersionHistory == Spec => []VersionsConsistent
  BY Invariant, PTL DEF IndInv

\* No request makes an archived card active again (archive_node).
THEOREM ArchivedForEver == Spec => ArchiveIsFinal
  <1> DEFINE A == \A n \in NodeId : lifecycle[n] = "archived" => lifecycle'[n] = "archived"
  <1>1. IndInv /\ [Next]_vars => [A]_vars
    <2> SUFFICES ASSUME IndInv, [Next]_vars PROVE A \/ UNCHANGED vars
      OBVIOUS
    <2> USE DEF IndInv, cards, proposals
    <2>1. ASSUME NEW r \in Request, Commit(r) PROVE A
      <3>1. CASE lifecycle' = lifecycle
        BY <3>1
      <3>2. CASE CommitCreate(on[r])
        BY <3>2 DEF CommitCreate, TypeOK
      <3>3. CASE CommitDelete(on[r])
        BY <3>3 DEF CommitDelete, TypeOK
      <3> QED BY <2>1, <3>1, <3>2, <3>3 DEF Commit, CommitEdit
    <2>2. lifecycle' = lifecycle \/ \E r \in Request : Commit(r)
      BY DEF Next, Submit, SubmitCreate, SubmitChange, Review, Check, ApplyCreate, ReadNode,
             ApplyEdit, ApplyDelete, Mark, Abort, vars
    <2> QED BY <2>1, <2>2
  <1> QED BY <1>1, Invariant, PTL DEF Spec, ArchiveIsFinal

-----------------------------------------------------------------------------
(* Every change is audited, and requests that take turns settle once *)

\* The versions a proposal wrote.
WrittenBy(p) == {w \in versions : w.text = p}

\* An accepting commit writes one version at most and one audit row.
Audited == \A p \in ProposalId : Cardinality(WrittenBy(p)) <= audits[p]

\* The request of an uncontended proposal is alone with it, and what it has
\* read of the status is still true when it commits.
TakeTurns ==
    \A r \in Request : Busy(r) /\ on[r] \notin Contended =>
        /\ status[on[r]] = "pending_review"
        /\ \A q \in Request : Busy(q) /\ on[q] = on[r] => q = r

AuditInv == IsFiniteSet(versions) /\ Audited /\ TakeTurns /\ SettledOnce

LEMMA AuditInit == Init => AuditInv
  <1> SUFFICES ASSUME Init PROVE AuditInv
    OBVIOUS
  <1> USE ConstantsAssumption
  <1>1. IsFiniteSet(versions)
    <2> DEFINE ingested == {m \in NodeId : m <= Ingested}
               first == [n \in ingested |-> [node |-> n, version |-> 1, text |-> 0]]
    <2>1. IsFiniteSet(NodeId)
      BY FS_Interval DEF NodeId
    <2>2. IsFiniteSet(ingested)
      BY <2>1, FS_Subset
    <2>3. first \in Surjection(ingested, versions)
      BY DEF Init, Surjection
    <2> QED BY <2>2, <2>3, FS_Surjection
  <1>2. Audited
    <2>1. \A p \in ProposalId : WrittenBy(p) = {}
      BY DEF Init, WrittenBy, ProposalId
    <2>2. \A p \in ProposalId : audits[p] = 0
      BY DEF Init
    <2> QED BY <2>1, <2>2, FS_EmptySet DEF Audited
  <1>3. TakeTurns /\ SettledOnce
    BY DEF Init, TakeTurns, Busy, SettledOnce
  <1> QED BY <1>1, <1>2, <1>3 DEF AuditInv

\* Only a commit writes versions, audit rows and statuses; before it requests
\* begin, go on and end.
LEMMA AuditQuiet ==
    ASSUME IndInv, AuditInv, UNCHANGED <<versions, status, audits>>,
           \A r \in Request : Busy(r)' =>
               \/ Busy(r) /\ on'[r] = on[r]
               \/ /\ status[on'[r]] = "pending_review"
                  /\ on'[r] \in Contended \/ \A q \in Request : on[q] = on'[r] => ~ Busy(q)
                  /\ \A q \in Request \ {r} : on'[q] = on[q] /\ Busy(q)' = Busy(q)
    PROVE  AuditInv'
  <1> USE DEF AuditInv
  <1>1. Audited' /\ SettledOnce' /\ IsFiniteSet(versions)'
    BY DEF Audited, WrittenBy, SettledOnce
  <1>2. TakeTurns'
    BY DEF TakeTurns
  <1> QED BY <1>1, <1>2

LEMMA AuditRequest ==
    ASSUME IndInv, AuditInv, NEW r \in Request,
           \/ \E p \in ProposalId, d \in Final : Check(r, p, d)
           \/ ApplyCreate(r) \/ ReadNode(r) \/ ApplyEdit(r) \/ ApplyDelete(r)
           \/ Mark(r) \/ Abort(r)
    PROVE  AuditInv'
  <1>1. UNCHANGED <<versions, status, audits>>
    BY DEF Check, ApplyCreate, ReadNode, ApplyEdit, ApplyDelete, Mark, Abort, proposals, cards
  <1>2. ASSUME NEW p \in ProposalId, NEW d \in Final, Check(r, p, d) PROVE AuditInv'
    <2>1. /\ on'[r] = p /\ status[p] = "pending_review"
          /\ p \in Contended \/ \A q \in Request : on[q] = p => ~ Busy(q)
          /\ \A q \in Request \ {r} : on'[q] = on[q] /\ Busy(q)' = Busy(q)
      BY <1>2 DEF Check, IndInv, TypeOK, Busy
    <2> QED BY <1>1, <2>1, AuditQuiet
  <1>3. ASSUME ApplyCreate(r) \/ ReadNode(r) \/ ApplyEdit(r) \/ ApplyDelete(r)
               \/ Mark(r) \/ Abort(r)
        PROVE  AuditInv'
    <2>1. UNCHANGED on /\ \A q \in Request : Busy(q)' => Busy(q)
      BY <1>3 DEF ApplyCreate, ReadNode, ApplyEdit, ApplyDelete, Mark, Abort, Busy, Accepting,
                  IndInv, TypeOK
    <2> QED BY <1>1, <2>1, AuditQuiet
  <1> QED BY <1>2, <1>3

LEMMA AuditSubmit ==
    ASSUME IndInv, AuditInv, NEW p \in ProposalId, Submit(p) PROVE AuditInv'
  <1>1. UNCHANGED <<versions, status, audits, pc, on>>
    BY DEF Submit, SubmitCreate, SubmitChange, cards, requests
  <1> QED BY <1>1, AuditQuiet DEF Busy

LEMMA AuditCommit ==
    ASSUME IndInv, AuditInv, NEW r \in Request, Commit(r) PROVE AuditInv'
  <1> USE DEF IndInv, AuditInv
  <1> DEFINE p == on[r]
  <1>1. /\ p \in ProposalId /\ Busy(r) /\ ~ Busy(r)'
        /\ \A q \in Request \ {r} : Busy(q)' = Busy(q)
        /\ UNCHANGED on /\ decision[r] \in Final
        /\ status' = [status EXCEPT ![p] = decision[r]]
    <2>1. p \in ProposalId /\ UNCHANGED on /\ pc' = [pc EXCEPT ![r] = "done"]
      BY CommitEffect
    <2>2. pc[r] = "marked" /\ status' = [status EXCEPT ![p] = decision[r]]
      BY DEF Commit
    <2>3. pc'[r] = "done" /\ \A q \in Request \ {r} : pc'[q] = pc[q]
      BY <2>1 DEF TypeOK
    <2>4. Busy(r) /\ ~ Busy(r)' /\ \A q \in Request \ {r} : Busy(q)' = Busy(q)
      BY <2>2, <2>3 DEF Busy
    <2>5. decision[r] \in Final
      BY <2>2 DEF TypeOK
    <2> QED BY <2>1, <2>2, <2>4, <2>5
  <1>2. audits' = IF Accepting(r) THEN [audits EXCEPT ![p] = @ + 1] ELSE audits
    BY DEF Commit
  <1>3. \/ versions' = versions
        \/ Accepting(r) /\ \E w \in VersionRow : w.text = p /\ versions' = versions \cup {w}
    <2>1. ASSUME Accepting(r), CommitCreate(p)
          PROVE \E w \in VersionRow : w.text = p /\ versions' = versions \cup {w}
      <3>1. PICK n \in NodeId :
                versions' = versions \cup {[node |-> n, version |-> 1, text |-> p]}
        BY <2>1 DEF CommitCreate
      <3>2. [node |-> n, version |-> 1, text |-> p] \in VersionRow
        BY <1>1, ConstantsAssumption DEF VersionRow, Version, Text, ProposalId
      <3> QED BY <3>1, <3>2
    <2>2. ASSUME Accepting(r), type[p] = "edit", CommitEdit(p, seen[r] + 1)
          PROVE \E w \in VersionRow : w.text = p /\ versions' = versions \cup {w}
      <3> DEFINE w == [node |-> target[p], version |-> seen[r] + 1, text |-> p]
      <3>1. target[p] \in NodeId
        BY <1>1, <2>2 DEF Targets
      <3>2. pc[r] = "marked"
        BY DEF Commit
      <3>3. seen[r] \in 0..MaxVersion /\ seen[r] < MaxVersion
        BY <1>1, <2>2, <3>2 DEF Writers, TypeOK
      <3>4. w \in VersionRow
        BY <1>1, <3>1, <3>3, ConstantsAssumption DEF VersionRow, Version, Text, ProposalId
      <3> QED BY <2>2, <3>4 DEF CommitEdit
    <2> QED BY <2>1, <2>2 DEF Commit, CommitDelete, cards
  <1>4. IsFiniteSet(versions)'
    BY <1>3, FS_AddElement
  <1>5. Audited'
    <2>1. ASSUME NEW q \in ProposalId, q # p
          PROVE Cardinality(WrittenBy(q)') <= audits'[q]
      <3>1. WrittenBy(q)' = WrittenBy(q)
        BY <1>3, <2>1 DEF WrittenBy
      <3>2. audits'[q] = audits[q]
        BY <1>1, <1>2, <2>1 DEF TypeOK
      <3> QED BY <3>1, <3>2 DEF Audited
    <2>2. /\ IsFiniteSet(WrittenBy(p)) /\ Cardinality(WrittenBy(p)) \in Nat
          /\ Cardinality(WrittenBy(p)) <= audits[p] /\ audits[p] \in Nat
      <3>1. IsFiniteSet(WrittenBy(p))
        BY FS_Subset DEF WrittenBy
      <3> QED BY <1>1, <3>1, FS_CardinalityType DEF Audited, TypeOK
    <2>3. CASE versions' = versions
      <3>1. WrittenBy(p)' = WrittenBy(p)
        BY <1>1, <2>3 DEF WrittenBy
      <3>2. audits'[p] >= audits[p] /\ audits'[p] \in Nat
        BY <1>1, <1>2, <2>2 DEF TypeOK
      <3> QED BY <1>1, <2>1, <2>2, <3>1, <3>2 DEF Audited
    <2>4. ASSUME Accepting(r), NEW w \in VersionRow, w.text = p, versions' = versions \cup {w}
          PROVE Audited'
      <3>1. WrittenBy(p)' = WrittenBy(p) \cup {w}
        BY <1>1, <2>4 DEF WrittenBy
      <3>2. Cardinality(WrittenBy(p) \cup {w}) =
                IF w \in WrittenBy(p) THEN Cardinality(WrittenBy(p))
                                      ELSE Cardinality(WrittenBy(p)) + 1
        BY <2>2, FS_AddElement
      <3>3. Cardinality(WrittenBy(p) \cup {w}) <= Cardinality(WrittenBy(p)) + 1
        BY <2>2, <3>2
      <3>4. audits'[p] = audits[p] + 1
        BY <1>1, <1>2, <2>4 DEF TypeOK
      <3>5. Cardinality(WrittenBy(p)') <= audits'[p]
        BY <2>2, <3>1, <3>2, <3>3, <3>4
      <3> QED BY <1>1, <2>1, <3>5 DEF Audited
    <2> QED BY <1>3, <2>3, <2>4
  <1>6. TakeTurns'
    <2>1. ASSUME NEW q \in Request, Busy(q)', on[q] \notin Contended
          PROVE /\ status'[on[q]] = "pending_review"
                /\ \A s \in Request : Busy(s)' /\ on[s] = on[q] => s = q
      <3>1. q # r /\ Busy(q) /\ \A s \in Request : Busy(s)' => Busy(s)
        BY <1>1, <2>1
      <3>2. on[q] # p
        BY <1>1, <2>1, <3>1 DEF TakeTurns
      <3> QED BY <1>1, <2>1, <3>1, <3>2 DEF TakeTurns, TypeOK
    <2> QED BY <1>1, <2>1 DEF TakeTurns
  <1>7. SettledOnce'
    <2>1. ASSUME p \notin Contended
          PROVE audits'[p] = IF status'[p] = "accepted_applied" THEN 1 ELSE 0
      <3>1. audits[p] = 0
        BY <1>1, <2>1 DEF TakeTurns, SettledOnce
      <3>2. status'[p] = decision[r]
        BY <1>1 DEF TypeOK
      <3>3. audits'[p] = IF Accepting(r) THEN 1 ELSE 0
        BY <1>1, <1>2, <3>1 DEF TypeOK
      <3> QED BY <3>2, <3>3 DEF Accepting
    <2>2. \A q \in ProposalId \ {p} : audits'[q] = audits[q] /\ status'[q] = status[q]
      BY <1>1, <1>2 DEF TypeOK
    <2> QED BY <1>1, <2>1, <2>2 DEF SettledOnce
  <1> QED BY <1>4, <1>5, <1>6, <1>7

\* The inductive invariant of the audits, on top of IndInv: an accepting commit
\* writes one version at most and one audit row.
THEOREM AuditInvariant == Spec => []AuditInv
  <1>1. IndInv /\ AuditInv /\ [Next]_vars => AuditInv'
    <2> SUFFICES ASSUME IndInv, AuditInv, [Next]_vars PROVE AuditInv'
      OBVIOUS
    <2>1. CASE UNCHANGED vars
      <3>1. UNCHANGED <<versions, status, audits, pc, on>>
        BY <2>1 DEF vars
      <3> QED BY <3>1, AuditQuiet DEF Busy
    <2>2. ASSUME NEW p \in ProposalId, Submit(p) PROVE AuditInv'
      BY <2>2, AuditSubmit
    <2>3. ASSUME NEW r \in Request, Review(r) PROVE AuditInv'
      BY <2>3, AuditRequest, AuditCommit DEF Review
    <2> QED BY <2>1, <2>2, <2>3 DEF Next
  <1> QED BY <1>1, AuditInit, Invariant, PTL DEF Spec

\* "Reviewer acceptance is the only proposal transition that applies formal
\* knowledge changes": no proposal, not even one accepted twice, wrote more
\* versions than it has audit rows (accept_card_proposal).
THEOREM EveryChangeIsAudited == Spec => []ChangesAreAudited
  <1>1. ASSUME IndInv, AuditInv, NEW w \in versions, w.text # 0
        PROVE Cardinality({x \in versions : x.text = w.text}) <= audits[w.text]
    <2>1. w.text \in ProposalId
      BY <1>1, ConstantsAssumption DEF IndInv, TypeOK, VersionRow, Text, ProposalId
    <2> QED BY <1>1, <2>1 DEF AuditInv, Audited, WrittenBy
  <1>2. IndInv /\ AuditInv => ChangesAreAudited
    BY <1>1 DEF ChangesAreAudited
  <1> QED BY <1>2, Invariant, AuditInvariant, PTL

\* A proposal whose requests do not overlap is applied once when it ends
\* accepted and never when it ends rejected or withdrawn.
THEOREM UncontendedSettleOnce == Spec => []SettledOnce
  BY AuditInvariant, PTL DEF AuditInv

-----------------------------------------------------------------------------
(* CardGraph *)

Point == {t.point : t \in CardText}
GraphCard ==
    [title : {t.title : t \in CardText}, mentions : {t.mentions : t \in CardText},
     point : Point, active : BOOLEAN]
LinkPolicy == [mention : Nat, top : Nat, min : Int]

GraphTypeOK ==
    /\ graphCards \in Seq(GraphCard) /\ policy \in Seq(LinkPolicy) /\ Len(policy) = Len(graphCards)
    /\ \A e \in edges : /\ e = [a |-> e.a, b |-> e.b, strength |-> e.strength]
                        /\ e.a \in Nat \ {0} /\ e.b \in Nat \ {0} /\ e.a < e.b /\ e.b <= Len(graphCards)

\* Every card can be compared with p.
Comparable(p) == \A i \in DOMAIN graphCards : Similarity(graphCards[i].point, p) \in Int

LEMMA CardFacts ==
    ASSUME GraphTypeOK
    PROVE  /\ Len(graphCards) \in Nat /\ DOMAIN graphCards = 1..Len(graphCards)
           /\ DOMAIN policy = 1..Len(graphCards) /\ IsFiniteSet(DOMAIN graphCards)
           /\ \A i \in DOMAIN graphCards : /\ graphCards[i] \in GraphCard /\ graphCards[i].point \in Point
                                           /\ policy[i] \in LinkPolicy
           /\ \A p \in Point : Comparable(p)
           /\ \A q \in Query : Comparable(q.point)
  <1>1. graphCards \in Seq(GraphCard) /\ policy \in Seq(LinkPolicy) /\ Len(policy) = Len(graphCards)
    BY DEF GraphTypeOK
  <1>2. /\ Len(graphCards) \in Nat /\ DOMAIN graphCards = 1..Len(graphCards)
        /\ DOMAIN policy = 1..Len(graphCards)
        /\ \A i \in DOMAIN graphCards : graphCards[i] \in GraphCard /\ policy[i] \in LinkPolicy
    BY <1>1
  <1>3. IsFiniteSet(DOMAIN graphCards)
    BY <1>2, FS_Interval
  <1>4. \A i \in DOMAIN graphCards : graphCards[i].point \in Point
    BY <1>2 DEF GraphCard
  <1>5. \A p \in Point : Comparable(p)
    <2>1. \A p, r \in Point : Similarity(p, r) \in Int
      BY GraphConstants DEF Point
    <2> QED BY <1>4, <2>1 DEF Comparable
  <1>6. \A q \in Query : Comparable(q.point)
    <2>1. \A p \in Point, q \in Query : Similarity(p, q.point) \in Int
      BY GraphConstants DEF Point
    <2> QED BY <1>4, <2>1 DEF Comparable
  <1> QED BY <1>2, <1>3, <1>4, <1>5, <1>6

LEMMA SimilarityIsAnOrder ==
    ASSUME GraphTypeOK, NEW p, Comparable(p), NEW ids, ids \subseteq DOMAIN graphCards
    PROVE  /\ TotalOn(ids, BySimilarity(p)) /\ IsFiniteSet(ids)
           /\ \A i, j \in ids : <<i, j>> \in BySimilarity(p) <=> Closer(i, j, p)
  <1>1. \A i, j \in DOMAIN graphCards : <<i, j>> \in BySimilarity(p) <=> Closer(i, j, p)
    BY DEF BySimilarity
  <1>2. \A i \in DOMAIN graphCards : i \in Nat /\ Similarity(graphCards[i].point, p) \in Int
    BY CardFacts DEF Comparable
  <1>3. \A i \in DOMAIN graphCards : ~ Closer(i, i, p)
    BY <1>2 DEF Closer
  <1>4. \A i, j, k \in DOMAIN graphCards : Closer(i, j, p) /\ Closer(j, k, p) => Closer(i, k, p)
    BY <1>2 DEF Closer
  <1>5. \A i, j \in DOMAIN graphCards : i # j => Closer(i, j, p) \/ Closer(j, i, p)
    BY <1>2 DEF Closer
  <1>6. IsFiniteSet(ids)
    BY CardFacts, FS_Subset
  <1> QED BY <1>1, <1>3, <1>4, <1>5, <1>6 DEF TotalOn

\* What is left out is left out for k others that are closer.
LEMMA ClosestFacts ==
    ASSUME GraphTypeOK, NEW p, Comparable(p), NEW ids, ids \subseteq DOMAIN graphCards, NEW k \in Nat
    PROVE  /\ Closest(ids, p, k) \subseteq ids
           /\ IsFiniteSet(Closest(ids, p, k)) /\ Cardinality(Closest(ids, p, k)) \in 0..k
           /\ Cardinality(Closest(ids, p, k)) = IF k <= Cardinality(ids) THEN k ELSE Cardinality(ids)
           /\ \A x \in ids \ Closest(ids, p, k) : /\ Cardinality(Closest(ids, p, k)) = k
                                                  /\ \A y \in Closest(ids, p, k) : Closer(y, x, p)
  <1> DEFINE C == Closest(ids, p, k)
  <1>1. TotalOn(ids, BySimilarity(p)) /\ IsFiniteSet(ids)
        /\ \A i, j \in ids : <<i, j>> \in BySimilarity(p) <=> Closer(i, j, p)
    BY SimilarityIsAnOrder
  <1>2. /\ C \subseteq ids /\ IsFiniteSet(C)
        /\ Cardinality(C) = IF k <= Cardinality(ids) THEN k ELSE Cardinality(ids)
        /\ \A x \in ids \ C : \A y \in C : <<y, x>> \in BySimilarity(p)
        /\ ids \ C # {} => Cardinality(C) = k
    BY <1>1, TheFirst DEF Closest
  <1>3. Cardinality(ids) \in Nat /\ Cardinality(C) \in Nat
    BY <1>1, <1>2, FS_CardinalityType
  <1> HIDE DEF C
  <1>4. Cardinality(C) \in 0..k
    BY <1>2, <1>3
  <1> QED BY <1>1, <1>2, <1>4 DEF C

-----------------------------------------------------------------------------
(* The planners *)

\* All cards before i are columns of its chunk.
LEMMA ColumnsReach ==
    ASSUME NEW i \in Nat \ {0}, NEW n \in Nat, i <= n
    PROVE  LET e == (((i - 1) \div ChunkSize) + 1) * ChunkSize
           IN  (1..(IF e < n THEN e ELSE n)) \cap (1..(i - 1)) = 1..(i - 1)
  <1> DEFINE q == (i - 1) \div ChunkSize
             r == (i - 1) % ChunkSize
             e == (q + 1) * ChunkSize
  <1>1. ChunkSize \in Nat \ {0}
    BY GraphConstants
  <1>2. q \in Nat /\ r \in 0..(ChunkSize - 1) /\ i - 1 = ChunkSize * q + r
    BY <1>1
  <1> HIDE DEF q, r
  <1>3. e = ChunkSize * q + ChunkSize /\ ChunkSize * q \in Nat
    BY <1>1, <1>2
  <1> HIDE DEF e
  <1>4. e \in Nat /\ i <= e
    BY <1>1, <1>2, <1>3
  <1> QED BY <1>4 DEF e, q

Planned(i, p) == Closest(Eligible(i, 1..(i - 1), p.min), graphCards[i].point, p.top)

LEMMA BothPlan ==
    ASSUME GraphTypeOK, NEW p \in RebuildPolicy
    PROVE  /\ PlanInChunks(p.top, p.min) = UNION {EdgesTo(i, Planned(i, p)) : i \in DOMAIN graphCards}
           /\ PlanByQueries(p.top, p.min) = UNION {EdgesTo(i, Planned(i, p)) : i \in DOMAIN graphCards}
  <1>1. p.top \in Nat /\ p.min \in Int
    BY GraphConstants
  <1>2. PlanInChunks(p.top, p.min) = UNION {EdgesTo(i, Planned(i, p)) : i \in DOMAIN graphCards}
    <2> DEFINE n == Len(graphCards)
               End(i) == LET e == (((i - 1) \div ChunkSize) + 1) * ChunkSize IN IF e < n THEN e ELSE n
               Columns(i) == (1..End(i)) \cap (1..(i - 1))
               Row(i) == EdgesTo(i, Closest(Eligible(i, Columns(i), p.min), graphCards[i].point, p.top))
    <2>1. ASSUME NEW i \in DOMAIN graphCards PROVE Row(i) = EdgesTo(i, Planned(i, p))
      <3>1. i \in Nat \ {0} /\ n \in Nat /\ i <= n
        BY CardFacts
      <3>2. Columns(i) = 1..(i - 1)
        BY <3>1, ColumnsReach
      <3> HIDE DEF Columns
      <3> QED BY <3>2 DEF Planned
    <2>2. PlanInChunks(p.top, p.min) = UNION {Row(i) : i \in DOMAIN graphCards}
      BY DEF PlanInChunks
    <2> HIDE DEF Row
    <2> QED BY <2>1, <2>2
  <1>3. PlanByQueries(p.top, p.min) = UNION {EdgesTo(i, Planned(i, p)) : i \in DOMAIN graphCards}
    <2> DEFINE Candidates(i) == InOrder(1..(i - 1), BySimilarity(graphCards[i].point))
               Kept(i) == {k \in DOMAIN Candidates(i) :
                              Similarity(graphCards[Candidates(i)[k]].point, graphCards[i].point) >= p.min}
               Selected(i) == {Candidates(i)[k] :
                                  k \in {l \in Kept(i) : Cardinality(Kept(i) \cap (1..l)) <= p.top}}
    <2>1. ASSUME NEW i \in DOMAIN graphCards PROVE Selected(i) = Planned(i, p)
      <3> DEFINE D == 1..(i - 1)
                 o == BySimilarity(graphCards[i].point)
                 E == Eligible(i, D, p.min)
      <3>1. i \in Nat \ {0} /\ D \subseteq DOMAIN graphCards /\ Comparable(graphCards[i].point)
        BY CardFacts
      <3>2. TotalOn(D, o) /\ IsFiniteSet(D)
        BY <3>1, SimilarityIsAnOrder
      <3>3. E \subseteq D /\ \A j \in D : j \in E <=> Similarity(graphCards[j].point, graphCards[i].point) >= p.min
        BY DEF Eligible
      <3>4. Candidates(i) \in [1..Cardinality(D) -> D]
        BY <3>2, InItsPlace
      <3> HIDE DEF E
      <3>5. Kept(i) = {k \in 1..Cardinality(D) : Candidates(i)[k] \in E}
        <4>1. DOMAIN Candidates(i) = 1..Cardinality(D) /\ \A k \in 1..Cardinality(D) : Candidates(i)[k] \in D
          BY <3>4
        <4> HIDE DEF D, Candidates
        <4> QED BY <3>3, <4>1
      <3> HIDE DEF D, o, Kept
      <3>6. Selected(i) = Leading(p.top, E, o)
        <4>1. Candidates(i) = InOrder(D, o)
          BY DEF D, o
        <4> HIDE DEF Candidates
        <4>2. KeepsE(Kept(i), D, E, o)
          BY <3>5, <4>1 DEF KeepsE
        <4>3. FirstKept(InOrder(D, o), Kept(i), p.top) = Leading(p.top, E, o)
          BY <1>1, <3>2, <3>3, <4>2, FirstOfTheKept
        <4> QED BY <4>1, <4>3 DEF FirstKept
      <3> QED BY <3>6 DEF Planned, Closest, E, D, o
    <2>2. PlanByQueries(p.top, p.min) = UNION {EdgesTo(i, Selected(i)) : i \in DOMAIN graphCards}
      BY DEF PlanByQueries
    <2> HIDE DEF Selected
    <2> QED BY <2>1, <2>2
  <1> QED BY <1>2, <1>3

LEMMA PlannersAlwaysAgree == ASSUME GraphTypeOK PROVE PlannersAgree
  BY BothPlan DEF PlannersAgree

-----------------------------------------------------------------------------
(* The order of search results *)

\* x comes before y by one of the first four columns.
Leads(x, y) ==
    \/ x[1] > y[1]
    \/ x[1] = y[1] /\ x[2] > y[2]
    \/ x[1] = y[1] /\ x[2] = y[2] /\ x[3] > y[3]
    \/ x[1] = y[1] /\ x[2] = y[2] /\ x[3] = y[3] /\ x[4] > y[4]
SameColumns(x, y) == x[1] = y[1] /\ x[2] = y[2] /\ x[3] = y[3] /\ x[4] = y[4]

LEMMA FourColumns ==
    ASSUME NEW x \in [1..4 -> Int], NEW y \in [1..4 -> Int]
    PROVE  Exceeds(x, y) <=> Leads(x, y)
  <1>1. DOMAIN x = 1..4
    OBVIOUS
  <1>2. Exceeds(x, y) <=> \E k \in 1..4 : x[k] > y[k] /\ \A l \in 1..(k - 1) : x[l] = y[l]
    BY <1>1 DEF Exceeds
  <1>3. 1..4 = {1, 2, 3, 4}
    OBVIOUS
  <1>4. 1..(1 - 1) = {} /\ 1..(2 - 1) = {1} /\ 1..(3 - 1) = {1, 2} /\ 1..(4 - 1) = {1, 2, 3}
    OBVIOUS
  <1> QED BY <1>2, <1>3, <1>4 DEF Leads

LEMMA FirstColumns ==
    ASSUME NEW x, NEW y, {1, 2, 3, 4, 5} \subseteq DOMAIN x,
           Leads(x, y) \/ (SameColumns(x, y) /\ x[5] > y[5])
    PROVE  Exceeds(x, y)
  <1>1. {1, 2, 3, 4, 5} \subseteq DOMAIN x
    OBVIOUS
  <1>2. /\ 1..(1 - 1) = {} /\ 1..(2 - 1) = {1} /\ 1..(3 - 1) = {1, 2} /\ 1..(4 - 1) = {1, 2, 3}
        /\ 1..(5 - 1) = {1, 2, 3, 4}
    OBVIOUS
  <1>3. CASE x[1] > y[1]
    BY <1>1, <1>2, <1>3 DEF Exceeds
  <1>4. CASE x[1] = y[1] /\ x[2] > y[2]
    BY <1>1, <1>2, <1>4 DEF Exceeds
  <1>5. CASE x[1] = y[1] /\ x[2] = y[2] /\ x[3] > y[3]
    BY <1>1, <1>2, <1>5 DEF Exceeds
  <1>6. CASE x[1] = y[1] /\ x[2] = y[2] /\ x[3] = y[3] /\ x[4] > y[4]
    BY <1>1, <1>2, <1>6 DEF Exceeds
  <1>7. CASE x[1] = y[1] /\ x[2] = y[2] /\ x[3] = y[3] /\ x[4] = y[4] /\ x[5] > y[5]
    BY <1>1, <1>2, <1>7 DEF Exceeds
  <1> QED BY <1>3, <1>4, <1>5, <1>6, <1>7 DEF Leads, SameColumns

LEMMA LexicalColumns ==
    ASSUME NEW x \in [1..5 -> Int], NEW y \in [1..5 -> Int],
           Leads(x, y) \/ (SameColumns(x, y) /\ x[5] > y[5])
    PROVE  Exceeds(x, y)
  <1>1. {1, 2, 3, 4, 5} \subseteq DOMAIN x
    OBVIOUS
  <1> QED BY <1>1, FirstColumns

LEMMA EightColumns ==
    ASSUME NEW x \in [1..8 -> Int], NEW y \in [1..8 -> Int], Leads(x, y) PROVE Exceeds(x, y)
  <1>1. {1, 2, 3, 4, 5} \subseteq DOMAIN x
    OBVIOUS
  <1> QED BY <1>1, FirstColumns

\* An order by keys that no two elements share.
LEMMA KeysOrder ==
    ASSUME NEW S, NEW n \in Nat, NEW key \in [S -> [1..n -> Int]],
           \A x, y \in S : key[x] = key[y] => x = y,
           NEW order, \A x, y \in S : <<x, y>> \in order <=> Exceeds(key[x], key[y])
    PROVE  TotalOn(S, order)
  <1>1. \A x \in S : key[x] \in [1..n -> Int]
    OBVIOUS
  <1>2. ASSUME NEW x \in S PROVE <<x, x>> \notin order
    BY <1>1, ExceedsIsAnOrder
  <1>3. ASSUME NEW x \in S, NEW y \in S, x # y PROVE <<x, y>> \in order \/ <<y, x>> \in order
    BY <1>1, <1>3, ExceedsIsAnOrder
  <1>4. ASSUME NEW x \in S, NEW y \in S, NEW z \in S, <<x, y>> \in order, <<y, z>> \in order
        PROVE  <<x, z>> \in order
    BY <1>1, <1>4, ExceedsIsAnOrder
  <1> QED BY <1>2, <1>3, <1>4 DEF TotalOn

LEMMA Reciprocals ==
    /\ \A r \in 1..VectorLimit : Rrf(r) \in Nat \ {0}
    /\ \A r, s \in 1..VectorLimit : r < s => Rrf(r) > Rrf(s)
  <1>1. ASSUME NEW r \in 1..VectorLimit PROVE Rrf(r) \in Nat \ {0} /\ RrfUnit = (60 + r) * Rrf(r)
    <2>1. RrfUnit \in Nat \ {0} /\ 60 + r \in Nat \ {0} /\ RrfUnit % (60 + r) = 0
      BY GraphConstants
    <2> DEFINE d == 60 + r
    <2>2. d \in Nat \ {0} /\ RrfUnit % d = 0
      BY <2>1
    <2>3. Rrf(r) = RrfUnit \div d
      BY DEF Rrf
    <2> HIDE DEF d
    <2>4. RrfUnit = d * (RrfUnit \div d) + (RrfUnit % d) /\ RrfUnit \div d \in Nat
      BY <2>1, <2>2
    <2>5. RrfUnit = d * Rrf(r) /\ Rrf(r) \in Nat
      BY <2>1, <2>2, <2>3, <2>4
    <2>6. Rrf(r) # 0
      BY <2>1, <2>2, <2>5
    <2> QED BY <2>5, <2>6 DEF d
  <1>2. ASSUME NEW r \in 1..VectorLimit, NEW s \in 1..VectorLimit, r < s PROVE Rrf(r) > Rrf(s)
    <2> DEFINE a == Rrf(r)
               b == Rrf(s)
               t == s - r
    <2>1. a \in Nat \ {0} /\ b \in Nat \ {0} /\ (60 + r) * a = (60 + s) * b
      BY <1>1
    <2>2. t \in Nat \ {0} /\ 60 + s = (60 + r) + t /\ 60 + r \in Nat \ {0}
      BY <1>2, GraphConstants
    <2> HIDE DEF a, b, t
    <2>3. (60 + s) * b = (60 + r) * b + t * b /\ t * b \in Nat \ {0}
      BY <2>1, <2>2
    <2>4. (60 + r) * a > (60 + r) * b
      BY <2>1, <2>2, <2>3
    <2>5. a > b
      BY <2>1, <2>2, <2>4
    <2> QED BY <2>5 DEF a, b
  <1> QED BY <1>1, <1>2

\* The numbers by which a search ranks a card.
LEMMA Columns ==
    ASSUME GraphTypeOK, NEW q \in Query, NEW i \in DOMAIN graphCards
    PROVE  /\ ExactTitle(i, q) \in {0, 1} /\ TitlePhrase(i, q) \in {0, 1} /\ TitleAllTokens(i, q) \in {0, 1}
           /\ LexicalScore(i, q) \in Nat
           /\ LexicalKey(i, q) \in [1..5 -> Int]
           /\ LexicalKey(i, q)[1] = ExactTitle(i, q) /\ LexicalKey(i, q)[2] = TitlePhrase(i, q)
           /\ LexicalKey(i, q)[3] = TitleAllTokens(i, q) /\ LexicalKey(i, q)[4] = LexicalScore(i, q)
           /\ LexicalKey(i, q)[5] = -i
  <1>1. ExactTitle(i, q) \in {0, 1} /\ TitlePhrase(i, q) \in {0, 1} /\ TitleAllTokens(i, q) \in {0, 1}
    BY DEF ExactTitle, TitlePhrase, TitleAllTokens, One
  <1>2. LexicalScore(i, q) \in Nat
    BY <1>1 DEF LexicalScore, One
  <1>3. -i \in Int
    BY CardFacts
  <1> QED BY <1>1, <1>2, <1>3 DEF LexicalKey

LEMMA LexicalOrder ==
    ASSUME GraphTypeOK, NEW q \in Query
    PROVE  /\ LexicalHits(q) \subseteq ActiveCards /\ ActiveCards \subseteq DOMAIN graphCards
           /\ IsFiniteSet(LexicalHits(q)) /\ IsFiniteSet(ActiveCards)
           /\ TotalOn(DOMAIN graphCards, ByLexicalKey(q)) /\ TotalOn(LexicalHits(q), ByLexicalKey(q))
           /\ \A x, y \in DOMAIN graphCards :
                  <<x, y>> \in ByLexicalKey(q) <=> Exceeds(LexicalKey(x, q), LexicalKey(y, q))
  <1> DEFINE key == [i \in DOMAIN graphCards |-> LexicalKey(i, q)]
  <1>1. LexicalHits(q) \subseteq ActiveCards /\ ActiveCards \subseteq DOMAIN graphCards
    BY DEF LexicalHits, ActiveCards
  <1>2. IsFiniteSet(LexicalHits(q)) /\ IsFiniteSet(ActiveCards)
    BY <1>1, CardFacts, FS_Subset
  <1>3. \A x, y \in DOMAIN graphCards :
            <<x, y>> \in ByLexicalKey(q) <=> Exceeds(LexicalKey(x, q), LexicalKey(y, q))
    BY DEF ByLexicalKey
  <1>4. key \in [DOMAIN graphCards -> [1..5 -> Int]]
    BY Columns
  <1>5. \A x, y \in DOMAIN graphCards : key[x] = key[y] => x = y
    <2>1. ASSUME NEW x \in DOMAIN graphCards, NEW y \in DOMAIN graphCards, key[x] = key[y] PROVE x = y
      <3>1. LexicalKey(x, q)[5] = -x /\ LexicalKey(y, q)[5] = -y /\ LexicalKey(x, q) = LexicalKey(y, q)
        BY <2>1, Columns
      <3>2. x \in Int /\ y \in Int /\ -x = -y
        BY <3>1, CardFacts
      <3> QED BY <3>2
    <2> QED BY <2>1
  <1>6. \A x, y \in DOMAIN graphCards : <<x, y>> \in ByLexicalKey(q) <=> Exceeds(key[x], key[y])
    BY <1>3
  <1> HIDE DEF key
  <1>7. TotalOn(DOMAIN graphCards, ByLexicalKey(q))
    BY <1>4, <1>5, <1>6, KeysOrder
  <1>8. TotalOn(LexicalHits(q), ByLexicalKey(q))
    BY <1>1, <1>7 DEF TotalOn
  <1> QED BY <1>1, <1>2, <1>3, <1>7, <1>8

VectorPlace(i, q, pool) == Place(i, pool, BySimilarity(q.point))
LexicalPlace(i, q) == Place(i, LexicalHits(q), ByLexicalKey(q))

LEMMA CandidatePlaces ==
    ASSUME GraphTypeOK, NEW q \in Query, NEW pool \in VectorPools
    PROVE  /\ \A x \in pool : VectorPlace(x, q, pool) \in 1..VectorLimit
           /\ \A x, y \in pool : Closer(y, x, q.point) <=> VectorPlace(y, q, pool) < VectorPlace(x, q, pool)
           /\ \A x \in LexicalHits(q) : /\ LexicalPlace(x, q) \in Nat \ {0}
                                        /\ x \in LexicalCandidates(q) <=> LexicalPlace(x, q) <= MatchLimit
           /\ \A x, y \in LexicalHits(q) :
                  Exceeds(LexicalKey(y, q), LexicalKey(x, q)) <=> LexicalPlace(y, q) < LexicalPlace(x, q)
           /\ pool \subseteq ActiveCards /\ LexicalCandidates(q) \subseteq LexicalHits(q)
  <1>1. /\ LexicalHits(q) \subseteq ActiveCards /\ ActiveCards \subseteq DOMAIN graphCards
        /\ IsFiniteSet(LexicalHits(q)) /\ IsFiniteSet(ActiveCards)
        /\ TotalOn(LexicalHits(q), ByLexicalKey(q))
        /\ \A x, y \in DOMAIN graphCards :
               <<x, y>> \in ByLexicalKey(q) <=> Exceeds(LexicalKey(x, q), LexicalKey(y, q))
    BY LexicalOrder
  <1>2. pool \subseteq ActiveCards /\ IsFiniteSet(pool) /\ Cardinality(pool) <= VectorLimit
    BY <1>1, FS_Subset DEF VectorPools
  <1>3. /\ TotalOn(pool, BySimilarity(q.point))
        /\ \A i, j \in pool : <<i, j>> \in BySimilarity(q.point) <=> Closer(i, j, q.point)
    BY <1>1, <1>2, CardFacts, SimilarityIsAnOrder
  <1>4. /\ \A x \in pool : VectorPlace(x, q, pool) \in 1..Cardinality(pool)
        /\ \A x, y \in pool : <<y, x>> \in BySimilarity(q.point) <=>
                                  VectorPlace(y, q, pool) < VectorPlace(x, q, pool)
    BY <1>2, <1>3, Places DEF VectorPlace
  <1>5. /\ \A x \in LexicalHits(q) : LexicalPlace(x, q) \in 1..Cardinality(LexicalHits(q))
        /\ \A x, y \in LexicalHits(q) : <<y, x>> \in ByLexicalKey(q) <=> LexicalPlace(y, q) < LexicalPlace(x, q)
    BY <1>1, Places DEF LexicalPlace
  <1>6. Cardinality(pool) \in Nat /\ Cardinality(LexicalHits(q)) \in Nat /\ VectorLimit \in Nat
    BY <1>1, <1>2, FS_CardinalityType, GraphConstants
  <1>7. /\ \A x \in LexicalHits(q) : x \in LexicalCandidates(q) <=> LexicalPlace(x, q) <= MatchLimit
        /\ LexicalCandidates(q) \subseteq LexicalHits(q)
    BY DEF LexicalCandidates, Leading, LexicalPlace
  <1>8. \A x \in pool : VectorPlace(x, q, pool) \in 1..VectorLimit
    BY <1>2, <1>4, <1>6
  <1>9. \A x \in LexicalHits(q) : LexicalPlace(x, q) \in Nat \ {0}
    BY <1>5, <1>6
  <1> QED BY <1>1, <1>2, <1>3, <1>4, <1>5, <1>7, <1>8, <1>9

\* What the two queries say of a card, as the search adds it up.
Fused(i, q, pool) ==
    (IF i \in pool THEN Rrf(VectorPlace(i, q, pool)) ELSE 0)
    + (IF i \in LexicalCandidates(q) THEN Rrf(LexicalPlace(i, q)) ELSE 0)

LEMMA MatchColumns ==
    ASSUME GraphTypeOK, NEW q \in Query, NEW pool \in VectorPools, NEW i \in ActiveCards
    PROVE  /\ MatchKey(i, q, pool) \in [1..8 -> Int]
           /\ MatchKey(i, q, pool)[1] = IF i \in LexicalCandidates(q) THEN ExactTitle(i, q) ELSE 0
           /\ MatchKey(i, q, pool)[2] = IF i \in LexicalCandidates(q) THEN TitlePhrase(i, q) ELSE 0
           /\ MatchKey(i, q, pool)[3] = IF i \in LexicalCandidates(q) THEN TitleAllTokens(i, q) ELSE 0
           /\ MatchKey(i, q, pool)[4] = Fused(i, q, pool)
           /\ MatchKey(i, q, pool)[8] = -i
  <1> DEFINE vector == i \in pool
             lexical == i \in LexicalCandidates(q)
             v == VectorPlace(i, q, pool)
             l == LexicalPlace(i, q)
             k1 == IF lexical THEN ExactTitle(i, q) ELSE 0
             k2 == IF lexical THEN TitlePhrase(i, q) ELSE 0
             k3 == IF lexical THEN TitleAllTokens(i, q) ELSE 0
             k5 == IF lexical THEN LexicalScore(i, q) ELSE 0
             k6 == IF lexical THEN -l ELSE -(MatchLimit + 1)
             k7 == IF vector THEN -v ELSE -(MatchLimit + 1)
  <1>1. MatchKey(i, q, pool) = <<k1, k2, k3, Fused(i, q, pool), k5, k6, k7, -i>>
    BY DEF MatchKey, Fused, VectorPlace, LexicalPlace
  <1>2. i \in DOMAIN graphCards /\ i \in Nat
    BY CardFacts DEF ActiveCards
  <1>3. k1 \in Int /\ k2 \in Int /\ k3 \in Int /\ k5 \in Int
    BY <1>2, Columns
  <1>4. (vector => v \in 1..VectorLimit) /\ (lexical => l \in Nat \ {0} /\ l <= MatchLimit)
    BY CandidatePlaces
  <1>5. /\ MatchLimit \in Nat /\ VectorLimit \in Nat /\ MatchLimit <= VectorLimit
        /\ \A r \in 1..VectorLimit : Rrf(r) \in Nat
    BY GraphConstants, Reciprocals
  <1> HIDE DEF vector, lexical, v, l
  <1>6. k6 \in Int /\ k7 \in Int
    BY <1>4, <1>5
  <1>7. Fused(i, q, pool) \in Int
    <2>1. (vector => v \in 1..VectorLimit) /\ (lexical => l \in 1..VectorLimit)
      BY <1>4, <1>5
    <2>2. (vector => Rrf(v) \in Nat) /\ (lexical => Rrf(l) \in Nat)
      BY <1>5, <2>1
    <2> QED BY <2>2 DEF Fused, vector, lexical, v, l
  <1> HIDE DEF k1, k2, k3, k5, k6, k7
  <1> DEFINE k4 == Fused(i, q, pool)
  <1>8. k4 \in Int /\ MatchKey(i, q, pool) = <<k1, k2, k3, k4, k5, k6, k7, -i>>
    BY <1>1, <1>7
  <1> HIDE DEF k4
  <1>9. /\ MatchKey(i, q, pool) \in [1..8 -> Int]
        /\ MatchKey(i, q, pool)[1] = k1 /\ MatchKey(i, q, pool)[2] = k2 /\ MatchKey(i, q, pool)[3] = k3
        /\ MatchKey(i, q, pool)[4] = k4 /\ MatchKey(i, q, pool)[8] = -i
    BY <1>2, <1>3, <1>6, <1>8
  <1> QED BY <1>9 DEF k1, k2, k3, k4, lexical

LEMMA MatchOrder ==
    ASSUME GraphTypeOK, NEW q \in Query, NEW pool \in VectorPools
    PROVE  LET found == pool \cup LexicalCandidates(q)
                   order == ByMatchKey(q, pool)
           IN  /\ IsFiniteSet(found) /\ found \subseteq ActiveCards
               /\ \A x, y \in found :
                      /\ <<y, x>> \in order <=> Exceeds(MatchKey(y, q, pool), MatchKey(x, q, pool))
                      /\ <<y, x>> \in order <=> Place(y, found, order) < Place(x, found, order)
               /\ \A x \in found : /\ Place(x, found, order) \in Nat
                                   /\ x \in Matches(q, pool) <=> Place(x, found, order) <= MatchLimit
               /\ \A x \in Matches(q, pool) : \A T \in SUBSET found :
                      (\A y \in T : <<y, x>> \in order) => Cardinality(T) < MatchLimit
               /\ Matches(q, pool) \subseteq found
  <1> DEFINE found == pool \cup LexicalCandidates(q)
             order == ByMatchKey(q, pool)
             key == [i \in found |-> MatchKey(i, q, pool)]
             place == [x \in found |-> Place(x, found, order)]
  <1>1. found \subseteq ActiveCards /\ ActiveCards \subseteq DOMAIN graphCards
    BY CandidatePlaces, LexicalOrder
  <1>2. IsFiniteSet(found)
    BY <1>1, LexicalOrder, FS_Subset
  <1>3. \A x, y \in found : <<y, x>> \in order <=> Exceeds(MatchKey(y, q, pool), MatchKey(x, q, pool))
    <2>1. \A x \in found : x \in DOMAIN graphCards
      BY <1>1
    <2> HIDE DEF found
    <2> QED BY <2>1 DEF ByMatchKey
  <1>4. key \in [found -> [1..8 -> Int]]
    BY <1>1, MatchColumns
  <1>5. \A x, y \in found : key[x] = key[y] => x = y
    <2>1. ASSUME NEW x \in found, NEW y \in found, key[x] = key[y] PROVE x = y
      <3>1. /\ MatchKey(x, q, pool)[8] = -x /\ MatchKey(y, q, pool)[8] = -y
            /\ MatchKey(x, q, pool) = MatchKey(y, q, pool)
        BY <1>1, <2>1, MatchColumns
      <3>2. x \in Int /\ y \in Int /\ -x = -y
        BY <1>1, <3>1, CardFacts
      <3> QED BY <3>2
    <2> QED BY <2>1
  <1>6. \A x, y \in found : <<x, y>> \in order <=> Exceeds(key[x], key[y])
    BY <1>3
  <1>7. Matches(q, pool) = Leading(MatchLimit, found, order)
    BY DEF Matches
  <1> HIDE DEF key, found, order
  <1>8. TotalOn(found, order)
    BY <1>4, <1>5, <1>6, KeysOrder
  <1>9. /\ \A x \in found : place[x] \in 1..Cardinality(found)
        /\ \A x, y \in found : <<y, x>> \in order <=> place[y] < place[x]
    BY <1>2, <1>8, Places
  <1>10. Cardinality(found) \in Nat
    BY <1>2, FS_CardinalityType
  <1>11. Matches(q, pool) \subseteq found /\ \A x \in found : x \in Matches(q, pool) <=> place[x] <= MatchLimit
    BY <1>7 DEF Leading
  <1>12. ASSUME NEW x \in Matches(q, pool), NEW T \in SUBSET found, \A y \in T : <<y, x>> \in order
         PROVE  Cardinality(T) < MatchLimit
    <2> DEFINE B == {y \in found : <<y, x>> \in order}
    <2>1. T \subseteq B /\ IsFiniteSet(B)
      BY <1>2, <1>12, FS_Subset
    <2>2. x \in found /\ place[x] = Cardinality(B) + 1 /\ place[x] <= MatchLimit
      BY <1>11 DEF Place
    <2> HIDE DEF B, place
    <2>3. Cardinality(T) <= Cardinality(B) /\ Cardinality(T) \in Nat /\ Cardinality(B) \in Nat
      BY <2>1, FS_Subset, FS_CardinalityType
    <2> QED BY <2>2, <2>3, GraphConstants
  <1>13. \A x \in found : place[x] \in Nat
    BY <1>9, <1>10
  <1>14. \A x \in found : place[x] = Place(x, found, order)
    OBVIOUS
  <1> HIDE DEF place
  <1> QED BY <1>1, <1>2, <1>3, <1>9, <1>11, <1>12, <1>13, <1>14 DEF found, order

\* What exceeds another in its words is found by its words, and before it.
LEMMA FitsBetter ==
    ASSUME GraphTypeOK, NEW q \in Query, NEW pool \in VectorPools, NEW i \in ActiveCards, NEW m \in LexicalHits(q),
           \/ Exceeds(Fits(i, q), Fits(m, q))
           \/ ~ Exceeds(Fits(m, q), Fits(i, q)) /\ i < m
    PROVE  /\ i \in LexicalHits(q) /\ Exceeds(LexicalKey(i, q), LexicalKey(m, q))
           /\ \/ ExactTitle(i, q) > ExactTitle(m, q)
              \/ ExactTitle(i, q) = ExactTitle(m, q) /\ TitlePhrase(i, q) > TitlePhrase(m, q)
              \/ /\ ExactTitle(i, q) = ExactTitle(m, q) /\ TitlePhrase(i, q) = TitlePhrase(m, q)
                 /\ TitleAllTokens(i, q) >= TitleAllTokens(m, q)
  <1> DEFINE a1 == ExactTitle(i, q)
             a2 == TitlePhrase(i, q)
             a3 == TitleAllTokens(i, q)
             a4 == LexicalScore(i, q)
             b1 == ExactTitle(m, q)
             b2 == TitlePhrase(m, q)
             b3 == TitleAllTokens(m, q)
             b4 == LexicalScore(m, q)
  <1>1. i \in DOMAIN graphCards /\ m \in DOMAIN graphCards /\ i \in Nat /\ m \in Nat /\ m \in ActiveCards
    BY CardFacts DEF ActiveCards, LexicalHits
  <1>2. /\ a1 \in {0, 1} /\ a2 \in {0, 1} /\ a3 \in {0, 1} /\ a4 \in Nat
        /\ b1 \in {0, 1} /\ b2 \in {0, 1} /\ b3 \in {0, 1} /\ b4 \in Nat
    BY <1>1, Columns
  <1>3. b4 > 0
    BY DEF LexicalHits
  <1>4. Fits(m, q) = <<b1, b2, b3, b4>>
    BY DEF Fits
  <1> DEFINE x == LexicalKey(i, q)
             y == LexicalKey(m, q)
  <1>5. /\ x \in [1..5 -> Int] /\ x[1] = a1 /\ x[2] = a2 /\ x[3] = a3 /\ x[4] = a4 /\ x[5] = -i
        /\ y \in [1..5 -> Int] /\ y[1] = b1 /\ y[2] = b2 /\ y[3] = b3 /\ y[4] = b4 /\ y[5] = -m
    BY <1>1, Columns
  <1> HIDE DEF a1, a2, a3, a4, b1, b2, b3, b4
  <1>6. i \in LexicalHits(q)
    <2> SUFFICES ASSUME i \notin LexicalHits(q) PROVE FALSE
      OBVIOUS
    <2>1. Fits(i, q) = <<0, 0, 0, 0>>
      BY DEF Fits
    <2> DEFINE o == <<0, 0, 0, 0>>
               f == <<b1, b2, b3, b4>>
    <2>2. o \in [1..4 -> Int] /\ f \in [1..4 -> Int] /\ ~ Leads(o, f) /\ Leads(f, o)
      BY <1>2, <1>3 DEF Leads
    <2> HIDE DEF o, f
    <2>3. ~ Exceeds(o, f) /\ Exceeds(f, o)
      BY <2>2, FourColumns
    <2>4. Fits(i, q) = o /\ Fits(m, q) = f
      BY <1>4, <2>1 DEF o, f
    <2> QED BY <2>3, <2>4
  <1>7. Fits(i, q) = <<a1, a2, a3, a4>>
    BY <1>6 DEF Fits, a1, a2, a3, a4
  <1> DEFINE u == <<a1, a2, a3, a4>>
             f == <<b1, b2, b3, b4>>
  <1>13. /\ u \in [1..4 -> Int] /\ u[1] = a1 /\ u[2] = a2 /\ u[3] = a3 /\ u[4] = a4
         /\ f \in [1..4 -> Int] /\ f[1] = b1 /\ f[2] = b2 /\ f[3] = b3 /\ f[4] = b4
    BY <1>2
  <1>14. Fits(i, q) = u /\ Fits(m, q) = f
    BY <1>4, <1>7
  <1> HIDE DEF u, f
  <1>8. (Exceeds(u, f) <=> Leads(u, f)) /\ (Exceeds(f, u) <=> Leads(f, u))
    BY <1>13, FourColumns
  <1> HIDE DEF x, y
  <1>9. \/ a1 > b1
        \/ a1 = b1 /\ a2 > b2
        \/ a1 = b1 /\ a2 = b2 /\ a3 > b3
        \/ a1 = b1 /\ a2 = b2 /\ a3 = b3 /\ a4 > b4
        \/ a1 = b1 /\ a2 = b2 /\ a3 = b3 /\ a4 = b4 /\ i < m
    BY <1>2, <1>8, <1>13, <1>14 DEF Leads
  <1>10. Leads(x, y) \/ (SameColumns(x, y) /\ x[5] > y[5])
    BY <1>1, <1>5, <1>9 DEF Leads, SameColumns
  <1>11. Exceeds(x, y)
    BY <1>5, <1>10, LexicalColumns
  <1>12. \/ a1 > b1
         \/ a1 = b1 /\ a2 > b2
         \/ a1 = b1 /\ a2 = b2 /\ a3 >= b3
    BY <1>2, <1>9
  <1> QED BY <1>6, <1>11, <1>12 DEF a1, a2, a3, b1, b2, b3, x, y

\* A search adds up the better places.
LEMMA BetterIsBefore ==
    ASSUME GraphTypeOK, NEW q \in Query, NEW pool \in VectorPools, NEW i \in ActiveCards, NEW m \in Matches(q, pool),
           Similarity(graphCards[i].point, q.point) >= Similarity(graphCards[m].point, q.point),
           ~ Exceeds(Fits(m, q), Fits(i, q)),
           \/ i < m
           \/ /\ Similarity(graphCards[i].point, q.point) > Similarity(graphCards[m].point, q.point)
              /\ Exceeds(Fits(i, q), Fits(m, q)),
           m \in pool => i \in pool
    PROVE  i \in Matches(q, pool) /\ <<i, m>> \in ByMatchKey(q, pool)
  <1> DEFINE V == pool
             L == LexicalCandidates(q)
             vi == VectorPlace(i, q, pool)
             vm == VectorPlace(m, q, pool)
             li == LexicalPlace(i, q)
             lm == LexicalPlace(m, q)
             x == MatchKey(i, q, pool)
             y == MatchKey(m, q, pool)
  <1>1. m \in V \cup L /\ V \cup L \subseteq ActiveCards /\ m \in ActiveCards
    BY MatchOrder
  <1>2. /\ i \in DOMAIN graphCards /\ m \in DOMAIN graphCards /\ i \in Nat /\ m \in Nat
        /\ Similarity(graphCards[i].point, q.point) \in Int /\ Similarity(graphCards[m].point, q.point) \in Int
    <2>1. i \in DOMAIN graphCards /\ m \in DOMAIN graphCards
      BY <1>1 DEF ActiveCards
    <2> QED BY <2>1, CardFacts DEF Comparable
  <1>3. Closer(i, m, q.point)
    BY <1>2 DEF Closer
  <1>4. m \in V => i \in V /\ vi \in 1..VectorLimit /\ vm \in 1..VectorLimit /\ vi < vm
    BY <1>3, CandidatePlaces
  <1>5. /\ MatchLimit \in Nat /\ VectorLimit \in Nat /\ MatchLimit <= VectorLimit
        /\ \A r \in 1..VectorLimit : Rrf(r) \in Nat \ {0}
        /\ \A r, s \in 1..VectorLimit : r < s => Rrf(r) > Rrf(s)
    BY GraphConstants, Reciprocals
  <1>6. \A z \in ActiveCards :
            /\ z \in V => VectorPlace(z, q, pool) \in 1..VectorLimit /\ Rrf(VectorPlace(z, q, pool)) \in Nat \ {0}
            /\ z \in L => LexicalPlace(z, q) \in 1..VectorLimit /\ Rrf(LexicalPlace(z, q)) \in Nat \ {0}
    <2>1. ASSUME NEW z \in ActiveCards, z \in V
          PROVE  VectorPlace(z, q, pool) \in 1..VectorLimit
      BY <1>5, <2>1, CandidatePlaces
    <2>2. ASSUME NEW z \in ActiveCards, z \in L
          PROVE  LexicalPlace(z, q) \in 1..VectorLimit
      <3>1. LexicalPlace(z, q) \in Nat \ {0} /\ LexicalPlace(z, q) <= MatchLimit
        BY <2>2, CandidatePlaces
      <3> QED BY <1>5, <3>1
    <2> QED BY <1>5, <2>1, <2>2
  <1>7. /\ x \in [1..8 -> Int] /\ x[4] = Fused(i, q, pool)
        /\ x[1] = IF i \in L THEN ExactTitle(i, q) ELSE 0
        /\ x[2] = IF i \in L THEN TitlePhrase(i, q) ELSE 0
        /\ x[3] = IF i \in L THEN TitleAllTokens(i, q) ELSE 0
    BY MatchColumns
  <1>8. /\ y \in [1..8 -> Int] /\ y[4] = Fused(m, q, pool)
        /\ y[1] = IF m \in L THEN ExactTitle(m, q) ELSE 0
        /\ y[2] = IF m \in L THEN TitlePhrase(m, q) ELSE 0
        /\ y[3] = IF m \in L THEN TitleAllTokens(m, q) ELSE 0
    BY <1>1, MatchColumns
  <1>9. /\ ExactTitle(i, q) \in {0, 1} /\ TitlePhrase(i, q) \in {0, 1} /\ TitleAllTokens(i, q) \in {0, 1}
        /\ ExactTitle(m, q) \in {0, 1} /\ TitlePhrase(m, q) \in {0, 1} /\ TitleAllTokens(m, q) \in {0, 1}
    BY <1>2, Columns
  <1>10. /\ m \in V => i \in V /\ Rrf(vi) > Rrf(vm) /\ Rrf(vm) \in Nat /\ Rrf(vi) \in Nat
         /\ i \in V => Rrf(vi) \in Nat
    <2>1. ASSUME m \in V PROVE i \in V /\ Rrf(vi) > Rrf(vm)
      BY <1>4, <1>5, <2>1
    <2>2. m \in V => Rrf(vm) \in Nat
      BY <1>1, <1>6
    <2>3. i \in V => Rrf(vi) \in Nat
      BY <1>6
    <2> QED BY <2>1, <2>2, <2>3
  <1>11. /\ Fused(i, q, pool) = (IF i \in V THEN Rrf(vi) ELSE 0) + (IF i \in L THEN Rrf(li) ELSE 0)
         /\ Fused(m, q, pool) = (IF m \in V THEN Rrf(vm) ELSE 0) + (IF m \in L THEN Rrf(lm) ELSE 0)
    BY DEF Fused
  <1>12. i \in V \cup L /\ Exceeds(x, y)
    <2>1. CASE m \in L
      <3>1. m \in LexicalHits(q)
        BY <2>1, CandidatePlaces
      <3>2. /\ i \in LexicalHits(q) /\ Exceeds(LexicalKey(i, q), LexicalKey(m, q))
            /\ \/ ExactTitle(i, q) > ExactTitle(m, q)
               \/ ExactTitle(i, q) = ExactTitle(m, q) /\ TitlePhrase(i, q) > TitlePhrase(m, q)
               \/ /\ ExactTitle(i, q) = ExactTitle(m, q) /\ TitlePhrase(i, q) = TitlePhrase(m, q)
                  /\ TitleAllTokens(i, q) >= TitleAllTokens(m, q)
        BY <3>1, FitsBetter
      <3>3. li < lm /\ li \in Nat \ {0} /\ lm \in Nat \ {0} /\ lm <= MatchLimit /\ i \in L
        <4>1. li < lm /\ li \in Nat \ {0} /\ lm \in Nat \ {0} /\ lm <= MatchLimit
              /\ (i \in L <=> li <= MatchLimit)
          BY <2>1, <3>1, <3>2, CandidatePlaces
        <4> HIDE DEF li, lm, L
        <4> QED BY <1>5, <4>1
      <3>4. Rrf(li) > Rrf(lm) /\ Rrf(li) \in Nat /\ Rrf(lm) \in Nat
        <4>1. li \in 1..VectorLimit /\ lm \in 1..VectorLimit
          BY <1>5, <3>3
        <4> QED BY <1>5, <3>3, <4>1
      <3> HIDE DEF V, L, vi, vm, li, lm, x, y
      <3>5. Fused(i, q, pool) > Fused(m, q, pool)
        BY <1>10, <1>11, <2>1, <3>3, <3>4
      <3>6. Leads(x, y)
        BY <1>7, <1>8, <1>9, <2>1, <3>2, <3>3, <3>5 DEF Leads
      <3>7. Exceeds(x, y)
        BY <1>7, <1>8, <3>6, EightColumns
      <3> QED BY <3>3, <3>7
    <2>2. CASE m \notin L
      <3>1. m \in V /\ i \in V
        BY <1>1, <1>10, <2>2
      <3>2. i \in L => Rrf(li) \in Nat
        BY <1>6
      <3> HIDE DEF V, L, vi, vm, li, lm, x, y
      <3>3. Fused(i, q, pool) > Fused(m, q, pool)
        BY <1>10, <1>11, <2>2, <3>1, <3>2
      <3>4. Leads(x, y)
        BY <1>7, <1>8, <1>9, <2>2, <3>3 DEF Leads
      <3>5. Exceeds(x, y)
        BY <1>7, <1>8, <3>4, EightColumns
      <3> QED BY <3>1, <3>5
    <2> QED BY <2>1, <2>2
  <1> DEFINE found == V \cup L
             pi == Place(i, found, ByMatchKey(q, pool))
             pm == Place(m, found, ByMatchKey(q, pool))
  <1>13. /\ <<i, m>> \in ByMatchKey(q, pool) /\ pi < pm
         /\ pi \in Nat /\ pm \in Nat /\ pm <= MatchLimit /\ (i \in Matches(q, pool) <=> pi <= MatchLimit)
    BY <1>1, <1>12, MatchOrder
  <1> HIDE DEF pi, pm
  <1>14. pi <= MatchLimit
    BY <1>5, <1>13
  <1> QED BY <1>13, <1>14

\* The cards with the very title fill the first places.
LEMMA TitleIsFirst ==
    ASSUME GraphTypeOK, NEW q \in Query, NEW pool \in VectorPools, NEW i \in LexicalHits(q), NEW m \in Matches(q, pool),
           graphCards[i].title = q.text, graphCards[m].title # q.text
    PROVE  i \in Matches(q, pool) /\ <<i, m>> \in ByMatchKey(q, pool)
  <1> DEFINE V == pool
             L == LexicalCandidates(q)
  <1>1. /\ m \in V \cup L /\ V \cup L \subseteq ActiveCards /\ m \in ActiveCards
        /\ L \subseteq LexicalHits(q) /\ LexicalHits(q) \subseteq ActiveCards
        /\ ActiveCards \subseteq DOMAIN graphCards
    BY MatchOrder, CandidatePlaces, LexicalOrder
  <1>2. ExactTitle(i, q) = 1 /\ ExactTitle(m, q) = 0
    BY DEF ExactTitle, One
  <1>3. ASSUME NEW z \in L, ExactTitle(z, q) = 1 PROVE <<z, m>> \in ByMatchKey(q, pool)
    <2>1. z \in ActiveCards
      BY <1>1
    <2>2. MatchKey(z, q, pool) \in [1..8 -> Int] /\ MatchKey(z, q, pool)[1] = 1
      BY <1>3, <2>1, MatchColumns
    <2>3. MatchKey(m, q, pool) \in [1..8 -> Int] /\ MatchKey(m, q, pool)[1] = 0
      BY <1>1, <1>2, MatchColumns
    <2>4. Exceeds(MatchKey(z, q, pool), MatchKey(m, q, pool))
      <3>1. Leads(MatchKey(z, q, pool), MatchKey(m, q, pool))
        BY <2>2, <2>3 DEF Leads
      <3> QED BY <2>2, <2>3, <3>1, EightColumns
    <2> QED BY <1>1, <2>4, MatchOrder
  <1>4. i \in L
    <2> SUFFICES ASSUME i \notin L PROVE FALSE
      OBVIOUS
    <2>1. /\ \A z \in L : <<z, i>> \in ByLexicalKey(q)
          /\ Cardinality(L) = MatchLimit
      <3>1. IsFiniteSet(LexicalHits(q)) /\ TotalOn(LexicalHits(q), ByLexicalKey(q)) /\ MatchLimit \in Nat
        BY LexicalOrder, GraphConstants
      <3> QED BY <3>1, TheFirst DEF LexicalCandidates
    <2>2. ASSUME NEW z \in L PROVE ExactTitle(z, q) = 1
      <3>1. z \in DOMAIN graphCards /\ i \in DOMAIN graphCards
        BY <1>1
      <3>2. Exceeds(LexicalKey(z, q), LexicalKey(i, q))
        BY <2>1, <3>1, LexicalOrder
      <3>3. /\ LexicalKey(z, q) \in [1..5 -> Int] /\ LexicalKey(z, q)[1] = ExactTitle(z, q)
            /\ LexicalKey(i, q) \in [1..5 -> Int] /\ LexicalKey(i, q)[1] = 1
            /\ ExactTitle(z, q) \in {0, 1}
        BY <1>2, <3>1, Columns
      <3>4. ~ Exceeds(LexicalKey(i, q), LexicalKey(z, q))
        BY <3>2, <3>3, ExceedsIsAnOrder
      <3>5. ~ (LexicalKey(i, q)[1] > LexicalKey(z, q)[1])
        BY <3>3, <3>4, LexicalColumns DEF Leads
      <3> QED BY <3>3, <3>5
    <2>3. \A z \in L : <<z, m>> \in ByMatchKey(q, pool)
      BY <1>3, <2>2
    <2>4. Cardinality(L) < MatchLimit
      <3>1. L \in SUBSET (V \cup L)
        OBVIOUS
      <3> QED BY <2>3, <3>1, MatchOrder
    <2> QED BY <2>1, <2>4, GraphConstants
  <1>5. <<i, m>> \in ByMatchKey(q, pool)
    BY <1>2, <1>3, <1>4
  <1> DEFINE found == V \cup L
             pi == Place(i, found, ByMatchKey(q, pool))
             pm == Place(m, found, ByMatchKey(q, pool))
  <1>6. /\ pi < pm /\ pi \in Nat /\ pm \in Nat /\ pm <= MatchLimit /\ (i \in Matches(q, pool) <=> pi <= MatchLimit)
    BY <1>1, <1>4, <1>5, MatchOrder
  <1> HIDE DEF pi, pm
  <1>7. pi <= MatchLimit
    BY <1>6, GraphConstants
  <1> QED BY <1>5, <1>6, <1>7

LEMMA SearchAlwaysFavoursBetter == ASSUME GraphTypeOK PROVE SearchFavoursBetter
  <1>1. ASSUME NEW q \in Query, NEW pool \in VectorPools, NEW m \in Matches(q, pool), NEW i \in ActiveCards,
               \/ /\ Similarity(graphCards[i].point, q.point) >= Similarity(graphCards[m].point, q.point)
                  /\ ~ Exceeds(Fits(m, q), Fits(i, q))
                  /\ \/ i < m
                     \/ /\ Similarity(graphCards[i].point, q.point) > Similarity(graphCards[m].point, q.point)
                        /\ Exceeds(Fits(i, q), Fits(m, q))
                  /\ m \in pool => i \in pool
               \/ i \in LexicalHits(q) /\ graphCards[i].title = q.text /\ graphCards[m].title # q.text
        PROVE  i \in Matches(q, pool) /\ <<i, m>> \in ByMatchKey(q, pool)
    BY <1>1, BetterIsBefore, TitleIsFirst
  <1> QED BY <1>1 DEF SearchFavoursBetter

-----------------------------------------------------------------------------
(* Titles next to matches *)

EdgesInv == GraphTypeOK /\ AdjacencyIsComplete

NextTo(matched) ==
    {x \in ActiveCards \ matched : \E i \in matched, e \in edges : {e.a, e.b} = {i, x}}

\* The rows are the pairs of a match and a card next to it, in an order.
LEMMA RowsAreNeighbors ==
    ASSUME EdgesInv, NEW matched \in SUBSET ActiveCards
    PROVE  /\ IsFiniteSet(ConnectedRows(matched))
           /\ TotalOn(ConnectedRows(matched), ByIds(ConnectedRows(matched)))
           /\ {r[2] : r \in ConnectedRows(matched)} = NextTo(matched)
  <1> DEFINE R == ConnectedRows(matched)
  <1>1. ActiveCards \subseteq DOMAIN graphCards /\ IsFiniteSet(ActiveCards)
    <2>1. ActiveCards \subseteq DOMAIN graphCards
      BY DEF ActiveCards
    <2> QED BY <2>1, CardFacts, FS_Subset DEF EdgesInv
  <1>2. IsFiniteSet(R)
    <2>1. IsFiniteSet(matched) /\ IsFiniteSet(ActiveCards \ matched)
      BY <1>1, FS_Subset
    <2>2. IsFiniteSet(matched \X (ActiveCards \ matched))
      BY <2>1, FS_Product
    <2>3. R \subseteq matched \X (ActiveCards \ matched)
      BY DEF ConnectedRows
    <2> QED BY <2>2, <2>3, FS_Subset
  <1>3. \A r \in R : r = <<r[1], r[2]>> /\ r[1] \in Nat /\ r[2] \in Nat
                     /\ r[1] \in matched /\ r[2] \in ActiveCards \ matched
    <2>1. \A i \in ActiveCards : i \in Nat
      BY <1>1, CardFacts DEF EdgesInv
    <2> QED BY <2>1 DEF ConnectedRows
  <1>4. TotalOn(R, ByIds(R))
    <2>1. \A r, s \in R : <<r, s>> \in ByIds(R) <=> r[1] < s[1] \/ (r[1] = s[1] /\ r[2] < s[2])
      BY DEF ByIds
    <2> HIDE DEF R
    <2>2. \A r \in R : <<r, r>> \notin ByIds(R)
      BY <1>3, <2>1
    <2>3. ASSUME NEW r \in R, NEW s \in R, NEW t \in R, <<r, s>> \in ByIds(R), <<s, t>> \in ByIds(R)
          PROVE  <<r, t>> \in ByIds(R)
      <3>1. r[1] < s[1] \/ (r[1] = s[1] /\ r[2] < s[2])
        BY <2>1, <2>3
      <3>2. s[1] < t[1] \/ (s[1] = t[1] /\ s[2] < t[2])
        BY <2>1, <2>3
      <3>3. r[1] < t[1] \/ (r[1] = t[1] /\ r[2] < t[2])
        BY <1>3, <3>1, <3>2
      <3> QED BY <2>1, <3>3
    <2>4. ASSUME NEW r \in R, NEW s \in R, r # s PROVE <<r, s>> \in ByIds(R) \/ <<s, r>> \in ByIds(R)
      <3>1. r[1] # s[1] \/ r[2] # s[2]
        BY <1>3, <2>4
      <3>2. (r[1] < s[1] \/ (r[1] = s[1] /\ r[2] < s[2])) \/ (s[1] < r[1] \/ (s[1] = r[1] /\ s[2] < r[2]))
        BY <1>3, <3>1
      <3> QED BY <2>1, <3>2
    <2> QED BY <2>2, <2>3, <2>4 DEF TotalOn
  <1>5. \A i, x : [node |-> i, edge |-> {i, x}] \in adjacency <=> \E e \in edges : {e.a, e.b} = {i, x}
    <2>1. adjacency = AdjacencyOf(edges)
      BY DEF EdgesInv, AdjacencyIsComplete
    <2>2. ASSUME NEW i, NEW x, [node |-> i, edge |-> {i, x}] \in adjacency
          PROVE  \E e \in edges : {e.a, e.b} = {i, x}
      <3>1. PICK e \in edges : \E n \in {e.a, e.b} : [node |-> i, edge |-> {i, x}] = [node |-> n, edge |-> {e.a, e.b}]
        BY <2>1, <2>2 DEF AdjacencyOf
      <3>2. [node |-> i, edge |-> {i, x}].edge = {e.a, e.b}
        BY <3>1
      <3> QED BY <3>2
    <2>3. ASSUME NEW i, NEW x, NEW e \in edges, {e.a, e.b} = {i, x}
          PROVE  [node |-> i, edge |-> {i, x}] \in adjacency
      <3>1. i \in {e.a, e.b}
        BY <2>3
      <3>2. [node |-> i, edge |-> {e.a, e.b}] \in AdjacencyOf(edges)
        <4> DEFINE Rows(f) == {[node |-> n, edge |-> {f.a, f.b}] : n \in {f.a, f.b}}
        <4>1. [node |-> i, edge |-> {e.a, e.b}] \in Rows(e)
          BY <3>1
        <4>2. AdjacencyOf(edges) = UNION {Rows(f) : f \in edges}
          BY DEF AdjacencyOf
        <4> HIDE DEF Rows
        <4> QED BY <4>1, <4>2
      <3> QED BY <2>1, <2>3, <3>2
    <2> QED BY <2>2, <2>3
  <1>6. ASSUME NEW r \in R PROVE r[2] \in NextTo(matched)
    <2>1. [node |-> r[1], edge |-> {r[1], r[2]}] \in adjacency
      BY DEF ConnectedRows
    <2> QED BY <1>3, <1>5, <2>1 DEF NextTo
  <1>7. ASSUME NEW x \in NextTo(matched) PROVE \E r \in R : r[2] = x
    <2>1. PICK i \in matched : \E e \in edges : {e.a, e.b} = {i, x}
      BY DEF NextTo
    <2> DEFINE r == <<i, x>>
    <2>2. r \in matched \X (ActiveCards \ matched) /\ r[1] = i /\ r[2] = x
      BY DEF NextTo
    <2>3. [node |-> i, edge |-> {i, x}] \in adjacency
      BY <1>5, <2>1
    <2> HIDE DEF r
    <2>4. r \in R
      BY <2>2, <2>3 DEF ConnectedRows
    <2> QED BY <2>2, <2>4
  <1> HIDE DEF R
  <1>8. {r[2] : r \in R} = NextTo(matched)
    BY <1>6, <1>7
  <1> QED BY <1>2, <1>4, <1>8 DEF R

\* Up to the limit the loop lists all titles it comes by but those of matches.
LEMMA TitlesAreNeighbors ==
    ASSUME EdgesInv, NEW matched \in SUBSET ActiveCards
    PROVE  LET near == {graphCards[j].title : j \in NextTo(matched)} \ {graphCards[j].title : j \in matched}
               listed == ConnectedTitles(matched)
           IN  /\ listed \subseteq near
               /\ Cardinality(listed) = IF Cardinality(near) < ConnectedLimit THEN Cardinality(near)
                                        ELSE ConnectedLimit
  <1> DEFINE R == ConnectedRows(matched)
             rows == InOrder(R, ByIds(R))
             N == Len(rows)
             excluded == {graphCards[i].title : i \in matched}
             TitleOf(k) == graphCards[rows[k][2]].title
             Step(T, k) == IF TitleOf(k) \in excluded \/ Cardinality(T) >= ConnectedLimit THEN T
                           ELSE T \cup {TitleOf(k)}
             Loop(f, k) == IF k = 0 THEN {} ELSE Step(f[k - 1], k)
             titles == CHOOSE f : f = [k \in 0..N |-> Loop(f, k)]
             near == {graphCards[j].title : j \in NextTo(matched)} \ excluded
             V == SUBSET {TitleOf(k) : k \in 1..N}
             F == [x \in V \X (1..N) |-> Step(x[1], x[2])]
             Came(k) == {TitleOf(j) : j \in 1..k} \ excluded
  <1>1. /\ N \in Nat /\ rows \in [1..N -> R]
        /\ \A r \in R : \E k \in 1..N : rows[k] = r
    <2>1. IsFiniteSet(R) /\ TotalOn(R, ByIds(R))
      BY RowsAreNeighbors
    <2> HIDE DEF R
    <2>2. Len(rows) = Cardinality(R) /\ rows \in [1..Cardinality(R) -> R] /\ Cardinality(R) \in Nat
          /\ \A r \in R : Place(r, R, ByIds(R)) \in 1..Cardinality(R) /\ rows[Place(r, R, ByIds(R))] = r
      BY <2>1, InItsPlace, Places
    <2> QED BY <2>2
  <1>2. ConnectedTitles(matched) = titles[N]
    BY DEF ConnectedTitles
  <1>3. NextTo(matched) = {r[2] : r \in R}
    BY RowsAreNeighbors
  <1> HIDE DEF R, rows, N
  <1>4. near = Came(N)
    <2>1. \A j \in NextTo(matched) : \E k \in 1..N : rows[k][2] = j
      BY <1>1, <1>3
    <2>2. \A k \in 1..N : rows[k][2] \in NextTo(matched)
      BY <1>1, <1>3
    <2>3. {graphCards[j].title : j \in NextTo(matched)} = {TitleOf(k) : k \in 1..N}
      BY <2>1, <2>2
    <2> HIDE DEF TitleOf, excluded
    <2> QED BY <2>3
  <1>5. titles = [k \in 0..N |-> Loop(titles, k)]
    <2>1. \A T \in V, k \in 1..N : Step(T, k) \in V
      <3> HIDE DEF excluded, TitleOf
      <3> QED OBVIOUS
    <2>2. {} \in V
      OBVIOUS
    <2> HIDE DEF V, Step
    <2>3. F \in [V \X (1..N) -> V]
      <3>1. \A x \in V \X (1..N) : Step(x[1], x[2]) \in V
        BY <2>1
      <3> QED BY <3>1
    <2>4. PICK g : IsLoop(g, N, V, {}, F)
      <3> HIDE DEF F
      <3> QED BY <1>1, <2>2, <2>3, Loops
    <2>5. /\ g \in [0..N -> V] /\ g[0] = {}
          /\ \A k \in 1..N : g[k] = F[<<g[k - 1], k>>]
      BY <2>4 DEF IsLoop
    <2>6. ASSUME NEW k \in 1..N PROVE g[k] = Step(g[k - 1], k)
      <3>1. k - 1 \in 0..N
        BY <1>1
      <3>2. g[k - 1] \in V
        BY <2>5, <3>1
      <3>3. <<g[k - 1], k>> \in V \X (1..N)
        BY <3>2
      <3> QED BY <2>5, <3>3
    <2> HIDE DEF F
    <2>7. g = [k \in 0..N |-> Loop(g, k)]
      <3>1. \A k \in 0..N : k = 0 \/ k \in 1..N
        BY <1>1
      <3> QED BY <1>1, <2>5, <2>6, <3>1
    <2> HIDE DEF Loop
    <2> QED BY <2>7
  <1>6. ConnectedLimit \in Nat
    BY GraphConstants
  <1> HIDE DEF titles
  <1> DEFINE Listed(T, k) == /\ T \subseteq Came(k) /\ IsFiniteSet(T) /\ Cardinality(T) <= ConnectedLimit
                             /\ Cardinality(T) = ConnectedLimit \/ T = Came(k)
             Good == {k \in 0..N : Listed(titles[k], k)}
  <1>7. 0 \in Good
    <2>1. titles[0] = {} /\ 0 \in 0..N
      BY <1>1, <1>5
    <2>2. Came(0) = {}
      OBVIOUS
    <2>3. IsFiniteSet({}) /\ Cardinality({}) = 0
      BY FS_EmptySet
    <2> HIDE DEF Came
    <2> QED BY <1>6, <2>1, <2>2, <2>3
  <1>8. ASSUME NEW k \in 1..N, k - 1 \in Good PROVE k \in Good
    <2> DEFINE T == titles[k - 1]
               t == TitleOf(k)
    <2>1. k \in 0..N /\ k # 0 /\ k \in Nat /\ k - 1 \in 0..N
      BY <1>1
    <2>2. titles[k] = IF t \in excluded \/ Cardinality(T) >= ConnectedLimit THEN T ELSE T \cup {t}
      BY <1>5, <2>1
    <2>3. Came(k) = IF t \in excluded THEN Came(k - 1) ELSE Came(k - 1) \cup {t}
      <3>1. 1..k = (1..(k - 1)) \cup {k}
        BY <2>1
      <3> HIDE DEF TitleOf, excluded
      <3> QED BY <3>1
    <2>4. Listed(T, k - 1)
      BY <1>8
    <2>5. Cardinality(T) \in Nat
      BY <2>4, FS_CardinalityType
    <2> HIDE DEF T, t, Came, TitleOf, excluded
    <2>6. Listed(titles[k], k)
      <3>1. CASE t \in excluded
        BY <2>2, <2>3, <2>4, <3>1
      <3>2. CASE t \notin excluded /\ Cardinality(T) >= ConnectedLimit
        BY <1>6, <2>2, <2>3, <2>4, <2>5, <3>2
      <3>3. CASE t \notin excluded /\ ~ (Cardinality(T) >= ConnectedLimit)
        <4>1. T = Came(k - 1)
          BY <1>6, <2>4, <2>5, <3>3
        <4>2. titles[k] = T \cup {t} /\ Came(k) = T \cup {t}
          BY <2>2, <2>3, <3>3, <4>1
        <4>3. IsFiniteSet(T \cup {t}) /\ Cardinality(T \cup {t}) <= Cardinality(T) + 1
              /\ Cardinality(T \cup {t}) \in Nat
          <5>1. IsFiniteSet(T \cup {t}) /\ Cardinality(T \cup {t}) = IF t \in T THEN Cardinality(T) ELSE Cardinality(T) + 1
            BY <2>4, FS_AddElement
          <5> QED BY <2>5, <5>1
        <4> QED BY <1>6, <2>5, <3>3, <4>2, <4>3
      <3> QED BY <3>1, <3>2, <3>3
    <2> HIDE DEF Listed
    <2> QED BY <2>1, <2>6
  <1>9. Listed(titles[N], N)
    <2>1. N \in 0..N
      BY <1>1
    <2> HIDE DEF Good, Listed
    <2>2. \A k \in 0..N : k \in Good
      BY <1>1, <1>7, <1>8, NumbersFromZero
    <2> QED BY <2>1, <2>2 DEF Good
  <1> HIDE DEF Came
  <1>10. IsFiniteSet(near) /\ Cardinality(near) \in Nat
    <2>1. IsFiniteSet({TitleOf(k) : k \in 1..N})
      <3>1. IsFiniteSet(1..N)
        BY <1>1, FS_Interval
      <3> DEFINE Img == {TitleOf(k) : k \in 1..N}
      <3>2. [k \in 1..N |-> TitleOf(k)] \in Surjection(1..N, Img)
        <4> HIDE DEF TitleOf
        <4> QED BY DEF Surjection
      <3> QED BY <3>1, <3>2, FS_Surjection
    <2>2. near \subseteq {TitleOf(k) : k \in 1..N}
      BY <1>4 DEF Came
    <2> HIDE DEF near, TitleOf
    <2> QED BY <2>1, <2>2, FS_Subset, FS_CardinalityType
  <1> DEFINE L == titles[N]
  <1>11. /\ L \subseteq near /\ IsFiniteSet(L) /\ Cardinality(L) <= ConnectedLimit
         /\ Cardinality(L) = ConnectedLimit \/ L = near
    BY <1>4, <1>9
  <1> HIDE DEF L, near
  <1>12. Cardinality(L) <= Cardinality(near) /\ Cardinality(L) \in Nat
    BY <1>10, <1>11, FS_Subset, FS_CardinalityType
  <1>13. Cardinality(L) = IF Cardinality(near) < ConnectedLimit THEN Cardinality(near) ELSE ConnectedLimit
    BY <1>6, <1>10, <1>11, <1>12
  <1> QED BY <1>2, <1>11, <1>13 DEF L, near

LEMMA ConnectedAreAlwaysNeighbors == ASSUME EdgesInv PROVE ConnectedAreNeighbors
  BY TitlesAreNeighbors DEF ConnectedAreNeighbors, NextTo

-----------------------------------------------------------------------------
(* The edges of a card *)

\* LinkedToBest for one card.
LinkedWell(cs, es, n, p) ==
    LET Near(i) == Similarity(cs[i].point, cs[n].point)
        Nearer(j, i) == Near(j) > Near(i) \/ (Near(j) = Near(i) /\ j < i)
        linked == {i \in 1..(n - 1) : \E e \in es : e.a = i /\ e.b = n}
        mentioned == {i \in 1..(n - 1) : cs[i].title \in cs[n].mentions}
        better(i) == {j \in linked : Nearer(j, i)}
    IN  /\ \A e \in es : e.b = n => e.strength = Near(e.a)
        /\ Cardinality(linked) <= p.mention + p.top
        /\ \A i \in (1..(n - 1)) \ linked :
            /\ Near(i) >= p.min => Cardinality(better(i)) >= p.top
            /\ i \in mentioned => Cardinality(better(i) \cap mentioned) >= p.mention

\* Two graphs do not differ in the first n cards, but for their state, and in
\* the edges from the n-th to older ones.
SameTo(n, cs, ds, es, fs) ==
    /\ \A i \in 1..n : ds[i].title = cs[i].title /\ ds[i].mentions = cs[i].mentions /\ ds[i].point = cs[i].point
    /\ \A e : e.b = n => (e \in es <=> e \in fs)
    /\ \A e \in es \cup fs : e.b = n => e.a \in 1..(n - 1)

LEMMA LinkedFrame ==
    ASSUME NEW n \in Nat \ {0}, NEW cs, NEW ds, NEW es, NEW fs, NEW p,
           SameTo(n, cs, ds, es, fs), LinkedWell(cs, es, n, p)
    PROVE  LinkedWell(ds, fs, n, p)
  <1> DEFINE Near(c, i) == Similarity(c[i].point, c[n].point)
             Nearer(c, j, i) == Near(c, j) > Near(c, i) \/ (Near(c, j) = Near(c, i) /\ j < i)
             linked(e) == {i \in 1..(n - 1) : \E f \in e : f.a = i /\ f.b = n}
             mentioned(c) == {i \in 1..(n - 1) : c[i].title \in c[n].mentions}
             better(c, e, i) == {j \in linked(e) : Nearer(c, j, i)}
  <1>1. n \in 1..n /\ \A i \in 1..(n - 1) : i \in 1..n
    OBVIOUS
  <1>2. \A i \in 1..(n - 1) : Near(ds, i) = Near(cs, i)
    BY <1>1 DEF SameTo
  <1>3. mentioned(ds) = mentioned(cs)
    BY <1>1 DEF SameTo
  <1>4. linked(fs) = linked(es)
    BY DEF SameTo
  <1>5. \A i \in 1..(n - 1) : better(ds, fs, i) = better(cs, es, i)
    <2> HIDE DEF Near
    <2>1. \A i, j \in 1..(n - 1) : Nearer(ds, j, i) <=> Nearer(cs, j, i)
      BY <1>2
    <2>2. linked(fs) \subseteq 1..(n - 1)
      OBVIOUS
    <2> HIDE DEF Nearer, linked
    <2> QED BY <1>4, <2>1, <2>2
  <1>6. /\ \A e \in es : e.b = n => e.strength = Near(cs, e.a)
        /\ Cardinality(linked(es)) <= p.mention + p.top
        /\ \A i \in (1..(n - 1)) \ linked(es) :
            /\ Near(cs, i) >= p.min => Cardinality(better(cs, es, i)) >= p.top
            /\ i \in mentioned(cs) => Cardinality(better(cs, es, i) \cap mentioned(cs)) >= p.mention
    BY DEF LinkedWell
  <1>7. \A e \in fs : e.b = n => e \in es /\ e.a \in 1..(n - 1)
    BY DEF SameTo
  <1> HIDE DEF Near, linked, mentioned, better
  <1>8. /\ \A e \in fs : e.b = n => e.strength = Near(ds, e.a)
        /\ Cardinality(linked(fs)) <= p.mention + p.top
        /\ \A i \in (1..(n - 1)) \ linked(fs) :
            /\ Near(ds, i) >= p.min => Cardinality(better(ds, fs, i)) >= p.top
            /\ i \in mentioned(ds) => Cardinality(better(ds, fs, i) \cap mentioned(ds)) >= p.mention
    BY <1>2, <1>3, <1>4, <1>5, <1>6, <1>7
  <1> QED BY <1>8 DEF LinkedWell, Near, linked, mentioned, better, Nearer

Nearer(cs, n, j, i) ==
    \/ Similarity(cs[j].point, cs[n].point) > Similarity(cs[i].point, cs[n].point)
    \/ Similarity(cs[j].point, cs[n].point) = Similarity(cs[i].point, cs[n].point) /\ j < i

\* M are the best of the cards that n mentions, C the best of the others that
\* are near enough.
BestOlder(cs, n, M, C, p) ==
    /\ M \subseteq 1..(n - 1) /\ C \subseteq 1..(n - 1) /\ IsFiniteSet(M) /\ IsFiniteSet(C)
    /\ Cardinality(M) \in 0..p.mention /\ Cardinality(C) \in 0..p.top
    /\ \A j \in M : cs[j].title \in cs[n].mentions
    /\ \A i \in (1..(n - 1)) \ (M \cup C) :
        /\ Similarity(cs[i].point, cs[n].point) >= p.min =>
               Cardinality(C) = p.top /\ \A j \in C : Nearer(cs, n, j, i)
        /\ cs[i].title \in cs[n].mentions =>
               Cardinality(M) = p.mention /\ \A j \in M : Nearer(cs, n, j, i)

\* The edges from n to older cards are those to ids.
LinkedTo(cs, es, n, ids) ==
    /\ \A i \in 1..(n - 1) : i \in ids <=> \E e \in es : e.a = i /\ e.b = n
    /\ \A e \in es : e.b = n => e.strength = Similarity(cs[e.a].point, cs[n].point)

LEMMA BestIsLinkedWell ==
    ASSUME NEW n \in Nat \ {0}, NEW cs, NEW es, NEW p \in LinkPolicy, NEW M, NEW C,
           BestOlder(cs, n, M, C, p), LinkedTo(cs, es, n, M \cup C)
    PROVE  LinkedWell(cs, es, n, p)
  <1> DEFINE Near(i) == Similarity(cs[i].point, cs[n].point)
             linked == {i \in 1..(n - 1) : \E e \in es : e.a = i /\ e.b = n}
             mentioned == {i \in 1..(n - 1) : cs[i].title \in cs[n].mentions}
             better(i) == {j \in linked : Near(j) > Near(i) \/ (Near(j) = Near(i) /\ j < i)}
  <1>1. /\ M \subseteq 1..(n - 1) /\ C \subseteq 1..(n - 1) /\ IsFiniteSet(M) /\ IsFiniteSet(C)
        /\ Cardinality(M) \in 0..p.mention /\ Cardinality(C) \in 0..p.top
        /\ \A j \in M : cs[j].title \in cs[n].mentions
    BY DEF BestOlder
  <1>2. \A i \in (1..(n - 1)) \ (M \cup C) :
            /\ Near(i) >= p.min => Cardinality(C) = p.top /\ \A j \in C : Nearer(cs, n, j, i)
            /\ i \in mentioned => Cardinality(M) = p.mention /\ \A j \in M : Nearer(cs, n, j, i)
    BY DEF BestOlder
  <1>3. linked = M \cup C
    BY <1>1 DEF LinkedTo
  <1>4. p.mention \in Nat /\ p.top \in Nat /\ p.min \in Int
    BY DEF LinkPolicy
  <1>5. Cardinality(linked) <= p.mention + p.top /\ IsFiniteSet(linked)
    <2> HIDE DEF linked
    <2>1. IsFiniteSet(linked) /\ Cardinality(linked) = Cardinality(M) + Cardinality(C) - Cardinality(M \cap C)
      BY <1>1, <1>3, FS_Union
    <2>2. IsFiniteSet(M \cap C)
      BY <1>1, FS_Subset
    <2>3. Cardinality(M \cap C) \in Nat
      BY <2>2, FS_CardinalityType
    <2> QED BY <1>1, <1>4, <2>1, <2>3
  <1>6. \A i, j : Nearer(cs, n, j, i) <=> Near(j) > Near(i) \/ (Near(j) = Near(i) /\ j < i)
    BY DEF Nearer
  <1>7. \A i : IsFiniteSet(better(i)) /\ IsFiniteSet(better(i) \cap mentioned)
    <2> HIDE DEF linked, Near, mentioned
    <2>1. \A i : better(i) \subseteq linked /\ better(i) \cap mentioned \subseteq linked
      OBVIOUS
    <2> HIDE DEF better
    <2> QED BY <1>5, <2>1, FS_Subset
  <1> HIDE DEF Near, linked
  <1>8. ASSUME NEW i \in (1..(n - 1)) \ linked, Near(i) >= p.min PROVE Cardinality(better(i)) >= p.top
    <2>1. Cardinality(C) = p.top /\ \A j \in C : Nearer(cs, n, j, i)
      BY <1>2, <1>3, <1>8
    <2>2. C \subseteq better(i)
      BY <1>3, <1>6, <2>1
    <2> HIDE DEF better
    <2>3. Cardinality(C) <= Cardinality(better(i)) /\ Cardinality(better(i)) \in Nat
      BY <1>7, <2>2, FS_Subset, FS_CardinalityType
    <2> QED BY <1>4, <2>1, <2>3
  <1>9. ASSUME NEW i \in (1..(n - 1)) \ linked, i \in mentioned
        PROVE  Cardinality(better(i) \cap mentioned) >= p.mention
    <2>1. Cardinality(M) = p.mention /\ \A j \in M : Nearer(cs, n, j, i)
      BY <1>2, <1>3, <1>9
    <2>2. M \subseteq better(i) \cap mentioned
      BY <1>1, <1>3, <1>6, <2>1
    <2> DEFINE B == better(i) \cap mentioned
    <2>3. M \subseteq B /\ IsFiniteSet(B)
      BY <1>7, <2>2
    <2> HIDE DEF B
    <2>4. Cardinality(M) <= Cardinality(B) /\ Cardinality(B) \in Nat
      BY <2>3, FS_Subset, FS_CardinalityType
    <2> QED BY <1>4, <2>1, <2>4 DEF B
  <1>10. \A e \in es : e.b = n => e.strength = Near(e.a)
    BY DEF LinkedTo, Near
  <1> QED BY <1>5, <1>8, <1>9, <1>10 DEF LinkedWell, Near, linked

GraphInv ==
    /\ EdgesInv
    /\ \A n \in DOMAIN policy : policy[n] # Stale => LinkedWell(graphCards, edges, n, policy[n])

LEMMA LinkedToBestByCard ==
    LinkedToBest <=> \A n \in DOMAIN policy : policy[n] # Stale => LinkedWell(graphCards, edges, n, policy[n])
  BY DEF LinkedToBest, LinkedWell, Closer

LEMMA EdgesAreOlder ==
    ASSUME GraphTypeOK
    PROVE  \A e \in edges : e.a \in 1..(e.b - 1) /\ e.b \in 1..Len(graphCards)
  BY CardFacts DEF GraphTypeOK

-----------------------------------------------------------------------------
(* The steps *)

WellEdges(es, len) ==
    /\ \A e \in es : /\ e = [a |-> e.a, b |-> e.b, strength |-> e.strength]
                     /\ e.a \in Nat \ {0} /\ e.b \in Nat \ {0} /\ e.a < e.b /\ e.b <= len
    /\ \A e, f \in es : {e.a, e.b} = {f.a, f.b} => e = f

AllLinkedWell(cs, es, ps) == \A n \in DOMAIN ps : ps[n] # Stale => LinkedWell(cs, es, n, ps[n])

LEMMA GraphInvParts ==
    /\ GraphInv <=> /\ graphCards \in Seq(GraphCard) /\ policy \in Seq(LinkPolicy) /\ Len(policy) = Len(graphCards)
                    /\ WellEdges(edges, Len(graphCards)) /\ adjacency = AdjacencyOf(edges)
                    /\ AllLinkedWell(graphCards, edges, policy)
    /\ GraphInv' <=> /\ graphCards' \in Seq(GraphCard) /\ policy' \in Seq(LinkPolicy)
                     /\ Len(policy') = Len(graphCards')
                     /\ WellEdges(edges', Len(graphCards')) /\ adjacency' = AdjacencyOf(edges')
                     /\ AllLinkedWell(graphCards', edges', policy')
  <1>1. GraphInv <=> /\ graphCards \in Seq(GraphCard) /\ policy \in Seq(LinkPolicy)
                     /\ Len(policy) = Len(graphCards)
                     /\ WellEdges(edges, Len(graphCards)) /\ adjacency = AdjacencyOf(edges)
                     /\ AllLinkedWell(graphCards, edges, policy)
    BY DEF GraphInv, EdgesInv, GraphTypeOK, AdjacencyIsComplete, WellEdges, AllLinkedWell
  <1>2. GraphInv' <=> /\ graphCards' \in Seq(GraphCard) /\ policy' \in Seq(LinkPolicy)
                      /\ Len(policy') = Len(graphCards')
                      /\ WellEdges(edges', Len(graphCards')) /\ adjacency' = AdjacencyOf(edges')
                      /\ AllLinkedWell(graphCards', edges', policy')
    BY DEF GraphInv, EdgesInv, GraphTypeOK, AdjacencyIsComplete, WellEdges, AllLinkedWell
  <1> QED BY <1>1, <1>2

LEMMA GraphStarts == GraphInit => GraphInv
  <1> SUFFICES ASSUME GraphInit PROVE GraphInv
    OBVIOUS
  <1>1. graphCards = <<>> /\ policy = <<>> /\ edges = {} /\ adjacency = {}
    BY DEF GraphInit
  <1>2. AdjacencyOf({}) = {}
    BY DEF AdjacencyOf
  <1>3. \A n \in DOMAIN policy : FALSE
    BY <1>1
  <1>4. AllLinkedWell(graphCards, edges, policy)
    BY <1>3 DEF AllLinkedWell
  <1> QED BY <1>1, <1>2, <1>4, GraphInvParts DEF WellEdges

\* What a card is appended to keeps what it had.
LEMMA AppendFacts ==
    ASSUME NEW S, NEW s \in Seq(S), NEW x \in S
    PROVE  /\ Append(s, x) \in Seq(S) /\ Len(Append(s, x)) = Len(s) + 1 /\ Len(s) \in Nat
           /\ DOMAIN Append(s, x) = 1..(Len(s) + 1) /\ DOMAIN s = 1..Len(s)
           /\ \A i \in 1..Len(s) : Append(s, x)[i] = s[i]
           /\ Append(s, x)[Len(s) + 1] = x
  OBVIOUS

LEMMA MoreCards ==
    ASSUME NEW es, NEW len \in Nat, WellEdges(es, len)
    PROVE  WellEdges(es, len + 1)
  <1>1. ASSUME NEW e \in es
        PROVE  /\ e = [a |-> e.a, b |-> e.b, strength |-> e.strength]
               /\ e.a \in Nat \ {0} /\ e.b \in Nat \ {0} /\ e.a < e.b /\ e.b <= len + 1
    <2>1. /\ e = [a |-> e.a, b |-> e.b, strength |-> e.strength]
          /\ e.a \in Nat \ {0} /\ e.b \in Nat \ {0} /\ e.a < e.b /\ e.b <= len
      BY DEF WellEdges
    <2> DEFINE b == e.b
    <2>2. b \in Nat /\ b <= len
      BY <2>1
    <2> HIDE DEF b
    <2>3. b <= len + 1
      BY <2>2
    <2> QED BY <2>1, <2>3 DEF b
  <1>2. \A e, f \in es : {e.a, e.b} = {f.a, f.b} => e = f
    BY DEF WellEdges
  <1> QED BY <1>1, <1>2 DEF WellEdges

NewCard(card) ==
    [title |-> card.title, mentions |-> card.mentions, point |-> card.point, active |-> TRUE]

LEMMA NewCardType ==
    ASSUME NEW card \in CardText
    PROVE  NewCard(card) \in GraphCard /\ card.point \in Point
  BY DEF NewCard, GraphCard, Point

LEMMA CreatesUnlinked ==
    ASSUME GraphInv, NEW card \in CardText, CreateUnlinked(card)
    PROVE  GraphInv'
  <1>1. /\ graphCards' = Append(graphCards, NewCard(card)) /\ policy' = Append(policy, Stale)
        /\ edges' = edges /\ adjacency' = adjacency
    BY DEF CreateUnlinked, NewCard
  <1>2. /\ graphCards \in Seq(GraphCard) /\ policy \in Seq(LinkPolicy) /\ Len(policy) = Len(graphCards)
        /\ WellEdges(edges, Len(graphCards)) /\ adjacency = AdjacencyOf(edges)
        /\ AllLinkedWell(graphCards, edges, policy)
    BY GraphInvParts
  <1> DEFINE N == Len(graphCards)
  <1>3. NewCard(card) \in GraphCard /\ Stale \in LinkPolicy
    BY NewCardType DEF Stale, LinkPolicy
  <1>4. /\ graphCards' \in Seq(GraphCard) /\ Len(graphCards') = N + 1 /\ N \in Nat
        /\ policy' \in Seq(LinkPolicy) /\ Len(policy') = N + 1 /\ DOMAIN policy' = 1..(N + 1)
        /\ \A i \in 1..N : graphCards'[i] = graphCards[i] /\ policy'[i] = policy[i]
        /\ policy'[N + 1] = Stale /\ DOMAIN policy = 1..N
    BY <1>1, <1>2, <1>3, AppendFacts
  <1>5. WellEdges(edges', Len(graphCards'))
    BY <1>1, <1>2, <1>4, MoreCards
  <1>6. ASSUME NEW n \in DOMAIN policy', policy'[n] # Stale
        PROVE  LinkedWell(graphCards', edges', n, policy'[n])
    <2>1. n \in 1..N /\ n \in Nat \ {0} /\ policy[n] # Stale /\ policy'[n] = policy[n]
      BY <1>4, <1>6
    <2>2. LinkedWell(graphCards, edges, n, policy[n])
      BY <1>2, <1>4, <2>1 DEF AllLinkedWell
    <2>3. SameTo(n, graphCards, graphCards', edges, edges')
      <3>1. \A i \in 1..n : graphCards'[i] = graphCards[i]
        BY <1>4, <2>1
      <3>2. \A e \in edges : e.b = n => e.a \in 1..(n - 1)
        BY <1>2, <2>1 DEF WellEdges
      <3> QED BY <1>1, <3>1, <3>2 DEF SameTo
    <2> QED BY <2>1, <2>2, <2>3, LinkedFrame
  <1> QED BY <1>1, <1>2, <1>4, <1>5, <1>6, GraphInvParts DEF AllLinkedWell

LEMMA Archives ==
    ASSUME GraphInv, NEW i \in DOMAIN graphCards, Archive(i)
    PROVE  GraphInv'
  <1>1. /\ graphCards' = [graphCards EXCEPT ![i].active = FALSE] /\ policy' = policy
        /\ edges' = edges /\ adjacency' = adjacency
    BY DEF Archive
  <1>2. /\ graphCards \in Seq(GraphCard) /\ policy \in Seq(LinkPolicy) /\ Len(policy) = Len(graphCards)
        /\ WellEdges(edges, Len(graphCards)) /\ adjacency = AdjacencyOf(edges)
        /\ AllLinkedWell(graphCards, edges, policy)
    BY GraphInvParts
  <1> DEFINE N == Len(graphCards)
             old == [graphCards[i] EXCEPT !.active = FALSE]
  <1>3. N \in Nat /\ DOMAIN graphCards = 1..N /\ DOMAIN policy = 1..N /\ graphCards[i] \in GraphCard
    BY <1>2
  <1>4. /\ old \in GraphCard /\ old.title = graphCards[i].title /\ old.mentions = graphCards[i].mentions
        /\ old.point = graphCards[i].point
    BY <1>3 DEF GraphCard
  <1>5. graphCards' = [graphCards EXCEPT ![i] = old]
    BY <1>1
  <1> HIDE DEF old
  <1>6. /\ graphCards' \in Seq(GraphCard) /\ Len(graphCards') = N
        /\ \A j \in 1..N : graphCards'[j] = IF j = i THEN old ELSE graphCards[j]
    BY <1>2, <1>3, <1>4, <1>5
  <1>7. ASSUME NEW n \in DOMAIN policy, policy[n] # Stale
        PROVE  LinkedWell(graphCards', edges, n, policy[n])
    <2>1. n \in 1..N /\ n \in Nat \ {0}
      BY <1>3
    <2>2. LinkedWell(graphCards, edges, n, policy[n])
      BY <1>2, <1>7 DEF AllLinkedWell
    <2>3. SameTo(n, graphCards, graphCards', edges, edges)
      <3>1. \A j \in 1..n : /\ graphCards'[j].title = graphCards[j].title
                            /\ graphCards'[j].mentions = graphCards[j].mentions
                            /\ graphCards'[j].point = graphCards[j].point
        BY <1>3, <1>4, <1>6, <2>1
      <3>2. \A e \in edges : e.b = n => e.a \in 1..(n - 1)
        BY <1>2, <2>1 DEF WellEdges
      <3> QED BY <3>1, <3>2 DEF SameTo
    <2> QED BY <2>1, <2>2, <2>3, LinkedFrame
  <1> QED BY <1>1, <1>2, <1>6, <1>7, GraphInvParts DEF AllLinkedWell

LEMMA Edits ==
    ASSUME GraphInv, NEW i \in DOMAIN graphCards, NEW card \in CardText, EditText(i, card)
    PROVE  GraphInv'
  <1>1. /\ graphCards' = [graphCards EXCEPT ![i].title = card.title, ![i].mentions = card.mentions,
                                            ![i].point = card.point]
        /\ policy' = [j \in DOMAIN policy |-> IF j < i THEN policy[j] ELSE Stale]
        /\ edges' = edges /\ adjacency' = adjacency
    BY DEF EditText
  <1>2. /\ graphCards \in Seq(GraphCard) /\ policy \in Seq(LinkPolicy) /\ Len(policy) = Len(graphCards)
        /\ WellEdges(edges, Len(graphCards)) /\ adjacency = AdjacencyOf(edges)
        /\ AllLinkedWell(graphCards, edges, policy)
    BY GraphInvParts
  <1> DEFINE N == Len(graphCards)
             new == [graphCards[i] EXCEPT !.title = card.title, !.mentions = card.mentions, !.point = card.point]
  <1>3. N \in Nat /\ DOMAIN graphCards = 1..N /\ DOMAIN policy = 1..N /\ graphCards[i] \in GraphCard
        /\ \A j \in 1..N : policy[j] \in LinkPolicy
    BY <1>2
  <1>4. new \in GraphCard
    <2>1. /\ card.title \in {t.title : t \in CardText} /\ card.mentions \in {t.mentions : t \in CardText}
          /\ card.point \in Point
      BY DEF Point
    <2>2. /\ graphCards[i] = [title |-> graphCards[i].title, mentions |-> graphCards[i].mentions,
                             point |-> graphCards[i].point, active |-> graphCards[i].active]
          /\ graphCards[i].active \in BOOLEAN
      BY <1>3 DEF GraphCard
    <2>3. new = [title |-> card.title, mentions |-> card.mentions, point |-> card.point,
                 active |-> graphCards[i].active]
      <3>1. PICK old : old = graphCards[i]
        OBVIOUS
      <3>2. old = [title |-> old.title, mentions |-> old.mentions, point |-> old.point, active |-> old.active]
        BY <2>2, <3>1
      <3>3. new = [old EXCEPT !.title = card.title, !.mentions = card.mentions, !.point = card.point]
        BY <3>1
      <3>4. PICK a, b, c, d : old = [title |-> a, mentions |-> b, point |-> c, active |-> d]
        BY <3>2
      <3> HIDE DEF new
      <3>5. new = [[title |-> a, mentions |-> b, point |-> c, active |-> d]
                      EXCEPT !.title = card.title, !.mentions = card.mentions, !.point = card.point]
        BY <3>3, <3>4
      <3>6. new = [title |-> card.title, mentions |-> card.mentions, point |-> card.point, active |-> d]
        BY <3>5
      <3>7. d = old.active
        BY <3>4
      <3> QED BY <3>1, <3>6, <3>7
    <2> QED BY <2>1, <2>2, <2>3 DEF GraphCard
  <1>5. graphCards' = [graphCards EXCEPT ![i] = new]
    BY <1>1, <1>3 DEF GraphCard
  <1> HIDE DEF new
  <1>6. /\ graphCards' \in Seq(GraphCard) /\ Len(graphCards') = N
        /\ \A j \in 1..N : j # i => graphCards'[j] = graphCards[j]
    BY <1>2, <1>3, <1>4, <1>5
  <1>7. policy' \in Seq(LinkPolicy) /\ Len(policy') = N /\ DOMAIN policy' = 1..N
    <2>1. Stale \in LinkPolicy
      BY DEF Stale, LinkPolicy
    <2>2. policy' \in [1..N -> LinkPolicy]
      BY <1>1, <1>3, <2>1
    <2> HIDE DEF N
    <2>3. policy' \in Seq(LinkPolicy)
      BY <1>3, <2>2, SeqDef
    <2>4. Len(policy') = N
      BY <1>3, <2>2, <2>3, LenProperties
    <2> QED BY <2>2, <2>3, <2>4
  <1>8. ASSUME NEW n \in DOMAIN policy', policy'[n] # Stale
        PROVE  LinkedWell(graphCards', edges, n, policy'[n])
    <2>1. n \in 1..N /\ n \in Nat \ {0} /\ n < i /\ policy[n] # Stale /\ policy'[n] = policy[n]
      BY <1>1, <1>3, <1>7, <1>8
    <2>2. LinkedWell(graphCards, edges, n, policy[n])
      BY <1>2, <1>3, <2>1 DEF AllLinkedWell
    <2>3. SameTo(n, graphCards, graphCards', edges, edges)
      <3>1. \A j \in 1..n : graphCards'[j] = graphCards[j]
        BY <1>3, <1>6, <2>1
      <3>2. \A e \in edges : e.b = n => e.a \in 1..(n - 1)
        BY <1>2, <2>1 DEF WellEdges
      <3> QED BY <3>1, <3>2 DEF SameTo
    <2> QED BY <2>1, <2>2, <2>3, LinkedFrame
  <1> QED BY <1>1, <1>2, <1>6, <1>7, <1>8, GraphInvParts DEF AllLinkedWell

\* New edges from n to older cards.
EdgesFrom(n, ids, p) == {EdgeOf(n, i, p) : i \in ids}

AreEdgesTo(es, n, ids, p) ==
    /\ WellEdges(es, n)
    /\ \A e \in es : e.b = n /\ e.a \in ids /\ e.strength = Similarity(graphCards[e.a].point, p)
    /\ \A i \in ids : \E e \in es : e.a = i /\ e.b = n

LEMMA NewEdges ==
    ASSUME NEW n \in Nat \ {0}, NEW ids \in SUBSET (1..(n - 1)), NEW p
    PROVE  AreEdgesTo(EdgesFrom(n, ids, p), n, ids, p)
  <1>1. \A i \in ids : /\ EdgeOf(n, i, p).a = i /\ EdgeOf(n, i, p).b = n
                       /\ EdgeOf(n, i, p).strength = Similarity(graphCards[i].point, p)
                       /\ EdgeOf(n, i, p) = [a |-> EdgeOf(n, i, p).a, b |-> EdgeOf(n, i, p).b,
                                             strength |-> EdgeOf(n, i, p).strength]
    BY DEF EdgeOf
  <1>2. \A i \in ids : i \in Nat \ {0} /\ i < n
    OBVIOUS
  <1>3. \A e \in EdgesFrom(n, ids, p) : \E i \in ids : e = EdgeOf(n, i, p)
    BY DEF EdgesFrom
  <1>4. \A e \in EdgesFrom(n, ids, p) :
            /\ e = [a |-> e.a, b |-> e.b, strength |-> e.strength]
            /\ e.a \in Nat \ {0} /\ e.b \in Nat \ {0} /\ e.a < e.b /\ e.b <= n
            /\ e.b = n /\ e.a \in ids /\ e.strength = Similarity(graphCards[e.a].point, p)
            /\ e = EdgeOf(n, e.a, p)
    BY <1>1, <1>2, <1>3
  <1>5. ASSUME NEW e \in EdgesFrom(n, ids, p), NEW f \in EdgesFrom(n, ids, p), {e.a, e.b} = {f.a, f.b}
        PROVE  e = f
    <2>1. e.b = n /\ f.b = n /\ e.a # n /\ f.a # n
      BY <1>4
    <2>2. e.a = f.a
      BY <1>5, <2>1
    <2> QED BY <1>4, <2>2
  <1>6. \A i \in ids : \E e \in EdgesFrom(n, ids, p) : e.a = i /\ e.b = n
    BY <1>1 DEF EdgesFrom
  <1>7. WellEdges(EdgesFrom(n, ids, p), n)
    BY <1>4, <1>5 DEF WellEdges
  <1> QED BY <1>4, <1>6, <1>7 DEF AreEdgesTo

LEMMA JoinedEdges ==
    ASSUME NEW len \in Nat, NEW es, NEW fs, WellEdges(es, len), WellEdges(fs, len),
           \A e \in es, f \in fs : e.b # f.b
    PROVE  WellEdges(es \cup fs, len)
  <1>1. ASSUME NEW e \in es, NEW f \in fs PROVE {e.a, e.b} # {f.a, f.b}
    <2>1. e.a \in Nat /\ e.b \in Nat /\ e.a < e.b /\ f.a \in Nat /\ f.b \in Nat /\ f.a < f.b /\ e.b # f.b
      BY DEF WellEdges
    <2> DEFINE a == e.a  b == e.b  c == f.a  d == f.b
    <2>2. a \in Nat /\ b \in Nat /\ a < b /\ c \in Nat /\ d \in Nat /\ c < d /\ b # d
      BY <2>1
    <2> HIDE DEF a, b, c, d
    <2>3. {a, b} # {c, d}
      <3> SUFFICES ASSUME {a, b} = {c, d} PROVE FALSE
        OBVIOUS
      <3>1. b = c /\ d = a
        BY <2>2
      <3> QED BY <2>2, <3>1
    <2> QED BY <2>3 DEF a, b, c, d
  <1>2. ASSUME NEW e \in es \cup fs, NEW f \in es \cup fs, {e.a, e.b} = {f.a, f.b} PROVE e = f
    <2>1. CASE e \in es /\ f \in es
      BY <1>2, <2>1 DEF WellEdges
    <2>2. CASE e \in fs /\ f \in fs
      BY <1>2, <2>2 DEF WellEdges
    <2>3. CASE e \in es /\ f \in fs
      BY <1>1, <1>2, <2>3
    <2>4. CASE e \in fs /\ f \in es
      BY <1>1, <1>2, <2>4
    <2> QED BY <2>1, <2>2, <2>3, <2>4
  <1> QED BY <1>2 DEF WellEdges

LEMMA AdjacencyOfBoth == \A es, fs : AdjacencyOf(es \cup fs) = AdjacencyOf(es) \cup AdjacencyOf(fs)
  BY DEF AdjacencyOf

Similar(card) ==
    {i \in SimilarityCandidates(card, MentionCandidates(card)) :
        Similarity(graphCards[i].point, card.point) >= SemanticMinStrength}

BestFor(card, M, C) ==
    /\ M \subseteq DOMAIN graphCards /\ C \subseteq DOMAIN graphCards /\ IsFiniteSet(M) /\ IsFiniteSet(C)
    /\ Cardinality(M) \in 0..TitleMentionTopK /\ Cardinality(C) \in 0..SemanticTopK
    /\ \A j \in M : graphCards[j].title \in card.mentions
    /\ \A i \in (DOMAIN graphCards) \ (M \cup C) :
        /\ Similarity(graphCards[i].point, card.point) >= SemanticMinStrength =>
               Cardinality(C) = SemanticTopK /\ \A j \in C : Closer(j, i, card.point)
        /\ graphCards[i].title \in card.mentions =>
               Cardinality(M) = TitleMentionTopK /\ \A j \in M : Closer(j, i, card.point)

\* The cards an ingested one is linked to are the best: whatever the vector
\* query leaves out is farther than enough candidates.
LEMMA IngestedToBest ==
    ASSUME GraphTypeOK, NEW card \in CardText,
           NEW M, M = MentionCandidates(card), NEW C, C = Closest(Similar(card), card.point, SemanticTopK)
    PROVE  BestFor(card, M, C)
  <1> DEFINE p == card.point
             D == DOMAIN graphCards
             T == {i \in D : graphCards[i].title \in card.mentions}
             S == SimilarityCandidates(card, M)
             near == Similar(card)
  <1>1. /\ TitleMentionTopK \in Nat /\ SemanticTopK \in Nat /\ CandidateLimit \in Nat
        /\ CandidateLimit >= SemanticTopK /\ SemanticMinStrength \in Int
    BY GraphConstants
  <1>2. p \in Point /\ Comparable(p)
    BY CardFacts DEF Point
  <1>3. M = Closest(T, p, TitleMentionTopK)
    BY DEF MentionCandidates
  <1>4. S = Closest(D \ M, p, CandidateLimit)
    BY DEF SimilarityCandidates
  <1>5. near = {i \in S : Similarity(graphCards[i].point, p) >= SemanticMinStrength}
    BY DEF Similar
  <1>6. C = Closest(near, p, SemanticTopK)
    OBVIOUS
  <1>7. \A i \in D : Similarity(graphCards[i].point, p) \in Int
    BY <1>2 DEF Comparable
  <1>8. T \subseteq D /\ D \ M \subseteq D
    OBVIOUS
  <1> HIDE DEF T, S, near, p
  <1>9. /\ M \subseteq T /\ IsFiniteSet(M) /\ Cardinality(M) \in 0..TitleMentionTopK
        /\ \A x \in T \ M : Cardinality(M) = TitleMentionTopK /\ \A y \in M : Closer(y, x, p)
    BY <1>1, <1>2, <1>3, <1>8, ClosestFacts
  <1>10. /\ S \subseteq D \ M /\ IsFiniteSet(S)
         /\ \A x \in (D \ M) \ S : Cardinality(S) = CandidateLimit /\ \A y \in S : Closer(y, x, p)
    BY <1>1, <1>2, <1>4, <1>8, ClosestFacts
  <1>11. near \subseteq D
    BY <1>5, <1>10
  <1>12. /\ C \subseteq near /\ IsFiniteSet(C) /\ Cardinality(C) \in 0..SemanticTopK
         /\ Cardinality(C) = IF SemanticTopK <= Cardinality(near) THEN SemanticTopK ELSE Cardinality(near)
         /\ \A x \in near \ C : Cardinality(C) = SemanticTopK /\ \A y \in C : Closer(y, x, p)
    <2> DEFINE K == Closest(near, p, SemanticTopK)
    <2>1. /\ K \subseteq near /\ IsFiniteSet(K) /\ Cardinality(K) \in 0..SemanticTopK
          /\ Cardinality(K) = IF SemanticTopK <= Cardinality(near) THEN SemanticTopK ELSE Cardinality(near)
          /\ \A x \in near \ K : Cardinality(K) = SemanticTopK /\ \A y \in K : Closer(y, x, p)
      BY <1>1, <1>2, <1>11, ClosestFacts
    <2> HIDE DEF K
    <2>2. C = K
      BY <1>6 DEF K
    <2> QED BY <2>1, <2>2
  <1>13. ASSUME NEW i \in D \ (M \cup C), Similarity(graphCards[i].point, p) >= SemanticMinStrength
         PROVE  Cardinality(C) = SemanticTopK /\ \A j \in C : Closer(j, i, p)
    <2>1. CASE i \in S
      BY <1>5, <1>12, <1>13, <2>1
    <2>2. CASE i \notin S
      <3>1. Cardinality(S) = CandidateLimit /\ \A y \in S : Closer(y, i, p)
        BY <1>10, <1>13, <2>2
      <3>2. \A y \in S : Similarity(graphCards[y].point, p) >= SemanticMinStrength
        BY <1>1, <1>7, <1>10, <1>13, <3>1 DEF Closer
      <3>3. near = S
        BY <1>5, <3>2
      <3>4. Cardinality(C) = SemanticTopK
        BY <1>1, <1>12, <3>1, <3>3
      <3> QED BY <1>12, <3>1, <3>3, <3>4
    <2> QED BY <2>1, <2>2
  <1>14. ASSUME NEW i \in D \ (M \cup C), graphCards[i].title \in card.mentions
         PROVE  Cardinality(M) = TitleMentionTopK /\ \A j \in M : Closer(j, i, p)
    BY <1>9, <1>14 DEF T
  <1>15. M \subseteq D /\ C \subseteq D /\ \A j \in M : graphCards[j].title \in card.mentions
    BY <1>9, <1>11, <1>12 DEF T
  <1> QED BY <1>9, <1>12, <1>13, <1>14, <1>15 DEF p, BestFor

IngestPolicy == [mention |-> TitleMentionTopK, top |-> SemanticTopK, min |-> SemanticMinStrength]

\* The best for a card that is about to be appended are the best for it when
\* it is the n-th.
LEMMA AppendedToBest ==
    ASSUME GraphTypeOK, NEW card \in CardText, NEW cs, cs = Append(graphCards, NewCard(card)),
           NEW M, M = MentionCandidates(card), NEW C, C = Closest(Similar(card), card.point, SemanticTopK)
    PROVE  BestOlder(cs, Len(graphCards) + 1, M, C, IngestPolicy)
  <1> DEFINE N == Len(graphCards)
             n == N + 1
             p == IngestPolicy
  <1>1. /\ M \subseteq DOMAIN graphCards /\ C \subseteq DOMAIN graphCards /\ IsFiniteSet(M) /\ IsFiniteSet(C)
        /\ Cardinality(M) \in 0..TitleMentionTopK /\ Cardinality(C) \in 0..SemanticTopK
        /\ \A j \in M : graphCards[j].title \in card.mentions
        /\ \A i \in (DOMAIN graphCards) \ (M \cup C) :
            /\ Similarity(graphCards[i].point, card.point) >= SemanticMinStrength =>
                   Cardinality(C) = SemanticTopK /\ \A j \in C : Closer(j, i, card.point)
            /\ graphCards[i].title \in card.mentions =>
                   Cardinality(M) = TitleMentionTopK /\ \A j \in M : Closer(j, i, card.point)
    <2>1. BestFor(card, M, C)
      BY IngestedToBest
    <2> QED BY <2>1 DEF BestFor
  <1>2. NewCard(card) \in GraphCard /\ graphCards \in Seq(GraphCard)
    BY NewCardType DEF GraphTypeOK
  <1>3. N \in Nat /\ DOMAIN graphCards = 1..N /\ (\A i \in 1..N : cs[i] = graphCards[i]) /\ cs[n] = NewCard(card)
    BY <1>2, AppendFacts
  <1>4. cs[n].point = card.point /\ cs[n].mentions = card.mentions
    BY <1>3 DEF NewCard
  <1>5. p.mention = TitleMentionTopK /\ p.top = SemanticTopK /\ p.min = SemanticMinStrength
    BY DEF IngestPolicy
  <1>6. \A i, j \in 1..N : Nearer(cs, n, j, i) <=> Closer(j, i, card.point)
    BY <1>3, <1>4 DEF Nearer, Closer
  <1>7. (n - 1) = N
    BY <1>3
  <1> HIDE DEF N, n, p
  <1>8. ASSUME NEW i \in (1..(n - 1)) \ (M \cup C)
        PROVE  /\ Similarity(cs[i].point, cs[n].point) >= p.min =>
                      Cardinality(C) = p.top /\ \A j \in C : Nearer(cs, n, j, i)
               /\ cs[i].title \in cs[n].mentions =>
                      Cardinality(M) = p.mention /\ \A j \in M : Nearer(cs, n, j, i)
    <2>1. i \in 1..N /\ i \in (DOMAIN graphCards) \ (M \cup C) /\ cs[i] = graphCards[i]
      BY <1>3, <1>7
    <2>2. M \subseteq 1..N /\ C \subseteq 1..N
      BY <1>1, <1>3
    <2> QED BY <1>1, <1>4, <1>5, <1>6, <2>1, <2>2
  <1>9. \A j \in M : cs[j].title \in cs[n].mentions
    BY <1>1, <1>3, <1>4
  <1>10. BestOlder(cs, n, M, C, p)
    BY <1>1, <1>3, <1>5, <1>7, <1>8, <1>9 DEF BestOlder
  <1> QED BY <1>10 DEF N, n, p

LEMMA MaterializesLinked ==
    ASSUME GraphInv, NEW card \in CardText, MaterializeLinked(card)
    PROVE  GraphInv'
  <1> DEFINE N == Len(graphCards)
             n == N + 1
             M == MentionCandidates(card)
             C == Closest(Similar(card), card.point, SemanticTopK)
             new == EdgesFrom(n, M \cup C, card.point)
  <1>1. /\ graphCards' = Append(graphCards, NewCard(card)) /\ policy' = Append(policy, IngestPolicy)
        /\ edges' = edges \cup new /\ adjacency' = adjacency \cup AdjacencyOf(new)
    BY DEF MaterializeLinked, NewCard, IngestPolicy, EdgesFrom, Similar
  <1>2. /\ graphCards \in Seq(GraphCard) /\ policy \in Seq(LinkPolicy) /\ Len(policy) = Len(graphCards)
        /\ WellEdges(edges, Len(graphCards)) /\ adjacency = AdjacencyOf(edges)
        /\ AllLinkedWell(graphCards, edges, policy) /\ GraphTypeOK
    BY GraphInvParts DEF GraphInv, EdgesInv
  <1>3. NewCard(card) \in GraphCard /\ IngestPolicy \in LinkPolicy
    BY NewCardType, GraphConstants DEF IngestPolicy, LinkPolicy
  <1>4. /\ graphCards' \in Seq(GraphCard) /\ Len(graphCards') = N + 1 /\ N \in Nat
        /\ policy' \in Seq(LinkPolicy) /\ Len(policy') = N + 1 /\ DOMAIN policy' = 1..(N + 1)
        /\ \A i \in 1..N : graphCards'[i] = graphCards[i] /\ policy'[i] = policy[i]
        /\ policy'[N + 1] = IngestPolicy /\ DOMAIN policy = 1..N /\ DOMAIN graphCards = 1..N
        /\ graphCards'[N + 1] = NewCard(card)
    BY <1>1, <1>2, <1>3, AppendFacts
  <1>5. n \in Nat \ {0} /\ n - 1 = N
    BY <1>4
  <1>6. BestOlder(graphCards', n, M, C, IngestPolicy)
    <2> DEFINE cs == graphCards'
    <2>1. cs = Append(graphCards, NewCard(card))
      BY <1>1
    <2> HIDE DEF cs
    <2>2. BestOlder(cs, Len(graphCards) + 1, M, C, IngestPolicy)
      BY <1>2, <2>1, AppendedToBest
    <2> QED BY <2>2 DEF cs
  <1>7. M \cup C \subseteq 1..(n - 1) /\ M \cup C \subseteq 1..N
    BY <1>5, <1>6 DEF BestOlder
  <1> DEFINE ids == M \cup C
             point == card.point
  <1>8. /\ WellEdges(new, n)
        /\ \A e \in new : e.b = n /\ e.a \in M \cup C /\ e.strength = Similarity(graphCards[e.a].point, card.point)
        /\ \A i \in M \cup C : \E e \in new : e.a = i /\ e.b = n
    <2>0. ids \subseteq 1..(n - 1) /\ n \in Nat \ {0}
      BY <1>5, <1>7
    <2> HIDE DEF ids, point, n
    <2>1. AreEdgesTo(EdgesFrom(n, ids, point), n, ids, point)
      BY <2>0, NewEdges
    <2> QED BY <2>1 DEF ids, point, AreEdgesTo
  <1> HIDE DEF new, M, C, ids, point
  <1>9. \A e \in edges : e.b \in Nat /\ e.b <= N /\ e.b # n
    BY <1>2, <1>4 DEF WellEdges
  <1>10. WellEdges(edges', Len(graphCards'))
    <2>1. WellEdges(edges, n)
      BY <1>2, <1>4, MoreCards
    <2>2. \A e \in edges, f \in new : e.b # f.b
      BY <1>8, <1>9
    <2> HIDE DEF n
    <2>3. WellEdges(edges \cup new, n)
      BY <1>5, <1>8, <2>1, <2>2, JoinedEdges
    <2> QED BY <1>1, <1>4, <2>3 DEF n
  <1>11. adjacency' = AdjacencyOf(edges')
    BY <1>1, <1>2, AdjacencyOfBoth
  <1>12. LinkedWell(graphCards', edges', n, IngestPolicy)
    <2>1. ASSUME NEW i \in 1..(n - 1)
          PROVE  i \in M \cup C <=> \E e \in edges' : e.a = i /\ e.b = n
      <3>1. \A e \in edges' : e.b = n => e \in new
        BY <1>1, <1>9
      <3>2. \A e \in new : e \in edges' /\ e.a \in M \cup C /\ e.b = n
        BY <1>1, <1>8
      <3> QED BY <1>8, <3>1, <3>2
    <2>2. ASSUME NEW e \in edges', e.b = n
          PROVE  e.strength = Similarity(graphCards'[e.a].point, graphCards'[n].point)
      <3>1. e \in new
        BY <1>1, <1>9, <2>2
      <3>2. e.a \in 1..N /\ e.strength = Similarity(graphCards[e.a].point, card.point)
        BY <1>7, <1>8, <3>1
      <3>3. graphCards'[e.a] = graphCards[e.a] /\ graphCards'[n].point = card.point
        BY <1>4, <3>2 DEF NewCard
      <3> QED BY <3>2, <3>3
    <2>3. LinkedTo(graphCards', edges', n, M \cup C)
      BY <2>1, <2>2 DEF LinkedTo
    <2> HIDE DEF n
    <2> QED BY <1>3, <1>5, <1>6, <2>3, BestIsLinkedWell
  <1>13. ASSUME NEW k \in DOMAIN policy', policy'[k] # Stale
         PROVE  LinkedWell(graphCards', edges', k, policy'[k])
    <2>1. CASE k = n
      BY <1>4, <1>12, <2>1
    <2>2. CASE k # n
      <3>1. k \in 1..N /\ k \in Nat \ {0} /\ policy[k] # Stale /\ policy'[k] = policy[k]
        BY <1>4, <1>13, <2>2
      <3>2. LinkedWell(graphCards, edges, k, policy[k])
        BY <1>2, <1>4, <3>1 DEF AllLinkedWell
      <3>3. SameTo(k, graphCards, graphCards', edges, edges')
        <4>1. \A i \in 1..k : graphCards'[i] = graphCards[i]
          BY <1>4, <3>1
        <4>2. \A e \in edges : e.b = k => e.a \in 1..(k - 1)
          BY <1>2, <3>1 DEF WellEdges
        <4>3. \A e : e.b = k => (e \in edges <=> e \in edges')
          BY <1>1, <1>8, <2>2
        <4>4. \A e \in edges \cup edges' : e.b = k => e.a \in 1..(k - 1)
          BY <4>2, <4>3
        <4> QED BY <4>1, <4>3, <4>4 DEF SameTo
      <3> QED BY <3>1, <3>2, <3>3, LinkedFrame
    <2> QED BY <2>1, <2>2
  <1> QED BY <1>4, <1>10, <1>11, <1>13, GraphInvParts DEF AllLinkedWell

LEMMA SamePair ==
    ASSUME NEW e, NEW f, e.a \in Nat, e.b \in Nat, e.a < e.b, f.a \in Nat, f.b \in Nat, f.a < f.b,
           {e.a, e.b} = {f.a, f.b}
    PROVE  e.a = f.a /\ e.b = f.b
  <1> DEFINE a == e.a  b == e.b  c == f.a  d == f.b
  <1>1. a \in Nat /\ b \in Nat /\ a < b /\ c \in Nat /\ d \in Nat /\ c < d /\ {a, b} = {c, d}
    OBVIOUS
  <1> HIDE DEF a, b, c, d
  <1>2. a = c /\ b = d
    BY <1>1
  <1> QED BY <1>2 DEF a, b, c, d

LEMMA PlannedIsBest ==
    ASSUME GraphTypeOK, NEW p \in RebuildPolicy, NEW n \in DOMAIN graphCards
    PROVE  /\ BestOlder(graphCards, n, {}, Planned(n, p), [mention |-> 0, top |-> p.top, min |-> p.min])
           /\ Planned(n, p) \in SUBSET (1..(n - 1))
  <1> DEFINE C == Planned(n, p)
             older == 1..(n - 1)
             E == Eligible(n, older, p.min)
             l == [mention |-> 0, top |-> p.top, min |-> p.min]
             point == graphCards[n].point
  <1>1. p.top \in Nat /\ p.min \in Int
    BY GraphConstants
  <1>2. older \subseteq DOMAIN graphCards /\ point \in Point /\ Comparable(point)
    BY CardFacts
  <1>3. E \subseteq older /\ E = {j \in older : Similarity(graphCards[j].point, point) >= p.min}
    BY DEF Eligible
  <1>4. C = Closest(E, point, p.top)
    BY DEF Planned
  <1> HIDE DEF C, E, point
  <1>5. /\ C \subseteq E /\ IsFiniteSet(C) /\ Cardinality(C) \in 0..p.top
        /\ \A x \in E \ C : Cardinality(C) = p.top /\ \A y \in C : Closer(y, x, point)
    <2>1. E \subseteq DOMAIN graphCards
      BY <1>2, <1>3
    <2> HIDE DEF older
    <2> QED BY <1>1, <1>2, <1>4, <2>1, ClosestFacts
  <1>6. l.mention = 0 /\ l.top = p.top /\ l.min = p.min /\ IsFiniteSet({}) /\ Cardinality({}) = 0
    BY FS_EmptySet
  <1> HIDE DEF l, older
  <1>7. \A i, j : Nearer(graphCards, n, j, i) <=> Closer(j, i, point)
    BY DEF Nearer, Closer, point
  <1>8. ASSUME NEW i \in older \ ({} \cup C), Similarity(graphCards[i].point, graphCards[n].point) >= l.min
        PROVE  Cardinality(C) = l.top /\ \A j \in C : Nearer(graphCards, n, j, i)
    <2>1. i \in E \ C
      BY <1>3, <1>6, <1>8 DEF point
    <2> QED BY <1>5, <1>6, <1>7, <2>1
  <1>9. BestOlder(graphCards, n, {}, C, l)
    BY <1>3, <1>5, <1>6, <1>8 DEF BestOlder, older
  <1> QED BY <1>3, <1>5, <1>9 DEF C, l, older

LEMMA Rebuilds ==
    ASSUME GraphInv, NEW p \in RebuildPolicy, RebuildEdges(p)
    PROVE  GraphInv'
  <1> DEFINE D == DOMAIN graphCards
             Part(i) == EdgesTo(i, Planned(i, p))
             es == UNION {Part(i) : i \in D}
             l == [mention |-> 0, top |-> p.top, min |-> p.min]
             N == Len(graphCards)
  <1>1. GraphTypeOK /\ graphCards \in Seq(GraphCard) /\ Len(policy) = N /\ policy \in Seq(LinkPolicy)
    BY GraphInvParts DEF GraphInv, EdgesInv
  <1>2. PlanInChunks(p.top, p.min) = es
    BY <1>1, BothPlan
  <1>3. /\ graphCards' = graphCards /\ edges' = es /\ adjacency' = AdjacencyOf(edges')
        /\ policy' = [i \in DOMAIN policy |-> l]
    BY <1>2 DEF RebuildEdges
  <1>4. N \in Nat /\ D = 1..N /\ DOMAIN policy = 1..N /\ \A i \in D : i \in Nat \ {0} /\ i <= N
    BY <1>1
  <1>5. l \in LinkPolicy
    BY GraphConstants DEF LinkPolicy
  <1>6. ASSUME NEW i \in D PROVE AreEdgesTo(Part(i), i, Planned(i, p), graphCards[i].point)
    <2> DEFINE ids == Planned(i, p)
               point == graphCards[i].point
    <2>1. ids \in SUBSET (1..(i - 1)) /\ i \in Nat \ {0}
      BY <1>1, <1>4, PlannedIsBest
    <2> HIDE DEF ids, point
    <2>2. AreEdgesTo(EdgesFrom(i, ids, point), i, ids, point)
      BY <2>1, NewEdges
    <2> QED BY <2>2 DEF ids, point, EdgesTo, EdgesFrom
  <1> HIDE DEF Part, D, l
  <1>7. \A i \in D : \A e \in Part(i) :
            /\ e = [a |-> e.a, b |-> e.b, strength |-> e.strength]
            /\ e.a \in Nat \ {0} /\ e.b \in Nat \ {0} /\ e.a < e.b /\ e.b = i /\ e.b <= N
    BY <1>4, <1>6 DEF AreEdgesTo, WellEdges
  <1>8. \A e \in es : e.b \in D /\ e \in Part(e.b)
    BY <1>7
  <1>9. WellEdges(es, N)
    <2>1. ASSUME NEW e \in es, NEW f \in es, {e.a, e.b} = {f.a, f.b} PROVE e = f
      <3>1. /\ e.a \in Nat /\ e.b \in Nat /\ e.a < e.b /\ f.a \in Nat /\ f.b \in Nat /\ f.a < f.b
            /\ e.b \in D /\ e \in Part(e.b) /\ f.b \in D /\ f \in Part(f.b)
        BY <1>7, <1>8
      <3>2. e.b = f.b
        BY <2>1, <3>1, SamePair
      <3> QED BY <1>6, <2>1, <3>1, <3>2 DEF AreEdgesTo, WellEdges
    <2> HIDE DEF es
    <2>2. \A e \in es : /\ e = [a |-> e.a, b |-> e.b, strength |-> e.strength]
                        /\ e.a \in Nat \ {0} /\ e.b \in Nat \ {0} /\ e.a < e.b /\ e.b <= N
      BY <1>7, <1>8
    <2> QED BY <2>1, <2>2 DEF WellEdges
  <1>10. ASSUME NEW n \in D PROVE LinkedWell(graphCards, es, n, l)
    <2>1. BestOlder(graphCards, n, {}, Planned(n, p), l) /\ Planned(n, p) \in SUBSET (1..(n - 1))
      BY <1>1, PlannedIsBest DEF D, l
    <2>2. \A e \in Part(n) : e \in es
      OBVIOUS
    <2>3. /\ \A e \in Part(n) : e.b = n /\ e.a \in Planned(n, p) /\ e.strength = Similarity(graphCards[e.a].point, graphCards[n].point)
          /\ \A i \in Planned(n, p) : \E e \in Part(n) : e.a = i /\ e.b = n
      BY <1>6 DEF AreEdgesTo
    <2> HIDE DEF es
    <2>4. \A e \in es : e.b = n => e \in Part(n)
      BY <1>8
    <2>5. LinkedTo(graphCards, es, n, {} \cup Planned(n, p))
      BY <2>2, <2>3, <2>4 DEF LinkedTo
    <2> QED BY <1>4, <1>5, <2>1, <2>5, BestIsLinkedWell
  <1>11. policy' \in Seq(LinkPolicy) /\ Len(policy') = N /\ DOMAIN policy' = D
    <2>1. policy' \in [1..N -> LinkPolicy]
      BY <1>3, <1>4, <1>5
    <2> HIDE DEF N
    <2>2. policy' \in Seq(LinkPolicy)
      BY <1>4, <2>1, SeqDef
    <2>3. Len(policy') = N
      BY <1>4, <2>1, <2>2, LenProperties
    <2> QED BY <1>4, <2>1, <2>2, <2>3
  <1>12. \A n \in DOMAIN policy' : policy'[n] = l
    BY <1>3, <1>4, <1>11
  <1> HIDE DEF es
  <1>13. AllLinkedWell(graphCards', edges', policy')
    BY <1>3, <1>10, <1>11, <1>12 DEF AllLinkedWell
  <1> QED BY <1>1, <1>3, <1>9, <1>11, <1>13, GraphInvParts

\* The edges of every card are to the best older ones by the policy it was
\* linked with, however cards are ingested, edited, archived and linked again.
THEOREM GraphInvariant == GraphSpec => []GraphInv
  <1>1. ASSUME GraphInv, [GraphNext]_graphVars PROVE GraphInv'
    <2>1. ASSUME NEW card \in CardText, MaterializeLinked(card) PROVE GraphInv'
      BY <1>1, <2>1, MaterializesLinked
    <2>2. ASSUME NEW card \in CardText, CreateUnlinked(card) PROVE GraphInv'
      BY <1>1, <2>2, CreatesUnlinked
    <2>3. ASSUME NEW i \in DOMAIN graphCards, Archive(i) PROVE GraphInv'
      BY <1>1, <2>3, Archives
    <2>4. ASSUME NEW i \in DOMAIN graphCards, NEW card \in CardText, EditText(i, card) PROVE GraphInv'
      BY <1>1, <2>4, Edits
    <2>5. ASSUME NEW p \in RebuildPolicy, RebuildEdges(p) PROVE GraphInv'
      BY <1>1, <2>5, Rebuilds
    <2>6. CASE UNCHANGED graphVars
      BY <1>1, <2>6, GraphInvParts DEF graphVars
    <2> QED BY <1>1, <2>1, <2>2, <2>3, <2>4, <2>5, <2>6 DEF GraphNext
  <1> QED BY <1>1, GraphStarts, PTL DEF GraphSpec

\* A card is linked to the best older ones, the planners agree and connected
\* titles are next to a match, in every graph.
THEOREM BestCardsAreAlwaysLinked == GraphSpec => []BestCardsAreLinked
  <1>1. ASSUME GraphInv PROVE BestCardsAreLinked
    <2>1. GraphTypeOK /\ AdjacencyIsComplete /\ EdgesInv
      BY <1>1 DEF GraphInv, EdgesInv
    <2>2. LinkedToBest
      BY <1>1, LinkedToBestByCard DEF GraphInv
    <2> QED BY <2>1, <2>2, PlannersAlwaysAgree, ConnectedAreAlwaysNeighbors DEF BestCardsAreLinked
  <1> QED BY <1>1, GraphInvariant, PTL

\* Whatever pool the vector query returns, a search puts no card before one of
\* the pool that is better in both rankings, and the very title first.
THEOREM SearchesAlwaysFavourBetter == GraphSpec => []SearchFavoursBetter
  <1>1. ASSUME GraphInv PROVE SearchFavoursBetter
    BY <1>1, SearchAlwaysFavoursBetter DEF GraphInv, EdgesInv
  <1> QED BY <1>1, GraphInvariant, PTL
=============================================================================
