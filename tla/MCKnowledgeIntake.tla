-------------------------- MODULE MCKnowledgeIntake --------------------------
(* Finite instances of the modules about what enters the corpus, the       *)
(* pipeline and the graph, and is found there again.  They share no state, *)
(* so a behaviour is one of one of them: "part" says which.                *)
EXTENDS MCKnowledgeIngestion, WikipediaImport, PageviewSelection, PageSubmission, MCCardGraph

VARIABLE part

\* Page 1 is twice in one shard and page 2 in both; three records are a
\* full batch and one that is not.
Shards ==
    << <<[page |-> 1, text |-> "a"], [page |-> 2, text |-> "a"], [page |-> 1, text |-> "b"]>>,
       <<[page |-> 2, text |-> "b"], [page |-> 3, text |-> "a"]>> >>

\* Title 2 redirects to title 1; the page of title 4 is rejected by its lead.
Redirects == [t \in ArticleTitle |-> IF t = 2 THEN 1 ELSE t]
Articles == [t \in {1, 3, 4, 5} |-> [page |-> t + 10, length |-> 5]]

Files == {{1, 2}, {2, 3}}
Found == << <<2, 1>>, <<3, 2>> >>
Limits == <<1, 2>>

FirstCard == CHOOSE card \in Card : TRUE

PartInit ==
    /\ part \in {"ingestion", "import", "selection", "submission", "search"}
    /\ Init /\ ImportInit /\ SelectionInit /\ SubmissionInit /\ GraphInit
    /\ part # "ingestion" => \A c \in Call : asked[c] = [key |-> NoKey, card |-> FirstCard]

PartNext ==
    /\ UNCHANGED part
    /\ \/ part = "ingestion" /\ Next /\ UNCHANGED <<importVars, selectionVars, submissionVars, graphVars>>
       \/ part = "import" /\ ImportNext /\ UNCHANGED <<vars, selectionVars, submissionVars, graphVars>>
       \/ part = "selection" /\ SelectionNext /\ UNCHANGED <<vars, importVars, submissionVars, graphVars>>
       \/ part = "submission" /\ SubmissionNext /\ UNCHANGED <<vars, importVars, selectionVars, graphVars>>
       \/ part = "search" /\ GraphNext
          /\ UNCHANGED <<vars, importVars, selectionVars, submissionVars>>

allVars == <<part, vars, importVars, selectionVars, submissionVars, graphVars>>

PartSpec == PartInit /\ [][PartNext]_allVars /\ IngestionFairness
=============================================================================
