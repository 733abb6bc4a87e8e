---------------------------- MODULE PageSubmission ----------------------------
(***************************************************************************)
(* How pages of the corpus enter the source pipeline.  The pageviews       *)
(* script submits the pages of a candidate file and marks them processed;  *)
(* the science submission searches the corpus for pages that are not       *)
(* marked, and marks nothing.  The corpus and the pipeline are two         *)
(* databases, nothing makes the reference of a unit unique, and an         *)
(* operator may run the scripts at once or again.                          *)
(***************************************************************************)
EXTENDS Integers, Sequences, FiniteSets

CONSTANTS
    CorpusPage,
    SubmissionRun,      \* invocations of one of the scripts with --submit
    CandidateFiles,     \* files the selection may have written: sets of pages, named once
    QueryResults,       \* for each query batch: the pages that match, best first
    QueryLimit,         \* of each batch
    MaxSubmissionFaults \* bound: failed commands and crashes

ASSUME SubmissionConstants ==
    /\ CandidateFiles \subseteq SUBSET CorpusPage
    /\ \A b \in DOMAIN QueryResults : QueryResults[b] \in Seq(CorpusPage)
    /\ QueryLimit \in [DOMAIN QueryResults -> Nat \ {0}]
    /\ MaxSubmissionFaults \in Nat

VARIABLES
    markedPages,        \* wikipedia.processed_documents
    pageUnits,          \* how many workflow units each page has
    submission,         \* [at, kind, pages, marked, refs]: what each run is doing and has
                        \* read; pages: how often each page is on its list
    raced,              \* pages submitted between another run's look and its insert
    submissionFaults

submissionVars == <<markedPages, pageUnits, submission, raced, submissionFaults>>

Idle == [at |-> "new", kind |-> "none", pages |-> [p \in CorpusPage |-> 0], marked |-> {}, refs |-> {}]

SubmissionInit ==
    /\ markedPages = {}
    /\ pageUnits = [p \in CorpusPage |-> 0]
    /\ submission = [i \in SubmissionRun |-> Idle]
    /\ raced = {}
    /\ submissionFaults = 0

Ref == {p \in CorpusPage : pageUnits[p] > 0}

SubmissionFault == submissionFaults < MaxSubmissionFaults /\ submissionFaults' = submissionFaults + 1

Goes(i, at) == submission' = [submission EXCEPT ![i].at = at]

Listed(pages) == {p \in CorpusPage : pages[p] > 0}

\* Units of a transaction are committed; what other runs have read is old.
CreateUnits(i, pages) ==
    /\ pageUnits' = [p \in CorpusPage |-> pageUnits[p] + pages[p]]
    /\ raced' = raced \cup
           (IF \E j \in SubmissionRun \ {i} : submission[j].at = "insert" THEN Listed(pages) ELSE {})

-----------------------------------------------------------------------------
(* submit_pageview_candidates_to_source_pipeline.py *)

\* load_pageview_candidates; the documents of the candidates are there.
LoadCandidates(i) ==
    /\ submission[i].at = "new"
    /\ \E f \in CandidateFiles :
           submission' = [submission EXCEPT ![i] = [Idle EXCEPT
               !.at = "marks", !.kind = "pageviews", !.pages = [p \in CorpusPage |-> IF p \in f THEN 1 ELSE 0]]]
    /\ UNCHANGED <<markedPages, pageUnits, raced, submissionFaults>>

\* load_processed_page_ids_from_docker.
LoadProcessed(i) ==
    /\ submission[i].at = "marks"
    /\ submission' = [submission EXCEPT ![i].at = "refs", ![i].marked = markedPages]
    /\ UNCHANGED <<markedPages, pageUnits, raced, submissionFaults>>

\* load_existing_source_refs_from_docker.
LoadExistingRefs(i) ==
    /\ submission[i].at = "refs" /\ submission[i].kind = "pageviews"
    /\ submission' = [submission EXCEPT ![i].at = "insert", ![i].refs = Ref]
    /\ UNCHANGED <<markedPages, pageUnits, raced, submissionFaults>>

\* Mutant: a page without a marker is inserted whether or not it has a unit.
UnitsToInsertUnlessMarked(i) ==
    [p \in CorpusPage |-> IF p \in submission[i].marked THEN 0 ELSE submission[i].pages[p]]

\* plan_submission.
UnitsToInsert(i) ==
    [p \in CorpusPage |->
        IF p \in submission[i].marked \cup submission[i].refs THEN 0 ELSE submission[i].pages[p]]
PagesToMark(i) == Listed(submission[i].pages) \ submission[i].marked

\* insert_source_pipeline_run_from_docker.
InsertRun(i) ==
    /\ submission[i].at = "insert" /\ submission[i].kind = "pageviews"
    /\ CreateUnits(i, UnitsToInsert(i))
    /\ Goes(i, "mark")
    /\ UNCHANGED <<markedPages, submissionFaults>>

\* mark_processed_documents_from_docker.
MarkProcessed(i) ==
    /\ submission[i].at = "mark"
    /\ markedPages' = markedPages \cup PagesToMark(i)
    /\ submission' = [submission EXCEPT ![i] = [Idle EXCEPT !.at = "done"]]
    /\ UNCHANGED <<pageUnits, raced, submissionFaults>>

-----------------------------------------------------------------------------
(* submit_science_pages.py *)

\* search_documents with exclude_processed: the best that are not marked.
SearchDocuments(b) ==
    LET results == QueryResults[b]
        found == {k \in DOMAIN results : results[k] \notin markedPages}
    IN  {results[k] : k \in {m \in found : Cardinality({j \in found : j <= m}) <= QueryLimit[b]}}

\* build_science_page_selections lists what each batch finds, and
\* dedupe_page_selections lists each page once.
SelectSciencePages(i) ==
    LET times(p) == Cardinality({b \in DOMAIN QueryResults : p \in SearchDocuments(b)}) IN
    /\ submission[i].at = "new"
    /\ submission' = [submission EXCEPT ![i] = [Idle EXCEPT
           !.at = "refs", !.kind = "science",
           !.pages = [p \in CorpusPage |-> IF times(p) > 0 THEN 1 ELSE 0]]]
    /\ UNCHANGED <<markedPages, pageUnits, raced, submissionFaults>>

\* materialize_intake: if any page has a unit, none is submitted.
FetchExistingRefs(i) ==
    /\ submission[i].at = "refs" /\ submission[i].kind = "science"
    /\ IF Listed(submission[i].pages) \cap Ref = {}
       THEN Goes(i, "insert")
       ELSE submission' = [submission EXCEPT ![i] = [Idle EXCEPT !.at = "refused"]]
    /\ UNCHANGED <<markedPages, pageUnits, raced, submissionFaults>>

\* PipelineIntakeService.create_run.
CreateRun(i) ==
    /\ submission[i].at = "insert" /\ submission[i].kind = "science"
    /\ CreateUnits(i, submission[i].pages)
    /\ submission' = [submission EXCEPT ![i] = [Idle EXCEPT !.at = "done"]]
    /\ UNCHANGED <<markedPages, submissionFaults>>

-----------------------------------------------------------------------------

\* A script stops between two statements, or a command fails: psql may have
\* been cut off after its COMMIT, as run_psql_script only sees the exit code.
Stops(i) ==
    /\ submission[i].at \in {"marks", "refs", "insert", "mark"}
    /\ SubmissionFault
    /\ submission' = [submission EXCEPT ![i] = [Idle EXCEPT !.at = "failed"]]
    /\ \/ UNCHANGED <<markedPages, pageUnits, raced>>
       \/ /\ submission[i].at = "insert"
          /\ CreateUnits(i, IF submission[i].kind = "science" THEN submission[i].pages ELSE UnitsToInsert(i))
          /\ UNCHANGED markedPages
       \/ /\ submission[i].at = "mark"
          /\ markedPages' = markedPages \cup PagesToMark(i)
          /\ UNCHANGED <<pageUnits, raced>>

SubmissionNext ==
    \E i \in SubmissionRun :
        \/ LoadCandidates(i) \/ LoadProcessed(i) \/ LoadExistingRefs(i)
        \/ InsertRun(i) \/ MarkProcessed(i)
        \/ SelectSciencePages(i) \/ FetchExistingRefs(i) \/ CreateRun(i)
        \/ Stops(i)

SubmissionSpec == SubmissionInit /\ [][SubmissionNext]_submissionVars

\* Wherever a script stops, and whichever is run next: a page that is marked
\* as processed is in the pipeline, and a page is there twice only if it was
\* submitted between the look and the insert of another run.
PagesEnterOnce ==
    \A p \in CorpusPage :
        /\ p \in markedPages => pageUnits[p] > 0
        /\ p \notin raced => pageUnits[p] <= 1
=============================================================================
