--------------------------- MODULE KnowledgeSearch ---------------------------
(***************************************************************************)
(* A search of the documents (app/services/knowledge_service.py) while the *)
(* ingestion pipeline changes them.                                        *)
(*                                                                         *)
(* The vector store is asked first, and every hit is then checked against  *)
(* the document, the version and the chunk in PostgreSQL, read one after   *)
(* the other, while points and rows change.  The session keeps a row as    *)
(* long as the loop holds it, so the hits of one version share a copy or   *)
(* read it again: they are checked as one, at any time.                    *)
(*                                                                         *)
(* The document of the pipeline is the only one the query matches, so the  *)
(* limit of hits and the order of scores do not show.  The filters of a    *)
(* request by connector, source and document only leave out more.          *)
(***************************************************************************)
EXTENDS IngestionPipeline

VARIABLES
    search,     \* the search and its copies
    during,     \* auxiliary: what was so since the search began
    wiped       \* auxiliary: a job removed points that were to stay

searchVars == <<search, during, wiped>>

\* hit: the one being checked, with the copies of its rows.
Searches == [step : {"idle", "embedding", "retrieved", "document", "version", "answered"},
             hits : SUBSET Versions, hit : Versions \cup {None},
             document : Document, status : Statuses, results : SUBSET Versions]

NoSearch == [step |-> "idle", hits |-> {}, hit |-> None,
             document |-> [deleted |-> FALSE, current |-> None],
             status |-> "absent", results |-> {}]

SearchInit ==
    /\ Init
    /\ search = NoSearch
    /\ during = [active |-> {}, indexed |-> {}, steady |-> {}]
    /\ wiped = FALSE

-----------------------------------------------------------------------------
(***************************************************************************)
(* What the document pages say of a version.                               *)
(***************************************************************************)

IndexedVersions == {v \in Versions : version[v].status = "indexed"}

ActiveVersions == {v \in Versions : document.current = v /\ ~document.deleted}

\* _pipeline_state and _document_view: searchable; the vector store has points
\* of the tenant's other documents.
Searchable == {v \in ActiveVersions \cap IndexedVersions : version[v].chunks}

\* Searchable versions that no job is working on.
Steady == {v \in Searchable : ~Busy(v)}

-----------------------------------------------------------------------------
(***************************************************************************)
(* The search.                                                             *)
(***************************************************************************)

Unwatched == UNCHANGED <<during, wiped>>

\* The query goes to the embedding provider.
Ask ==
    /\ search.step = "idle"
    /\ search' = [NoSearch EXCEPT !.step = "embedding"]
    /\ during' = [active |-> ActiveVersions, indexed |-> IndexedVersions, steady |-> Steady]
    /\ UNCHANGED <<vars, wiped>>

\* vectors.search; the lifecycle in the payload is that of an active document
\* for every point there is.
Retrieve ==
    /\ search.step = "embedding"
    /\ search' = [search EXCEPT !.step = "retrieved", !.hits = points]
    /\ UNCHANGED vars /\ Unwatched

ReadDocument(v) ==
    /\ search.step = "retrieved" /\ v \in search.hits
    /\ search' = [search EXCEPT !.step = "document", !.hit = v, !.document = document]
    /\ UNCHANGED vars /\ Unwatched

ReadVersion ==
    /\ search.step = "document"
    /\ search' = [search EXCEPT !.step = "version", !.status = version[search.hit].status]
    /\ UNCHANGED vars /\ Unwatched

\* Mutant: deletion is left to the vector store.
AdmittedDeleted ==
    /\ search.document.current = search.hit
    /\ search.status = "indexed"

\* The conditions on the rows of a hit.
Admitted ==
    /\ ~search.document.deleted
    /\ search.document.current = search.hit
    /\ search.status = "indexed"

\* The chunk is read; the hit becomes a result or is left out.
ReadChunk ==
    /\ search.step = "version"
    /\ search' = [search EXCEPT
          !.step = "retrieved", !.hits = @ \ {search.hit}, !.hit = None,
          !.document = NoSearch.document, !.status = "absent",
          !.results = IF Admitted /\ version[search.hit].chunks
                      THEN @ \cup {search.hit} ELSE @]
    /\ UNCHANGED vars /\ Unwatched

Answer ==
    /\ search.step = "retrieved" /\ search.hits = {}
    /\ search' = [search EXCEPT !.step = "answered"]
    /\ UNCHANGED vars /\ Unwatched

\* The answer has been sent, or the provider, the vector store or the database
\* failed.
End ==
    /\ search.step # "idle"
    /\ search' = NoSearch
    /\ during' = [active |-> {}, indexed |-> {}, steady |-> {}]
    /\ UNCHANGED <<vars, wiped>>

\* A reindex of a superseded version removes the points of the document
\* (line 413), those of the current version with them; and a second embedding
\* of an indexed version, which found the document deleted, removes its points
\* (line 310) although an upload has restored the document since.
Wiping ==
    \/ RebuildClear /\ points \ {Subject} # {}
    \/ EmbedExclude /\ document.current = Subject /\ Subject \in IndexedVersions

\* A step of the pipeline, and what it ends or makes so.
Pipeline ==
    /\ Next
    /\ during' = IF search.step \in {"idle", "answered"} THEN during
                 ELSE [active |-> during.active \cup ActiveVersions',
                       indexed |-> during.indexed \cup IndexedVersions',
                       steady |-> during.steady \cap Steady']
    /\ wiped' = (wiped \/ Wiping)
    /\ UNCHANGED search

SearchNext ==
    \/ Ask \/ Retrieve
    \/ \E v \in Versions : ReadDocument(v)
    \/ ReadVersion \/ ReadChunk \/ Answer \/ End
    \/ Pipeline

SearchSpec == SearchInit /\ [][SearchNext]_<<vars, searchVars>>

-----------------------------------------------------------------------------
(***************************************************************************)
(* Properties.                                                             *)
(***************************************************************************)

\* Type invariant.
SearchTypeOK ==
    /\ search \in Searches
    /\ during \in [active : SUBSET Versions, indexed : SUBSET Versions,
                   steady : SUBSET Versions]
    /\ wiped \in BOOLEAN

\* Whatever points the store still holds, and although the rows are read one
\* by one, a result was the current version of a document that was not deleted,
\* and was indexed, at some moments of the search.
ResultsWereServed == search.results \subseteq during.active \cap during.indexed

\* A version the document pages call searchable all the while, with no job at
\* work on it, is found, whatever failed and died before: the two stores agree
\* on it.  Nothing is said once a job has removed points that were to stay:
\* no row tells of that.
SearchableIsFound ==
    search.step = "answered" /\ ~wiped => during.steady \subseteq search.results

=============================================================================
