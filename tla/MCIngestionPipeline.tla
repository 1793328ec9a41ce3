------------------------ MODULE MCIngestionPipeline ------------------------
(***************************************************************************)
(* IngestionPipeline for model checking.                                   *)
(***************************************************************************)
EXTENDS IngestionPipeline

\* A document with one content whose processing failed, or which is indexed, and
\* whose rebuild has been requested.
MCRebuild ==
    \E v \in Versions, indexed \in BOOLEAN :
        /\ document = [deleted |-> FALSE, current |-> v]
        /\ version = [u \in Versions |->
              [status |-> IF u # v THEN "absent"
                          ELSE IF indexed THEN "indexed" ELSE "failed",
               error |-> IF u = v /\ ~indexed THEN "other" ELSE "none",
               sections |-> u = v /\ indexed, chunks |-> u = v /\ indexed]]
        /\ points = IF indexed THEN {v} ELSE {}
        /\ job = [k \in Jobs |-> IF k = <<"reindex", v>> THEN Pending(v) ELSE NewJob]
        /\ worker = Down
        /\ session = [h \in Handlers |-> Idle]
        /\ requests = MaxRequests - 1
        /\ crashes = 0
        /\ stranded = {}

MCSpec == (Init \/ MCRebuild) /\ [][Next]_vars /\ Fairness

=============================================================================
