-------------------------- MODULE DashboardKnowledge -------------------------
(* KnowledgeView.vue: the selected collection, its documents, imports, a trial *)
(* search, and the two retrieval models.  Handlers read `selected` when they   *)
(* ask; what they show when the answer comes does not look at it again.        *)
EXTENDS DashboardPage

CONSTANT Yousa  \* the collection selected before any is known; bootstrap.py creates it

ASSUME YousaAssumption == Yousa \in Collections

Kinds == {"embedding", "reranker"}

(* A document is its collection; search results are known by their collection. *)
KnowledgeCollections == SUBSET Collections
KnowledgeDocuments == [Rows -> Collections \union {None}]
KnowledgeSearchResults == Collections \union {None}
KnowledgeModelConfig == [Kinds -> BOOLEAN]

KnowledgeSetup ==
    [collections |-> {}, documents |-> [d \in Rows |-> None], selected |-> Yousa,
     results |-> None, loading |-> FALSE, uploading |-> FALSE, modelConfig |-> None,
     modelTesting |-> "none", picked |-> None]

KnowledgeRefs ==
    [collections : KnowledgeCollections, documents : KnowledgeDocuments,
     selected : Collections, results : KnowledgeSearchResults,
     loading : BOOLEAN, uploading : BOOLEAN, modelConfig : KnowledgeModelConfig \union {None},
     modelTesting : Kinds \union {"none"}, picked : Values \union {None}]

(* The endpoints.  Deleting a document does not look at the collection. *)
KnowledgeRequests == {"knowledgeBases", "knowledgeDocuments", "uploadKnowledgeDocument",
                      "importKnowledgeUrl", "deleteKnowledgeDocument", "rebuildKnowledge",
                      "searchKnowledge", "knowledgeModels", "testKnowledgeModel",
                      "importKnowledgeModel"}

DocumentsOf(c) == [d \in Rows |-> IF server.documents[d] = c THEN c ELSE None]

KnowledgeReply(job, a) ==
    LET unused == {d \in Rows : server.documents[d] = None}
        done(ok, tables, value) == [ok |-> ok, server |-> tables, value |-> value]
        read(value) == done(TRUE, server, value)
    IN  CASE a = "knowledgeBases" -> read(server.collections)
          [] a = "knowledgeDocuments" -> read(DocumentsOf(job.id))
          [] a \in {"uploadKnowledgeDocument", "importKnowledgeUrl"} ->
                IF unused = {} THEN done(FALSE, server, None)
                ELSE done(TRUE, [server EXCEPT !.documents[CHOOSE d \in unused : TRUE] = job.id], None)
          [] a = "deleteKnowledgeDocument" ->
                done(TRUE, [server EXCEPT !.documents[job.form] = None], None)
          [] a = "searchKnowledge" ->
                read(IF \E d \in Rows : server.documents[d] = job.id THEN job.id ELSE None)
          [] a = "knowledgeModels" -> read(server.retrieval)
          [] a = "importKnowledgeModel" ->
                done(TRUE, [server EXCEPT !.retrieval[job.form] = TRUE], None)
          [] a \in {"rebuildKnowledge", "testKnowledgeModel"} -> read(None)

KnowledgeOnMounted == [op |-> "collections", asks |-> {"knowledgeBases"}]

(* loadDocuments(): the results go at once, and nothing says that it loads. *)
DocumentsAreLoading(r) == [r EXCEPT !.results = None]
NoSearch == \A n \in Running : jobs[n].op # "search"

(* What the handler of a page that has been left goes on to read shows nothing, *)
(* and is left out.                                                            *)
LoadDocuments(n, c) ==
    IF jobs[n].visit = visit
    THEN /\ jobs' = [jobs EXCEPT ![n].id = c, ![n].asks = Asked({"knowledgeDocuments"})]
         /\ sure' = (NoSearch /\ Reading({"knowledgeDocuments"}) \subseteq {n})
    ELSE /\ End(n)
         /\ UNCHANGED sure

(* The select assigns `selected` before it calls loadDocuments. *)
SelectCollection(c) ==
    /\ c \in refs.collections /\ c # refs.selected
    /\ refs' = DocumentsAreLoading([refs EXCEPT !.selected = c])
    /\ Begin("documents", c, None, {"knowledgeDocuments"})
    /\ sure' = (NoSearch /\ Reading({"knowledgeDocuments"}) = {})

(* The browser reports a change only when another file is picked; the field is  *)
(* never emptied.                                                               *)
UploadDocument(file) ==
    /\ ~refs.uploading /\ file # refs.picked
    /\ refs' = [refs EXCEPT !.picked = file, !.uploading = TRUE]
    /\ Begin("upload", refs.selected, None, {"uploadKnowledgeDocument"})
    /\ UNCHANGED sure

(* Enter in the field works while the button shows its spinner. *)
ImportUrl ==
    /\ refs' = [refs EXCEPT !.uploading = TRUE]
    /\ Begin("importUrl", refs.selected, None, {"importKnowledgeUrl"})
    /\ UNCHANGED sure

SearchKnowledge ==
    /\ refs' = [refs EXCEPT !.loading = TRUE]
    /\ Begin("search", refs.selected, None, {"searchKnowledge"})
    /\ UNCHANGED sure

(* 删除 of a row that is listed. *)
RemoveDocument(d) ==
    /\ refs.documents[d] # None
    /\ Begin("removeDocument", refs.selected, d, {"deleteKnowledgeDocument"})
    /\ UNCHANGED <<refs, sure>>

RebuildIndex ==
    /\ Begin("rebuild", refs.selected, None, {"rebuildKnowledge"})
    /\ UNCHANGED <<refs, sure>>

(* testModel and saveModel ask nothing when a field of their form is empty. *)
TestKnowledgeModel(kind) ==
    /\ refs.modelTesting # kind
    /\ refs' = [refs EXCEPT !.modelTesting = kind]
    /\ Begin("testModel", None, kind, {"testKnowledgeModel"})
    /\ UNCHANGED sure

SaveKnowledgeModel(kind) ==
    /\ Begin("saveModel", None, kind, {"importKnowledgeModel"})
    /\ UNCHANGED <<refs, sure>>

KnowledgeAsk ==
    \/ \E c \in Collections : SelectCollection(c)
    \/ \E file \in Values : UploadDocument(file)
    \/ ImportUrl \/ SearchKnowledge \/ RebuildIndex
    \/ \E d \in Rows : RemoveDocument(d)
    \/ \E kind \in Kinds : TestKnowledgeModel(kind) \/ SaveKnowledgeModel(kind)

(* loadCollections(): the collections, then the documents, then the models. *)
CollectionsLoaded(n) ==
    LET known == Value(n, "knowledgeBases")
        chosen == IF refs.selected \in known \/ known = {} THEN refs.selected
                  ELSE CHOOSE c \in known : TRUE
    IN  /\ AsksFor(n, {"knowledgeBases"}) /\ AllAnswered(n)
        /\ Show(n, DocumentsAreLoading([refs EXCEPT !.collections = known, !.selected = chosen]))
        /\ LoadDocuments(n, chosen)

DocumentsLoaded(n) ==
    LET op == jobs[n].op
        shown == [refs EXCEPT !.documents = Value(n, "knowledgeDocuments"),
                              !.uploading = IF op \in {"upload", "importUrl"} THEN FALSE ELSE @]
    IN  /\ AsksFor(n, {"knowledgeDocuments"}) /\ AllAnswered(n)
        /\ Show(n, shown)
        /\ IF op = "collections" THEN Continue(n, {"knowledgeModels"}) ELSE End(n)
        /\ UNCHANGED sure

ModelConfigLoaded(n) ==
    /\ AsksFor(n, {"knowledgeModels"}) /\ AllAnswered(n)
    /\ Show(n, [refs EXCEPT !.modelConfig = Value(n, "knowledgeModels")])
    /\ End(n)
    /\ UNCHANGED sure

Changing == {"uploadKnowledgeDocument", "importKnowledgeUrl", "deleteKnowledgeDocument"}

(* After the await of a change: loadDocuments() of what is selected by now. *)
DocumentsChanged(n) ==
    /\ \E a \in Changing : AsksFor(n, {a})
    /\ AllAnswered(n)
    /\ Show(n, DocumentsAreLoading(refs))
    /\ LoadDocuments(n, refs.selected)

Searched(n) ==
    /\ AsksFor(n, {"searchKnowledge"}) /\ AllAnswered(n)
    /\ Show(n, [refs EXCEPT !.results = Value(n, "searchKnowledge"), !.loading = FALSE])
    /\ End(n)
    /\ UNCHANGED sure

IndexRebuilt(n) ==
    /\ AsksFor(n, {"rebuildKnowledge"}) /\ AllAnswered(n)
    /\ End(n)
    /\ UNCHANGED <<refs, sure>>

KnowledgeModelTested(n) ==
    /\ AsksFor(n, {"testKnowledgeModel"}) /\ HasCome(n, "testKnowledgeModel")
    /\ Show(n, [refs EXCEPT !.modelTesting = "none"])
    /\ End(n)
    /\ UNCHANGED sure

KnowledgeModelSaved(n) ==
    /\ AsksFor(n, {"importKnowledgeModel"}) /\ AllAnswered(n)
    /\ Continue(n, {"knowledgeModels"})
    /\ UNCHANGED <<refs, sure>>

(* A failure ends the handler; deleting and rebuilding do not say so. *)
KnowledgeFailed(n) ==
    LET op == jobs[n].op IN
    /\ ~AsksFor(n, {"testKnowledgeModel"}) /\ SomeFailed(n)
    /\ Show(n, [refs EXCEPT !.uploading = IF op \in {"upload", "importUrl"} THEN FALSE ELSE @,
                            !.loading = IF op = "search" THEN FALSE ELSE @])
    /\ End(n)
    /\ UNCHANGED sure

KnowledgeOps == {"collections", "documents", "upload", "importUrl", "search", "removeDocument", "rebuild",
                 "testModel", "saveModel"}

KnowledgeResume(n) ==
    /\ jobs[n].op \in KnowledgeOps
    /\ \/ CollectionsLoaded(n) \/ DocumentsLoaded(n) \/ ModelConfigLoaded(n) \/ DocumentsChanged(n)
       \/ Searched(n) \/ IndexRebuilt(n) \/ KnowledgeModelTested(n) \/ KnowledgeModelSaved(n)
       \/ KnowledgeFailed(n)

(* The documents listed, and the search results, are of the selected collection. *)
DocumentList == refs.documents
ResultList == IF refs.loading THEN None ELSE refs.results
DocumentsShown ==
    /\ DocumentList = DocumentsOf(refs.selected)
    /\ ResultList \in {None, refs.selected}

KnowledgeBusy ==
    LET mine(op, form) == \E n \in Running : /\ jobs[n].visit = visit
                                            /\ jobs[n].op = op /\ form \in {None, jobs[n].form}
    IN  /\ refs.loading => mine("search", None)
        /\ refs.uploading => mine("upload", None) \/ mine("importUrl", None)
        /\ refs.modelTesting # "none" => mine("testModel", refs.modelTesting)
==============================================================================
