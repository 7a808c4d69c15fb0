----------------------------- MODULE PublishDag -----------------------------
(***************************************************************************)
(* The DAG of app/generated/manifest.json: each of its runs extracts, and  *)
(* if that succeeds publishes what was delivered to the catalogue of       *)
(* assets. Several workflows run it again and again, on connections of     *)
(* their own (CREATE) or on one they share with other sources (REUSE),     *)
(* while the specs they load change, and runs fail before or amid their    *)
(* publish.                                                                *)
(*                                                                         *)
(* The extract node is what SpecRun promises (LoadPromise): a failure, or  *)
(* one transformed file per spec file. The publish app is a service of the *)
(* platform, modelled from what README.md and app/contracts.py say of its  *)
(* two modes; the engine runs one DAG of a workflow at a time.             *)
(***************************************************************************)
EXTENDS SpecRecords, RunInput

CONSTANTS Workflows,
          InputOf,     \* InputOf[w]: its OpenAPIConnectorInput
          Reads,       \* Reads[w]: what a run may read, as the sequence of the
                       \* spec files, each the sequence of its documents
          Foreign,     \* assets of other sources: [key, conn]
          MaxRuns      \* bound on the runs of each workflow

ASSUME DagBounds == MaxRuns \in Nat

VARIABLES dag,        \* dag[w]: the node its run is at, and what that produced
          store,      \* store[prefix][leaf]: the objects delivered
          catalogue,  \* catalogue[key]: [conn, status, run], ever published
          last        \* history: the files of w's last run, if it was published

vars == <<dag, store, catalogue, last>>

----------------------------------------------------------------------------
(* The extract node *)

\* The files a run transforms, one for each spec file it read.
Delivery(in, files) ==
    LET conn == ResolvedConnection(in)
    IN  [i \in DOMAIN files |-> Transformed(conn.emit /\ i = 1,
                                            Records(conn.qn, files[i]))]

\* Mutant: the runs of a workflow share a prefix.
Prefix_PerWorkflow(w, n) == <<w>>

\* artifacts/apps/<app>/workflows/<workflow_id>/<run_id>/transformed
Prefix(w, n) == <<w, n>>

\* Mutant: the upload ends after the first file.
Uploaded_FirstFile(prefix, delivery) == [l \in {Leaf(0)} |-> delivery[1]]

\* upload_refs adds objects; what is under the prefix already stays.
Uploaded(prefix, delivery) ==
    LET old == IF prefix \in DOMAIN store THEN store[prefix] ELSE <<>>
        new == {Leaf(i - 1) : i \in DOMAIN delivery}
    IN  [l \in DOMAIN old \cup new |->
            IF l \in new
            THEN delivery[CHOOSE i \in DOMAIN delivery : Leaf(i - 1) = l]
            ELSE old[l]]

\* What the publish node's arguments read of OpenAPIConnectorOutput, but for
\* publish_state_prefix and current_state_prefix, which PublishInputMixin
\* derives from the connection alone. That what the publish app compares a
\* delivery with is the live catalogue is an assumption about that app.
Output(in, prefix) ==
    [connection_qualified_name |-> ResolvedConnection(in).qn,
     transformed_data_prefix   |-> prefix,
     assertion_only_enabled    |-> ResolvedConnection(in).assertion]

Idle(n) == [node |-> "idle", run |-> n, read |-> <<>>, args |-> None, todo |-> {}]

Trigger(w) ==
    /\ dag[w].node = "idle" /\ dag[w].run < MaxRuns
    /\ dag' = [dag EXCEPT ![w] = [Idle(@.run + 1) EXCEPT !.node = "extract"]]
    /\ UNCHANGED <<store, catalogue, last>>

ExtractSucceeds(w) ==
    /\ dag[w].node = "extract"
    /\ \E files \in Reads[w] :
          LET prefix  == Prefix(w, dag[w].run)
              objects == Uploaded(prefix, Delivery(InputOf[w], files))
          IN  /\ \A i \in DOMAIN files : UsableDocs(files[i]) # {}
              /\ store' = [p \in DOMAIN store \cup {prefix} |->
                              IF p = prefix THEN objects ELSE store[p]]
              /\ dag' = [dag EXCEPT ![w].node = "publish", ![w].read = files,
                                    ![w].args = Output(InputOf[w], prefix),
                                    ![w].todo = DOMAIN objects]
    /\ UNCHANGED <<catalogue, last>>

\* depends_on success: the publish node does not run.
ExtractFails(w) ==
    /\ dag[w].node = "extract"
    /\ dag' = [dag EXCEPT ![w] = Idle(@.run)]
    /\ UNCHANGED <<store, catalogue, last>>

----------------------------------------------------------------------------
(* Assets *)

\* Mutant: the rows do not say that their asset is active.
Stamp_NoStatus(conn, run) == [conn |-> conn, status |-> None, run |-> run]

\* apply_sync_metadata
Stamp(conn, run) == [conn |-> conn, status |-> "ACTIVE", run |-> run]

ConnectionKey(conn) == <<"Connection", conn>>

\* The keys of the assets that the rows of an object describe. Rows of the
\* same qualified name describe one asset.
Rows(object) == {<<"APISpec", s.qn>> : s \in object.specs}
                  \cup {<<"APIPath", p.qn>> : p \in object.paths}

(***************************************************************************)
(* map_connection, map_api_spec and map_api_path: the assets of an object, *)
(* as a function from their keys. The Connection has no sync metadata.     *)
(***************************************************************************)
Assets(object, conn, run) ==
    [k \in Rows(object) \cup (IF object.connection THEN {ConnectionKey(conn)} ELSE {}) |->
        Stamp(conn, IF k = ConnectionKey(conn) THEN None ELSE run)]

Upserted(assets) ==
    [k \in DOMAIN assets \cup DOMAIN catalogue |->
        IF k \in DOMAIN assets THEN assets[k] ELSE catalogue[k]]

----------------------------------------------------------------------------
(* The publish node *)

\* Mutant: only output_file is published, the last of the files.
Published_LastFile(args) ==
    LET objects == store[args.transformed_data_prefix]
    IN  {Leaf(Cardinality(DOMAIN objects) - 1)}

\* Every object under the prefix.
Published(args) == DOMAIN store[args.transformed_data_prefix]

\* connection_creation_enabled, with the connection of the workflow.
CreateConnection(w) ==
    LET conn == dag[w].args.connection_qualified_name
    IN  /\ dag[w].node = "publish"
        /\ ConnectionKey(conn) \notin DOMAIN catalogue
        /\ catalogue' = Upserted([k \in {ConnectionKey(conn)} |-> Stamp(conn, None)])
        /\ UNCHANGED <<dag, store, last>>

Upsert(w, l) ==
    LET args   == dag[w].args
        conn   == args.connection_qualified_name
        object == store[args.transformed_data_prefix][l]
    IN  /\ dag[w].node = "publish"
        /\ ConnectionKey(conn) \in DOMAIN catalogue
        /\ l \in dag[w].todo \cap Published(args)
        /\ catalogue' = Upserted(Assets(object, conn, Prefix(w, dag[w].run)))
        /\ dag' = [dag EXCEPT ![w].todo = @ \ {l}]
        /\ last' = [last EXCEPT ![w] = None]
        /\ UNCHANGED store

\* The full diff of a connection against the objects of a prefix.
Diffed(args) ==
    LET objects   == store[args.transformed_data_prefix]
        conn      == args.connection_qualified_name
        delivered == UNION {DOMAIN Assets(objects[l], conn, None) : l \in Published(args)}
    IN  [k \in DOMAIN catalogue |->
            IF catalogue[k].conn = conn /\ k \notin delivered
            THEN [catalogue[k] EXCEPT !.status = "ARCHIVED"] ELSE catalogue[k]]

\* In assertion-only mode there is no diff and nothing is archived.
Archive(w) ==
    /\ dag[w].node = "publish"
    /\ dag[w].todo \cap Published(dag[w].args) = {}
    /\ catalogue' = IF dag[w].args.assertion_only_enabled THEN catalogue
                    ELSE Diffed(dag[w].args)
    /\ dag' = [dag EXCEPT ![w] = Idle(@.run)]
    /\ last' = [last EXCEPT ![w] = dag[w].read]
    /\ UNCHANGED store

PublishFails(w) ==
    /\ dag[w].node = "publish"
    /\ dag' = [dag EXCEPT ![w] = Idle(@.run)]
    /\ UNCHANGED <<store, catalogue, last>>

----------------------------------------------------------------------------
Creates(w) == InputOf[w].connection_usage # "REUSE"

ConnectionOf(w) == ResolvedQN(InputOf[w])

Shared == {f.conn : f \in Foreign}

\* A run reads at least a file; a connection that a workflow creates is not
\* one that others have; and the Connection asset is that of its connection.
ASSUME DagInputs ==
    /\ \A w \in Workflows :
          /\ \A files \in Reads[w] : /\ Len(files) \in Nat \ {0}
                                     /\ DOMAIN files = 1..Len(files)
          /\ Creates(w) => ConnectionOf(w) \notin Shared
    /\ \A f \in Foreign :
          /\ f.key[1] \in {"Connection", "APISpec", "APIPath"}
          /\ f.key[1] = "Connection" => f.key = ConnectionKey(f.conn)

\* Qualified names are default/api/<id>, all of the same number of segments,
\* and a connection that a workflow creates is its own.
ASSUME DagNames ==
    /\ \A w \in Workflows :
          /\ ConnectionOf(w) \in Seq(STRING)
          /\ \A v \in Workflows \ {w} :
                /\ Len(ConnectionOf(v)) = Len(ConnectionOf(w))
                /\ Creates(w) => ConnectionOf(v) # ConnectionOf(w)
          /\ \A files \in Reads[w] : \A i \in DOMAIN files : \A d \in DOMAIN files[i] :
                /\ files[i][d].title \in Seq(STRING)
                /\ DOMAIN files[i][d].paths \cup DOMAIN files[i][d].webhooks
                      \subseteq Seq(STRING)

Init ==
    /\ dag = [w \in Workflows |-> Idle(0)]
    /\ store = <<>>
    /\ catalogue = [k \in {f.key : f \in Foreign} |->
                      Stamp((CHOOSE f \in Foreign : f.key = k).conn, "foreign")]
    /\ last = [w \in Workflows |-> None]

Next == \E w \in Workflows :
           \/ Trigger(w) \/ ExtractSucceeds(w) \/ ExtractFails(w)
           \/ CreateConnection(w) \/ \E l \in dag[w].todo : Upsert(w, l)
           \/ Archive(w) \/ PublishFails(w)

Spec == Init /\ [][Next]_vars

----------------------------------------------------------------------------
(* Properties *)

TypeOK ==
    /\ \A w \in Workflows :
          /\ dag[w].node \in {"idle", "extract", "publish"}
          /\ dag[w].run \in 0..MaxRuns
          /\ dag[w].node = "publish" => /\ dag[w].read \in Reads[w]
                                        /\ dag[w].args.assertion_only_enabled \in BOOLEAN
          /\ last[w] \in Reads[w] \cup {None}
    /\ \A k \in DOMAIN catalogue :
          /\ k[1] \in {"Connection", "APISpec", "APIPath"}
          /\ catalogue[k].status \in {"ACTIVE", "ARCHIVED"}

Active(conn) == {k \in DOMAIN catalogue :
                    catalogue[k].conn = conn /\ catalogue[k].status = "ACTIVE"}

\* The assets the usable documents of some files describe.
Described(conn, files) ==
    UNION {Rows(Records(conn, files[i])) : i \in DOMAIN files}

(***************************************************************************)
(* README.md, CREATE: what a connection of its own shows is the last spec  *)
(* that was published, no more and no less, whatever earlier runs          *)
(* delivered, failed to publish, or left half published.                   *)
(***************************************************************************)
LastRunIsCatalogued ==
    \A w \in Workflows :
       Creates(w) /\ dag[w].node # "publish" /\ last[w] # None
       => LET assets == Active(ConnectionOf(w)) \ {ConnectionKey(ConnectionOf(w))}
          IN  assets = Described(ConnectionOf(w), last[w])

(***************************************************************************)
(* contracts.py: the Connection is emitted on CREATE so that the diff does *)
(* not archive it. A connection that was created stays active, between any *)
(* two steps of any publish of it.                                         *)
(***************************************************************************)
ConnectionSurvives ==
    \A k \in DOMAIN catalogue :
       k[1] = "Connection" => catalogue[k].status = "ACTIVE"

(***************************************************************************)
(* CONNECT-55: a connection shared with other sources only gains. No run   *)
(* archives an asset of it, whoever published it, re-syncs an asset its    *)
(* spec does not describe, or modifies the Connection.                     *)
(***************************************************************************)
SharedAssetsSurvive ==
    [][\A k \in DOMAIN catalogue :
          catalogue[k].conn \in Shared =>
             \/ catalogue'[k] = catalogue[k]
             \/ /\ catalogue'[k].status = "ACTIVE"
                /\ \E w \in Workflows :
                      dag[w].node = "publish"
                      /\ k \in Described(ConnectionOf(w), dag[w].read)]_vars

(***************************************************************************)
(* What a run archives is gone: no usable document of any of the files it  *)
(* read describes it.                                                      *)
(***************************************************************************)
ArchivedMeansGone ==
    [][\A k \in DOMAIN catalogue :
          catalogue[k].status = "ACTIVE" /\ catalogue'[k].status = "ARCHIVED"
          => \E w \in Workflows :
                /\ dag[w].node = "publish" /\ Creates(w)
                /\ catalogue[k].conn = ConnectionOf(w)
                /\ k \notin Described(ConnectionOf(w), dag[w].read)]_vars
----------------------------------------------------------------------------
(* The extractions implement LoadPromise, each on its own. *)

\* How the n-th extraction of w stands, told by what is there of it.
Outcome(w, n) ==
    IF Prefix(w, n) \in DOMAIN store THEN "done"
    ELSE IF dag[w].run < n \/ (dag[w].run = n /\ dag[w].node = "extract")
    THEN "running" ELSE "failed"

\* The objects of a run, by their names.
Handed(w, n) ==
    IF Prefix(w, n) \in DOMAIN store
    THEN LET objects == store[Prefix(w, n)]
         IN  [i \in 1..Cardinality(DOMAIN objects) |-> objects[Leaf(i - 1)]]
    ELSE <<>>

Run(w, n) == INSTANCE LoadPromise WITH
    Inputs      <- {InputOf[w]},
    Deliverable <- LAMBDA in : {Delivery(in, files) : files \in Reads[w]},
    input       <- InputOf[w],
    outcome     <- Outcome(w, n),
    handed      <- Handed(w, n)

(***************************************************************************)
(* A publish finds what the run promised (connector.py: one delivery under *)
(* transformed/): every extraction hands over one delivery, at once and    *)
(* for good, whatever is extracted or published before, meanwhile or after. *)
(***************************************************************************)
RunsKeepPromise ==
    /\ \A w \in Workflows, n \in 1..MaxRuns : Run(w, n)!Init
    /\ [][\A w \in Workflows, n \in 1..MaxRuns :
             Run(w, n)!Next \/ UNCHANGED Run(w, n)!vars]_vars
=============================================================================
