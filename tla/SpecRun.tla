------------------------------ MODULE SpecRun ------------------------------
(***************************************************************************)
(* One run of the OpenAPI connector workflow (app/connector.py): run() and *)
(* the activities it awaits one at a time, download_cloud_spec,            *)
(* extract_spec, transform and upload_refs.                                *)
(*                                                                         *)
(* The workflow code is replayed by Temporal and does not lose its state.  *)
(* Its activities do fail: an attempt runs on any pod, may raise, may be   *)
(* timed out by the server while its thread keeps writing (run_in_thread   *)
(* is not interruptible), and a pod may restart and lose its temporary     *)
(* directories. Scheduling, retries and the persistence of FileReferences  *)
(* belong to the SDK and are modelled from how the connector uses them.    *)
(***************************************************************************)
EXTENDS SpecRecords, RunInput, Sums

CONSTANTS Pods,         \* worker pods
          MaxAttempts,  \* attempts Temporal gives one activity
          MaxStale,     \* bound on attempts that outlive their timeout at once
          MaxRestarts,  \* bound on pod restarts
          Inputs,       \* the OpenAPIConnectorInput values runs start from,
                        \* each with whether a tenant store is bound
          Listing,      \* Listing[store][location]: files a download returns
          Versions,     \* Versions[file]: what a fetch of the file may return
          Corrupt       \* content fetch_spec rejects

ASSUME BoundsAssumption == /\ MaxAttempts \in Nat \ {0}
                           /\ MaxStale \in Nat /\ MaxRestarts \in Nat

VARIABLES input,        \* the OpenAPIConnectorInput
          pc,           \* the activity run() awaits, or how it ended
          error,        \* the typed error of a failed run
          conn,         \* [qn, emit, assertion]: the resolved connection
          specUrls,     \* spec_urls
          extracted,    \* all_extract_results
          transformed,  \* transformed_files
          idx,          \* position in the loop of the awaited activity
          totals,       \* api_spec_count, api_path_count, total_scanned
          output,       \* the OpenAPIConnectorOutput

          attempt,      \* attempts made of the awaited activity
          live,         \* the server believes the last attempt is running
          execs,        \* attempts some worker is still executing

          tmp,          \* tmp[pod]: its temporary directories
          refs,         \* object-store copies of returned FileReferences
          store,        \* objects under this run's transformed/ prefix
          restarts

runVars == <<pc, error, conn, specUrls, extracted, transformed, idx, totals,
             output>>
activityVars == <<attempt, live, execs>>
storageVars == <<tmp, refs, store>>
vars == <<input, runVars, activityVars, storageVars, restarts>>

----------------------------------------------------------------------------
\* The spec files a run is asked for: one URL, or what the store lists.
Listed(in) == CASE InputError(in) # None -> <<>>
                [] in.import_type = "CLOUD" /\ InputError(in) = None
                     -> Listing[StoreRead(in)][in.location]
                [] in.import_type = "URL" /\ InputError(in) = None
                     -> <<in.spec_url>>

Files(in) == {Listed(in)[i] : i \in DOMAIN Listed(in)}

\* A listing is a list of files, and a document, parsed from one, is finite.
ASSUME ListingAssumption == \A in \in Inputs : Listed(in) \in Seq(Files(in))

ASSUME DocumentsAssumption ==
    \A in \in Inputs : \A f \in Files(in) : \A docs \in Versions[f] \ {Corrupt} :
       /\ IsFiniteSet(DOMAIN docs)
       /\ \A d \in DOMAIN docs : /\ IsFiniteSet(DOMAIN docs[d].paths)
                                /\ IsFiniteSet(DOMAIN docs[d].webhooks)

\* An absent value is no error and no FileReference.
ASSUME NoneAssumption ==
    /\ None \notin {"ConnectionRequired", "CloudSpecLocationRequired",
                    "CredentialRouting", "SpecUrlRequired", "UnknownImportType"}
    /\ None \notin {"transform"} \X Nat

----------------------------------------------------------------------------
(* Activity attempts. *)

Tasks == {"download", "extract", "transform", "upload"}

Started == 0
Opened  == 1
Written == 2

Current(e) == /\ live
              /\ e.task = pc /\ e.idx = idx /\ e.attempt = attempt

\* Mutant: attempts of one activity share a directory.
TempDir_PerActivity(e) == <<e.task, e.idx>>

\* tempfile.mkdtemp: a directory no other attempt writes to.
TempDir(e) == <<e.task, e.idx, e.attempt>>

\* The storage_path a FileReference it returns is persisted under: an
\* activity returns once.
RefOf(e) == <<e.task, e.idx>>

Put(f, k, v) == [x \in DOMAIN f \cup {k} |-> IF x = k THEN v ELSE f[x]]

Keep(f, ks) == [x \in DOMAIN f \cap ks |-> f[x]]

WriteDir(e, content) ==
    tmp' = [tmp EXCEPT ![e.pod] = Put(tmp[e.pod], TempDir(e), content)]

Moves(e, to) == execs' = (execs \ {e}) \cup {to}

(***************************************************************************)
(* Directories stay behind on the pod. The model forgets those nobody can  *)
(* read again: run() keeps paths of downloads only, and an extraction or a *)
(* transform returns its files as FileReferences.                          *)
(***************************************************************************)
Readable(p, es) == {d \in DOMAIN tmp[p] : \/ d[1] = "download"
                                          \/ \E e \in es : e.pod = p /\ TempDir(e) = d}

Remain(es) == /\ execs' = es
              /\ tmp' = [p \in Pods |-> Keep(tmp[p], Readable(p, es))]

Gone(e) == Remain(execs \ {e})

\* Mutant: the attempt count is not reset for the next activity.
Schedule_KeepsAttempts(task, i) == /\ pc' = task
                                   /\ idx' = i
                                   /\ live' = FALSE
                                   /\ UNCHANGED attempt

\* run() awaits another activity, or the next iteration of the same one.
Schedule(task, i) == /\ pc' = task
                     /\ idx' = i
                     /\ attempt' = 0
                     /\ live' = FALSE

Fail(err) == /\ pc' = "failed"
             /\ error' = err
             /\ live' = FALSE
             /\ UNCHANGED <<conn, specUrls, extracted, transformed, idx, totals,
                            output, attempt>>

\* An error Temporal does not retry: it fails the run if the run awaits it.
Rejected(e, err) ==
    /\ Gone(e)
    /\ IF Current(e) THEN Fail(err) ELSE UNCHANGED <<runVars, attempt, live>>

\* The last attempt is over without a result.
GiveUpOrRetry(err) ==
    IF attempt < MaxAttempts
    THEN live' = FALSE /\ UNCHANGED <<runVars, attempt>>
    ELSE Fail(err)

\* Mutant: every output file leads with the Connection.
EmitConnection_EveryFile == conn.emit

\* Only the first output file leads with the Connection.
EmitConnection == conn.emit /\ transformed = <<>>

StartAttempt(p) ==
    /\ pc \in Tasks
    /\ ~live
    /\ live' = TRUE
    /\ attempt' = attempt + 1
    /\ execs' = execs \cup
         {[task |-> pc, idx |-> idx, attempt |-> attempt + 1, pod |-> p,
           step |-> Started, docs |-> <<>>,
           emit |-> EmitConnection]}
    /\ UNCHANGED <<input, runVars, storageVars, restarts>>

Stale == {e \in execs : ~Current(e)}

\* Mutant: a task has no timeout.
TimeoutAttempt_None == FALSE /\ UNCHANGED vars

\* timeout_seconds or heartbeat_timeout_seconds: the worker is told, if it
\* still heartbeats, and otherwise goes on with an attempt nobody awaits.
TimeoutAttempt ==
    /\ live
    /\ GiveUpOrRetry("Timeout")
    /\ \/ Remain(Stale)
       \/ Cardinality(Stale) < MaxStale /\ UNCHANGED <<execs, tmp>>
    /\ UNCHANGED <<input, refs, store, restarts>>

\* A retryable error: an outage, a 5xx, an unattributable store failure.
AttemptRaises(e) ==
    /\ Gone(e)
    /\ IF Current(e) THEN GiveUpOrRetry("Transient")
                     ELSE UNCHANGED <<runVars, attempt, live>>
    /\ UNCHANGED <<input, refs, store, restarts>>

LastStep(e) == IF e.task = "upload" THEN Len(transformed) ELSE Written

\* The result of an attempt the run no longer awaits is dropped.
StaleAttemptEnds(e) ==
    /\ ~Current(e)
    /\ e.step = LastStep(e)
    /\ Gone(e)
    /\ UNCHANGED <<input, runVars, attempt, live, refs, store, restarts>>

PodRestarts(p) ==
    /\ restarts < MaxRestarts
    /\ restarts' = restarts + 1
    /\ execs' = {e \in execs : e.pod # p}
    /\ tmp' = [tmp EXCEPT ![p] = <<>>]
    /\ UNCHANGED <<input, runVars, attempt, live, refs, store>>

----------------------------------------------------------------------------
(* run(): resolution of the input, then one activity after the other. *)

Init ==
    /\ input \in Inputs
    /\ pc = "begin" /\ error = None
    /\ conn = [qn |-> <<>>, emit |-> FALSE, assertion |-> FALSE]
    /\ specUrls = <<>> /\ extracted = <<>> /\ transformed = <<>>
    /\ idx = 1
    /\ totals = [specs |-> 0, paths |-> 0, scanned |-> 0]
    /\ output = None
    /\ attempt = 0 /\ live = FALSE /\ execs = {}
    /\ tmp = [p \in Pods |-> <<>>] /\ refs = <<>> /\ store = <<>>
    /\ restarts = 0

Begin ==
    /\ pc = "begin"
    /\ IF InputError(input) # None
       THEN Fail(InputError(input))
       ELSE /\ conn' = ResolvedConnection(input)
            /\ IF input.import_type = "CLOUD"
               THEN /\ Schedule("download", 1)
                    /\ UNCHANGED specUrls
               ELSE /\ Schedule("extract", 1)
                    /\ specUrls' = <<[file |-> input.spec_url, dir |-> None]>>
            /\ UNCHANGED <<error, extracted, transformed, totals, output>>
    /\ UNCHANGED <<input, execs, storageVars, restarts>>

\* The OpenAPIConnectorOutput of a run that returns.
Output(delivered, ts, files) ==
    [transformed_data_prefix |-> delivered,
     publish_completed       |-> delivered,
     api_spec_count          |-> ts.specs,
     api_path_count          |-> ts.paths,
     total_scanned           |-> ts.scanned,
     output_file             |-> IF files = <<>> THEN None
                                 ELSE files[Len(files)].ref,
     assertion_only_enabled  |-> conn.assertion]

Return(delivered, ts, files) == /\ pc' = "done"
                                /\ output' = Output(delivered, ts, files)
                                /\ live' = FALSE
                                /\ UNCHANGED <<idx, attempt>>

\* Mutant: path records are not counted as scanned.
Extracted_SpecsOnly(r) == r.specs

Extracted(r) == r.specs + r.paths

\* `continue` on an extraction without records: the next one to transform.
NextTransform(from, results) ==
    {i \in from..Len(results) :
        /\ Extracted(results[i]) > 0
        /\ \A j \in from..(i - 1) : Extracted(results[j]) = 0}

\* After the extract loop or an iteration of the transform loop.
Advance(from, results, ts, files) ==
    \/ \E i \in NextTransform(from, results) :
          Schedule("transform", i) /\ UNCHANGED output
    \/ /\ NextTransform(from, results) = {}
       /\ IF input.load_to_atlan /\ files # <<>>
          THEN Schedule("upload", 1) /\ UNCHANGED output
          ELSE Return(FALSE, ts, files)

----------------------------------------------------------------------------
(* download_cloud_spec *)

\* The tenant store is missing, or the customer's refuses the credential.
DownloadRefused(e) ==
    /\ e.task = "download" /\ e.step = Started
    /\ \/ /\ StoreRead(input) = "tenant" /\ ~input.tenant_store
          /\ Rejected(e, "TenantObjectStoreUnavailable")
       \/ /\ StoreRead(input) \in Stores
          /\ \E err \in StoreErrors : Rejected(e, err)
    /\ UNCHANGED <<input, refs, store, restarts>>

Downloads ==
    LET files == Files(input)
    IN  {bytes \in [files -> UNION {Versions[f] : f \in files}] :
            \A f \in files : bytes[f] \in Versions[f]}

Download(e) ==
    /\ e.task = "download" /\ e.step = Started
    /\ StoreRead(input) \in Stores \/ input.tenant_store
    /\ \E bytes \in Downloads : WriteDir(e, bytes)
    /\ Moves(e, [e EXCEPT !.step = Written])
    /\ UNCHANGED <<input, runVars, attempt, live, refs, store, restarts>>

\* run() keeps the local_path of each downloaded file, a path on e.pod.
DownloadReturns(e) ==
    /\ e.task = "download" /\ e.step = Written /\ Current(e)
    /\ Gone(e)
    /\ IF Listed(input) = <<>>
       THEN Fail("CloudSpecNotFound")
       ELSE /\ specUrls' = [i \in DOMAIN Listed(input) |->
                               [file |-> Listed(input)[i], dir |-> TempDir(e)]]
            /\ Schedule("extract", 1)
            /\ UNCHANGED <<error, conn, extracted, transformed, totals, output>>
    /\ UNCHANGED <<input, refs, store, restarts>>

----------------------------------------------------------------------------
(* extract_spec *)

\* What fetch_spec reads: the URL, or the local path if it is on this pod.
Fetched(e) ==
    LET u == specUrls[e.idx]
    IN  IF u.dir = None THEN Versions[u.file]
        ELSE IF u.dir \in DOMAIN tmp[e.pod] THEN {tmp[e.pod][u.dir][u.file]}
        ELSE {}

\* A path that is not a file here is taken for a URL, and is not an https one.
FetchMissing(e) ==
    /\ e.task = "extract" /\ e.step = Started
    /\ Fetched(e) = {}
    /\ Rejected(e, "SpecUrlInvalid")
    /\ UNCHANGED <<input, refs, store, restarts>>

FetchCorrupt(e) ==
    /\ e.task = "extract" /\ e.step = Started
    /\ Corrupt \in Fetched(e)
    /\ Rejected(e, "SpecUnreadable")
    /\ UNCHANGED <<input, refs, store, restarts>>

\* The documents are in memory; api_spec.jsonl and api_path.jsonl are opened.
Fetch(e) ==
    /\ e.task = "extract" /\ e.step = Started
    /\ \E docs \in Fetched(e) \ {Corrupt} :
          Moves(e, [e EXCEPT !.step = Opened, !.docs = docs])
    /\ WriteDir(e, NoRecords)
    /\ UNCHANGED <<input, runVars, attempt, live, refs, store, restarts>>

\* Mutant: a spec without usable documents is a success.
NothingUsable_Unchecked(e) == FALSE

NothingUsable(e) == UsableDocs(e.docs) = {}

Extraction(e) == Records(conn.qn, e.docs)

WriteRecords(e) ==
    /\ e.task = "extract" /\ e.step = Opened
    /\ IF NothingUsable(e)
       THEN /\ Rejected(e, "NoValidSpecs")
       ELSE /\ WriteDir(e, Extraction(e))
            /\ Moves(e, [e EXCEPT !.step = Written])
            /\ UNCHANGED <<runVars, attempt, live>>
    /\ UNCHANGED <<input, refs, store, restarts>>

ExtractReturns(e) ==
    /\ e.task = "extract" /\ e.step = Written /\ Current(e)
    /\ LET result  == [ref   |-> RefOf(e),
                       specs |-> Cardinality(Extraction(e).specs),
                       paths |-> Cardinality(Extraction(e).paths)]
           results == Append(extracted, result)
           ts == [totals EXCEPT !.scanned = @ + Extracted(result)]
       IN  /\ refs' = Put(refs, RefOf(e), tmp[e.pod][TempDir(e)])
           /\ extracted' = results
           /\ totals' = ts
           /\ IF idx < Len(specUrls)
              THEN Schedule("extract", idx + 1) /\ UNCHANGED output
              ELSE Advance(1, results, ts, transformed)
    /\ Gone(e)
    /\ UNCHANGED <<input, error, conn, specUrls, transformed, store,
                   restarts>>

----------------------------------------------------------------------------
(* transform *)

\* The output file is truncated and the Connection row, if any, written.
OpenOutput(e) ==
    /\ e.task = "transform" /\ e.step = Started
    /\ WriteDir(e, Transformed(e.emit, NoRecords))
    /\ Moves(e, [e EXCEPT !.step = Opened])
    /\ UNCHANGED <<input, runVars, attempt, live, refs, store, restarts>>

\* A file that is not there yields nothing, without an error.
RecordsRead(e) ==
    LET ref == extracted[e.idx].ref
    IN  IF ref \in DOMAIN refs THEN refs[ref] ELSE NoRecords

WriteRows(e) ==
    /\ e.task = "transform" /\ e.step = Opened
    /\ WriteDir(e, Transformed(e.emit, RecordsRead(e)))
    /\ Moves(e, [e EXCEPT !.step = Written])
    /\ UNCHANGED <<input, runVars, attempt, live, refs, store, restarts>>

TransformReturns(e) ==
    /\ e.task = "transform" /\ e.step = Written /\ Current(e)
    /\ LET files == Append(transformed,
                           [ref   |-> RefOf(e),
                            label |-> Leaf(Len(transformed))])
           ts == [totals EXCEPT !.specs = @ + Cardinality(RecordsRead(e).specs),
                                !.paths = @ + Cardinality(RecordsRead(e).paths)]
       IN  /\ refs' = Put(refs, RefOf(e), tmp[e.pod][TempDir(e)])
           /\ transformed' = files
           /\ totals' = ts
           /\ Advance(idx + 1, extracted, ts, files)
    /\ Gone(e)
    /\ UNCHANGED <<input, error, conn, specUrls, extracted, store, restarts>>

----------------------------------------------------------------------------
(* upload_refs: one object per declared file, in order, under the run's own *)
(* transformed/ prefix.                                                     *)

UploadFile(e) ==
    /\ e.task = "upload" /\ e.step < Len(transformed)
    /\ LET file == transformed[e.step + 1]
       IN  store' = Put(store, file.label, refs[file.ref])
    /\ Moves(e, [e EXCEPT !.step = @ + 1])
    /\ UNCHANGED <<input, runVars, attempt, live, tmp, refs, restarts>>

UploadReturns(e) ==
    /\ e.task = "upload" /\ e.step = Len(transformed) /\ Current(e)
    /\ Return(TRUE, totals, transformed)
    /\ Gone(e)
    /\ UNCHANGED <<input, error, conn, specUrls, extracted, transformed, totals,
                   refs, store, restarts>>

----------------------------------------------------------------------------
Execute(e) ==
    \/ DownloadRefused(e) \/ Download(e) \/ DownloadReturns(e)
    \/ FetchMissing(e) \/ FetchCorrupt(e) \/ Fetch(e)
    \/ WriteRecords(e) \/ ExtractReturns(e)
    \/ OpenOutput(e) \/ WriteRows(e) \/ TransformReturns(e)
    \/ UploadFile(e) \/ UploadReturns(e)
    \/ AttemptRaises(e) \/ StaleAttemptEnds(e)

Next == \/ Begin
        \/ \E p \in Pods : StartAttempt(p) \/ PodRestarts(p)
        \/ TimeoutAttempt
        \/ \E e \in execs : Execute(e)

(***************************************************************************)
(* Temporal runs workflow code and starts attempts while the run has work, *)
(* and its server ends an attempt that outlives its timeout. Nothing is    *)
(* assumed of the attempts themselves: a worker may hang for ever.         *)
(***************************************************************************)
Fairness == /\ WF_vars(Begin)
            /\ WF_vars(\E p \in Pods : StartAttempt(p))
            /\ WF_vars(TimeoutAttempt)

Spec == Init /\ [][Next]_vars /\ Fairness

----------------------------------------------------------------------------
(* Properties *)

TypeOK ==
    /\ input \in Inputs
    /\ pc \in Tasks \cup {"begin", "done", "failed"}
    /\ conn.emit \in BOOLEAN /\ conn.assertion \in BOOLEAN
    /\ \A i \in DOMAIN specUrls : specUrls[i].file \in Files(input)
    /\ idx \in Nat \ {0}
    /\ Len(extracted) <= Len(specUrls)
    /\ Len(transformed) <= Len(extracted)
    /\ attempt \in 0..MaxAttempts /\ live \in BOOLEAN
    /\ \A e \in execs : /\ e.task \in Tasks /\ e.pod \in Pods
                        /\ e.attempt \in 1..MaxAttempts /\ e.step \in Nat
    /\ DOMAIN tmp = Pods
    /\ restarts \in 0..MaxRestarts

Delivered == pc = "done" /\ output.transformed_data_prefix

\* What an object of the prefix holds beyond the Connection row.
Body(object) == [specs |-> object.specs, paths |-> object.paths]

(***************************************************************************)
(* A run that hands its prefix over has one object there per spec file,    *)
(* and each object is the complete extraction of one version of that file: *)
(* no file is missing, overwritten by another, truncated by an attempt     *)
(* that was given up, or left over from an earlier one.                    *)
(***************************************************************************)
DeliveredIsComplete ==
    Delivered =>
        /\ Cardinality(DOMAIN store) = Len(specUrls)
        /\ \A i \in DOMAIN specUrls :
              \E docs \in Versions[specUrls[i].file] \ {Corrupt} :
                 Body(store[Leaf(i - 1)]) = Records(conn.qn, docs)

(***************************************************************************)
(* SPEC.md 4.1: the Connection is emitted first and once per run, and on   *)
(* REUSE (CONNECT-55) not at all, in which case and only then the publish  *)
(* is told to assert and not to diff.                                      *)
(***************************************************************************)
ConnectionOnce ==
    Delivered =>
        /\ \A i \in DOMAIN transformed :
              store[transformed[i].label].connection
                <=> (input.connection_usage # "REUSE" /\ i = 1)
        /\ output.assertion_only_enabled
             <=> ~ \E l \in DOMAIN store : store[l].connection

RowsIn(objects) == SumOver([l \in DOMAIN objects |-> RecordCount(objects[l])])

(***************************************************************************)
(* The counts of the output describe what was handed over: the asset rows  *)
(* of the objects, which are also all the records that were scanned.       *)
(***************************************************************************)
CountsAgree ==
    pc = "done" =>
        /\ output.api_spec_count + output.api_path_count = output.total_scanned
        /\ Delivered => output.total_scanned = RowsIn(store)

(***************************************************************************)
(* CONNECT-812 EP-03: no run finishes green without assets. A run that     *)
(* returns has at least one APISpec, and has delivered it if it was asked  *)
(* to load to Atlan.                                                       *)
(***************************************************************************)
GreenRunHasAssets ==
    pc = "done" => /\ output.api_spec_count >= 1
                   /\ output.output_file # None
                   /\ input.load_to_atlan => Delivered

(***************************************************************************)
(* Every APIPath row that is handed over names an APISpec row handed over  *)
(* in the same object: the two files of an extraction are one attempt's.   *)
(***************************************************************************)
NoOrphanPaths ==
    Delivered => \A l \in DOMAIN store : \A path \in store[l].paths :
                    \E spec \in store[l].specs : spec.qn = path.spec

\* Attempts of the upload that overlap or repeat never change an object.
UploadsNeverChange ==
    [][\A l \in DOMAIN store : l \in DOMAIN store' /\ store'[l] = store[l]]_vars

\* Every run ends, whatever its workers do.
Termination == <>(pc \in {"done", "failed"})

(***************************************************************************)
(* No downloaded file is reported as an invalid URL: what the download     *)
(* returned, the extraction reads.                                         *)
(***************************************************************************)
DownloadedFileIsRead ==
    input.import_type = "CLOUD" => error # "SpecUrlInvalid"

----------------------------------------------------------------------------
(* SpecRun implements LoadPromise. *)

\* One part per spec file, of any of its versions, the first with the
\* Connection when it is created.
Promised(in) ==
    LET files == Listed(in)
        choices == {v \in [DOMAIN files -> UNION {Versions[f] : f \in Files(in)}] :
                      \A i \in DOMAIN files :
                         /\ v[i] \in Versions[files[i]] \ {Corrupt}
                         /\ UsableDocs(v[i]) # {}}
    IN  IF files = <<>> THEN {}
        ELSE IF in.load_to_atlan
        THEN {[i \in DOMAIN files |->
                 Transformed(in.connection_usage # "REUSE" /\ i = 1,
                             Records(ResolvedQN(in), v[i]))] : v \in choices}
        ELSE {<<>>}

Promise == INSTANCE LoadPromise WITH
    Deliverable <- Promised,
    outcome     <- IF pc \in {"done", "failed"} THEN pc ELSE "running",
    handed      <- IF Delivered
                   THEN [n \in 1..Cardinality(DOMAIN store) |-> store[Leaf(n - 1)]]
                   ELSE <<>>

ImplementsPromise == Promise!Spec
============================================================================
