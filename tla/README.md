# A verification project for the OpenAPI connector

TLA+ modules that model the Atlan OpenAPI connector app and the gates of its
repository, TLC configurations that check them on small instances, and theorems
that TLAPS proves for every value of the constants. `PROJECT.json` maps every
definition to the lines it models; paths below are relative to `src/`.

    tlc -workers 2 -config SpecRun_files.cfg MCSpecRun     # model checking
    tlapm SpecRun_proofs.tla                               # proofs

## 1. Inventory

The app is a Temporal worker. The automation engine runs a DAG on it:
a *preflight* node, `extract` (one run of `OpenAPIConnector`), `publish`.

| part | state it keeps | operations | talks to |
|---|---|---|---|
| **run and activities** (`app/connector.py`, `contracts.py`) | the workflow's local variables (`spec_urls`, `all_extract_results`, `transformed_files`, totals), replayed by Temporal; per-attempt temporary directories; FileReferences in the object store; the run's `transformed/` prefix | `run`, `download_cloud_spec`, `extract_spec`, `transform`, `upload_refs` (SDK) | the spec endpoint or the customer's store through the client; publish through `transformed_data_prefix` |
| **extraction and mapping** (`asset_mapper.py`, `api_types.py`) | none | documents → records → rows, qualified names | |
| **spec client** (`api_client.py`) | an httpx client | `_validate_spec_url`, `probe_spec_url`, `fetch_spec`, `_parse_body`, `_parse_zip`, `close` | the endpoint |
| **preflight handler** (`handler.py`) | one check at a time; the probe's client | `preflight_check` and its four checks, the transient/verdict split | client, store, the gate's deadline |
| **store failure classifier** (`cloud_store.py`) | none | `classify_store_failure`, credential shape predicates | shared by the handler and the download |
| **typed errors** (`errors.py`) | none | which failures Temporal retries | |
| **publish hand-off** (`manifest.json`, `contracts.py`, `asset_mapper.py`) | the DAG of each workflow; the shared catalogue (not of this app) | publish with a full diff, or assertion-only on REUSE | the run's output and prefix; the publish app |
| **release gate** (`.github/scripts/release_gate.py`, two workflows) | check runs and commit statuses on GitHub | decide whether a release PR may merge | statuses, re-runs, merge queue |
| **connector review gate** (`connector_review_gate.py`, a workflow) | reviews of a PR, one check run per event | decide whether the connector lane has approved the PR or its head | reviews, the policy variable, the merge queue |
| conformance arguments, code-scanning probe, entry points, contract | none | straight-line | |

What is hard about them:

* *Attempts outlive their timeout.* `run_in_thread` cannot be interrupted, so an
  attempt the server gave up keeps writing while its retry runs, on the same pod
  or another.
* *Pods differ and restart.* Paths are local to a pod; FileReferences are not.
* *The source moves.* A retried extraction may read another version of the spec;
  endpoints and stores have passing failures, and the gate and the run read them
  at different moments, with different timeouts and by different code.
* *Loops that skip.* Counts, file names and `emit_connection` depend on how many
  files came before, while extractions without records are skipped.
* *Exception chains* link in any way, also back into themselves.
* *The gates* decide on a snapshot: the payload of the event that created the
  run, and as much of a paginated list as was read. Reviews and verdicts land
  minutes later, on a head that may have moved.
* *Publishing is a diff.* What a run does not deliver is archived, so a file of
  another run in the prefix, a forgotten Connection row or a diff on a shared
  connection destroys assets, and a publish that fails half way leaves its mark.

What makes each part correct: a run hands over everything or nothing, completely
and once (run); its records belong together (extraction); a verdict against a run
is wrong only where the handler means to take a passing refusal for a fact, and a
verdict for it is evidence (preflight); blame falls on the
nearest exception that can bear it (classifier); nothing merges without its
gate, and a check does not outlive what it says (gates); the catalogue is what
the last published run read, and a shared connection only gains (publish). `PROJECT.json` lists the hazards line by line.

## 2. Modules

| module | models | notes |
|---|---|---|
| `RunInput` | what `run()` reads off its input before any activity | shared by `SpecRun` and `Preflight` |
| `SpecRecords` | documents to records to rows | pure operators; a qualified name is a sequence of segments, a key's own included, although the key of a webhook has no leading slash (nothing checked here depends on it) |
| `SpecRun` | `run()`, its activities, attempts, pods, the prefix | the core |
| `LoadPromise` | what a run promises the DAG | abstract; `SpecRun` implements it |
| `SpecRunInvariant` | the inductive invariants `IInv` (the Connection row) and `Lineage` (the contents) | TLC checks them, `SpecRun_proofs` and `SpecRunDelivery_proofs` prove them |
| `Sums`, `Sums_proofs` | finite sums, and induction on sets of numbers | recursive functions, so that proofs can use them |
| `FetchSpec` | URL checks, request, classification, parsing | pure operators |
| `Preflight`, `Preflight_proofs` | every check of the handler, the gate's deadline, and the run it speaks for | |
| `StoreFailure`, `StoreFailure_proofs` | the walk along an exception chain | |
| `ReleaseGate`, `ReleaseGate_proofs` | the release gate and GitHub around it | |
| `ConnectorReview`, `ConnectorReview_proofs` | the review gate, the reviews and GitHub around them | |
| `PublishDag`, `PublishDag_proofs` | the DAG of several workflows, and the catalogue | `extract` is what `LoadPromise` promises |
| `MCSpecRun`, `MCPreflight`, `MCPublishDag` | instances for TLC | |

**SpecRun.** `pc` is the activity `run()` awaits and `idx` the position in the
loop around it. `Begin` is everything before the first await; `Advance` is the
code between one activity and the next, `continue` included, so a step that
returns a result also takes the run to its next await, as the replayed workflow
does. An activity is `attempt`, `live` (the server believes an attempt runs) and
`execs`, the attempts some worker is executing. Each activity body is cut where
its effects become visible: the extraction opens its files (`Fetch`) and fills
them (`WriteRecords`), the transform truncates and then writes, the upload copies
one object at a time. The result of an attempt counts only if the attempt is
`Current`. Any attempt may raise (`AttemptRaises`), be timed out by the server
with or without the worker noticing (`TimeoutAttempt`), end after it was given up
(`StaleAttemptEnds`) or lose its pod (`PodRestarts`). Temporary directories
nobody can read any more are forgotten (`Readable`), which removes no behaviour.
How attempts, retries and the persistence of a returned FileReference work is the
SDK's and Temporal's and is modelled from how the connector uses them.

**LoadPromise.** A run ends; it fails and hands over nothing, or hands over at
once one of the deliveries its input asks for: a part per listed file, in order,
each the extraction of one version, the Connection leading the first one unless
`connection_usage` is REUSE. The refinement maps the objects of the prefix, read
only when the run returns them, to the delivery.

**Preflight.** One action per check and outcome: the static check of the mode,
the stat of a local path, the probe of a URL or a store, the overrun. The source
has lasting conditions (`endpoint`, `stores`), which only `OwnerChanges` changes,
and passing ones (`hiccup`, `outage`), which come and go: of an endpoint a name
that does not resolve, a refused or slow connect, a silent or broken answer, any
status; of a store silence and any refusal. `probeMet` and `readMet` remember which
of them the probe and the last reading met. After the gate the run
reads the source with the operators of `FetchSpec`, with the retry policy of its
errors. The gate is in soft mode, so that every verdict can be compared with what
the run then does.

**StoreFailure.** The loop of `classify_store_failure`, an iteration a step, over
every way to give exceptions a kind, a quoted status, a cause, a context and a
severed context.

**ReleaseGate.** A workflow run is a record in `runs`, in creation order; the
newest of a commit speaks for it. `Fetch` may stop at any prefix of the statuses
(the step is `continue-on-error` and a page may fail), `Verify` is
`release_gate.py`, `Dies` its timeout, `Retire` the concurrency group. Commits,
statuses of the bot and of others, re-runs, labels and the queue are actions of
their own. The concurrency group also holds back or evicts a waiting run; the
model lets it run or die instead, which allows all the code allows. A pull request
that changes this gate or its script is not modelled.

**ConnectorReview.** Each event about the head (push, reopening, review, edit,
dismissal) waits for a run of its own; `Fetch` reads the policy and the pages of
reviews, or fails, and `Verify` concludes. Only the newest run on the head counts
for a merge, so the model keeps that one: a run that is superseded, or whose
commit is no longer the head, changes nothing any more. Events of one head differ
in nothing the gate reads and are counted (`waiting`). A body is its last lines,
because `reviewed_sha` looks at the tail only; `of` remembers what a review of the
connector lane's speaks of, independently of the markers the gate goes by. A user
with write access may edit the body of any review (line 43 of the workflow), so
that it loses its trailer (`Break`) or gets one, of whatever commit (`Rewrite`);
`edited` remembers the commits that got an approval this way, `approved` those that
got it from the lane. The workflow runs from the pull request's own tree, so a
commit that changes it or its script passes its own gate (its TRUST BOUNDARY, lines
23 to 28): the constant `OwnGate` has these commits, whose script may say anything,
and `Configured` leaves out those that delete `reviewer.yaml`. Neither is flagged
as a bug, since the workflow names both and is not to be armed before they are
closed. A branch is not rewound.

**PublishDag.** Each workflow is idle, extracting or publishing: the engine runs
one DAG of a workflow at a time, and those of different workflows interleave. An
extraction fails, or adds to the prefix of its run one object per file it read,
which is what `SpecRun` implements of `LoadPromise`; `RunsKeepPromise` says that
the composition keeps it: seen through the prefix, the n-th run of every workflow
is a `LoadPromise` of its own, so that a delivery never changes once it is made.
`Upsert` writes the assets of one object, `Archive` is the diff, and both
read what the manifest passes on: the prefix, the connection and
`assertion_only_enabled`. The manifest also passes `publish_state_prefix` and
`current_state_prefix` (`manifest.json:44`), which `PublishInputMixin` derives from
the connection's qualified name (`contracts.py:66`): where the publish app keeps its
own account of that connection. The model has no such account; that the app
compares a delivery with the live catalogue is an assumption about it, on which
`LastRunIsCatalogued` rests. An asset is keyed by type and qualified name, so
documents of one title meet in one asset. The publish app is not in the repository;
it is modelled from what `manifest.json`, `contracts.py` and `README.md` say of it.

## 3. Runs

| run | checks | shows |
|---|---|---|
| `specrun_files` | `TypeOK`, `IInv`, `Lineage`, `DeliveredIsComplete`, `ConnectionOnce`, `CountsAgree`, `NoOrphanPaths`, `UploadsNeverChange` | two spec files, a CREATE and a REUSE run, two pods, two attempts each, one attempt that outlives its timeout, one pod restart |
| `specrun_ways` | `GreenRunHasAssets`, `Termination`, `ImplementsPromise` | every way in and every reason to refuse one, with files that are unreadable, empty or change |
| `specrun_crosspod` | `DownloadedFileIsRead` | **violated**, see findings |
| `preflight` | `TypeOK`, `NoBlipBlocks`, `ReadyIsNotRefused`, `NoClientLeaks`, `RunEnds` | URLs, local paths, two customers' stores and the tenant's; every class of answer, every route of a credential, an agent's beside a `cloud_source` included, listings with and without subdirectories; before and after the probe passing DNS failures, refused and slow connects, silent and broken answers, the statuses 408, 429 and 503, and stores that are silent or deny access for a while; budgets of 1 and 60 s (the floor and the cap of the probe's timeout) |
| `preflight_slowconnect`, `_budget`, `_untyped`, `_suffix` | one property each | **violated**, see findings |
| `store_failure` | `TypeOK`, `BlameIsNearest`, `Classified` | all chains of two exceptions, cycles included |
| `release_pr` | `TypeOK`, `BumpPassedItsGate`, `SettledGateIsRight` | two commits, two requests for the gate, a stranger's status, a label change or a reopening |
| `connector_review` | `TypeOK`, `EnforcedMergeIsReviewed`, `SettledCheckIsRight`, `ApprovalUnblocks` | three commits, the second of which changes the gate and deletes its configuration, two reviews (genuine, quoted or of another lane), two events that wait, one edit (to no trailer or to any), dismissal, reopening or change of policy, in any order |
| `publish` | `TypeOK`, `LastRunIsCatalogued`, `ConnectionSurvives`, `SharedAssetsSurvive`, `ArchivedMeansGone`, `RunsKeepPromise` | a workflow with a connection of its own and two on one they share with another source, two runs each, specs that lose a file, a path or a title between runs, failures of extract and amid publish |

**Bounds.** Two files make every loop repeat once and every name differ; the
second of them may be skipped or fail. `MaxAttempts = 2` has a retry and an
exhausted retry; `MaxStale = 1` an attempt nobody awaits next to its successor,
`MaxRestarts = 1` a restart between any two steps; `specrun_ways` does without
restarts, since what it asks is about inputs, contents and exhausted retries. Documents
include one without a title, a webhook that takes a path's key, an item that is
no object and an untracked method. `MaxHiccups = 3` lets a condition come, go and be followed by another.
Times are in tenths of a second, chosen on each side of the probe's and the
fetch's timeouts. Two exceptions suffice for a cycle, a severed link and a nearer
witness; the proof covers the rest. In the gate, two commits make a push and a
return of an old commit's run, and two requests an overturned verdict. In the
review gate a page holds one review, so that two make a second page and an
overturned review; the commit that changes the gate lies between two that leave it
as it is. A commit that deletes the configuration and nothing else differs from it
in that its check is always green. Two
runs of a workflow suffice for what a run can find of an earlier one, in its
prefix and in the catalogue; two workflows share, since assertion-only publishes
meet in pairs. Deadlock is not checked: every one of these systems stops when its run or PR is over.

**Fairness.** `SpecRun`: workflow code runs (`Begin`), an attempt is started
while one is due, and the server enforces its timeouts. Temporal guarantees
these; nothing is assumed of a worker, which may hang for ever. `Preflight`: the
gate's deadline and Temporal's timeouts end what hangs, so the gate and the run
take steps while they can. `StoreFailure`: a synchronous loop runs. `ConnectorReview`:
GitHub starts the runs its events call for and times their jobs out, while the PR
is not merged; nothing is assumed of reviewers or of who pushes. `ReleaseGate` and
`PublishDag` state no liveness and no fairness.

## 4. Findings

1. *A downloaded spec is not found on another pod* (`specrun_crosspod`,
   `app/connector.py:784`). `run()` passes each file's `local_path` on as a plain
   string. If another pod takes the extraction, or the pod restarted, the path is
   no file, is taken for a URL, and the run fails for good with `SpecUrlInvalid`.
2. *A slow connection is a verdict* (`preflight_slowconnect`,
   `app/handler.py:110`). A `ConnectTimeout` blocks, although the probe is more
   impatient than the run: `BlockedRunIsDoomed` fails. The same property fails for
   a refusal that passes, be it a refused connect, a name that does not resolve, a
   4xx other than 429 or a store's denial: the handler means to take each for a
   stable fact (`handler.py:110`), so these are no findings, and `NoBlipBlocks`
   says that together with the slow connection and the agent's credential they are
   the only ways to block a run that would succeed.
3. *The probe's timeout is per phase* (`preflight_budget`, `app/handler.py:103`):
   a slow connect followed by a slow answer overruns the budget.
4. *Untyped exceptions leave the fetch* (`preflight_untyped`,
   `app/api_client.py:463`): `"info": null`, and a zip content type on anything
   else.
5. *Upper-case suffixes are selected and then parsed as JSON* (`preflight_suffix`,
   `app/api_client.py:458`).

Met on the way, and not a run: in agent mode `handler.py:335` promises that a
store the run will not read is never probed, and `contracts.py:56` names the
exception (a `cloud_source` next to an `agent_json`); `contracts.py:92` ("always 0 or 1") and 138
("always 1 on success") predate ZIP files with several documents. `README.md:11` and
73 describe a prefix per connection, `{conn_qn}/transformed-metadata`; the code
uploads under a prefix per run (`app/connector.py:895`), which is what
`LastRunIsCatalogued` depends on: its mutant `Prefix_PerWorkflow` is the prefix of
the document. A PR that gets
the `release` label after it was opened keeps its green check
(`release-gate.yaml:44`): `is_release_pr` takes the branch for the reliable
signal, and for a bump branch the gate is proved.

## 5. Proofs

Every safety property that a passing run checks is proved for every value of the
constants that meets the assumptions its modules name.

* `SpecRun_proofs`: `RunInvariant` (`Spec => []IInv`), `ConnectionIsOnce`,
  `UploadsAreStable`. `ConnectionOnce` is not inductive: it speaks of the prefix
  after the fact. `IInv` follows the Connection row from `EmitConnection` to the
  prefix: all attempts of the awaited transform were given the same
  `emit_connection` and their directories hold what they were given
  (`TransformAttempts`); so what is persisted as the n-th file leads with the
  Connection iff n is 1 and carries the n-th name (`TransformedFiles`); so every
  object is one transformed file (`StoreHoldsFiles`), whichever upload attempt
  wrote it. `UploadsNeverChange` follows, because the names are distinct and a
  persisted file never changes. `IInv` needs of the instance only
  `BoundsAssumption`.
* `SpecRunDelivery_proofs`: `RunLineage` (`Spec => []Lineage`), and from it and
  `IInv` `RunTypeOK`, `DeliveryIsComplete`, `PathsHaveSpecs`, `GreenRunDelivers`,
  `CountsAreRows` and `RunKeepsPromise`, the safety half of `ImplementsPromise`.
  `IInv` says which rows are a Connection, not whose rows the others are;
  `Lineage` follows the contents. An attempt that is executing is the only one that
  uses its directory (`Attempts`), so an extraction leaves there what it fetched
  although others were given up around it (`ExtractAttempts`); a download holds
  versions of the files it names (`SpecFiles`), so the i-th extraction is that of
  one version of the i-th listed file (`ExtractedFiles`), which the transform
  passes on (`TransformedRows`); the loops are as far as the lists are long
  (`Progress`), so the counters are the sums of the files scanned and transformed
  (`Counted`). `DeliveredIsComplete` then combines both invariants at the return;
  the refinement maps a step to a delivery exactly when it returns with a prefix.
  Assumed of the instance: the listing of an input names its own files
  (`ListingAssumption`), a document has finitely many paths and webhooks
  (`DocumentsAssumption`), `None` is no error and no reference (`NoneAssumption`).
* `Sums_proofs`: a sum up to n does not depend on what comes after, adds term by
  term and is natural, and a sum over a set is the sum by any numbering of it. An induction over the naturals goes by the least element
  of a set (`LeastElement`, from the well-foundedness of `<`), which is first-order;
  the sums of `CountsAreRows` and the pages of `PagesFlatten` rest on it.
* `Preflight_proofs`: `PreflightTypeOK`, `ClientTheorem`, `VerdictTheorem`
  (`NoBlipBlocks`) and `ReadyTheorem` (`ReadyIsNotRefused`). Both verdicts speak of
  a run that comes later, at a source whose passing conditions have come and gone
  since; the invariants (`Blocked`, `Served`) say what the verdict says of the
  *lasting* conditions, or that the probe met a passing one the handler takes for a
  fact, and this is then compared with every reading of the run. Whatever may pass,
  and however often: the theorems assume nothing of `Hiccups` and `Outages` but what
  kind of thing they are (`HiccupsAssumption`). The exceptions are part of what is
  proved: a passing refusal (`MetRefusal`), an endpoint that connects too late for
  the probe (`ConnectsTooLate`), and, in agent mode with a `cloud_source` beside the
  `agent_json` (`handler.py:365`), a probe of another credential than the run's
  (`ReadsAnother`); after a green gate, a passing refusal of the run's last reading.
  Each exception is met in the run `preflight`. Assumed: `SourcesAssumption` (what an
  endpoint and a store answer), `HiccupsAssumption` and `NoneAssumption`.
* `StoreFailure_proofs`: `WalkTypeOK`, `BlameTheorem`. The invariant is that while
  the walk goes on all it visited is silent, and all that explains something visited
  was visited or comes next (`Walk`); what it visited is connected to the raised
  exception (`SeenExplains`). Needs only that `None` is no exception.
* `ReleaseGate_proofs`: `GateIsTyped`, `BumpGateTheorem`, `SettledGateTheorem`. For
  the second the invariant is that the lines a run holds were posted on *its* commit,
  that a green run of a bump PR has a verdict of the bot behind it, and that the PR
  is queued only on a head that passed; it is carried through pages that fail,
  retirements and re-runs by three lemmas on kinds of steps (`PostStep`, `RunStep`,
  `RunsStep`). For the third it is `Speakers`: what the run that speaks for a commit
  with no verdict on its way has read is what the bot says there, or a prefix of it
  when the lookup was cut short. A post changes the verdict but leaves a re-run
  wanted, and a re-run or a new run starts without lines, so what was read before
  is never held against what was posted after (`PostSpeaks`, `NewSpeakers`).
* `ConnectorReview_proofs`: `PagesFlatten`, `ReviewTypeOK`, `EnforcedMergeTheorem`,
  `SettledCheckTheorem`. `flatten_pages` gives back the list the API cut, for every
  size of a page and also when the last page is full; the proof is by induction on
  the pages. The invariant `CRInv` adds that a review bears the marker of the commit
  it is of, and that an approving one was written by the lane or edited to say so
  (`Trailers`, `Given`), that a verdict is that of the reviews its run was given
  (`Decided`, `OnHead`), that green once given was earned (`Earned`), by the lane, by
  an edit or on a head with a gate of its own, and that, when nothing waits, the
  verdict is the one of now (`Fresh`). It includes `EnforcedMergeIsReviewed`, which is about the past:
  dismissals and pushes after the merge do not undo what was true at the merge.
* `PublishDag_proofs`: `DagInvariant`, `DagIsTyped`, `ConnectionIsNeverArchived`,
  `SharedAssetsAreSafe`, `ArchivedIsGone`, `EveryRunKeepsPromise`, `LastRunIsShown`.
  None of these is inductive: what a diff
  archives depends on what lies under a prefix that was filled many steps before,
  while other workflows were uploading and publishing. `DagInv` says that a prefix
  in use belongs to a run that has extracted (`PrefixesAreUsed`), so an upload finds
  its prefix empty and leaves exactly what it delivered (`UploadHolds`), and that a
  publish therefore goes by what its own run read (`PublishIsInformed`). Then the
  rows of a diff are those the files describe, with the Connection in the first
  object whenever there is a diff (`DeliveredAssets`), and each action disturbs the
  catalogue only as its properties allow (`UpsertStep`, `ArchiveStep`), and each
  step is a step or a stutter of every run's `LoadPromise` (`OutcomeStep`); its
  fairness is not claimed, since a run may stay at its node.
  `LastRunIsShown` needs `Shown` besides: a connection of its own has assets of its
  workflow's specs alone, what is active there is what was published last unless a
  publish has begun since, and a publish has made active what it upserted. So what
  earlier runs left half published is archived, or upserted again, by the next diff.
  Assumed of the instance (`DagInputs`): a run reads at least one file, nobody else
  has assets on a connection that a workflow creates, and a Connection asset is that
  of its connection; and, for `LastRunIsShown` only (`DagNames`), that names are
  sequences of segments, those of connections equally long (`default/api/<id>`), and
  a connection that a workflow creates is not another's. Were one a prefix of another,
  the assets of both could share a qualified name. Within a connection titles may
  collide.

*Only model-checked:* liveness (`Termination`, `RunEnds`, `Classified`,
`ApprovalUnblocks`, and that a run of `LoadPromise` ends, the other half of
`ImplementsPromise`), which is out of the prover's reach; and the five
counterexamples, which are about one instance each.

## 6. Not modelled

* `redact_url`, messages, descriptions, contacts, licences, sync metadata: text.
* `build_conformance_args.py`, `probe_code_scanning.py`, `main.py`, `run_dev.py`,
  the contract and generated code: no state and no ordering.
* The SDK, pyatlan, obstore, Temporal and GitHub appear as far as the code in
  `src/` uses them, and are marked external in the map.
* Three hazards are the code's own choice, and no property speaks against them: a
  ZIP entry that does not parse counts as gone, so a CREATE run archives its assets
  (`api_client.py:574`; `ArchivedMeansGone` says that nothing else is archived); a
  name that does not resolve, like any refusal, is a verdict although it may pass
  (`handler.py:110`; `NoBlipBlocks` excepts it by name); a malformed extra reads as no role auth, with a warning
  (`cloud_store.py:143`).
* What becomes of objects under a prefix after its publish, and two DAGs of one
  workflow at a time: the platform's.

## 7. Plan

Done, in this order: the run and its activities with the invariant and the
promise; the fetch and the preflight gate; the classifier; the release gate; the
connector review gate; the DAG and its catalogue; the proofs of every safety
property. Left:

1. Theorems about `FetchSpec` and `SpecRecords` on their own: what a URL that
   passes `_validate_spec_url` can lead to, and when two documents of a file share
   a record.
2. A theorem that composes the gate and the run: `Preflight` and `SpecRun` both
   start from `RunInput`, and the first's account of the run is one file long.
3. `Preflight` with the gate in hard mode, where a verdict keeps the run from
   starting.
