----------------------------- MODULE Preflight -----------------------------
(***************************************************************************)
(* The preflight gate (app/handler.py) and the run it speaks for: one      *)
(* preflight_check probes the source, and then, the gate being in soft     *)
(* mode, the run reads it whatever the verdict (download_cloud_spec and    *)
(* extract_spec of app/connector.py, with Temporal's retries).             *)
(*                                                                         *)
(* Between any two steps the source may hiccup, as endpoints and stores    *)
(* do, and recover; or its owner may change it for good.                   *)
(***************************************************************************)
EXTENDS FetchSpec

CONSTANTS Inputs,       \* the inputs runs start from
          Budgets,      \* timeout_seconds the gate may grant, in seconds
          Sources(_),   \* lasting states [endpoint, stores] of the source an
                        \* input reads: the endpoint of its URL, or its stores
          Hiccups,      \* passing conditions of an endpoint
          Outages,      \* passing conditions of a store: no answer, or a refusal
          MaxAttempts,  \* attempts Temporal gives the run's read
          MaxHiccups    \* bound on the comings and goings of hiccups

ASSUME PreflightBounds == /\ MaxAttempts \in Nat \ {0}
                          /\ MaxHiccups \in Nat
                          /\ Budgets \subseteq Nat \ {0}

ASSUME SourcesAssumption ==
    \A in \in Inputs : \A from \in Sources(in) :
       /\ DOMAIN from.stores = Stores \cup {"tenant"}
       /\ from.endpoint.connect \in {None} \cup Nat
       /\ from.endpoint.answer \in Nat /\ from.endpoint.status \in Nat

\* What passes is a failure: no passing condition serves what is not there.
ASSUME HiccupsAssumption ==
    /\ \A h \in Hiccups :
          \/ h.network # None
          \/ h.status \in Nat /\ StatusError(h.status) # None
    /\ Outages \subseteq {"silent"} \cup StoreErrors

\* An absent value is no store, no error and no verdict.
ASSUME NoneAssumption ==
    /\ None \notin Stores \cup StoreErrors \cup Untyped
    /\ None \notin
         {"SpecUrlRequired", "SpecUrlInvalid", "SpecRedirectNotFollowed",
          "SpecFetchAuth", "SpecFetchForbidden", "SpecNotFound",
          "SpecFetchClient", "SpecFetchRateLimited", "SpecSourceUnavailable",
          "SpecParse", "ZipNoSpecFound", "NoValidSpecs", "ConnectionRequired",
          "CloudSpecLocationRequired", "CredentialRouting", "UnknownImportType",
          "StoreUnavailable", "ConnectError", "ConnectTimeout", "ReadTimeout",
          "READY", "NOT_READY", "open", "silent", "gaierror", "WriteTimeout",
          "PoolTimeout", "ReadError", "WriteError", "RemoteProtocolError"}

VARIABLES input,       \* the OpenAPIConnectorInput
          budget,      \* what is left of the gate's deadline when it starts
          endpoint, stores,   \* the source's lasting state
          hiccup, outage,     \* what passes: of the endpoint, of each store
          changed,     \* its owner changed it since the probe
          hiccups,

          gate,        \* "begin", "probing" or "over"
          rows,        \* check name -> the error of its row, None if it passed
          verdict,     \* "READY", "NOT_READY", or why there is none
          client,      \* the probe's HTTP client: None, "open" or "closed"
          probed,      \* the store the probe reads
          probeMet,    \* history: the passing condition the probe met

          run,         \* "waiting", "reading", "done" or "failed"
          error,       \* the error of a failed run
          attempt,
          readMet      \* history: the one a failed run's last attempt met

sourceVars == <<endpoint, hiccup, stores, outage, changed, hiccups>>
gateVars == <<gate, rows, verdict, client, probed, probeMet>>
runVars == <<run, error, attempt, readMet>>
vars == <<input, budget, sourceVars, gateVars, runVars>>

\* str(cfg.get("import_type") or "URL").upper()
IsCloud(in) == in.import_type \in {"CLOUD", "cloud"}

----------------------------------------------------------------------------
(* The cloud store. A condition is [refusal, files]: how it answers every  *)
(* request (None: it serves it) and the files under the prefix. A file is  *)
(* [key, deep, ext, body], deep if it is in a subdirectory.                *)

\* CLOUD_SPEC_SUFFIXES, matched on the lower-cased key.
LowerCase(ext) == CASE ext = ".YAML" -> ".yaml" [] ext = ".ZIP" -> ".zip"
                    [] OTHER -> ext

HasSuffix(file) ==
    LowerCase(file.ext) \in {".json", ".yaml", ".yml", ".zip"}

\* What a download returns: the exact key, or all that matches below a prefix.
Selected(location, files) ==
    IF location.key # None THEN {f \in files : f.key = location.key}
                           ELSE {f \in files : HasSuffix(f)}

\* Mutant: any object under the prefix passes for a spec.
Found_Anything(location, files) == location.key # None \/ files # {}

\* One delimited listing proves a miss only if there is no subdirectory.
Found(location, files) ==
    \/ location.key # None
    \/ \E f \in files : f.deep \/ HasSuffix(f)

\* The error a request of the store ends with; a HEAD of no key is refused.
StoreError(location, condition) ==
    IF condition.refusal # None THEN condition.refusal
    ELSE IF location.key # None /\ Selected(location, condition.files) = {}
    THEN "CloudSpecNotFound"
    ELSE None

\* How a store answers now, if it does.
Answered(s) ==
    [refusal |-> IF outage[s] \in StoreErrors THEN outage[s] ELSE stores[s].refusal,
     files   |-> stores[s].files]

\* The passing conditions of what an input is read from.
Conditions(in) == IF IsCloud(in) THEN Outages \cup {None} ELSE Hiccups \cup {Steady}
Steadily(in) == IF IsCloud(in) THEN None ELSE Steady
Met(in, store) == IF IsCloud(in) THEN outage[store] ELSE hiccup

----------------------------------------------------------------------------
(* preflight_check *)

Mandatory == {"spec_url_configured", "spec_source_reachable",
              "cloud_spec_location_configured", "cloud_spec_credential_valid"}

\* Tenths of a second: max(1.0, min(30.0, 0.8 * budget)).
ProbeTimeout(seconds) ==
    LET share == AtMost(8 * seconds, 300)
    IN  IF share < 10 THEN 10 ELSE share

\* Mutant: a 5xx is a verdict, only a broken connection is not.
Transient_NoStatus(e) ==
    \/ e.leaf = "SpecFetchRateLimited"
    \/ /\ e.leaf = "SpecSourceUnavailable"
       /\ e.network \in {"ReadTimeout", "WriteTimeout", "PoolTimeout",
                         "ReadError", "WriteError", "RemoteProtocolError"}

\* _as_gate_transient: the failures that mean "ask me again".
Transient(e) ==
    \/ e.leaf = "SpecFetchRateLimited"
    \/ /\ e.leaf = "SpecSourceUnavailable"
       /\ \/ e.status # None
          \/ e.network \in {"ReadTimeout", "WriteTimeout", "PoolTimeout",
                            "ReadError", "WriteError", "RemoteProtocolError"}

\* Mutant: a failed advisory check is a verdict of its own.
Verdict_Partial(checks) ==
    CASE \E name \in DOMAIN checks \cap Mandatory : checks[name] # None -> "NOT_READY"
      [] \A name \in DOMAIN checks : checks[name] = None -> "READY"
      [] OTHER -> "PARTIAL"

Verdict(checks) ==
    IF \E name \in DOMAIN checks \cap Mandatory : checks[name] # None
    THEN "NOT_READY" ELSE "READY"

Row(name, e) == [n \in {name} |-> e]

With(name, e) == [n \in DOMAIN rows \cup {name} |-> IF n = name THEN e ELSE rows[n]]

Report(checks) == /\ gate' = "over"
                  /\ rows' = checks
                  /\ verdict' = Verdict(checks)

\* The handler raises instead of returning: the gate has no verdict.
Raise(reason) == /\ gate' = "over"
                 /\ verdict' = reason
                 /\ UNCHANGED rows

\* The static check of the mode, which must pass for its probe to be made.
CheckUrlConfigured ==
    /\ gate = "begin" /\ ~IsCloud(input)
    /\ IF input.spec_url = None
       THEN /\ Report(Row("spec_url_configured", "SpecUrlRequired"))
            /\ UNCHANGED client
       ELSE /\ gate' = "probing"
            /\ rows' = Row("spec_url_configured", None)
            /\ client' = IF input.spec_url.scheme = "path" THEN None ELSE "open"
            /\ UNCHANGED verdict
    /\ UNCHANGED <<input, budget, sourceVars, probed, probeMet, runVars>>

\* The store the gate resolved a credential of: that of cloud_source, unless
\* the trigger carries no metadata. A run's route is not visible to it.
GateStores(in) == {None, in.cloud_source}

Unprobed(in, store) == in.openapi_credential # None \/ store \notin Stores

CheckCloudLocation ==
    /\ gate = "begin" /\ IsCloud(input)
    /\ LET located == Row("cloud_spec_location_configured", None)
       IN  IF input.location = None
           THEN /\ Report(Row("cloud_spec_location_configured",
                              "CloudSpecLocationRequired"))
                /\ UNCHANGED probed
           ELSE \E store \in GateStores(input) :
                  IF Unprobed(input, store)
                  THEN /\ Report([n \in {"cloud_spec_location_configured",
                                         "cloud_spec_credential_valid"} |-> None])
                       /\ UNCHANGED probed
                  ELSE /\ gate' = "probing"
                       /\ rows' = located
                       /\ probed' = store
                       /\ UNCHANGED verdict
    /\ UNCHANGED <<input, budget, sourceVars, client, probeMet, runVars>>

\* Mutant: the probe's client is left to the garbage collector.
Close_Forgotten == UNCHANGED client

\* `finally: await client.close()`
Close == client' = IF client = "open" THEN "closed" ELSE client

\* The gate's stat of a path stands for its probe.
CheckLocalPath ==
    /\ gate = "probing" /\ ~IsCloud(input) /\ input.spec_url.scheme = "path"
    /\ Report(With("spec_source_reachable",
                   IF input.spec_url.isfile THEN None ELSE "SpecUrlInvalid"))
    /\ UNCHANGED <<input, budget, sourceVars, client, probed, probeMet, runVars>>

\* How long the probe takes. wait_for bounds that of a store as a whole.
ProbeTime ==
    LET timeout == ProbeTimeout(budget)
    IN  IF client = "open"
        THEN RequestTime(input.spec_url, endpoint, hiccup, timeout)
        ELSE IF probed # None /\ outage[probed] = "silent" THEN timeout
        ELSE 0

\* The probe answers, or httpx gives up on one of its phases.
ProbeUrl ==
    LET timeout == ProbeTimeout(budget)
        e == RequestError(input.spec_url, endpoint, hiccup, timeout)
        reached == With("spec_source_reachable", None)
    IN  /\ gate = "probing" /\ client = "open"
        /\ ProbeTime <= 10 * budget
        /\ IF e = NoError
           THEN Report([n \in DOMAIN reached \cup {"spec_content_type_plausible"} |->
                          IF n # "spec_content_type_plausible" THEN reached[n]
                          ELSE IF endpoint.media = "html" THEN "SpecFetchClient"
                          ELSE None])
           ELSE IF e.leaf \in Untyped THEN Raise("untyped")
           ELSE IF Transient(e) THEN Raise("transient")
           ELSE Report(With("spec_source_reachable", e.leaf))
        /\ Close
        /\ probeMet' = hiccup
        /\ UNCHANGED <<input, budget, sourceVars, probed, runVars>>

\* Mutant: nothing enforces the budget.
Overrun_Unenforced == FALSE /\ UNCHANGED vars

\* The gate cancels a handler that overruns the budget.
Overrun ==
    /\ gate = "probing"
    /\ ProbeTime >= 10 * budget
    /\ Raise("overrun")
    /\ Close
    /\ UNCHANGED <<input, budget, sourceVars, probed, probeMet, runVars>>

\* No answer, and a failure that cannot be attributed, are no verdict.
ProbeStore ==
    /\ gate = "probing" /\ IsCloud(input)
    /\ LET condition == Answered(probed)
           e == StoreError(input.location, condition)
       IN  IF outage[probed] = "silent" THEN Raise("transient")
           ELSE Report(With("cloud_spec_credential_valid",
                            IF e # None THEN e
                            ELSE IF Found(input.location, condition.files) THEN None
                            ELSE "CloudSpecNotFound"))
    /\ probeMet' = outage[probed]
    /\ UNCHANGED <<input, budget, sourceVars, client, probed, runVars>>

----------------------------------------------------------------------------
(* The run *)

StartRun ==
    /\ gate = "over" /\ run = "waiting"
    /\ IF InputError(input) # None
       THEN run' = "failed" /\ error' = InputError(input)
       ELSE run' = "reading" /\ UNCHANGED error
    /\ UNCHANGED <<input, budget, sourceVars, gateVars, attempt, readMet>>

\* The possible errors of one attempt at reading the spec; None if it is read.
\* A refusal of the tenant's store is blamed on nobody, as an outage is.
ReadErrors ==
    IF input.import_type = "CLOUD"
    THEN LET condition == Answered(StoreRead(input))
             e == StoreError(input.location, condition)
             files == Selected(input.location, condition.files)
             errors == {FetchFileError(f).leaf : f \in files} \ {None}
         IN  IF \/ outage[StoreRead(input)] = "silent"
                \/ e # None /\ StoreRead(input) \notin Stores
             THEN {"StoreUnavailable"}
             ELSE IF e # None THEN {e}
             ELSE IF files = {} THEN {"CloudSpecNotFound"}
             ELSE IF errors # {} THEN errors
             ELSE {None}
    ELSE {FetchError(input.spec_url, endpoint, hiccup).leaf}

Retry(e) == /\ Retried(e) \/ e = "StoreUnavailable"
            /\ attempt < MaxAttempts

Read ==
    /\ run = "reading"
    /\ \E e \in ReadErrors :
         IF e = None
         THEN run' = "done" /\ UNCHANGED <<error, attempt>>
         ELSE IF Retry(e)
         THEN attempt' = attempt + 1 /\ UNCHANGED <<run, error>>
         ELSE run' = "failed" /\ error' = e /\ UNCHANGED attempt
    /\ readMet' = IF run' = "failed" THEN Met(input, StoreRead(input)) ELSE readMet
    /\ UNCHANGED <<input, budget, sourceVars, gateVars>>

----------------------------------------------------------------------------
(* The source *)

\* Of the endpoint of a URL, or of a store.
Hiccup ==
    /\ run # "done" /\ run # "failed"
    /\ hiccups < MaxHiccups
    /\ hiccups' = hiccups + 1
    /\ \/ /\ ~IsCloud(input)
          /\ hiccup' \in (Hiccups \cup {Steady}) \ {hiccup}
          /\ UNCHANGED outage
       \/ /\ IsCloud(input)
          /\ \E s \in DOMAIN stores :
                \E o \in (Outages \cup {None}) \ {outage[s]} :
                   outage' = [outage EXCEPT ![s] = o]
          /\ UNCHANGED hiccup
    /\ UNCHANGED <<input, budget, endpoint, stores, changed, gateVars, runVars>>

OwnerChanges ==
    /\ gate = "over" /\ run # "done" /\ run # "failed" /\ ~changed
    /\ changed' = TRUE
    /\ \E s \in DOMAIN stores :
          \E to \in {[endpoint |-> x.endpoint, store |-> x.stores[s]] :
                        x \in Sources(input)} :
             /\ endpoint' = to.endpoint
             /\ stores' = [stores EXCEPT ![s] = to.store]
    /\ UNCHANGED <<input, budget, hiccup, outage, hiccups, gateVars, runVars>>

Init ==
    /\ input \in Inputs /\ budget \in Budgets
    /\ \E from \in Sources(input) : endpoint = from.endpoint /\ stores = from.stores
    /\ hiccup = Steady
    /\ outage = [s \in DOMAIN stores |-> None]
    /\ changed = FALSE /\ hiccups = 0
    /\ gate = "begin" /\ rows = <<>> /\ verdict = None
    /\ client = None /\ probed = None /\ probeMet = Steadily(input)
    /\ run = "waiting" /\ error = None /\ attempt = 1 /\ readMet = Steadily(input)

Gate == \/ CheckUrlConfigured \/ CheckCloudLocation \/ CheckLocalPath
        \/ ProbeUrl \/ Overrun \/ ProbeStore

Next == Gate \/ StartRun \/ Read \/ Hiccup \/ OwnerChanges

\* The handler's deadline and Temporal's timeouts end what hangs.
Spec == Init /\ [][Next]_vars /\ WF_vars(Gate) /\ WF_vars(StartRun \/ Read)

----------------------------------------------------------------------------
(* Properties *)

TypeOK ==
    /\ input \in Inputs /\ budget \in Budgets
    /\ endpoint \in {from.endpoint : from \in Sources(input)}
    /\ DOMAIN stores = Stores \cup {"tenant"}
    /\ hiccup \in Hiccups \cup {Steady}
    /\ outage \in [Stores \cup {"tenant"} -> Outages \cup {None}]
    /\ probeMet \in Conditions(input) /\ readMet \in Conditions(input)
    /\ gate \in {"begin", "probing", "over"}
    /\ DOMAIN rows \subseteq
         {"spec_url_configured", "spec_source_reachable",
          "spec_content_type_plausible", "cloud_spec_location_configured",
          "cloud_spec_credential_valid"}
    /\ verdict \in {None, "READY", "NOT_READY", "transient", "untyped", "overrun"}
    /\ client \in {None, "open", "closed"}
    /\ probed \in Stores \cup {None}
    /\ run \in {"waiting", "reading", "done", "failed"}
    /\ attempt \in 1..MaxAttempts

(***************************************************************************)
(* _MANDATORY_CHECKS: a failed mandatory check means the run is            *)
(* deterministically going to fail, until the owner changes something.     *)
(***************************************************************************)
BlockedRunIsDoomed == verdict = "NOT_READY" /\ ~changed => run # "done"

\* What SpecSourceTransientError names: a 429, a 5xx, or reached but not
\* answering. The last fails a request after its connection is made.
Blip(h) ==
    \/ /\ h.network = None
       /\ StatusError(h.status) \in {"SpecFetchRateLimited", "SpecSourceUnavailable"}
    \/ h.network \in {"ReadTimeout", "WriteTimeout", "PoolTimeout",
                      "ReadError", "WriteError", "RemoteProtocolError"}

\* The probe met a passing refusal: of its connection, of its host name, a
\* status that is no blip, or an error of the store.
MetRefusal == IF IsCloud(input) THEN probeMet \in StoreErrors
                                ELSE probeMet # Steady /\ ~Blip(probeMet)

\* Its host accepts no connection in the time the probe gives it.
ConnectsTooLate == /\ ~IsCloud(input) /\ endpoint.connect # None
                 /\ endpoint.connect > ProbeTimeout(budget)

\* In agent mode the run may read with another credential than the probed one.
ReadsAnother == IsCloud(input) /\ input.agent # None /\ StoreRead(input) # probed

(***************************************************************************)
(* SpecSourceTransientError: a blip at the spec host can never abort a     *)
(* healthy run. If a run the gate found not ready succeeds though nothing  *)
(* was changed, the probe met a passing refusal, which the handler takes   *)
(* for a stable fact; or the endpoint connects in the time of a fetch but  *)
(* not of a probe; or agent_json names another credential. Nothing else    *)
(* that comes and goes, before, during or after the probe or between the   *)
(* run's attempts, blocks a run that would succeed.                        *)
(***************************************************************************)
Misjudged == MetRefusal \/ ConnectsTooLate \/ ReadsAnother

NoBlipBlocks == verdict = "NOT_READY" /\ ~changed /\ run = "done" => Misjudged

\* What the probe of a URL, and of a store, is able to see.
Visible == {"SpecUrlRequired", "SpecUrlInvalid", "SpecRedirectNotFollowed",
            "SpecFetchAuth", "SpecFetchForbidden", "SpecNotFound",
            "SpecFetchClient", "CloudSpecLocationRequired"} \cup StoreErrors

Probed == \/ "spec_source_reachable" \in DOMAIN rows /\ input.spec_url.scheme # "path"
          \/ probed # None /\ probed = StoreRead(input)

\* The error a passing refusal gives an attempt at reading.
RefusedBy(met) == IF IsCloud(input) THEN met
                  ELSE IF met.network = "gaierror" THEN "SpecUrlInvalid"
                  ELSE IF met.network = None /\ met.status # None
                  THEN StatusError(met.status)
                  ELSE None

(***************************************************************************)
(* A green gate is evidence: after a probe that found the source ready,    *)
(* the run is not refused what the probe was given, unless the owner       *)
(* changed something or the attempt it fails at meets a passing refusal.   *)
(* What a probe does not look at, the content of the document or of a      *)
(* subdirectory, may still fail it.                                        *)
(***************************************************************************)
ReadyIsNotRefused ==
    verdict = "READY" /\ Probed /\ ~changed
      => \/ error \notin Visible
         \/ error = RefusedBy(readMet)
         \/ /\ error = "CloudSpecNotFound"
            /\ \E f \in stores[probed].files : f.deep

\* However preflight_check ends, it leaves no HTTP client open.
NoClientLeaks == gate = "over" => client # "open"

\* The gate reaches an outcome and the run ends, whatever the source does.
RunEnds == <>(run \in {"done", "failed"})

(***************************************************************************)
(* A probe of an endpoint whose name resolves at once ends before the      *)
(* gate's deadline.                                                        *)
(***************************************************************************)
ProbeInsideBudget == verdict # "overrun"

\* Every failure of reading the document that ends a run is a typed error.
NothingUntyped == error \notin Untyped

(***************************************************************************)
(* A cloud file that passed the suffix filter and holds a good document of *)
(* the kind its suffix names is read.                                      *)
(***************************************************************************)
Good(file) == /\ file.body.value = "spec"
              /\ file.body.form = CASE LowerCase(file.ext) = ".json" -> "json"
                                    [] LowerCase(file.ext) = ".zip"  -> "zip"
                                    [] OTHER                         -> "yaml"

ListedSpecIsRead ==
    /\ input.import_type = "CLOUD" /\ input.location # None
    /\ ~changed
    /\ \A f \in Selected(input.location, stores[StoreRead(input)].files) :
          HasSuffix(f) /\ Good(f)
    => error \notin {"SpecParse", "BadZipFile", "ZipNoSpecFound"}
============================================================================
