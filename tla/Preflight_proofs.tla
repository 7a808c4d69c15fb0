--------------------------- MODULE Preflight_proofs ---------------------------
(***************************************************************************)
(* What a verdict of the preflight gate is worth, for every source, every  *)
(* input, every budget and any coming and going of failures, those the     *)
(* gate takes for transient and those it takes for a verdict.              *)
(***************************************************************************)
EXTENDS Preflight, TLAPS

----------------------------------------------------------------------------
(* The inductive invariants *)

\* Where the gate stands, and what it has filed so far.
Begin == gate = "begin" => client = None /\ probed = None /\ rows = <<>>

UrlProbe == gate = "probing" /\ ~IsCloud(input) =>
    /\ input.spec_url # None
    /\ client = IF input.spec_url.scheme = "path" THEN None ELSE "open"
    /\ rows = Row("spec_url_configured", None)

StoreProbe == gate = "probing" /\ IsCloud(input) =>
    /\ input.location # None
    /\ probed = input.cloud_source /\ ~Unprobed(input, probed)
    /\ rows = Row("cloud_spec_location_configured", None)

OneMode == IF IsCloud(input)
           THEN client = None /\ "spec_source_reachable" \notin DOMAIN rows
           ELSE probed = None

NotOver == gate # "over" => verdict = None /\ ~changed /\ run = "waiting"

\* How far the run has got.
Accepted == /\ run # "failed" => error = None
            /\ run \in {"reading", "done"} => InputError(input) = None

Base == TypeOK /\ Begin /\ UrlProbe /\ StoreProbe /\ OneMode /\ NotOver
          /\ Accepted /\ NoClientLeaks

\* No attempt at reading the source can succeed, whatever passes meanwhile.
UrlRefuses == \A h \in Hiccups \cup {Steady} :
                 FetchError(input.spec_url, endpoint, h).leaf # None

StoreRefuses == LET condition == stores[StoreRead(input)]
                IN  \/ StoreError(input.location, condition) # None
                    \/ Selected(input.location, condition.files) = {}

Doomed == \/ InputError(input) # None
          \/ IF IsCloud(input) THEN StoreRefuses ELSE UrlRefuses

Blocked == /\ verdict = "NOT_READY" /\ ~changed => Doomed \/ Misjudged
           /\ NoBlipBlocks

\* Where the probe has been, only what passes refuses an attempt at reading.
UrlServes == /\ input.spec_url # None /\ input.spec_url.scheme # "path"
             /\ \A h \in Hiccups \cup {Steady} :
                  LET f == RequestError(input.spec_url, endpoint, h, FetchTimeout).leaf
                  IN  f \in Visible => f = RefusedBy(h)

StoreServes == /\ input.location # None
               /\ StoreError(input.location, stores[probed]) = None
               /\ Found(input.location, stores[probed].files)

Served == /\ verdict = "READY" /\ Probed /\ ~changed
               => IF IsCloud(input) THEN StoreServes ELSE UrlServes
          /\ ReadyIsNotRefused
----------------------------------------------------------------------------
(* Reports *)

LEMMA VerdictOf ==
    ASSUME NEW checks
    PROVE  /\ Verdict(checks) \in {"READY", "NOT_READY"}
           /\ Verdict(checks) = "NOT_READY" <=>
                 \E name \in DOMAIN checks \cap Mandatory : checks[name] # None
  BY DEF Verdict

\* The second row of a report that began with one that passed.
LEMMA SecondRow ==
    ASSUME NEW first, rows = Row(first, None), NEW name, name # first, NEW e
    PROVE  /\ DOMAIN With(name, e) = {first, name}
           /\ With(name, e)[first] = None /\ With(name, e)[name] = e
  BY DEF With, Row

----------------------------------------------------------------------------
(* The gate's progress *)

LEMMA InitBase == Init => Base
<1> SUFFICES ASSUME Init PROVE Base
  OBVIOUS
<1>1. PICK from \in Sources(input) : endpoint = from.endpoint /\ stores = from.stores
  BY DEF Init
<1>2. DOMAIN stores = Stores \cup {"tenant"}
  BY <1>1, SourcesAssumption DEF Init
<1>3. DOMAIN rows = {} /\ attempt \in 1..MaxAttempts
  BY PreflightBounds DEF Init
<1>4. TypeOK
  BY <1>1, <1>2, <1>3 DEF Init, TypeOK, Steadily, Conditions
<1>5. Begin /\ UrlProbe /\ StoreProbe /\ NotOver /\ Accepted
  BY DEF Init, Begin, UrlProbe, StoreProbe, NotOver, Accepted
<1>6. OneMode /\ NoClientLeaks
  BY <1>3, NoneAssumption DEF Init, OneMode, NoClientLeaks
<1>7. QED
  BY <1>4, <1>5, <1>6 DEF Base

LEMMA CheckUrlConfiguredBase == ASSUME Base, CheckUrlConfigured PROVE Base'
<1> USE DEF Base
<1>1. /\ gate = "begin" /\ ~IsCloud(input)
      /\ UNCHANGED <<input, budget, sourceVars, probed, probeMet, runVars>>
      /\ client = None /\ probed = None
  BY DEF CheckUrlConfigured, Begin
<1>2. CASE input.spec_url = None
  <2>1. /\ gate' = "over" /\ rows' = Row("spec_url_configured", "SpecUrlRequired")
        /\ verdict' = Verdict(rows') /\ client' = None
    BY <1>1, <1>2 DEF CheckUrlConfigured, Report
  <2>2. verdict' \in {"READY", "NOT_READY"} /\ DOMAIN rows' = {"spec_url_configured"}
    BY <2>1, VerdictOf DEF Row
  <2>3. TypeOK'
    BY <1>1, <2>1, <2>2 DEF TypeOK, Conditions, IsCloud, sourceVars, runVars
  <2>4. Begin' /\ UrlProbe' /\ StoreProbe' /\ NotOver' /\ OneMode'
    BY <1>1, <2>1 DEF Begin, UrlProbe, StoreProbe, NotOver, OneMode
  <2>5. Accepted' /\ NoClientLeaks'
    BY <1>1, <2>1, NoneAssumption DEF Accepted, NoClientLeaks, runVars
  <2>6. QED
    BY <2>3, <2>4, <2>5
<1>3. CASE input.spec_url # None
  <2>1. /\ gate' = "probing" /\ rows' = Row("spec_url_configured", None)
        /\ client' = IF input.spec_url.scheme = "path" THEN None ELSE "open"
        /\ UNCHANGED verdict
    BY <1>3 DEF CheckUrlConfigured
  <2>2. DOMAIN rows' = {"spec_url_configured"}
    BY <2>1 DEF Row
  <2>3. TypeOK'
    BY <1>1, <2>1, <2>2 DEF TypeOK, Conditions, IsCloud, sourceVars, runVars
  <2>4. Begin' /\ StoreProbe' /\ NotOver' /\ OneMode'
    BY <1>1, <2>1 DEF Begin, StoreProbe, NotOver, OneMode, runVars, sourceVars
  <2>5. UrlProbe'
    BY <1>1, <1>3, <2>1 DEF UrlProbe, Row
  <2>6. Accepted' /\ NoClientLeaks'
    BY <1>1, <2>1 DEF Accepted, NoClientLeaks, runVars
  <2>7. QED
    BY <2>3, <2>4, <2>5, <2>6
<1>4. QED
  BY <1>2, <1>3

LEMMA CheckCloudLocationBase == ASSUME Base, CheckCloudLocation PROVE Base'
<1> USE DEF Base
<1>1. /\ gate = "begin" /\ IsCloud(input)
      /\ UNCHANGED <<input, budget, sourceVars, client, probeMet, runVars>>
      /\ client = None /\ probed = None
  BY DEF CheckCloudLocation, Begin
<1> DEFINE located == Row("cloud_spec_location_configured", None)
           missing == Row("cloud_spec_location_configured", "CloudSpecLocationRequired")
           unprobed == [n \in {"cloud_spec_location_configured",
                               "cloud_spec_credential_valid"} |-> None]
<1>2. ASSUME Report(missing) \/ Report(unprobed), UNCHANGED probed PROVE Base'
  <2>1. /\ gate' = "over" /\ verdict' \in {"READY", "NOT_READY"}
        /\ DOMAIN rows' \subseteq {"cloud_spec_location_configured",
                                   "cloud_spec_credential_valid"}
    BY <1>2, VerdictOf DEF Report, Row
  <2>2. TypeOK'
    BY <1>1, <1>2, <2>1 DEF TypeOK, Conditions, IsCloud, sourceVars, runVars
  <2>3. Begin' /\ UrlProbe' /\ StoreProbe' /\ NotOver' /\ OneMode'
    BY <1>1, <2>1 DEF Begin, UrlProbe, StoreProbe, NotOver, OneMode
  <2>4. Accepted' /\ NoClientLeaks'
    BY <1>1, NoneAssumption DEF Accepted, NoClientLeaks, runVars
  <2>5. QED
    BY <2>2, <2>3, <2>4
<1>3. ASSUME NEW store \in GateStores(input), ~Unprobed(input, store),
             input.location # None, gate' = "probing", rows' = located,
             probed' = store, UNCHANGED verdict
      PROVE  Base'
  <2>1. store \in Stores /\ store = input.cloud_source
    BY <1>3, NoneAssumption DEF Unprobed, GateStores
  <2>2. DOMAIN rows' = {"cloud_spec_location_configured"}
    BY <1>3 DEF Row
  <2>3. TypeOK'
    BY <1>1, <1>3, <2>1, <2>2 DEF TypeOK, Conditions, IsCloud, sourceVars, runVars
  <2>4. Begin' /\ UrlProbe' /\ NotOver' /\ OneMode'
    BY <1>1, <1>3, <2>2 DEF Begin, UrlProbe, NotOver, OneMode, runVars, sourceVars
  <2>5. StoreProbe'
    BY <1>1, <1>3, <2>1 DEF StoreProbe, Row, Unprobed
  <2>6. Accepted' /\ NoClientLeaks'
    BY <1>1, <1>3 DEF Accepted, NoClientLeaks, runVars
  <2>7. QED
    BY <2>3, <2>4, <2>5, <2>6
<1> HIDE DEF located, missing, unprobed
<1>4. QED
  BY <1>2, <1>3 DEF CheckCloudLocation, located, missing, unprobed

\* A probe ends in a report or without one, and its client is closed.
LEMMA ProbeEndsBase ==
    ASSUME Base, gate = "probing", gate' = "over", client' # "open",
           UNCHANGED <<input, budget, sourceVars, probed, runVars>>,
           probeMet' \in Conditions(input),
           verdict' \in {"READY", "NOT_READY", "transient", "untyped", "overrun"},
           IF IsCloud(input)
           THEN /\ client' = client
                /\ DOMAIN rows' \subseteq {"cloud_spec_location_configured",
                                           "cloud_spec_credential_valid"}
           ELSE /\ client' \in {None, "closed"}
                /\ DOMAIN rows' \subseteq
                     {"spec_url_configured", "spec_source_reachable",
                      "spec_content_type_plausible"}
    PROVE  Base'
<1> USE DEF Base
<1>1. TypeOK'
  BY DEF TypeOK, Conditions, IsCloud, sourceVars, runVars
<1>2. Begin' /\ UrlProbe' /\ StoreProbe' /\ NotOver' /\ OneMode'
  BY DEF Begin, UrlProbe, StoreProbe, NotOver, OneMode, IsCloud
<1>3. Accepted' /\ NoClientLeaks'
  BY DEF Accepted, NoClientLeaks, runVars
<1>4. QED
  BY <1>1, <1>2, <1>3
LEMMA LocalPathFiles ==
    ASSUME Base, CheckLocalPath
    PROVE  /\ gate = "probing" /\ ~IsCloud(input) /\ client = None
           /\ input.spec_url # None /\ input.spec_url.scheme = "path"
           /\ gate' = "over" /\ verdict' = Verdict(rows')
           /\ DOMAIN rows' = {"spec_url_configured", "spec_source_reachable"}
           /\ rows'["spec_url_configured"] = None
           /\ rows'["spec_source_reachable"] =
                 IF input.spec_url.isfile THEN None ELSE "SpecUrlInvalid"
           /\ UNCHANGED <<input, budget, sourceVars, client, probed, probeMet, runVars>>
<1> DEFINE e == IF input.spec_url.isfile THEN None ELSE "SpecUrlInvalid"
<1>1. /\ gate = "probing" /\ ~IsCloud(input) /\ input.spec_url.scheme = "path"
      /\ gate' = "over" /\ verdict' = Verdict(rows')
      /\ rows' = With("spec_source_reachable", e)
      /\ UNCHANGED <<input, budget, sourceVars, client, probed, probeMet, runVars>>
  BY DEF CheckLocalPath, Report
<1>2. /\ input.spec_url # None /\ client = None
      /\ rows = Row("spec_url_configured", None)
  BY <1>1 DEF Base, UrlProbe
<1> HIDE DEF e
<1>3. ASSUME NEW x
      PROVE  /\ DOMAIN With("spec_source_reachable", x) =
                   {"spec_url_configured", "spec_source_reachable"}
             /\ With("spec_source_reachable", x)["spec_url_configured"] = None
             /\ With("spec_source_reachable", x)["spec_source_reachable"] = x
  <2>1. rows = Row("spec_url_configured", None)
    BY <1>2
  <2>2. "spec_source_reachable" # "spec_url_configured"
    OBVIOUS
  <2>3. QED
    BY ONLY <2>1, <2>2, SecondRow
<1>4. QED
  BY <1>1, <1>2, <1>3 DEF e

LEMMA CheckLocalPathBase == ASSUME Base, CheckLocalPath PROVE Base'
<1>1. verdict' \in {"READY", "NOT_READY"}
  BY LocalPathFiles, VerdictOf
<1>2. client' = None /\ None # "open" /\ probeMet' \in Conditions(input)
  BY LocalPathFiles, NoneAssumption DEF Base, TypeOK
<1>3. QED
  BY <1>1, <1>2, LocalPathFiles, ProbeEndsBase

\* How the probe of a URL can end.
UrlRows(e) ==
    /\ gate' = "over" /\ verdict' = Verdict(rows')
    /\ DOMAIN rows' \subseteq {"spec_url_configured", "spec_source_reachable",
                               "spec_content_type_plausible"}
    /\ {"spec_url_configured", "spec_source_reachable"} \subseteq DOMAIN rows'
    /\ rows'["spec_url_configured"] = None
    /\ rows'["spec_source_reachable"] = e

LEMMA ProbeUrlFiles ==
    ASSUME Base, ProbeUrl
    PROVE  LET e == RequestError(input.spec_url, endpoint, hiccup, ProbeTimeout(budget))
           IN  /\ gate = "probing" /\ ~IsCloud(input) /\ input.spec_url # None
               /\ input.spec_url.scheme # "path"
               /\ UNCHANGED <<input, budget, sourceVars, probed, runVars>>
               /\ probeMet' = hiccup
               /\ client' = "closed" /\ gate' = "over"
               /\ \/ e = NoError /\ UrlRows(None)
                  \/ e # NoError /\ verdict' \in {"untyped", "transient"}
                                /\ UNCHANGED rows
                  \/ /\ e # NoError /\ e.leaf \notin Untyped /\ ~Transient(e)
                     /\ UrlRows(e.leaf)
<1> DEFINE e == RequestError(input.spec_url, endpoint, hiccup, ProbeTimeout(budget))
           reached == With("spec_source_reachable", None)
           media == IF endpoint.media = "html" THEN "SpecFetchClient" ELSE None
           all == [n \in DOMAIN reached \cup {"spec_content_type_plausible"} |->
                     IF n # "spec_content_type_plausible" THEN reached[n] ELSE media]
<1>1. /\ gate = "probing" /\ client = "open" /\ client' = "closed"
      /\ UNCHANGED <<input, budget, sourceVars, probed, runVars>>
      /\ probeMet' = hiccup
      /\ IF e = NoError THEN Report(all)
         ELSE IF e.leaf \in Untyped THEN Raise("untyped")
         ELSE IF Transient(e) THEN Raise("transient")
         ELSE Report(With("spec_source_reachable", e.leaf))
  BY DEF ProbeUrl, Close
<1> HIDE DEF e
<1>2. ~IsCloud(input)
  BY <1>1, NoneAssumption DEF Base, OneMode
<1>3. /\ input.spec_url # None /\ input.spec_url.scheme # "path"
      /\ rows = Row("spec_url_configured", None)
  BY <1>1, <1>2, NoneAssumption DEF Base, UrlProbe
<1>4. ASSUME NEW x
      PROVE  /\ DOMAIN With("spec_source_reachable", x) =
                   {"spec_url_configured", "spec_source_reachable"}
             /\ With("spec_source_reachable", x)["spec_url_configured"] = None
             /\ With("spec_source_reachable", x)["spec_source_reachable"] = x
  BY <1>3, SecondRow
<1>5. /\ DOMAIN all = {"spec_url_configured", "spec_source_reachable",
                      "spec_content_type_plausible"}
      /\ all["spec_url_configured"] = None /\ all["spec_source_reachable"] = None
  <2>1. /\ DOMAIN reached = {"spec_url_configured", "spec_source_reachable"}
        /\ reached["spec_url_configured"] = None
        /\ reached["spec_source_reachable"] = None
    BY <1>4
  <2> HIDE DEF reached, media
  <2>2. QED
    BY <2>1
<1> HIDE DEF all
<1>6. CASE e = NoError
  BY <1>1, <1>2, <1>3, <1>5, <1>6 DEF Report, UrlRows, e
<1>7. CASE e # NoError /\ (e.leaf \in Untyped \/ Transient(e))
  BY <1>1, <1>2, <1>3, <1>7 DEF Raise, e
<1>8. CASE e # NoError /\ e.leaf \notin Untyped /\ ~Transient(e)
  <2>1. Report(With("spec_source_reachable", e.leaf))
    BY <1>1, <1>8
  <2>2. UrlRows(e.leaf)
    BY <1>4, <2>1 DEF Report, UrlRows
  <2>3. QED
    BY <1>1, <1>2, <1>3, <1>8, <2>2 DEF UrlRows, e
<1>9. QED
  BY <1>6, <1>7, <1>8

LEMMA ProbeUrlBase == ASSUME Base, ProbeUrl PROVE Base'
<1>1. verdict' \in {"READY", "NOT_READY", "transient", "untyped"}
  BY ProbeUrlFiles, VerdictOf DEF UrlRows
<1>2. DOMAIN rows' \subseteq {"spec_url_configured", "spec_source_reachable",
                             "spec_content_type_plausible"}
  <2>1. CASE UNCHANGED rows
    BY <2>1, ProbeUrlFiles DEF Base, UrlProbe, Row
  <2>2. CASE rows' # rows
    BY <2>2, ProbeUrlFiles DEF UrlRows
  <2>3. QED
    BY <2>1, <2>2
<1>3. probeMet' \in Conditions(input)
  BY ProbeUrlFiles DEF Base, TypeOK, Conditions
<1>4. QED
  BY <1>1, <1>2, <1>3, ProbeUrlFiles, ProbeEndsBase

LEMMA OverrunBase == ASSUME Base, Overrun PROVE Base'
<1>1. /\ gate = "probing" /\ gate' = "over" /\ verdict' = "overrun"
      /\ client' = (IF client = "open" THEN "closed" ELSE client) /\ UNCHANGED rows
      /\ UNCHANGED <<input, budget, sourceVars, probed, probeMet, runVars>>
  BY DEF Overrun, Raise, Close
<1>2. client' # "open" /\ probeMet' \in Conditions(input)
  BY <1>1 DEF Base, TypeOK
<1>3. CASE IsCloud(input)
  <2>1. client = None /\ rows = Row("cloud_spec_location_configured", None)
    BY <1>1, <1>3 DEF Base, StoreProbe, OneMode
  <2>2. client' = client
    BY <1>1, <2>1, NoneAssumption
  <2>3. QED
    BY <1>1, <1>2, <1>3, <2>1, <2>2, ProbeEndsBase DEF Row
<1>4. CASE ~IsCloud(input)
  <2>1. client \in {None, "open"} /\ rows = Row("spec_url_configured", None)
    BY <1>1, <1>4 DEF Base, UrlProbe
  <2>2. client' \in {None, "closed"}
    BY <1>1, <2>1
  <2>3. QED
    BY <1>1, <1>2, <1>4, <2>1, <2>2, ProbeEndsBase DEF Row
<1>5. QED
  BY <1>3, <1>4
StoreRow == LET condition == Answered(probed)
                e == StoreError(input.location, condition)
            IN  IF e # None THEN e
                ELSE IF Found(input.location, condition.files) THEN None
                ELSE "CloudSpecNotFound"

LEMMA ProbeStoreFiles ==
    ASSUME Base, ProbeStore
    PROVE  /\ gate = "probing" /\ IsCloud(input) /\ client = None
           /\ input.location # None /\ gate' = "over"
           /\ probed = input.cloud_source /\ ~Unprobed(input, probed)
           /\ UNCHANGED <<input, budget, sourceVars, client, probed, runVars>>
           /\ probeMet' = outage[probed]
           /\ \/ verdict' = "transient" /\ UNCHANGED rows
              \/ /\ verdict' = Verdict(rows')
                 /\ DOMAIN rows' = {"cloud_spec_location_configured",
                                   "cloud_spec_credential_valid"}
                 /\ rows'["cloud_spec_location_configured"] = None
                 /\ rows'["cloud_spec_credential_valid"] = StoreRow
<1>1. /\ gate = "probing" /\ IsCloud(input)
      /\ UNCHANGED <<input, budget, sourceVars, client, probed, runVars>>
      /\ probeMet' = outage[probed]
      /\ IF outage[probed] = "silent" THEN Raise("transient")
         ELSE Report(With("cloud_spec_credential_valid", StoreRow))
  BY DEF ProbeStore, StoreRow
<1>2. /\ input.location # None /\ client = None
      /\ probed = input.cloud_source /\ ~Unprobed(input, probed)
      /\ rows = Row("cloud_spec_location_configured", None)
  BY <1>1 DEF Base, StoreProbe, OneMode
<1>3. CASE outage[probed] = "silent"
  BY <1>1, <1>2, <1>3 DEF Raise
<1>4. CASE outage[probed] # "silent"
  <2>1. /\ gate' = "over" /\ verdict' = Verdict(rows')
        /\ rows' = With("cloud_spec_credential_valid", StoreRow)
    BY <1>1, <1>4 DEF Report
  <2>2. /\ DOMAIN rows' = {"cloud_spec_location_configured",
                          "cloud_spec_credential_valid"}
        /\ rows'["cloud_spec_location_configured"] = None
        /\ rows'["cloud_spec_credential_valid"] = StoreRow
    BY <1>2, <2>1, SecondRow
  <2>3. QED
    BY <1>1, <1>2, <2>1, <2>2
<1>5. QED
  BY <1>3, <1>4

LEMMA ProbeStoreBase == ASSUME Base, ProbeStore PROVE Base'
<1>1. verdict' \in {"READY", "NOT_READY", "transient"} /\ client' # "open"
  BY ProbeStoreFiles, VerdictOf, NoneAssumption
<1>2. DOMAIN rows' \subseteq {"cloud_spec_location_configured",
                             "cloud_spec_credential_valid"}
  <2>1. CASE UNCHANGED rows
    BY <2>1, ProbeStoreFiles DEF Base, StoreProbe, Row
  <2>2. CASE rows' # rows
    BY <2>2, ProbeStoreFiles
  <2>3. QED
    BY <2>1, <2>2
<1>3. probeMet' \in Conditions(input)
  <2>1. probed \in Stores \cup {"tenant"}
    BY ProbeStoreFiles DEF Unprobed
  <2>2. QED
    BY <2>1, ProbeStoreFiles DEF Base, TypeOK, Conditions
<1>4. QED
  BY <1>1, <1>2, <1>3, ProbeStoreFiles, ProbeEndsBase

\* Neither the run nor its source touches the gate's state.
LEMMA GateStays ==
    ASSUME Base, UNCHANGED <<input, budget, gateVars>>, TypeOK', Accepted',
           gate # "over" => UNCHANGED <<changed, run>>
    PROVE  Base'
<1> USE DEF Base, gateVars
<1>1. Begin' /\ NoClientLeaks' /\ NotOver'
  BY DEF Begin, NoClientLeaks, NotOver
<1>2. UrlProbe' /\ StoreProbe' /\ OneMode'
  BY DEF UrlProbe, StoreProbe, OneMode, IsCloud, Unprobed
<1>3. QED
  BY <1>1, <1>2

LEMMA StartRunBase == ASSUME Base, StartRun PROVE Base'
<1> USE DEF Base
<1>1. /\ gate = "over" /\ run = "waiting" /\ error = None
      /\ UNCHANGED <<input, budget, sourceVars, gateVars, attempt, readMet>>
      /\ IF InputError(input) # None
         THEN run' = "failed" /\ error' = InputError(input)
         ELSE run' = "reading" /\ UNCHANGED error
  BY DEF StartRun, Accepted
<1>2. TypeOK'
  BY <1>1 DEF TypeOK, Conditions, IsCloud, sourceVars, gateVars
<1>3. Accepted'
  BY <1>1 DEF Accepted
<1>4. QED
  BY <1>1, <1>2, <1>3, GateStays

LEMMA ReadBase == ASSUME Base, Read PROVE Base'
<1> USE DEF Base
<1>1. /\ run = "reading" /\ error = None /\ InputError(input) = None
      /\ UNCHANGED <<input, budget, sourceVars, gateVars>>
  BY DEF Read, Accepted
<1>2. \/ run' = "done" /\ UNCHANGED <<error, attempt>>
      \/ attempt < MaxAttempts /\ attempt' = attempt + 1 /\ UNCHANGED <<run, error>>
      \/ run' = "failed" /\ UNCHANGED attempt
  BY DEF Read, Retry
<1>3. TypeOK'
  <2>1. attempt' \in 1..MaxAttempts
    BY <1>2, PreflightBounds DEF TypeOK
  <2>2. run' \in {"waiting", "reading", "done", "failed"}
    BY <1>1, <1>2
  <2>3. readMet' \in Conditions(input)
    <3>1. Met(input, StoreRead(input)) \in Conditions(input)
      BY DEF TypeOK, Met, Conditions, StoreRead
    <3>2. readMet' = IF run' = "failed" THEN Met(input, StoreRead(input)) ELSE readMet
      BY DEF Read
    <3>3. QED
      BY <3>1, <3>2 DEF TypeOK
  <2>4. QED
    BY <1>1, <2>1, <2>2, <2>3 DEF TypeOK, Conditions, IsCloud, sourceVars, gateVars
<1>4. Accepted'
  BY <1>1, <1>2 DEF Accepted
<1>5. gate = "over"
  BY <1>1 DEF NotOver
<1>6. QED
  BY <1>1, <1>3, <1>4, <1>5, GateStays

LEMMA HiccupBase == ASSUME Base, Hiccup PROVE Base'
<1> USE DEF Base
<1>1. /\ UNCHANGED <<input, budget, endpoint, stores, changed, gateVars, runVars>>
      /\ hiccup' \in Hiccups \cup {Steady}
  BY DEF Hiccup, TypeOK
<1>2. outage' \in [Stores \cup {"tenant"} -> Outages \cup {None}]
  BY DEF Hiccup, TypeOK
<1> HIDE DEF Base
<1>3. TypeOK'
  BY <1>1, <1>2 DEF Base, TypeOK, Conditions, IsCloud, gateVars, runVars
<1>4. Accepted'
  BY <1>1 DEF Base, Accepted, runVars
<1>5. QED
  BY <1>1, <1>3, <1>4, GateStays DEF runVars

LEMMA OwnerChangesBase == ASSUME Base, OwnerChanges PROVE Base'
<1> USE DEF Base
<1>1. /\ gate = "over"
      /\ UNCHANGED <<input, budget, hiccup, outage, hiccups, gateVars, runVars>>
  BY DEF OwnerChanges
<1>2. PICK s \in DOMAIN stores :
         \E to \in {[endpoint |-> x.endpoint, store |-> x.stores[s]] :
                       x \in Sources(input)} :
            endpoint' = to.endpoint /\ stores' = [stores EXCEPT ![s] = to.store]
  BY DEF OwnerChanges
<1>3. /\ endpoint' \in {from.endpoint : from \in Sources(input)}
      /\ DOMAIN stores' = DOMAIN stores
  BY <1>2
<1>4. TypeOK'
  BY <1>1, <1>3 DEF TypeOK, Conditions, IsCloud, gateVars, runVars
<1>5. Accepted'
  BY <1>1 DEF Accepted, runVars
<1>6. QED
  BY <1>1, <1>4, <1>5, GateStays

LEMMA NextBase == ASSUME Base, [Next]_vars PROVE Base'
<1>1. CASE UNCHANGED vars
  <2>1. UNCHANGED <<input, budget, sourceVars, gateVars, runVars>>
    BY <1>1 DEF vars
  <2>2. TypeOK' /\ Accepted' /\ UNCHANGED <<changed, run>>
    BY <2>1 DEF Base, TypeOK, Conditions, IsCloud, Accepted,
               sourceVars, gateVars, runVars
  <2>3. QED
    BY <2>1, <2>2, GateStays
<1>2. CASE Gate
  BY <1>2, CheckUrlConfiguredBase, CheckCloudLocationBase, CheckLocalPathBase,
     ProbeUrlBase, OverrunBase, ProbeStoreBase DEF Gate
<1>3. CASE StartRun \/ Read \/ Hiccup \/ OwnerChanges
  BY <1>3, StartRunBase, ReadBase, HiccupBase, OwnerChangesBase
<1>4. QED
  BY <1>1, <1>2, <1>3 DEF Next

\* The gate and the run go through the states the handler and Temporal
\* allow, and only through those.
THEOREM PreflightTypeOK == Spec => []TypeOK
<1>1. Base => TypeOK
  BY DEF Base
<1>2. QED
  BY <1>1, InitBase, NextBase, PTL DEF Spec

\* preflight_check closes its HTTP client on every way out, its cancellation
\* at the deadline included.
THEOREM ClientTheorem == Spec => []NoClientLeaks
<1>1. Base => NoClientLeaks
  BY DEF Base
<1>2. QED
  BY <1>1, InitBase, NextBase, PTL DEF Spec
----------------------------------------------------------------------------
(* What a request and a read end with *)

LEMMA ProbeTimeoutBounds ==
    ASSUME NEW seconds \in Budgets
    PROVE  ProbeTimeout(seconds) \in 10..300 /\ ProbeTimeout(seconds) <= FetchTimeout
  BY PreflightBounds DEF ProbeTimeout, AtMost, FetchTimeout

LEMMA RequestEnds ==
    ASSUME NEW url, NEW from, NEW h, NEW t
    PROVE  LET e == RequestError(url, from, h, t)
               v == ValidationError(url, from, h)
               n == NetworkError(from, h, t)
               s == StatusError(Status(from, h))
           IN  /\ e.leaf = IF v # None THEN v
                           ELSE IF n # None THEN "SpecSourceUnavailable" ELSE s
               /\ v = None /\ n # None => e.network = n
               /\ v = None /\ n = None /\ s # None => e.status = Status(from, h)
               /\ e.leaf = None => e = NoError
               /\ e = NoError => v = None /\ n = None /\ s = None
<1> DEFINE v == ValidationError(url, from, h)
           n == NetworkError(from, h, t)
           s == StatusError(Status(from, h))
           e == RequestError(url, from, h, t)
<1>1. e = IF v # None THEN [leaf |-> v, network |-> None, status |-> None]
          ELSE IF n # None
          THEN [leaf |-> "SpecSourceUnavailable", network |-> n, status |-> None]
          ELSE IF s # None
          THEN [leaf |-> s, network |-> None, status |-> Status(from, h)]
          ELSE NoError
  BY DEF RequestError, Typed, NoError
<1> HIDE DEF v, n, s, e
<1>2. e.leaf = IF v # None THEN v
               ELSE IF n # None THEN "SpecSourceUnavailable" ELSE s
  BY <1>1 DEF NoError
<1>3. v = None /\ n # None => e.network = n
  BY <1>1
<1>4. v = None /\ n = None /\ s # None => e.status = Status(from, h)
  BY <1>1
<1>5. e.leaf = None => e = NoError
  BY <1>1, <1>2, NoneAssumption
<1>6. e = NoError => v = None /\ n = None /\ s = None
  BY <1>2, NoneAssumption DEF NoError
<1>7. QED
  BY <1>2, <1>3, <1>4, <1>5, <1>6 DEF v, n, s, e

\* Only a name that does not resolve for now makes one URL valid and invalid.
LEMMA ValidationEnds ==
    ASSUME NEW url, NEW from, NEW h0, NEW h
    PROVE  /\ h0.network # "gaierror" /\ ValidationError(url, from, h0) # None
                => ValidationError(url, from, h) # None
           /\ ValidationError(url, from, h0) = None
                => \/ ValidationError(url, from, h) = None
                   \/ /\ h.network = "gaierror"
                      /\ ValidationError(url, from, h) = "SpecUrlInvalid"
  BY NoneAssumption DEF ValidationError, Untyped

\* An endpoint as SourcesAssumption has them.
Shaped(from) == /\ from.connect \in {None} \cup Nat
                /\ from.answer \in Nat /\ from.status \in Nat

LEMMA EndpointShaped == ASSUME TypeOK PROVE Shaped(endpoint)
  BY SourcesAssumption DEF TypeOK, Shaped

LEMMA NetworkEnds ==
    ASSUME NEW from, Shaped(from), NEW h, NEW t \in Nat
    PROVE  /\ NetworkError(from, h, t) = None => h.network = None
           /\ NetworkError(from, h, t) # None =>
                 \/ NetworkError(from, h, t) = "ReadTimeout"
                 \/ from.connect = None
                 \/ from.connect # None /\ from.connect > t
                 \/ h.network # None /\ NetworkError(from, h, t) = h.network
           /\ from.connect = None => NetworkError(from, h, t) # None
  BY NoneAssumption DEF NetworkError, Shaped

\* What passes is no status, or the status of an error.
LEMMA PassingStatus ==
    ASSUME NEW h \in Hiccups \cup {Steady}, h.network = None
    PROVE  h.status # None => StatusError(h.status) # None
  BY HiccupsAssumption DEF Steady

\* The failures of a request whose connection was made.
Unfinished == {"ReadTimeout", "WriteTimeout", "PoolTimeout",
               "ReadError", "WriteError", "RemoteProtocolError"}

\* The gate passed a verdict on a request that failed, and what it met was a
\* blip or nothing, so the next request fails too, whatever that one meets.
LEMMA RefusedIsRefused ==
    ASSUME NEW url, NEW from, Shaped(from), NEW seconds \in Budgets,
           NEW h0 \in Hiccups \cup {Steady}, h0 = Steady \/ Blip(h0),
           ~(from.connect # None /\ from.connect > ProbeTimeout(seconds)),
           RequestError(url, from, h0, ProbeTimeout(seconds)) # NoError,
           ~Transient(RequestError(url, from, h0, ProbeTimeout(seconds))),
           NEW h \in Hiccups \cup {Steady}
    PROVE  RequestError(url, from, h, FetchTimeout).leaf # None
<1> DEFINE t == ProbeTimeout(seconds)
           e0 == RequestError(url, from, h0, t)
           v0 == ValidationError(url, from, h0)
           n0 == NetworkError(from, h0, t)
           s0 == StatusError(Status(from, h0))
           e == RequestError(url, from, h, FetchTimeout)
           v == ValidationError(url, from, h)
           n == NetworkError(from, h, FetchTimeout)
           s == StatusError(Status(from, h))
<1>1. t \in Nat /\ FetchTimeout \in Nat
  BY ProbeTimeoutBounds DEF FetchTimeout
<1>2. /\ e0.leaf = IF v0 # None THEN v0
                   ELSE IF n0 # None THEN "SpecSourceUnavailable" ELSE s0
      /\ v0 = None /\ n0 # None => e0.network = n0
      /\ v0 = None /\ n0 = None /\ s0 # None => e0.status = Status(from, h0)
      /\ e0.leaf # None
  BY RequestEnds
<1>3. e.leaf = IF v # None THEN v
               ELSE IF n # None THEN "SpecSourceUnavailable" ELSE s
  BY RequestEnds
<1>4. h0.network = None \/ h0.network \in Unfinished
  BY DEF Steady, Blip, Unfinished
<1>5. v0 # None => v # None
  BY <1>4, ValidationEnds, NoneAssumption DEF Unfinished
<1>6. CASE v # None
  BY <1>3, <1>6
<1>7. CASE v = None /\ n0 # None
  <2>1. e0.leaf = "SpecSourceUnavailable" /\ e0.network = n0
    BY <1>2, <1>5, <1>7
  <2>2. n0 \notin Unfinished
    BY <2>1 DEF Transient, Unfinished
  <2>3. from.connect = None
    <3> HIDE DEF t
    <3>1. \/ n0 = "ReadTimeout" \/ from.connect = None
          \/ from.connect # None /\ from.connect > t
          \/ h0.network # None /\ n0 = h0.network
      BY <1>1, <1>7, NetworkEnds
    <3>2. ~(from.connect # None /\ from.connect > t)
      BY DEF t
    <3>3. QED
      BY <1>4, <2>2, <3>1, <3>2 DEF Unfinished
  <2>4. n # None
    BY <1>1, <2>3, NetworkEnds
  <2>5. QED
    BY <1>3, <1>7, <2>4, NoneAssumption
<1>8. CASE v = None /\ n0 = None
  <2>1. e0.leaf = s0 /\ s0 # None /\ e0.status = Status(from, h0)
    BY <1>2, <1>5, <1>8
  <2>2. h0.network = None
    BY <1>1, <1>8, NetworkEnds
  <2>3. h0.status = None
    <3> SUFFICES ASSUME h0.status # None PROVE FALSE
      OBVIOUS
    <3>1. Status(from, h0) = h0.status
      BY DEF Status
    <3>2. s0 \in {"SpecFetchRateLimited", "SpecSourceUnavailable"}
      BY <2>2, <3>1, NoneAssumption DEF Steady, Blip
    <3>3. QED
      BY <2>1, <3>1, <3>2 DEF Transient
  <2>4. CASE n # None
    BY <1>3, <1>8, <2>4, NoneAssumption
  <2>5. CASE n = None
    <3>1. h.network = None
      BY <1>1, <2>5, NetworkEnds
    <3>2. s # None
      BY <2>1, <2>3, <3>1, PassingStatus DEF Status
    <3>3. QED
      BY <1>3, <1>8, <2>5, <3>2
  <2>6. QED
    BY <2>4, <2>5
<1>9. QED
  BY <1>6, <1>7, <1>8

\* The probe was answered, so only what passes refuses a fetch what the probe
\* was given.
LEMMA ServedIsServed ==
    ASSUME NEW url, NEW from, Shaped(from),
           NEW seconds \in Budgets, NEW h0 \in Hiccups \cup {Steady},
           RequestError(url, from, h0, ProbeTimeout(seconds)) = NoError,
           NEW h \in Hiccups \cup {Steady}
    PROVE  LET f == RequestError(url, from, h, FetchTimeout).leaf
           IN  \/ f \in {None, "SpecSourceUnavailable"}
               \/ h.network = "gaierror" /\ f = "SpecUrlInvalid"
               \/ h.network = None /\ h.status # None /\ f = StatusError(h.status)
<1> DEFINE t == ProbeTimeout(seconds)
           v == ValidationError(url, from, h)
           n == NetworkError(from, h, FetchTimeout)
           f == RequestError(url, from, h, FetchTimeout).leaf
<1>1. t \in Nat /\ FetchTimeout \in Nat
  BY ProbeTimeoutBounds DEF FetchTimeout
<1>2. /\ ValidationError(url, from, h0) = None
      /\ NetworkError(from, h0, t) = None
      /\ StatusError(Status(from, h0)) = None
  BY RequestEnds
<1>3. h0.network = None
  BY <1>1, <1>2, NetworkEnds
<1>4. h0.status = None
  BY <1>2, <1>3, PassingStatus DEF Status
<1>5. StatusError(from.status) = None
  BY <1>2, <1>4 DEF Status
<1>6. f = IF v # None THEN v ELSE IF n # None THEN "SpecSourceUnavailable"
          ELSE StatusError(Status(from, h))
  BY RequestEnds
<1>7. v = None \/ (h.network = "gaierror" /\ v = "SpecUrlInvalid")
  BY <1>2, ValidationEnds
<1>8. n = None => h.network = None
  BY <1>1, NetworkEnds
<1>9. StatusError(Status(from, h)) = IF h.status # None THEN StatusError(h.status)
                                     ELSE None
  BY <1>5 DEF Status
<1> HIDE DEF v, n, f
<1>10. f \in {None, "SpecSourceUnavailable"}
         \/ (h.network = "gaierror" /\ f = "SpecUrlInvalid")
         \/ (h.network = None /\ h.status # None /\ f = StatusError(h.status))
  BY <1>6, <1>7, <1>8, <1>9, NoneAssumption
<1>11. QED
  BY <1>10 DEF f

\* A store that answers for now answers with its files, if it does not refuse.
LEMMA AnsweredOf ==
    ASSUME NEW s, NEW location
    PROVE  /\ Answered(s).files = stores[s].files
           /\ outage[s] \in StoreErrors
                => StoreError(location, Answered(s)) = outage[s]
           /\ outage[s] \notin StoreErrors
                => StoreError(location, Answered(s)) = StoreError(location, stores[s])
           /\ StoreError(location, stores[s]) # None
                => StoreError(location, Answered(s)) # None
<1>1. Answered(s).files = stores[s].files
  BY DEF Answered
<1>2. Answered(s).refusal = IF outage[s] \in StoreErrors THEN outage[s]
                            ELSE stores[s].refusal
  BY DEF Answered
<1>3. None \notin StoreErrors
  BY NoneAssumption
<1>4. QED
  BY <1>1, <1>2, <1>3 DEF StoreError
\* What is wrong with a document is not visible to a probe.
LEMMA BodyIsInvisible ==
    ASSUME NEW ext, NEW media, NEW body
    PROVE  BodyError(ext, media, body) \notin Visible
<1> DEFINE Bad == {None, "SpecParse", "BadZipFile", "ZipNoSpecFound",
                   "AttributeError", "NoValidSpecs"}
<1>1. ZipError(body) \in Bad
  BY DEF ZipError
<1>2. \A values : RecordsError(values) \in Bad
  BY DEF RecordsError
<1>3. \A yaml : ParseError(yaml, body) \in Bad
  BY DEF ParseError
<1> HIDE DEF Bad
<1>4. BodyError(ext, media, body) \in Bad
  BY <1>1, <1>2, <1>3 DEF BodyError
<1>5. Bad \cap Visible = {}
  BY NoneAssumption DEF Bad, Visible, StoreErrors
<1>6. QED
  BY <1>4, <1>5

LEMMA FileIsInvisible ==
    ASSUME NEW file
    PROVE  FetchFileError(file).leaf \notin Visible
<1>1. FetchFileError(file).leaf = BodyError(file.ext, "", file.body)
  BY DEF FetchFileError, Typed, NoError
<1>2. QED
  BY <1>1, BodyIsInvisible

\* The fetch of a URL fails as its request does, or by its body.
LEMMA FetchEnds ==
    ASSUME NEW url, NEW from, NEW h, ~(url.scheme = "path" /\ url.isfile)
    PROVE  LET e == RequestError(url, from, h, FetchTimeout).leaf
               f == FetchError(url, from, h).leaf
           IN  /\ e # None => f = e
               /\ e = None => f = BodyError(url.ext, from.media, from.body)
<1> DEFINE e == RequestError(url, from, h, FetchTimeout)
<1>1. e.leaf = None => e = NoError
  BY RequestEnds
<1>2. NoError.leaf = None
  BY DEF NoError
<1>3. FetchError(url, from, h) =
        IF e # NoError THEN e ELSE Typed(BodyError(url.ext, from.media, from.body))
  BY DEF FetchError
<1> HIDE DEF e
<1>4. Typed(BodyError(url.ext, from.media, from.body)).leaf
        = BodyError(url.ext, from.media, from.body)
  BY DEF Typed, NoError
<1>5. QED
  BY <1>1, <1>2, <1>3, <1>4 DEF e

LEMMA InputAccepted ==
    ASSUME NEW in, InputError(in) = None
    PROVE  /\ in.import_type \in {"CLOUD", "URL"}
           /\ in.import_type = "CLOUD" => in.location # None
           /\ in.import_type = "URL" => in.spec_url # None
  BY NoneAssumption DEF InputError

LEMMA InputMissing ==
    ASSUME NEW in
    PROVE  /\ InputError(in) = "CloudSpecLocationRequired"
                => in.import_type = "CLOUD" /\ in.location = None
           /\ InputError(in) = "SpecUrlRequired"
                => in.import_type = "URL" /\ in.spec_url = None
  BY NoneAssumption DEF InputError

----------------------------------------------------------------------------
(* A run the gate found not ready is doomed *)

LEMMA InitBlocked == Init => Blocked
  BY NoneAssumption DEF Init, Blocked, NoBlipBlocks

\* Once there is a verdict the gate is over; until its owner changes it, the
\* source refuses every attempt or none, and the verdict was as good.
LEMMA DoomStays ==
    ASSUME UNCHANGED <<input, endpoint, stores>>
    PROVE  Doomed' <=> Doomed
  BY DEF Doomed, UrlRefuses, StoreRefuses, IsCloud

LEMMA MisjudgedStays ==
    ASSUME UNCHANGED <<input, budget, endpoint, probed, probeMet>>
    PROVE  Misjudged' <=> Misjudged
  BY DEF Misjudged, MetRefusal, ConnectsTooLate, ReadsAnother, IsCloud

LEMMA GateBlocked ==
    ASSUME Base, Base', Gate, verdict' = "NOT_READY" => Doomed \/ Misjudged'
    PROVE  Blocked'
<1>1. gate # "over" /\ UNCHANGED <<input, sourceVars, runVars>>
  BY DEF Gate, CheckUrlConfigured, CheckCloudLocation, CheckLocalPath, ProbeUrl,
         Overrun, ProbeStore
<1>2. UNCHANGED <<endpoint, stores>> /\ run' = "waiting"
  BY <1>1 DEF Base, NotOver, sourceVars, runVars
<1>3. Doomed' <=> Doomed
  BY <1>1, <1>2, DoomStays
<1>4. QED
  BY <1>2, <1>3 DEF Blocked, NoBlipBlocks

LEMMA CheckUrlConfiguredBlocked ==
    ASSUME Base, CheckUrlConfigured, verdict' = "NOT_READY"
    PROVE  Doomed
<1>1. ~IsCloud(input) /\ verdict = None
  BY DEF CheckUrlConfigured, Base, NotOver
<1>2. input.spec_url = None
  BY <1>1, NoneAssumption DEF CheckUrlConfigured
<1>3. InputError(input) # None
  BY <1>1, <1>2, InputAccepted DEF IsCloud
<1>4. QED
  BY <1>3 DEF Doomed

LEMMA CheckCloudLocationBlocked ==
    ASSUME Base, CheckCloudLocation, verdict' = "NOT_READY"
    PROVE  Doomed
<1>1. IsCloud(input) /\ verdict = None
  BY DEF CheckCloudLocation, Base, NotOver
<1> DEFINE unprobed == [n \in {"cloud_spec_location_configured",
                               "cloud_spec_credential_valid"} |-> None]
<1>2. Verdict(unprobed) # "NOT_READY"
  <2>1. \A n \in DOMAIN unprobed : unprobed[n] = None
    OBVIOUS
  <2> HIDE DEF unprobed
  <2>2. QED
    BY <2>1, VerdictOf
<1>3. input.location = None
  <2> SUFFICES ASSUME input.location # None PROVE FALSE
    OBVIOUS
  <2>1. Report(unprobed) \/ UNCHANGED verdict
    BY DEF CheckCloudLocation
  <2> HIDE DEF unprobed
  <2>2. QED
    BY <1>1, <1>2, <2>1, NoneAssumption DEF Report
<1>4. InputError(input) # None
  BY <1>1, <1>3, InputAccepted DEF IsCloud
<1>5. QED
  BY <1>4 DEF Doomed

LEMMA CheckLocalPathBlocked ==
    ASSUME Base, CheckLocalPath, verdict' = "NOT_READY"
    PROVE  Doomed
<1>1. /\ ~IsCloud(input) /\ input.spec_url.scheme = "path"
      /\ verdict' = Verdict(rows')
      /\ DOMAIN rows' = {"spec_url_configured", "spec_source_reachable"}
      /\ rows'["spec_url_configured"] = None
      /\ rows'["spec_source_reachable"] =
            IF input.spec_url.isfile THEN None ELSE "SpecUrlInvalid"
  BY LocalPathFiles
<1>2. ~input.spec_url.isfile
  BY <1>1, VerdictOf
<1>3. \A h : ValidationError(input.spec_url, endpoint, h) = "SpecUrlInvalid"
  BY <1>1 DEF ValidationError
<1>4. ASSUME NEW h \in Hiccups \cup {Steady}
      PROVE  FetchError(input.spec_url, endpoint, h).leaf # None
  <2>1. RequestError(input.spec_url, endpoint, h, FetchTimeout).leaf # None
    BY <1>3, RequestEnds, NoneAssumption
  <2>2. QED
    BY <1>2, <2>1, FetchEnds
<1>5. QED
  BY <1>1, <1>4 DEF Doomed, UrlRefuses

LEMMA ProbeUrlBlocked ==
    ASSUME Base, ProbeUrl, verdict' = "NOT_READY"
    PROVE  Doomed \/ Misjudged'
<1> DEFINE e == RequestError(input.spec_url, endpoint, hiccup, ProbeTimeout(budget))
<1>1. /\ ~IsCloud(input) /\ input.spec_url.scheme # "path"
      /\ \/ e = NoError /\ UrlRows(None)
         \/ e # NoError /\ ~Transient(e)
  BY ProbeUrlFiles
<1>2. ~(e = NoError /\ UrlRows(None))
  <2> SUFFICES ASSUME UrlRows(None) PROVE FALSE
    OBVIOUS
  <2>1. \E name \in DOMAIN rows' \cap Mandatory : rows'[name] # None
    BY VerdictOf DEF UrlRows
  <2>2. QED
    BY <2>1 DEF UrlRows, Mandatory
<1>3. budget \in Budgets /\ hiccup \in Hiccups \cup {Steady} /\ Shaped(endpoint)
  BY EndpointShaped DEF Base, TypeOK
<1>4. /\ probeMet' = hiccup /\ ~IsCloud(input')
      /\ UNCHANGED <<input, budget, endpoint>>
  BY <1>1, ProbeUrlFiles DEF sourceVars
<1>5. SUFFICES ASSUME ~Misjudged' PROVE Doomed
  OBVIOUS
<1>6. /\ hiccup = Steady \/ Blip(hiccup)
      /\ ~(endpoint.connect # None /\ endpoint.connect > ProbeTimeout(budget))
  BY <1>4, <1>5 DEF Misjudged, MetRefusal, ConnectsTooLate
<1>7. ASSUME NEW h \in Hiccups \cup {Steady}
      PROVE  FetchError(input.spec_url, endpoint, h).leaf # None
  <2>1. RequestError(input.spec_url, endpoint, h, FetchTimeout).leaf # None
    BY <1>1, <1>2, <1>3, <1>6, RefusedIsRefused
  <2>2. QED
    BY <1>1, <2>1, FetchEnds
<1>8. QED
  BY <1>1, <1>7 DEF Doomed, UrlRefuses

\* The credential the gate probes is the one the run reads with, unless
\* agent_json names another.
LEMMA ReadsProbed ==
    ASSUME NEW in, ~Unprobed(in, in.cloud_source), in.agent = None
    PROVE  StoreRead(in) = in.cloud_source
  BY NoneAssumption DEF Unprobed, StoreRead, Credential, Routed

LEMMA ProbeStoreBlocked ==
    ASSUME Base, ProbeStore, verdict' = "NOT_READY"
    PROVE  Doomed \/ Misjudged'
<1>1. /\ IsCloud(input) /\ probed = input.cloud_source /\ ~Unprobed(input, probed)
      /\ verdict' = Verdict(rows')
      /\ DOMAIN rows' = {"cloud_spec_location_configured",
                        "cloud_spec_credential_valid"}
      /\ rows'["cloud_spec_location_configured"] = None
      /\ rows'["cloud_spec_credential_valid"] = StoreRow
      /\ probeMet' = outage[probed] /\ UNCHANGED <<input, probed>>
  BY ProbeStoreFiles
<1>2. StoreRow # None
  BY <1>1, VerdictOf
<1>3. SUFFICES ASSUME ~Misjudged' PROVE Doomed
  OBVIOUS
<1>4. outage[probed] \notin StoreErrors
  BY <1>1, <1>3 DEF Misjudged, MetRefusal, IsCloud
<1>5. StoreRead(input) = probed
  BY <1>1, <1>3, ReadsProbed DEF Misjudged, ReadsAnother, IsCloud
<1> DEFINE condition == stores[probed]
<1>6. \/ StoreError(input.location, condition) # None
      \/ ~Found(input.location, condition.files)
  BY <1>2, <1>4, AnsweredOf DEF StoreRow
<1>7. ~Found(input.location, condition.files)
        => Selected(input.location, condition.files) = {}
  BY DEF Found, Selected
<1>8. StoreRefuses
  BY <1>5, <1>6, <1>7 DEF StoreRefuses
<1>9. QED
  BY <1>1, <1>8 DEF Doomed
\* What an attempt at reading a store can end with.
LEMMA CloudReads ==
    ASSUME input.import_type = "CLOUD"
    PROVE  LET condition == Answered(StoreRead(input))
               e == StoreError(input.location, condition)
               files == Selected(input.location, condition.files)
           IN  /\ e # None => ReadErrors \subseteq {"StoreUnavailable", e}
               /\ e = None /\ files = {}
                    => ReadErrors \subseteq {"StoreUnavailable", "CloudSpecNotFound"}
               /\ e = None /\ files # {}
                    => \A x \in ReadErrors : x \notin Visible
<1> DEFINE condition == Answered(StoreRead(input))
           e == StoreError(input.location, condition)
           files == Selected(input.location, condition.files)
           errors == {FetchFileError(f).leaf : f \in files} \ {None}
           down == \/ outage[StoreRead(input)] = "silent"
                   \/ e # None /\ StoreRead(input) \notin Stores
<1>1. ReadErrors = IF down THEN {"StoreUnavailable"}
                   ELSE IF e # None THEN {e}
                   ELSE IF files = {} THEN {"CloudSpecNotFound"}
                   ELSE IF errors # {} THEN errors ELSE {None}
  BY DEF ReadErrors
<1>2. \A x \in errors : x \notin Visible
  BY FileIsInvisible
<1>3. "StoreUnavailable" \notin Visible /\ None \notin Visible
  BY NoneAssumption DEF Visible, StoreErrors
<1> HIDE DEF e, files, errors, down
<1>4. QED
  BY <1>1, <1>2, <1>3 DEF e, files

LEMMA ReadBlocked == ASSUME Base, Blocked, Read PROVE Blocked'
<1>1. /\ run = "reading" /\ hiccup \in Hiccups \cup {Steady}
      /\ UNCHANGED <<input, sourceVars, gateVars>>
  BY DEF Read, Base, TypeOK
<1>2. InputError(input) = None
  BY <1>1 DEF Base, Accepted
<1>3. (Doomed' <=> Doomed) /\ (Misjudged' <=> Misjudged)
  BY <1>1, DoomStays, MisjudgedStays DEF sourceVars, gateVars, Read
<1>4. ASSUME Doomed PROVE None \notin ReadErrors
  <2>1. CASE IsCloud(input)
    <3>1. input.import_type = "CLOUD" /\ StoreRefuses
      BY <1>2, <1>4, <2>1, InputAccepted DEF Doomed, IsCloud
    <3> DEFINE condition == Answered(StoreRead(input))
               e == StoreError(input.location, condition)
               files == Selected(input.location, condition.files)
    <3>2. e # None \/ files = {}
      BY <3>1, AnsweredOf DEF StoreRefuses
    <3>3. /\ e # None => ReadErrors \subseteq {"StoreUnavailable", e}
          /\ e = None /\ files = {}
               => ReadErrors \subseteq {"StoreUnavailable", "CloudSpecNotFound"}
      BY <3>1, CloudReads
    <3> HIDE DEF e, files
    <3>4. None \notin {"StoreUnavailable", "CloudSpecNotFound"}
      BY NoneAssumption DEF StoreErrors
    <3>5. QED
      BY <3>2, <3>3, <3>4
  <2>2. CASE ~IsCloud(input)
    <3>1. input.import_type # "CLOUD" /\ UrlRefuses
      BY <1>2, <1>4, <2>2 DEF Doomed, IsCloud
    <3>2. QED
      BY <1>1, <3>1 DEF UrlRefuses, ReadErrors
  <2>3. QED
    BY <2>1, <2>2
<1>5. run' = "done" => None \in ReadErrors
  BY <1>1 DEF Read
<1>6. verdict' = verdict /\ changed' = changed
  BY <1>1 DEF sourceVars, gateVars
<1>7. QED
  BY <1>3, <1>4, <1>5, <1>6 DEF Blocked, NoBlipBlocks

LEMMA StartRunBlocked == ASSUME Base, Blocked, StartRun PROVE Blocked'
<1>1. UNCHANGED <<input, sourceVars, gateVars>> /\ run' # "done"
  BY DEF StartRun
<1>2. (Doomed' <=> Doomed) /\ (Misjudged' <=> Misjudged)
  BY <1>1, DoomStays, MisjudgedStays DEF sourceVars, gateVars, StartRun
<1>3. QED
  BY <1>1, <1>2 DEF Blocked, NoBlipBlocks, sourceVars, gateVars

LEMMA SourceBlocked ==
    ASSUME Blocked, Hiccup \/ OwnerChanges \/ UNCHANGED vars
    PROVE  Blocked'
<1>1. UNCHANGED <<budget, verdict, run, probed, probeMet>>
  BY DEF Hiccup, OwnerChanges, vars, gateVars, runVars
<1>2. CASE UNCHANGED <<input, endpoint, stores, changed>>
  <2>1. (Doomed' <=> Doomed) /\ (Misjudged' <=> Misjudged)
    BY <1>1, <1>2, DoomStays, MisjudgedStays
  <2>2. QED
    BY <1>1, <1>2, <2>1 DEF Blocked, NoBlipBlocks
<1>3. CASE changed'
  BY <1>3 DEF Blocked, NoBlipBlocks
<1>4. UNCHANGED <<input, endpoint, stores, changed>> \/ changed'
  BY DEF Hiccup, OwnerChanges, vars, sourceVars
<1>5. QED
  BY <1>2, <1>3, <1>4

LEMMA NextBlocked == ASSUME Base, Blocked, [Next]_vars PROVE Blocked'
<1>1. CASE Gate
  <2>1. Base'
    BY NextBase, <1>1 DEF Next
  <2>2. verdict' = "NOT_READY" => Doomed \/ Misjudged'
    <3>1. Overrun => verdict' = "overrun"
      BY DEF Overrun, Raise
    <3>2. QED
      BY <1>1, <3>1, CheckUrlConfiguredBlocked, CheckCloudLocationBlocked,
         CheckLocalPathBlocked, ProbeUrlBlocked, ProbeStoreBlocked DEF Gate
  <2>3. QED
    BY <1>1, <2>1, <2>2, GateBlocked
<1>2. CASE StartRun \/ Read
  BY <1>2, StartRunBlocked, ReadBlocked
<1>3. CASE Hiccup \/ OwnerChanges \/ UNCHANGED vars
  BY <1>3, SourceBlocked
<1>4. QED
  BY <1>1, <1>2, <1>3 DEF Next

\* If a run the gate found not ready succeeds though its owner changed
\* nothing, the probe met a passing refusal, or the endpoint connects too late
\* for a probe, or agent_json names another credential than the probed one.
THEOREM VerdictTheorem == Spec => []NoBlipBlocks
<1>1. Base /\ Blocked /\ [Next]_vars => Base' /\ Blocked'
  BY NextBase, NextBlocked
<1>2. Blocked => NoBlipBlocks
  BY DEF Blocked
<1>3. QED
  BY <1>1, <1>2, InitBase, InitBlocked, PTL DEF Spec

----------------------------------------------------------------------------
(* A run the gate found ready is not refused *)

LEMMA InitServed == Init => Served
  BY NoneAssumption DEF Init, Served, ReadyIsNotRefused

LEMMA ServedStays ==
    ASSUME UNCHANGED <<input, endpoint, stores, rows, probed>>
    PROVE  /\ (IF IsCloud(input) THEN StoreServes ELSE UrlServes)'
                 <=> (IF IsCloud(input) THEN StoreServes ELSE UrlServes)
           /\ Probed' <=> Probed
  BY DEF StoreServes, UrlServes, RefusedBy, IsCloud, Probed

LEMMA NoErrorIsNoRefusal ==
    ASSUME NEW e, e = None
    PROVE  e \notin Visible
  BY NoneAssumption DEF Visible

LEMMA GateServed ==
    ASSUME Base, Base', Gate,
           verdict' = "READY" /\ Probed'
             => (IF IsCloud(input) THEN StoreServes ELSE UrlServes)'
    PROVE  Served'
<1>1. gate # "over" /\ UNCHANGED runVars
  BY DEF Gate, CheckUrlConfigured, CheckCloudLocation, CheckLocalPath, ProbeUrl,
         Overrun, ProbeStore
<1>2. error' = None
  BY <1>1 DEF Base, NotOver, Accepted, runVars
<1>3. ReadyIsNotRefused'
  BY <1>2, NoErrorIsNoRefusal DEF ReadyIsNotRefused, Visible
<1>4. QED
  BY <1>3 DEF Served
LEMMA CheckServed ==
    ASSUME Base, CheckUrlConfigured \/ CheckCloudLocation \/ CheckLocalPath
    PROVE  ~(verdict' = "READY" /\ Probed')
<1>1. CASE CheckUrlConfigured
  <2>1. verdict = None /\ probed' = None
    BY <1>1 DEF CheckUrlConfigured, Base, NotOver, Begin
  <2>2. CASE input.spec_url = None
    <3>1. rows' = Row("spec_url_configured", "SpecUrlRequired")
      BY <1>1, <2>2 DEF CheckUrlConfigured, Report
    <3>2. QED
      BY <2>1, <3>1 DEF Probed, Row
  <2>3. CASE input.spec_url # None
    BY <1>1, <2>1, <2>3, NoneAssumption DEF CheckUrlConfigured
  <2>4. QED
    BY <2>2, <2>3
<1>2. CASE CheckCloudLocation
  <2>1. verdict = None /\ probed = None
    BY <1>2 DEF CheckCloudLocation, Base, NotOver, Begin
  <2>2. (probed' = None /\ "spec_source_reachable" \notin DOMAIN rows')
          \/ UNCHANGED verdict
    <3>1. \/ Report(Row("cloud_spec_location_configured",
                      "CloudSpecLocationRequired")) /\ UNCHANGED probed
          \/ Report([n \in {"cloud_spec_location_configured",
                           "cloud_spec_credential_valid"} |-> None])
               /\ UNCHANGED probed
          \/ UNCHANGED verdict
      BY <1>2 DEF CheckCloudLocation
    <3>2. QED
      BY <2>1, <3>1 DEF Report, Row
  <2>3. QED
    BY <2>1, <2>2, NoneAssumption DEF Probed
<1>3. CASE CheckLocalPath
  BY <1>3, LocalPathFiles DEF Probed, Base, OneMode
<1>4. QED
  BY <1>1, <1>2, <1>3

LEMMA ProbeUrlServed ==
    ASSUME Base, ProbeUrl, verdict' = "READY"
    PROVE  ~IsCloud(input) /\ UrlServes
<1> DEFINE e == RequestError(input.spec_url, endpoint, hiccup, ProbeTimeout(budget))
<1>1. /\ ~IsCloud(input) /\ input.spec_url # None /\ input.spec_url.scheme # "path"
      /\ e = NoError \/ (e # NoError /\ UrlRows(e.leaf))
  BY ProbeUrlFiles
<1>2. e = NoError
  <2> SUFFICES ASSUME e # NoError, UrlRows(e.leaf) PROVE FALSE
    BY <1>1
  <2>1. e.leaf # None
    BY RequestEnds
  <2> HIDE DEF e
  <2>2. Verdict(rows') = "NOT_READY"
    BY <2>1, VerdictOf DEF UrlRows, Mandatory
  <2>3. QED
    BY <2>2 DEF UrlRows
<1>3. budget \in Budgets /\ hiccup \in Hiccups \cup {Steady} /\ Shaped(endpoint)
  BY EndpointShaped DEF Base, TypeOK
<1>4. ASSUME NEW h \in Hiccups \cup {Steady}
      PROVE  LET f == RequestError(input.spec_url, endpoint, h, FetchTimeout).leaf
             IN  f \in Visible => f = RefusedBy(h)
  <2> DEFINE f == RequestError(input.spec_url, endpoint, h, FetchTimeout).leaf
  <2>1. \/ f \in {None, "SpecSourceUnavailable"}
        \/ h.network = "gaierror" /\ f = "SpecUrlInvalid"
        \/ h.network = None /\ h.status # None /\ f = StatusError(h.status)
    BY <1>2, <1>3, ServedIsServed
  <2>2. {None, "SpecSourceUnavailable"} \cap Visible = {}
    BY NoneAssumption DEF Visible, StoreErrors
  <2> HIDE DEF f
  <2>3. f \in Visible => f = RefusedBy(h)
    BY <1>1, <2>1, <2>2, NoneAssumption DEF RefusedBy
  <2>4. QED
    BY <2>3 DEF f
<1>5. QED
  BY <1>1, <1>4 DEF UrlServes

LEMMA ProbeStoreServed ==
    ASSUME Base, ProbeStore, verdict' = "READY"
    PROVE  IsCloud(input) /\ StoreServes
<1>1. /\ IsCloud(input) /\ input.location # None
      /\ verdict' = Verdict(rows')
      /\ DOMAIN rows' = {"cloud_spec_location_configured",
                        "cloud_spec_credential_valid"}
      /\ rows'["cloud_spec_credential_valid"] = StoreRow
  BY ProbeStoreFiles
<1>2. StoreRow = None
  BY <1>1, VerdictOf DEF Mandatory
<1>3. /\ StoreError(input.location, Answered(probed)) = None
      /\ Found(input.location, Answered(probed).files)
  BY <1>2, NoneAssumption DEF StoreRow, StoreErrors
<1>4. /\ StoreError(input.location, stores[probed]) = None
      /\ Found(input.location, stores[probed].files)
  BY <1>3, AnsweredOf
<1>5. QED
  BY <1>1, <1>4 DEF StoreServes

LEMMA StartRunServed == ASSUME Base, Served, StartRun PROVE Served'
<1>1. UNCHANGED <<input, sourceVars, gateVars>>
  BY DEF StartRun
<1>2. UNCHANGED <<endpoint, stores, rows, probed, verdict, changed>>
  BY <1>1 DEF sourceVars, gateVars
<1>3. error' = InputError(input) \/ error' = None
  BY DEF StartRun, Base, Accepted
<1>4. ASSUME verdict = "READY", Probed, ~changed
      PROVE  error' \notin Visible
  <2>1. IF IsCloud(input) THEN StoreServes ELSE UrlServes
    BY <1>4 DEF Served
  <2>2. InputError(input) \notin {"CloudSpecLocationRequired", "SpecUrlRequired"}
    BY <2>1, InputMissing DEF IsCloud, StoreServes, UrlServes
  <2>3. InputError(input) \in
          {"ConnectionRequired", "CloudSpecLocationRequired", "CredentialRouting",
           "SpecUrlRequired", "UnknownImportType", None}
    BY DEF InputError
  <2>4. QED
    BY <1>3, <2>2, <2>3, NoneAssumption DEF Visible, StoreErrors
<1>5. QED
  BY <1>1, <1>2, <1>4, ServedStays DEF Served, ReadyIsNotRefused, Visible
LEMMA ReadServed == ASSUME Base, Served, Read PROVE Served'
<1>1. /\ run = "reading" /\ hiccup \in Hiccups \cup {Steady}
      /\ UNCHANGED <<input, sourceVars, gateVars>>
      /\ error = None /\ InputError(input) = None
  BY DEF Read, Base, TypeOK, Accepted
<1>2. UNCHANGED <<endpoint, stores, rows, probed, verdict, changed>>
  BY <1>1 DEF sourceVars, gateVars
<1>3. error' \in ReadErrors \/ error' = None
  BY <1>1 DEF Read
<1>4. readMet' = IF run' = "failed" THEN Met(input, StoreRead(input)) ELSE readMet
  BY DEF Read
<1>5. error' # None => run' = "failed" /\ readMet' = Met(input, StoreRead(input))
  BY <1>1, <1>4 DEF Read
<1> DEFINE missed == error' = "CloudSpecNotFound" /\ \E f \in stores[probed].files : f.deep
<1>6. ASSUME verdict = "READY", Probed, ~changed, error' \in ReadErrors, error' # None
      PROVE  error' \notin Visible \/ missed \/ error' = RefusedBy(readMet')
  <2>1. IF IsCloud(input) THEN StoreServes ELSE UrlServes
    BY <1>6 DEF Served
  <2>2. CASE IsCloud(input)
    <3>1. input.import_type = "CLOUD"
      BY <1>1, <2>2, InputAccepted DEF IsCloud
    <3>2. probed = StoreRead(input)
      BY <1>6, <2>2 DEF Probed, Base, OneMode
    <3> DEFINE condition == Answered(probed)
               e == StoreError(input.location, condition)
               files == Selected(input.location, condition.files)
    <3>3. /\ StoreError(input.location, stores[probed]) = None
          /\ Found(input.location, condition.files)
      BY <2>1, <2>2, AnsweredOf DEF StoreServes
    <3>4. /\ e # None => ReadErrors \subseteq {"StoreUnavailable", e}
          /\ e = None /\ files = {}
               => ReadErrors \subseteq {"StoreUnavailable", "CloudSpecNotFound"}
          /\ e = None /\ files # {} => \A x \in ReadErrors : x \notin Visible
      BY <3>1, <3>2, CloudReads
    <3>5. "StoreUnavailable" \notin Visible
      BY DEF Visible, StoreErrors
    <3>6. CASE e # None
      <4>1. outage[probed] \in StoreErrors /\ e = outage[probed]
        BY <3>3, <3>6, AnsweredOf
      <4>2. RefusedBy(readMet') = outage[probed]
        BY <1>5, <1>6, <2>2, <3>2 DEF RefusedBy, Met
      <4> HIDE DEF e
      <4>3. error' \in {"StoreUnavailable", e}
        BY <1>6, <3>4, <3>6
      <4>4. QED
        BY <3>5, <4>1, <4>2, <4>3
    <3>7. CASE e = None /\ files = {}
      <4>1. input.location.key = None
        BY <3>7, NoneAssumption DEF StoreError, StoreErrors
      <4>2. \E f \in condition.files : f.deep
        BY <3>3, <3>7, <4>1 DEF Found, Selected
      <4>3. \E f \in stores[probed].files : f.deep
        BY <4>2, AnsweredOf
      <4>4. error' \in {"StoreUnavailable", "CloudSpecNotFound"}
        BY <1>6, <3>4, <3>7
      <4>5. QED
        BY <3>5, <4>3, <4>4
    <3>8. CASE e = None /\ files # {}
      BY <1>6, <3>4, <3>8
    <3>9. QED
      BY <3>6, <3>7, <3>8
  <2>3. CASE ~IsCloud(input)
    <3> DEFINE f == RequestError(input.spec_url, endpoint, hiccup, FetchTimeout).leaf
    <3>1. error' = FetchError(input.spec_url, endpoint, hiccup).leaf
      BY <1>6, <2>3 DEF ReadErrors, IsCloud
    <3>2. input.spec_url.scheme # "path" /\ (f \in Visible => f = RefusedBy(hiccup))
      BY <1>1, <2>1, <2>3 DEF UrlServes
    <3>3. readMet' = hiccup
      BY <1>5, <1>6, <2>3 DEF Met
    <3>4. \/ f # None /\ error' = f
          \/ error' = BodyError(input.spec_url.ext, endpoint.media, endpoint.body)
      BY <3>1, <3>2, FetchEnds
    <3> HIDE DEF f
    <3>5. QED
      BY <3>2, <3>3, <3>4, BodyIsInvisible
  <2>4. QED
    BY <2>2, <2>3
<1> HIDE DEF missed
<1>7. ReadyIsNotRefused'
  <2>1. ASSUME verdict' = "READY", Probed', ~changed'
        PROVE  error' \notin Visible \/ missed \/ error' = RefusedBy(readMet')
    <3>1. verdict = "READY" /\ Probed /\ ~changed
      BY <1>1, <1>2, <2>1, ServedStays
    <3>2. CASE error' = None
      BY <3>2, NoErrorIsNoRefusal
    <3>3. CASE error' \in ReadErrors /\ error' # None
      BY <1>6, <3>1, <3>3
    <3>4. QED
      BY <1>3, <3>2, <3>3
  <2>2. RefusedBy(readMet') = RefusedBy(readMet)'
    BY <1>1 DEF RefusedBy, IsCloud
  <2>3. QED
    BY <1>2, <2>1, <2>2 DEF ReadyIsNotRefused, Visible, missed
<1>8. QED
  BY <1>1, <1>2, <1>7, ServedStays DEF Served

LEMMA SourceServed ==
    ASSUME Served, Hiccup \/ OwnerChanges \/ UNCHANGED vars
    PROVE  Served'
<1>1. UNCHANGED <<verdict, rows, probed, error, readMet, input>>
  BY DEF Hiccup, OwnerChanges, vars, gateVars, runVars
<1>2. CASE UNCHANGED <<endpoint, stores, changed>>
  BY <1>1, <1>2, ServedStays DEF Served, ReadyIsNotRefused, Visible,
     RefusedBy, IsCloud
<1>3. CASE changed'
  BY <1>3 DEF Served, ReadyIsNotRefused
<1>4. UNCHANGED <<endpoint, stores, changed>> \/ changed'
  BY DEF Hiccup, OwnerChanges, vars, sourceVars
<1>5. QED
  BY <1>2, <1>3, <1>4

LEMMA NextServed ==
    ASSUME Base, Served, [Next]_vars
    PROVE  Served'
<1>1. CASE Gate
  <2>1. Base'
    BY NextBase, <1>1 DEF Next
  <2>2. UNCHANGED <<input, sourceVars>>
    BY <1>1 DEF Gate, CheckUrlConfigured, CheckCloudLocation, CheckLocalPath,
                ProbeUrl, Overrun, ProbeStore
  <2>3. ASSUME verdict' = "READY", Probed'
        PROVE  (IF IsCloud(input) THEN StoreServes ELSE UrlServes)'
    <3>1. ProbeUrl \/ ProbeStore
      BY <1>1, <2>3, CheckServed DEF Gate, Overrun, Raise
    <3>2. UNCHANGED <<endpoint, stores, probed>>
      BY <2>2, <3>1 DEF ProbeUrl, ProbeStore, sourceVars
    <3>3. IF IsCloud(input) THEN StoreServes ELSE UrlServes
      BY <2>3, <3>1, ProbeUrlServed, ProbeStoreServed
    <3>4. QED
      BY <2>2, <3>2, <3>3 DEF StoreServes, UrlServes, RefusedBy, IsCloud
  <2>4. QED
    BY <1>1, <2>1, <2>3, GateServed
<1>2. CASE StartRun \/ Read
  BY <1>2, StartRunServed, ReadServed
<1>3. CASE Hiccup \/ OwnerChanges \/ UNCHANGED vars
  BY <1>3, SourceServed
<1>4. QED
  BY <1>1, <1>2, <1>3 DEF Next

\* After a probe that found the source ready, a run whose source nobody changed
\* is refused what the probe was given only by a condition that passes.
THEOREM ReadyTheorem == Spec => []ReadyIsNotRefused
<1>1. Base /\ Served /\ [Next]_vars => Base' /\ Served'
  BY NextBase, NextServed
<1>2. Served => ReadyIsNotRefused
  BY DEF Served
<1>3. QED
  BY <1>1, <1>2, InitBase, InitServed, PTL DEF Spec
=============================================================================
