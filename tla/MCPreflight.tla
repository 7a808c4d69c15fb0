---------------------------- MODULE MCPreflight ----------------------------
(***************************************************************************)
(* Instances of Preflight for TLC: the endpoints, stores and inputs whose  *)
(* probe, verdict and run differ in kind.                                  *)
(***************************************************************************)
EXTENDS Preflight, TLC

\* Bodies

Json == [form |-> "json", value |-> "spec", entries |-> {}]
Yaml == [Json EXCEPT !.form = "yaml"]
Html == [Json EXCEPT !.form = "other"]
Named(ext, body) == [ext |-> ext, form |-> body.form, value |-> body.value]
Zip(entries) == [form |-> "zip", value |-> "spec", entries |-> entries]
GoodZip == Zip({Named(".yml", Yaml), Named(".json", Html), Named(".md", Json)})
EmptyZip == Zip({Named(".json", [Json EXCEPT !.value = "mapping"])})
NoInfoZip == Zip({Named(".json", Json), Named(".json", [Json EXCEPT !.value = "noinfo"])})
NoTitle == [Json EXCEPT !.value = "mapping"]
NoInfo == [Json EXCEPT !.value = "noinfo"]
Scalar == [Yaml EXCEPT !.value = "list"]

\* Endpoints

Quick == [host |-> "public", connect |-> 1, answer |-> 2, status |-> 200,
          media |-> "json", body |-> Json]
Answers(s) == [Quick EXCEPT !.status = s]
Serves(media, body) == [Quick EXCEPT !.media = media, !.body = body]
SlowAnswer  == [Quick EXCEPT !.answer = 400]
SlowConnect == [Quick EXCEPT !.connect = 400]
\* Each phase fits in a budget of 20 seconds, the two of them do not.
Sluggish    == [Quick EXCEPT !.connect = 110, !.answer = 110]

TypedEndpoints ==
    {Quick, SlowAnswer, [Quick EXCEPT !.host = "private"],
     [Quick EXCEPT !.connect = None]}
    \cup {Answers(s) : s \in {301, 401, 403, 404, 410, 500}}
    \cup {Serves("html", Json), Serves("html", Html), Serves("yaml", Yaml),
          Serves("yaml", Scalar), Serves("json", NoTitle),
          Serves("zip", GoodZip), Serves("zip", EmptyZip)}
BodyEndpoints == {Serves(m, b) : m \in {"json", "yaml", "zip"},
                                 b \in {Json, Yaml, Html, NoInfo, NoTitle, GoodZip,
                                       EmptyZip, NoInfoZip}}

AllHiccups == {[network |-> n, status |-> None] :
                  n \in {"gaierror", "ConnectError", "ConnectTimeout",
                         "ReadTimeout", "RemoteProtocolError"}}
         \cup {[network |-> None, status |-> s] : s \in {408, 429, 503}}
AllOutages == {"silent", "AccessDenied"}

\* Stores

File(key, deep, ext, body) == [key |-> key, deep |-> deep, ext |-> ext, body |-> body]
Serving(files) == [refusal |-> None, files |-> files]
Refusing(e) == [refusal |-> e, files |-> {}]

SomeConditions ==
    {Serving({}),
     Serving({File("a", FALSE, ".json", Json), File("b", TRUE, ".yaml", Yaml)}),
     Serving({File("a", FALSE, ".txt", Json)}),
     Serving({File("b", TRUE, ".yaml", Yaml)}),
     Serving({File("b", TRUE, ".txt", Html)}),
     Serving({File("a", FALSE, ".zip", GoodZip)}),
     Refusing("CredentialRejected")}
UpperCaseFiles ==
    {Serving({File("a", FALSE, ext, body)}) :
        ext \in {".yaml", ".YAML", ".ZIP"}, body \in {Yaml, GoodZip}}

\* Sources: an endpoint, or the stores that the probe or the run may read.

EmptyStores == [s \in Stores \cup {"tenant"} |-> Serving({})]
Endpoints(es) == {[endpoint |-> e, stores |-> EmptyStores] : e \in es}
InStores(in, conditions) ==
    {[endpoint |-> Quick, stores |-> f @@ EmptyStores] :
        f \in [({in.cloud_source} \cap Stores) \cup {StoreRead(in)} -> conditions]}

AllSources(in) == IF IsCloud(in) THEN InStores(in, SomeConditions)
                                 ELSE Endpoints(TypedEndpoints)
AllBodies(in) == Endpoints(BodyEndpoints)
SlowToConnect(in) == Endpoints({Quick, SlowConnect})
SlowInAll(in) == Endpoints({Quick, Sluggish})
UpperCaseKeys(in) == InStores(in, UpperCaseFiles)

\* Inputs

Input(type, location, url) ==
    [connection_usage |-> "CREATE",
     connection |-> <<"c1">>, connection_qualified_name |-> <<>>,
     import_type |-> type, location |-> location, spec_url |-> url,
     openapi_credential |-> None, agent |-> None, cloud_source |-> None]

Https(ext) == [scheme |-> "https", ext |-> ext, isfile |-> FALSE]
Url(scheme, ext, isfile) ==
    Input("URL", None, [scheme |-> scheme, ext |-> ext, isfile |-> isfile])

UrlInputs == {Url("https", "", FALSE), Url("http", "", FALSE),
              Url("malformed", "", FALSE), Url("path", ".json", TRUE),
              Url("path", ".json", FALSE), Input("URL", None, None),
              Input("DIRECT", None, Https(""))}
HttpsInputs == {Url("https", "", FALSE)}

Key(k) == [key |-> k]
Prefix == [key |-> None]
Cloud(type, location, openapi, agent, source) ==
    [Input(type, location, None) EXCEPT !.openapi_credential = openapi,
                                        !.agent = agent, !.cloud_source = source]

CloudInputs ==
    {Cloud("CLOUD", l, c, None, s) : l \in {Key("a"), Prefix},
                                     c \in {None, "globex"},
                                     s \in {"acme", "bare", None}}
    \cup {Cloud("CLOUD", None, None, None, "acme"),
          Cloud("cloud", Prefix, None, None, "acme"),
          Cloud("CLOUD", Prefix, None, "globex", None),
          Cloud("CLOUD", Prefix, None, "globex", "acme"),
          Cloud("CLOUD", Key("a"), None, "globex", "acme"),
          Cloud("CLOUD", Prefix, None, "misrouted", None)}
AllInputs == UrlInputs \cup CloudInputs
PrefixInputs == {Cloud("CLOUD", Prefix, None, None, "acme")}
=============================================================================
