----------------------------- MODULE FetchSpec -----------------------------
(***************************************************************************)
(* How the app reads one OpenAPI document (app/api_client.py): the checks  *)
(* on a spec URL, the classification of what its endpoint answers, which   *)
(* the preflight probe and the extraction share, and the choice of a       *)
(* parser. Pure operators, used by Preflight.                              *)
(*                                                                         *)
(*   url       [scheme, ext, isfile]; scheme is "https", "http",           *)
(*             "malformed" (urlsplit rejects it) or "path" (no "://"),     *)
(*             isfile if a path names a file, on every pod; ext as written *)
(*   endpoint  [host, connect, answer, status, media, body]: what its host *)
(*             name resolves to, how long it takes to accept a connection  *)
(*             (None: it refuses) and to answer, and the answer            *)
(*   hiccup    [network, status]: a passing condition of the endpoint, an  *)
(*             httpx error class or an HTTP status instead of its answer,  *)
(*             or "gaierror" while its name does not resolve               *)
(*   body      [form, value, entries]: the bytes are "json", "yaml", "zip" *)
(*             or "other"; the document is a "spec", a spec whose info is  *)
(*             null ("noinfo"), another mapping ("mapping") or no mapping  *)
(*             ("list"); a ZIP has entries, which are files like it        *)
(*                                                                         *)
(* Times are in tenths of a second.                                        *)
(***************************************************************************)
EXTENDS Naturals, RunInput

Steady == [network |-> None, status |-> None]

\* OpenAPIApiClient's default, which the extraction keeps.
FetchTimeout == 600

ValidationError(url, endpoint, hiccup) ==
    IF url.scheme = "malformed" THEN "ValueError"
    ELSE IF \/ url.scheme # "https"
            \/ hiccup.network = "gaierror"
            \/ endpoint.host # "public" THEN "SpecUrlInvalid"
    ELSE None

(***************************************************************************)
(* One GET, redirects not followed: the status it ends with, or the httpx  *)
(* class it fails with. The timeout bounds each phase of the request, not  *)
(* the request.                                                            *)
(***************************************************************************)
NetworkError(endpoint, hiccup, timeout) ==
    IF hiccup.network \in {"ConnectError", "ConnectTimeout"} THEN hiccup.network
    ELSE IF endpoint.connect = None     THEN "ConnectError"
    ELSE IF endpoint.connect > timeout  THEN "ConnectTimeout"
    ELSE IF hiccup.network # None       THEN hiccup.network
    ELSE IF endpoint.answer > timeout   THEN "ReadTimeout"
    ELSE None

Status(endpoint, hiccup) ==
    IF hiccup.status # None THEN hiccup.status ELSE endpoint.status

AtMost(time, timeout) == IF time > timeout THEN timeout ELSE time

RequestTime(url, endpoint, hiccup, timeout) ==
    LET failure == NetworkError(endpoint, hiccup, timeout)
    IN  IF ValidationError(url, endpoint, hiccup) # None \/ failure = "ConnectError"
        THEN 0
        ELSE IF failure = "ConnectTimeout" THEN timeout
        ELSE endpoint.connect + IF failure = "ReadTimeout" THEN timeout
                                ELSE AtMost(endpoint.answer, timeout)

StatusError(status) ==
    CASE status \in 200..299 -> None
      [] status \in 300..399 -> "SpecRedirectNotFollowed"
      [] status = 401        -> "SpecFetchAuth"
      [] status = 403        -> "SpecFetchForbidden"
      [] status = 404        -> "SpecNotFound"
      [] status = 429        -> "SpecFetchRateLimited"
      [] status >= 500       -> "SpecSourceUnavailable"
      [] OTHER               -> "SpecFetchClient"

NoError == [leaf |-> None, network |-> None, status |-> None]
Typed(name) == [NoError EXCEPT !.leaf = name]

\* What probe_spec_url raises, and fetch_spec before it has the body.
RequestError(url, endpoint, hiccup, timeout) ==
    IF ValidationError(url, endpoint, hiccup) # None
    THEN Typed(ValidationError(url, endpoint, hiccup))
    ELSE IF NetworkError(endpoint, hiccup, timeout) # None
    THEN [leaf    |-> "SpecSourceUnavailable",
          network |-> NetworkError(endpoint, hiccup, timeout),
          status  |-> None]
    ELSE IF StatusError(Status(endpoint, hiccup)) # None
    THEN [leaf    |-> StatusError(Status(endpoint, hiccup)),
          network |-> None,
          status  |-> Status(endpoint, hiccup)]
    ELSE NoError

----------------------------------------------------------------------------
(* Parsing *)

YamlExts == {".yaml", ".yml"}
ZipExts  == {".zip"}

\* Every JSON document is a YAML document.
Parses(yaml, body) == body.form = "json" \/ (yaml /\ body.form = "yaml")

ParseError(yaml, body) ==
    IF Parses(yaml, body) /\ body.value # "list" THEN None ELSE "SpecParse"

\* An entry that does not parse, or is no OpenAPI document, is skipped.
Extracted(entry) == /\ entry.ext \in {".json"} \cup YamlExts
                    /\ ParseError(entry.ext \in YamlExts, entry) = None
                    /\ entry.value \in {"spec", "noinfo"}

ZipError(body) ==
    IF body.form # "zip" THEN "BadZipFile"
    ELSE IF \A entry \in body.entries : ~Extracted(entry) THEN "ZipNoSpecFound"
    ELSE None

\* What the extraction makes of the documents: it asks each for its title, of
\* which one whose info is null knows nothing, and needs one that has a title.
RecordsError(values) ==
    IF "noinfo" \in values        THEN "AttributeError"
    ELSE IF "spec" \notin values  THEN "NoValidSpecs"
    ELSE None

BodyError(ext, media, body) ==
    IF media = "zip" \/ ext \in ZipExts
    THEN IF ZipError(body) # None THEN ZipError(body)
         ELSE RecordsError({e.value : e \in {x \in body.entries : Extracted(x)}})
    ELSE LET yaml == media = "yaml" \/ ext \in YamlExts
         IN  IF ParseError(yaml, body) # None THEN ParseError(yaml, body)
             ELSE RecordsError({body.value})

\* Extraction of a local file.
FetchFileError(file) == Typed(BodyError(file.ext, "", file.body))

\* Extraction; a path that is no file is taken for a URL.
FetchError(url, endpoint, hiccup) ==
    LET e == RequestError(url, endpoint, hiccup, FetchTimeout)
    IN  IF url.scheme = "path" /\ url.isfile
        THEN FetchFileError([ext |-> url.ext, body |-> endpoint.body])
        ELSE IF e # NoError THEN e
        ELSE Typed(BodyError(url.ext, endpoint.media, endpoint.body))

\* The errors that are AppErrors, and those Temporal retries: an exception
\* that is not typed says nothing of retries.
Untyped == {"ValueError", "BadZipFile", "AttributeError"}

Retried(leaf) ==
    leaf \in Untyped \cup {"SpecSourceUnavailable", "SpecFetchRateLimited"}
=============================================================================
