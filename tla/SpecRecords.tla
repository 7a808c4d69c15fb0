---------------------------- MODULE SpecRecords ----------------------------
(***************************************************************************)
(* From OpenAPI documents to asset rows: the pure part of extract_spec and *)
(* transform (app/connector.py, app/asset_mapper.py).                      *)
(*                                                                         *)
(* A document keeps what the code branches on: its info.title, and its     *)
(* `paths` and `webhooks` objects as functions from keys to path items.    *)
(* A path item is the set of keys it gives a non-null value, or NotADict.  *)
(* A qualified name, a title and a key are sequences of "/"-separated       *)
(* segments, so that building a qualified name is the concatenation it is  *)
(* in the code and two different pairs may build the same one; the empty   *)
(* title is <<>>. Wording, markdown and sync metadata are left out.        *)
(* A row carries the position of its document, so two rows with the same   *)
(* qualified name stay two rows, as two JSONL lines do.                    *)
(***************************************************************************)
EXTENDS Naturals, Sequences, FiniteSets

CONSTANT NotADict   \* a path item that is not a JSON object

TrackedMethods == {"get", "post", "put", "patch", "delete"}

\* {**paths, **webhooks}: a webhook replaces the path item of the same key.
AllPathItems(doc) ==
    [k \in DOMAIN doc.paths \cup DOMAIN doc.webhooks |->
        IF k \in DOMAIN doc.webhooks THEN doc.webhooks[k] ELSE doc.paths[k]]

Operations(item) == item \cap TrackedMethods

SpecQN(conn, title) == conn \o title

\* A key is taken as segments whether or not it begins with a slash, as the
\* names of webhooks do not.
PathQN(specQN, key) == specQN \o key

\* A document without info.title is skipped, its path items with it.
Usable(doc) == doc.title # <<>>

UsableDocs(docs) == {d \in DOMAIN docs : Usable(docs[d])}

(***************************************************************************)
(* The lines of api_spec.jsonl and api_path.jsonl for one spec file.       *)
(***************************************************************************)
SpecLines(conn, docs) ==
    {[doc |-> d, qn |-> SpecQN(conn, docs[d].title)] : d \in UsableDocs(docs)}

PathLinesOf(conn, d, doc) ==
    LET items == AllPathItems(doc)
        spec  == SpecQN(conn, doc.title)
    IN  {[doc |-> d, spec |-> spec, qn |-> PathQN(spec, k),
          ops |-> Operations(items[k])] :
            k \in {j \in DOMAIN items : items[j] # NotADict}}

\* Mutant: the documents skipped for want of a title keep their paths.
PathLines_OfEveryDocument(conn, docs) ==
    UNION {PathLinesOf(conn, d, docs[d]) : d \in DOMAIN docs}

PathLines(conn, docs) ==
    UNION {PathLinesOf(conn, d, docs[d]) : d \in UsableDocs(docs)}

\* The file pair one extraction of `docs` writes.
Records(conn, docs) ==
    [specs |-> SpecLines(conn, docs), paths |-> PathLines(conn, docs)]

NoRecords == [specs |-> {}, paths |-> {}]

RecordCount(records) == Cardinality(records.specs) + Cardinality(records.paths)

(***************************************************************************)
(* The file one transform writes: the Connection row first when it is      *)
(* asked for, then one row per APISpec and per APIPath record.             *)
(***************************************************************************)
Transformed(emit, records) ==
    [connection |-> emit, specs |-> records.specs, paths |-> records.paths]

\* Mutant: every transformed file has the same name.
Leaf_OneName(n) == <<"openapi_metadata">>

\* openapi_metadata.json, then openapi_metadata_1.json and so on.
Leaf(n) == IF n = 0 THEN <<"openapi_metadata">> ELSE <<"openapi_metadata", n>>
============================================================================
