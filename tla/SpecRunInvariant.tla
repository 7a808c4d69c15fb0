-------------------------- MODULE SpecRunInvariant --------------------------
(***************************************************************************)
(* The inductive invariants of a run, which TLC checks on the instances of *)
(* MCSpecRun. IInv is behind ConnectionOnce and UploadsNeverChange: why    *)
(* the Connection row of an attempt's temporary file is the one run()      *)
(* asked for, and why an object of the prefix is one transformed file      *)
(* (SpecRun_proofs). Lineage, which assumes it, is behind the others: why  *)
(* the contents of each file are one version of one spec file, whoever     *)
(* wrote it and whatever else was going on (SpecRunDelivery_proofs).       *)
(***************************************************************************)
EXTENDS SpecRun

LeafNames == {<<"openapi_metadata">>} \cup {"openapi_metadata"} \X Nat

\* An entry of transformed_files.
Entries == [ref : {"transform"} \X Nat, label : LeafNames]

IsExec(e) ==
    /\ DOMAIN e = {"task", "idx", "attempt", "pod", "step", "docs", "emit"}
    /\ e.task \in Tasks /\ e.idx \in Nat /\ e.pod \in Pods /\ e.step \in Nat

Shape ==
    /\ pc \in Tasks \cup {"begin", "done", "failed"}
    /\ idx \in Nat
    /\ conn.emit \in BOOLEAN /\ conn.assertion \in BOOLEAN
    /\ transformed \in Seq(Entries)
    /\ \A e \in execs : IsExec(e)
    /\ DOMAIN tmp = Pods

\* The resolved connection is the one connection_usage asks for.
Resolved ==
    pc \in Tasks \cup {"done"} =>
        /\ conn.emit <=> input.connection_usage # "REUSE"
        /\ conn.assertion <=> input.connection_usage = "REUSE"

\* Nothing of a transform exists before the transform loop.
BeforeTransform ==
    pc \in {"begin", "download", "extract"} =>
        /\ transformed = <<>>
        /\ \A e \in execs : e.task # "transform"
        /\ \A p \in Pods : \A d \in DOMAIN tmp[p] : d[1] # "transform"

BeforeUpload ==
    pc \in {"begin", "download", "extract", "transform"} =>
        /\ DOMAIN store = {}
        /\ \A e \in execs : e.task # "upload"

\* Every attempt of the awaited transform was given the same emit_connection,
\* and wrote it; attempts of earlier ones concern earlier files.
TransformAttempts ==
    pc = "transform" =>
        /\ \A e \in execs : e.task = "transform" =>
              /\ e.idx <= idx
              /\ e.idx = idx => e.emit = EmitConnection
              /\ e.step # Started => TempDir(e) \in DOMAIN tmp[e.pod]
        /\ \A p \in Pods : \A d \in DOMAIN tmp[p] : d[1] = "transform" =>
              /\ d[2] \in Nat /\ d[2] <= idx
              /\ d[2] = idx => tmp[p][d].connection = EmitConnection

\* The n-th transformed file has the n-th name, was persisted, and leads with
\* the Connection if it is the first of a CREATE run.
TransformedFiles ==
    \A i \in 1..Len(transformed) :
        /\ transformed[i].label = Leaf(i - 1)
        /\ transformed[i].ref \in DOMAIN refs
        /\ refs[transformed[i].ref].connection = (conn.emit /\ i = 1)
        /\ pc = "transform" => transformed[i].ref[2] < idx

StoreHoldsFiles ==
    \A l \in DOMAIN store : \E i \in 1..Len(transformed) :
        l = Leaf(i - 1) /\ store[l] = refs[transformed[i].ref]

UploadAttempts ==
    \A e \in execs : e.task = "upload" =>
        /\ e.step <= Len(transformed)
        /\ \A k \in 1..e.step : Leaf(k - 1) \in DOMAIN store

Finished ==
    /\ pc = "upload" => transformed # <<>>
    /\ pc = "done" =>
        /\ output.assertion_only_enabled = conn.assertion
        /\ output.transformed_data_prefix =>
              /\ transformed # <<>>
              /\ \A i \in 1..Len(transformed) : Leaf(i - 1) \in DOMAIN store

IInv == /\ Shape /\ Resolved /\ BeforeTransform /\ BeforeUpload
        /\ TransformAttempts /\ TransformedFiles /\ StoreHoldsFiles
        /\ UploadAttempts /\ Finished

----------------------------------------------------------------------------
(* Lineage *)

\* What an extraction may leave of the i-th spec file.
ExtractionsOf(i) ==
    {Records(conn.qn, docs) :
        docs \in {v \in Versions[specUrls[i].file] \ {Corrupt} : UsableDocs(v) # {}}}

\* The input was accepted, and the connection is the one it asks for.
Accepted ==
    /\ input \in Inputs
    /\ pc \in Tasks \cup {"done"} => /\ InputError(input) = None
                                     /\ conn = ResolvedConnection(input)

\* The attempts of an activity are counted, and each has its own directory.
Attempts ==
    /\ attempt \in 0..MaxAttempts /\ live \in BOOLEAN /\ restarts \in 0..MaxRestarts
    /\ pc \in Tasks /\ ~live => attempt < MaxAttempts
    /\ live => pc \in Tasks
    /\ pc = "begin" => execs = {}
    /\ pc = "download" => \A e \in execs : e.task = "download"
    /\ \A e \in execs :
          /\ e.attempt \in 1..MaxAttempts
          /\ pc = "extract" /\ e.task = "extract" => e.idx <= idx
          /\ pc \in Tasks /\ e.task = pc /\ e.idx = idx => e.attempt <= attempt
    /\ \A e, f \in execs : TempDir(e) = TempDir(f) => e = f

\* spec_urls is what the input lists, and a download holds versions of it.
SpecFiles ==
    /\ pc \in {"begin", "download"} => specUrls = <<>>
    /\ pc \in {"extract", "transform", "upload", "done"} => Len(specUrls) >= 1
    /\ specUrls # <<>> =>
          /\ DOMAIN specUrls = 1..Len(specUrls)
          /\ Len(specUrls) = Len(Listed(input))
          /\ \A i \in 1..Len(specUrls) :
                /\ specUrls[i].file = Listed(input)[i]
                /\ specUrls[i].dir = None \/ specUrls[i].dir[1] = "download"
    /\ \A p \in Pods : \A d \in DOMAIN tmp[p] : d[1] = "download" =>
          \A f \in Files(input) : tmp[p][d][f] \in Versions[f]

\* How far the loops of run() are.
Progress ==
    /\ idx >= 1
    /\ pc \in {"begin", "download"} => extracted = <<>>
    /\ pc = "extract" => /\ Len(extracted) = idx - 1
                         /\ idx <= Len(specUrls)
    /\ pc = "transform" => /\ Len(transformed) = idx - 1
                           /\ idx <= Len(extracted)
    /\ pc \in {"transform", "upload", "done"} => Len(extracted) = Len(specUrls)
    /\ pc \in {"upload", "done"} => Len(transformed) = Len(extracted)
    /\ Len(extracted) <= Len(specUrls)
    /\ Len(transformed) <= Len(extracted)

\* An attempt to extract keeps in memory what it fetched, and leaves in its
\* directory what it is to return.
ExtractAttempts ==
    pc = "extract" =>
        \A e \in execs : e.task = "extract" =>
           /\ e.idx >= 1
           /\ e.step # Started => e.docs \in Versions[specUrls[e.idx].file] \ {Corrupt}
           /\ e.step = Written => /\ UsableDocs(e.docs) # {}
                                  /\ TempDir(e) \in DOMAIN tmp[e.pod]
                                  /\ tmp[e.pod][TempDir(e)] = Extraction(e)

\* An entry of all_extract_results; an extraction without a spec raises.
Results == [ref : {"extract"} \X Nat, specs : Nat \ {0}, paths : Nat]

\* The i-th extraction was persisted, and its counts are those of its file.
ExtractedFiles ==
    /\ extracted \in Seq(Results)
    /\ \A i \in 1..Len(extracted) :
          /\ extracted[i].ref = <<"extract", i>>
          /\ <<"extract", i>> \in DOMAIN refs
          /\ refs[<<"extract", i>>] \in ExtractionsOf(i)
          /\ extracted[i].specs = Cardinality(refs[<<"extract", i>>].specs)
          /\ extracted[i].paths = Cardinality(refs[<<"extract", i>>].paths)

\* Nothing is lost between the extraction and the transformed file.
TransformedRows ==
    /\ pc = "transform" =>
          \A e \in execs : e.task = "transform" /\ e.idx = idx /\ e.step = Written =>
             tmp[e.pod][TempDir(e)] = Transformed(e.emit, refs[<<"extract", idx>>])
    /\ \A i \in 1..Len(transformed) :
          /\ transformed[i].ref = <<"transform", i>>
          /\ refs[<<"transform", i>>]
               = Transformed(conn.emit /\ i = 1, refs[<<"extract", i>>])

Sizes == [i \in 1..Len(extracted) |-> Extracted(extracted[i])]

\* The counters are those of the extractions scanned and transformed so far.
Counted ==
    /\ totals.specs \in Nat /\ totals.paths \in Nat
    /\ totals.scanned = SumTo(Sizes, Len(extracted))
    /\ totals.specs + totals.paths = SumTo(Sizes, Len(transformed))
    /\ transformed # <<>> => totals.specs >= 1

\* A run delivers if and only if it was asked to.
Returned ==
    /\ pc = "upload" => input.load_to_atlan
    /\ pc = "done" =>
          /\ output = Output(output.transformed_data_prefix, totals, transformed)
          /\ output.transformed_data_prefix <=> input.load_to_atlan

Lineage == /\ Accepted /\ Attempts /\ SpecFiles /\ Progress
           /\ ExtractAttempts /\ ExtractedFiles /\ TransformedRows
           /\ Counted /\ Returned
=============================================================================
