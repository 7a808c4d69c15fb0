--------------------------- MODULE SpecRun_proofs ---------------------------
(***************************************************************************)
(* Proofs about one connector run: whatever the number of spec files, pods *)
(* and attempts, and whatever they fail at, the Connection is handed over  *)
(* once, and no object of the prefix changes.                              *)
(***************************************************************************)
EXTENDS SpecRunInvariant, TLAPS

\* Two transformed files never share a name under transformed/.
LEMMA LeafInjective ==
    ASSUME NEW m \in Nat, NEW n \in Nat, Leaf(m) = Leaf(n)
    PROVE  m = n
<1>1. ASSUME NEW k \in Nat PROVE Len(<<"openapi_metadata", k>>) = 2
  OBVIOUS
<1>2. Len(<<"openapi_metadata">>) = 1
  OBVIOUS
<1>3. CASE m = 0 \/ n = 0
  BY <1>1, <1>2, <1>3 DEF Leaf
<1>4. CASE m # 0 /\ n # 0
  BY <1>4 DEF Leaf
<1>5. QED
  BY <1>3, <1>4

LEMMA LeafType == ASSUME NEW n \in Nat PROVE Leaf(n) \in LeafNames
  BY DEF Leaf, LeafNames

\* What a store holds under the name of the i-th file is the i-th file.
LEMMA StoreByName ==
    ASSUME StoreHoldsFiles, transformed \in Seq(Entries),
           NEW i \in 1..Len(transformed), Leaf(i - 1) \in DOMAIN store
    PROVE  store[Leaf(i - 1)] = refs[transformed[i].ref]
<1>1. PICK j \in 1..Len(transformed) :
          Leaf(i - 1) = Leaf(j - 1)
          /\ store[Leaf(i - 1)] = refs[transformed[j].ref]
  BY DEF StoreHoldsFiles
<1>2. i - 1 \in Nat /\ j - 1 \in Nat
  OBVIOUS
<1>3. i - 1 = j - 1
  BY <1>1, <1>2, LeafInjective
<1>4. i = j
  BY <1>3
<1>5. QED
  BY <1>1, <1>4

LEMMA InitIInv == Init => IInv
<1> SUFFICES ASSUME Init PROVE IInv
  OBVIOUS
<1>1. Shape
  BY DEF Init, Shape
<1>2. Resolved /\ BeforeTransform /\ BeforeUpload /\ TransformAttempts
  BY DEF Init, Resolved, BeforeTransform, BeforeUpload, TransformAttempts, Tasks
<1>3. TransformedFiles /\ StoreHoldsFiles /\ UploadAttempts /\ Finished
  BY DEF Init, TransformedFiles, StoreHoldsFiles, UploadAttempts, Finished
<1>4. QED
  BY <1>1, <1>2, <1>3 DEF IInv

(***************************************************************************)
(* Attempts may disappear and directories be lost, but not the directory   *)
(* of an attempt that goes on.                                             *)
(***************************************************************************)
Shrinks ==
    /\ execs' \subseteq execs
    /\ DOMAIN tmp' = Pods
    /\ \A p \in Pods : \A d \in DOMAIN tmp'[p] :
          d \in DOMAIN tmp[p] /\ tmp'[p][d] = tmp[p][d]
    /\ \A e \in execs' : TempDir(e) \in DOMAIN tmp[e.pod]
                           => TempDir(e) \in DOMAIN tmp'[e.pod]

LEMMA RemainShrinks ==
    ASSUME Shape, NEW es \in SUBSET execs, Remain(es)
    PROVE  Shrinks
<1>1. execs' \subseteq execs /\ DOMAIN tmp' = Pods
  BY DEF Remain
<1>2. ASSUME NEW p \in Pods, NEW d \in DOMAIN tmp'[p]
      PROVE  d \in DOMAIN tmp[p] /\ tmp'[p][d] = tmp[p][d]
  BY <1>2 DEF Remain, Keep
<1>3. ASSUME NEW e \in execs', TempDir(e) \in DOMAIN tmp[e.pod]
      PROVE  TempDir(e) \in DOMAIN tmp'[e.pod]
  <2>1. e \in es /\ e.pod \in Pods
    BY <1>1 DEF Remain, Shape, IsExec
  <2>2. TempDir(e) \in Readable(e.pod, es)
    BY <1>3, <2>1 DEF Readable
  <2>3. QED
    BY <1>3, <2>1, <2>2 DEF Remain, Keep
<1>4. QED
  BY <1>1, <1>2, <1>3 DEF Shrinks

LEMMA GoneShrinks ==
    ASSUME Shape, NEW e, Gone(e)
    PROVE  Shrinks
  BY RemainShrinks, execs \ {e} \in SUBSET execs DEF Gone

LEMMA RestartShrinks ==
    ASSUME Shape, NEW p \in Pods,
           execs' = {e \in execs : e.pod # p},
           tmp' = [tmp EXCEPT ![p] = <<>>]
    PROVE  Shrinks
<1>1. execs' \subseteq execs /\ DOMAIN tmp' = Pods
  BY DEF Shape
<1>2. ASSUME NEW q \in Pods, NEW d \in DOMAIN tmp'[q]
      PROVE  d \in DOMAIN tmp[q] /\ tmp'[q][d] = tmp[q][d]
  BY <1>2 DEF Shape
<1>3. ASSUME NEW e \in execs', TempDir(e) \in DOMAIN tmp[e.pod]
      PROVE  TempDir(e) \in DOMAIN tmp'[e.pod]
  BY <1>3 DEF Shape, IsExec
<1>4. QED
  BY <1>1, <1>2, <1>3 DEF Shrinks

\* The attempts of the awaited transform survive such a step.
LEMMA ShrinkKeepsAttempts ==
    ASSUME TransformAttempts, Shrinks, UNCHANGED <<conn, transformed, idx>>,
           pc' = "transform" => pc = "transform"
    PROVE  TransformAttempts'
<1> SUFFICES ASSUME pc' = "transform" PROVE TransformAttempts'
  BY DEF TransformAttempts
<1>1. pc = "transform" /\ EmitConnection' = EmitConnection
  BY DEF EmitConnection
<1>2. ASSUME NEW e \in execs', e.task = "transform"
      PROVE  /\ e.idx <= idx'
             /\ e.idx = idx' => e.emit = EmitConnection'
             /\ e.step # Started => TempDir(e) \in DOMAIN tmp'[e.pod]
  BY <1>1, <1>2 DEF TransformAttempts, Shrinks
<1>3. ASSUME NEW p \in Pods, NEW d \in DOMAIN tmp'[p], d[1] = "transform"
      PROVE  /\ d[2] \in Nat /\ d[2] <= idx'
             /\ d[2] = idx' => tmp'[p][d].connection = EmitConnection'
  BY <1>1, <1>3 DEF TransformAttempts, Shrinks
<1>4. QED
  BY <1>2, <1>3 DEF TransformAttempts, TempDir

(***************************************************************************)
(* A step that writes nothing; the run may fail.                           *)
(***************************************************************************)
LEMMA QuietStep ==
    ASSUME IInv, Shrinks,
           UNCHANGED <<input, refs, store, transformed, conn, output, idx>>,
           pc' \in {pc, "failed"}
    PROVE  IInv'
<1> USE DEF IInv
<1>1. Shape'
  BY DEF Shape, IsExec, Shrinks
<1>2. Resolved' /\ BeforeTransform' /\ BeforeUpload'
  BY DEF Resolved, BeforeTransform, BeforeUpload, Tasks, Shape, Shrinks
<1>3. TransformAttempts'
  BY ShrinkKeepsAttempts
<1>4. TransformedFiles' /\ StoreHoldsFiles'
  BY DEF TransformedFiles, StoreHoldsFiles
<1>5. UploadAttempts' /\ Finished'
  BY DEF UploadAttempts, Finished, Shrinks
<1>6. QED
  BY <1>1, <1>2, <1>3, <1>4, <1>5

(***************************************************************************)
(* A step of an attempt that writes into its own temporary directory.      *)
(***************************************************************************)
LEMMA WriteStep ==
    ASSUME IInv, NEW e \in execs, NEW to, NEW content,
           e.task # "upload",
           e.task = "transform" => content.connection = e.emit,
           IsExec(to),
           to.task = e.task, to.idx = e.idx, to.attempt = e.attempt,
           to.pod = e.pod, to.emit = e.emit,
           WriteDir(e, content), Moves(e, to),
           UNCHANGED <<input, refs, store, transformed, conn, output, idx, pc>>
    PROVE  IInv'
<1> USE DEF IInv
<1>1. IsExec(e) /\ e.pod \in Pods
  BY DEF Shape, IsExec
<1>2. /\ DOMAIN tmp' = Pods
      /\ \A p \in Pods : \A d \in DOMAIN tmp'[p] :
            \/ p = e.pod /\ d = TempDir(e) /\ tmp'[p][d] = content
            \/ d \in DOMAIN tmp[p] /\ tmp'[p][d] = tmp[p][d]
      /\ \A p \in Pods : DOMAIN tmp[p] \subseteq DOMAIN tmp'[p]
      /\ TempDir(e) \in DOMAIN tmp'[e.pod]
  BY <1>1 DEF WriteDir, Put, Shape
<1>3. \A x \in execs' : x = to \/ x \in execs
  BY DEF Moves
<1>4. TempDir(to) = TempDir(e) /\ TempDir(e)[1] = e.task /\ TempDir(e)[2] = e.idx
  BY DEF TempDir
<1>5. Shape'
  BY <1>2, <1>3 DEF Shape, IsExec
<1>6. Resolved' /\ BeforeUpload' /\ TransformedFiles' /\ StoreHoldsFiles' /\ Finished'
  BY <1>3 DEF Resolved, BeforeUpload, TransformedFiles, StoreHoldsFiles, Finished
<1>7. BeforeTransform'
  BY <1>2, <1>3, <1>4 DEF BeforeTransform
<1>8. UploadAttempts'
  BY <1>3 DEF UploadAttempts
<1>9. TransformAttempts'
  <2> SUFFICES ASSUME pc = "transform" PROVE TransformAttempts'
    BY DEF TransformAttempts
  <2>1. EmitConnection' = EmitConnection
    BY DEF EmitConnection
  <2>2. ASSUME NEW x \in execs', x.task = "transform"
        PROVE  /\ x.idx <= idx'
               /\ x.idx = idx' => x.emit = EmitConnection'
               /\ x.step # Started => TempDir(x) \in DOMAIN tmp'[x.pod]
    <3>1. CASE x = to
      BY <1>2, <1>4, <2>1, <2>2, <3>1 DEF TransformAttempts
    <3>2. CASE x \in execs
      BY <1>2, <2>1, <2>2, <3>2 DEF TransformAttempts, Shape, IsExec
    <3>3. QED
      BY <1>3, <3>1, <3>2
  <2>3. ASSUME NEW p \in Pods, NEW d \in DOMAIN tmp'[p], d[1] = "transform"
        PROVE  /\ d[2] \in Nat /\ d[2] <= idx'
               /\ d[2] = idx' => tmp'[p][d].connection = EmitConnection'
    <3>1. CASE p = e.pod /\ d = TempDir(e) /\ tmp'[p][d] = content
      BY <1>1, <1>4, <2>1, <2>3, <3>1 DEF TransformAttempts, IsExec
    <3>2. CASE d \in DOMAIN tmp[p] /\ tmp'[p][d] = tmp[p][d]
      BY <2>1, <2>3, <3>2 DEF TransformAttempts
    <3>3. QED
      BY <1>2, <3>1, <3>2
  <2>4. QED
    BY <2>2, <2>3 DEF TransformAttempts, TempDir
<1>10. QED
  BY <1>5, <1>6, <1>7, <1>8, <1>9

----------------------------------------------------------------------------
(* run() and the server *)

LEMMA BeginStep == ASSUME IInv, Begin PROVE IInv'
<1> USE DEF IInv
<1>1. Shrinks
  BY DEF Begin, Shrinks, Shape, storageVars
<1>2. CASE InputError(input) # None
  <2>1. pc' \in {pc, "failed"} /\ UNCHANGED <<input, refs, store, transformed,
                                               conn, output, idx>>
    BY <1>2 DEF Begin, Fail, storageVars
  <2>2. QED
    BY <1>1, <2>1, QuietStep
<1>3. CASE InputError(input) = None
  <2>1. /\ pc = "begin" /\ pc' \in {"download", "extract"} /\ idx' = 1
        /\ conn' = ResolvedConnection(input)
        /\ UNCHANGED <<input, refs, store, tmp, execs, transformed, output>>
    BY <1>3 DEF Begin, Schedule, storageVars
  <2>2. Shape'
    BY <2>1 DEF Shape, Tasks, ResolvedConnection
  <2>3. Resolved'
    BY <2>1 DEF Resolved, ResolvedConnection
  <2>4. BeforeTransform' /\ BeforeUpload' /\ TransformAttempts' /\ Finished'
    BY <2>1 DEF BeforeTransform, BeforeUpload, TransformAttempts, Finished
  <2>5. TransformedFiles' /\ StoreHoldsFiles' /\ UploadAttempts'
    BY <2>1 DEF BeforeTransform, BeforeUpload, TransformedFiles,
                StoreHoldsFiles, UploadAttempts
  <2>6. QED
    BY <2>2, <2>3, <2>4, <2>5
<1>4. QED
  BY <1>2, <1>3

LEMMA StartAttemptStep ==
    ASSUME IInv, NEW p \in Pods, StartAttempt(p)
    PROVE  IInv'
<1> USE DEF IInv
<1> DEFINE new == [task |-> pc, idx |-> idx, attempt |-> attempt + 1, pod |-> p,
                   step |-> Started, docs |-> <<>>, emit |-> EmitConnection]
<1>1. /\ pc \in Tasks /\ execs' = execs \cup {new}
      /\ UNCHANGED <<input, pc, idx, conn, transformed, output, tmp, refs, store>>
  BY DEF StartAttempt, runVars, storageVars
<1>2. IsExec(new)
  BY <1>1 DEF IsExec, Shape, Started
<1>3. Shape'
  BY <1>1, <1>2 DEF Shape, IsExec
<1>4. Resolved' /\ TransformedFiles' /\ StoreHoldsFiles' /\ Finished'
  BY <1>1 DEF Resolved, TransformedFiles, StoreHoldsFiles, Finished
<1>5. BeforeTransform' /\ BeforeUpload'
  BY <1>1 DEF BeforeTransform, BeforeUpload
<1>6. TransformAttempts'
  <2>1. EmitConnection' = EmitConnection /\ idx <= idx
    BY <1>1 DEF EmitConnection, Shape
  <2>2. QED
    BY <1>1, <2>1 DEF TransformAttempts, TempDir
<1>7. UploadAttempts'
  <2>1. new.step = 0 /\ Len(transformed) \in Nat
    BY DEF Started, Shape
  <2>2. QED
    BY <1>1, <2>1 DEF UploadAttempts
<1>8. QED
  BY <1>3, <1>4, <1>5, <1>6, <1>7

----------------------------------------------------------------------------
(* The attempts *)

\* An attempt whose result is an error, or is not awaited, writes nothing.
LEMMA RejectedStep ==
    ASSUME IInv, NEW e, NEW err, Rejected(e, err),
           UNCHANGED <<input, refs, store>>
    PROVE  IInv'
<1>1. Shrinks
  BY GoneShrinks DEF Rejected, IInv
<1>2. UNCHANGED <<transformed, conn, output, idx>> /\ pc' \in {pc, "failed"}
  BY DEF Rejected, Fail, runVars
<1>3. QED
  BY <1>1, <1>2, QuietStep

LEMMA QuietActions ==
    ASSUME IInv, NEW e \in execs,
           \/ DownloadRefused(e) \/ FetchMissing(e) \/ FetchCorrupt(e)
           \/ AttemptRaises(e) \/ StaleAttemptEnds(e)
    PROVE  IInv'
<1>1. CASE DownloadRefused(e)
  BY <1>1, RejectedStep DEF DownloadRefused
<1>2. CASE FetchMissing(e) \/ FetchCorrupt(e)
  BY <1>2, RejectedStep DEF FetchMissing, FetchCorrupt
<1>3. CASE AttemptRaises(e)
  <2>1. Shrinks
    BY <1>3, GoneShrinks DEF AttemptRaises, IInv
  <2>2. /\ UNCHANGED <<input, refs, store, transformed, conn, output, idx>>
        /\ pc' \in {pc, "failed"}
    BY <1>3 DEF AttemptRaises, GiveUpOrRetry, Fail, runVars
  <2>3. QED
    BY <2>1, <2>2, QuietStep
<1>4. CASE StaleAttemptEnds(e)
  <2>1. Shrinks
    BY <1>4, GoneShrinks DEF StaleAttemptEnds, IInv
  <2>2. UNCHANGED <<input, refs, store, transformed, conn, output, idx, pc>>
    BY <1>4 DEF StaleAttemptEnds, runVars
  <2>3. QED
    BY <2>1, <2>2, QuietStep
<1>5. QED
  BY <1>1, <1>2, <1>3, <1>4

LEMMA TimeoutStep == ASSUME IInv, TimeoutAttempt PROVE IInv'
<1>1. Shrinks
  <2>1. CASE Remain(Stale)
    BY <2>1, RemainShrinks, Stale \in SUBSET execs DEF IInv, Stale
  <2>2. CASE UNCHANGED <<execs, tmp>>
    BY <2>2 DEF Shrinks, IInv, Shape
  <2>3. QED
    BY <2>1, <2>2 DEF TimeoutAttempt
<1>2. /\ UNCHANGED <<input, refs, store, transformed, conn, output, idx>>
      /\ pc' \in {pc, "failed"}
  BY DEF TimeoutAttempt, GiveUpOrRetry, Fail, runVars
<1>3. QED
  BY <1>1, <1>2, QuietStep

LEMMA RestartStep ==
    ASSUME IInv, NEW p \in Pods, PodRestarts(p)
    PROVE  IInv'
<1>1. Shrinks
  BY RestartShrinks DEF PodRestarts, IInv
<1>2. UNCHANGED <<input, refs, store, transformed, conn, output, idx, pc>>
  BY DEF PodRestarts, runVars
<1>3. QED
  BY <1>1, <1>2, QuietStep

\* An attempt that moves on is an attempt.
LEMMA ExecKeptByEXCEPT ==
    ASSUME NEW e, IsExec(e), NEW n \in Nat, NEW ds
    PROVE  /\ IsExec([e EXCEPT !.step = n])
           /\ IsExec([e EXCEPT !.step = n, !.docs = ds])
  BY DEF IsExec

\* Whatever an attempt downloads, fetches or extracts stays in its directory;
\* a transform leads its file with the Connection it was asked for.
LEMMA WriteActions ==
    ASSUME IInv, NEW e \in execs,
           \/ Download(e) \/ Fetch(e) \/ WriteRecords(e)
           \/ OpenOutput(e) \/ WriteRows(e)
    PROVE  IInv'
<1>1. IsExec(e)
  BY DEF IInv, Shape
<1>2. /\ IsExec([e EXCEPT !.step = Opened])
      /\ IsExec([e EXCEPT !.step = Written])
      /\ \A docs : IsExec([e EXCEPT !.step = Opened, !.docs = docs])
  BY <1>1, ExecKeptByEXCEPT DEF Opened, Written
<1>3. CASE Download(e)
  BY <1>1, <1>2, <1>3, WriteStep DEF Download, runVars, IsExec
<1>4. CASE Fetch(e)
  BY <1>1, <1>2, <1>4, WriteStep DEF Fetch, runVars, IsExec
<1>5. CASE WriteRecords(e)
  <2>1. CASE NothingUsable(e)
    BY <1>5, <2>1, RejectedStep DEF WriteRecords
  <2>2. CASE ~NothingUsable(e)
    BY <1>1, <1>2, <1>5, <2>2, WriteStep DEF WriteRecords, runVars, IsExec
  <2>3. QED
    BY <2>1, <2>2
<1>6. CASE OpenOutput(e)
  BY <1>1, <1>2, <1>6, WriteStep DEF OpenOutput, runVars, IsExec, Transformed
<1>7. CASE WriteRows(e)
  BY <1>1, <1>2, <1>7, WriteStep DEF WriteRows, runVars, IsExec, Transformed
<1>8. QED
  BY <1>3, <1>4, <1>5, <1>6, <1>7

\* After an extraction or a transform the run goes forward: to a transform of
\* a later extraction, to the upload of some files, or to its end.
LEMMA AdvanceForward ==
    ASSUME NEW from \in Nat, NEW results, NEW ts, NEW files,
           Advance(from, results, ts, files)
    PROVE  \/ /\ pc' = "transform" /\ idx' \in Nat /\ idx' >= from
              /\ UNCHANGED output
           \/ /\ pc' = "upload" /\ files # <<>> /\ idx' = 1
              /\ UNCHANGED output
           \/ /\ pc' = "done" /\ UNCHANGED idx
              /\ output'.assertion_only_enabled = conn.assertion
              /\ output'.transformed_data_prefix = FALSE
<1>1. CASE \E i \in NextTransform(from, results) :
              Schedule("transform", i) /\ UNCHANGED output
  BY <1>1 DEF NextTransform, Schedule
<1>2. CASE Schedule("upload", 1) /\ UNCHANGED output /\ files # <<>>
  BY <1>2 DEF Schedule
<1>3. CASE Return(FALSE, ts, files)
  BY <1>3 DEF Return, Output
<1>4. QED
  BY <1>1, <1>2, <1>3 DEF Advance

LEMMA DownloadReturnsStep ==
    ASSUME IInv, NEW e \in execs, DownloadReturns(e)
    PROVE  IInv'
<1> USE DEF IInv
<1>1. Shrinks
  BY GoneShrinks DEF DownloadReturns
<1>2. /\ pc = "download"
      /\ UNCHANGED <<input, refs, store, transformed, conn, output>>
  BY DEF DownloadReturns, Current, Fail
<1>3. CASE pc' = "failed" /\ UNCHANGED idx
  BY <1>1, <1>2, <1>3, QuietStep
<1>4. CASE pc' = "extract" /\ idx' = 1
  <2>1. Shape'
    BY <1>1, <1>2, <1>4 DEF Shape, Shrinks, Tasks
  <2>2. Resolved' /\ BeforeTransform' /\ BeforeUpload' /\ TransformAttempts'
    BY <1>1, <1>2, <1>4 DEF Resolved, BeforeTransform, BeforeUpload,
                            TransformAttempts, Shrinks, Tasks
  <2>3. TransformedFiles' /\ StoreHoldsFiles' /\ UploadAttempts' /\ Finished'
    BY <1>1, <1>2, <1>4 DEF TransformedFiles, StoreHoldsFiles, UploadAttempts,
                            Finished, Shrinks
  <2>4. QED
    BY <2>1, <2>2, <2>3
<1>5. QED
  BY <1>3, <1>4 DEF DownloadReturns, Fail, Schedule

LEMMA ExtractReturnsStep ==
    ASSUME IInv, NEW e \in execs, ExtractReturns(e)
    PROVE  IInv'
<1> USE DEF IInv
<1>1. Shrinks
  BY GoneShrinks DEF ExtractReturns
<1>2. /\ pc = "extract" /\ transformed = <<>> /\ DOMAIN store = {}
      /\ UNCHANGED <<input, store, transformed, conn>>
  BY DEF ExtractReturns, Current, BeforeTransform, BeforeUpload
<1> DEFINE Forward ==
      \/ /\ pc' \in {"extract", "transform"} /\ idx' \in Nat
         /\ UNCHANGED output
      \/ /\ pc' = "done" /\ idx' \in Nat
         /\ output'.assertion_only_enabled = conn.assertion
         /\ output'.transformed_data_prefix = FALSE
<1>3. Forward
  <2>1. CASE Schedule("extract", idx + 1) /\ UNCHANGED output
    BY <2>1 DEF Schedule, Shape
  <2>2. ASSUME NEW ts, NEW r, Advance(1, Append(extracted, r), ts, transformed)
        PROVE  Forward
    BY <1>2, <2>2, AdvanceForward DEF Shape
  <2>3. QED
    BY <2>1, <2>2 DEF ExtractReturns
<1>4. Shape'
  BY <1>1, <1>2, <1>3 DEF Shape, Shrinks, Tasks, ExtractReturns
<1>5. Resolved' /\ BeforeTransform' /\ BeforeUpload'
  BY <1>1, <1>2, <1>3 DEF Resolved, BeforeTransform, BeforeUpload, Shrinks, Tasks
<1>6. TransformAttempts'
  BY <1>1, <1>2, <1>3 DEF TransformAttempts, BeforeTransform, Shrinks
<1>7. TransformedFiles' /\ StoreHoldsFiles'
  BY <1>2 DEF TransformedFiles, StoreHoldsFiles
<1>8. UploadAttempts' /\ Finished'
  BY <1>1, <1>2, <1>3 DEF BeforeUpload, UploadAttempts, Finished, Shrinks
<1>9. QED
  BY <1>4, <1>5, <1>6, <1>7, <1>8

LEMMA TransformReturnsStep ==
    ASSUME IInv, NEW e \in execs, TransformReturns(e)
    PROVE  IInv'
<1> USE DEF IInv
<1> DEFINE dir  == TempDir(e)
           file == [ref |-> RefOf(e), label |-> Leaf(Len(transformed))]
<1>1. Shrinks
  BY GoneShrinks DEF TransformReturns
<1>2. /\ pc = "transform" /\ e.task = "transform" /\ e.idx = idx
      /\ e.step = Written /\ DOMAIN store = {}
      /\ transformed' = Append(transformed, file)
      /\ refs' = Put(refs, RefOf(e), tmp[e.pod][dir])
      /\ UNCHANGED <<input, store, conn>>
  BY DEF TransformReturns, Current, BeforeUpload
<1>3. /\ transformed \in Seq(Entries) /\ Len(transformed) \in Nat /\ idx \in Nat
      /\ e.pod \in Pods /\ e.idx \in Nat
  BY DEF Shape, IsExec
<1>4. tmp[e.pod][dir].connection = EmitConnection
  <2>1. dir \in DOMAIN tmp[e.pod]
    BY <1>2 DEF TransformAttempts, Started, Written
  <2>2. dir[1] = "transform" /\ dir[2] = idx
    BY <1>2 DEF TempDir
  <2>3. QED
    BY <1>2, <1>3, <2>1, <2>2 DEF TransformAttempts
<1>5. \/ /\ pc' \in {"transform", "upload"} /\ idx' \in Nat
         /\ pc' = "transform" => idx' > idx
         /\ UNCHANGED output
      \/ /\ pc' = "done" /\ idx' \in Nat
         /\ output'.assertion_only_enabled = conn.assertion
         /\ output'.transformed_data_prefix = FALSE
  <2>1. PICK ts, files : Advance(idx + 1, extracted, ts, files)
    BY DEF TransformReturns
  <2>2. idx + 1 \in Nat
    BY <1>3
  <2>3. \/ pc' = "transform" /\ idx' \in Nat /\ idx' >= idx + 1 /\ UNCHANGED output
        \/ pc' = "upload" /\ idx' = 1 /\ UNCHANGED output
        \/ /\ pc' = "done" /\ UNCHANGED idx
           /\ output'.assertion_only_enabled = conn.assertion
           /\ output'.transformed_data_prefix = FALSE
    BY <2>1, <2>2, AdvanceForward
  <2>4. QED
    BY <1>3, <2>3
<1>6. file \in Entries
  BY <1>2, <1>3, LeafType DEF Entries, RefOf
<1>7. /\ Len(transformed') = Len(transformed) + 1
      /\ transformed'[Len(transformed) + 1] = file
      /\ \A i \in 1..Len(transformed) : transformed'[i] = transformed[i]
      /\ transformed' \in Seq(Entries)
  BY <1>2, <1>3, <1>6
<1>8. Shape'
  BY <1>1, <1>2, <1>5, <1>7 DEF Shape, Shrinks, Tasks
<1>9. Resolved' /\ BeforeTransform' /\ BeforeUpload'
  BY <1>1, <1>2, <1>5 DEF Resolved, BeforeTransform, BeforeUpload, Shrinks, Tasks
<1>10. TransformAttempts'
  <2> SUFFICES ASSUME pc' = "transform" PROVE TransformAttempts'
    BY DEF TransformAttempts
  <2>1. idx' \in Nat /\ idx' > idx
    BY <1>5
  <2>2. ASSUME NEW x \in execs', x.task = "transform"
        PROVE  /\ x.idx <= idx' /\ x.idx # idx'
               /\ x.step # Started => TempDir(x) \in DOMAIN tmp'[x.pod]
    <3>1. x \in execs /\ x.idx \in Nat /\ x.idx <= idx
      BY <1>1, <1>2, <2>2 DEF TransformAttempts, Shrinks, Shape, IsExec
    <3>2. QED
      BY <1>1, <1>2, <1>3, <2>1, <2>2, <3>1 DEF TransformAttempts, Shrinks
  <2>3. ASSUME NEW p \in Pods, NEW d \in DOMAIN tmp'[p], d[1] = "transform"
        PROVE  d[2] \in Nat /\ d[2] <= idx' /\ d[2] # idx'
    BY <1>1, <1>2, <1>3, <2>1, <2>3 DEF TransformAttempts, Shrinks
  <2>4. QED
    BY <2>2, <2>3 DEF TransformAttempts, TempDir
<1>11. TransformedFiles'
  <2> SUFFICES ASSUME NEW i \in 1..Len(transformed')
               PROVE  /\ transformed'[i].label = Leaf(i - 1)
                      /\ transformed'[i].ref \in DOMAIN refs'
                      /\ refs'[transformed'[i].ref].connection
                           = (conn'.emit /\ i = 1)
                      /\ pc' = "transform" => transformed'[i].ref[2] < idx'
    BY DEF TransformedFiles
  <2>1. CASE i = Len(transformed) + 1
    <3>1. transformed'[i] = file /\ i - 1 = Len(transformed)
      BY <1>3, <1>7, <2>1
    <3>2. refs'[RefOf(e)] = tmp[e.pod][dir] /\ RefOf(e) \in DOMAIN refs'
      BY <1>2 DEF Put
    <3>3. EmitConnection = (conn.emit /\ i = 1)
      <4>1. transformed = <<>> <=> i = 1
        BY <1>3, <2>1
      <4>2. QED
        BY <4>1 DEF EmitConnection
    <3>4. pc' = "transform" => RefOf(e)[2] < idx'
      BY <1>2, <1>3, <1>5 DEF RefOf
    <3>5. QED
      BY <1>2, <1>4, <3>1, <3>2, <3>3, <3>4
  <2>2. CASE i \in 1..Len(transformed)
    <3>1. /\ transformed'[i] = transformed[i]
          /\ transformed[i].ref[2] \in Nat /\ transformed[i].ref[2] < idx
      <4>1. transformed'[i] = transformed[i] /\ transformed[i] \in Entries
        BY <1>3, <1>7, <2>2
      <4>2. transformed[i].ref \in {"transform"} \X Nat
        BY <4>1 DEF Entries
      <4>3. transformed[i].ref[2] \in Nat
        BY <4>2
      <4>4. QED
        BY <1>2, <2>2, <4>1, <4>3 DEF TransformedFiles
    <3>2. transformed[i].ref # RefOf(e)
      BY <1>2, <1>3, <3>1 DEF RefOf
    <3>3. /\ transformed[i].ref \in DOMAIN refs'
          /\ refs'[transformed[i].ref] = refs[transformed[i].ref]
      BY <1>2, <2>2, <3>2 DEF Put, TransformedFiles
    <3>4. /\ transformed'[i].label = Leaf(i - 1)
          /\ refs[transformed[i].ref].connection = (conn'.emit /\ i = 1)
      BY <1>2, <2>2, <3>1 DEF TransformedFiles
    <3>5. pc' = "transform" => transformed[i].ref[2] < idx'
      BY <1>3, <1>5, <3>1
    <3>6. QED
      BY <3>1, <3>3, <3>4, <3>5
  <2>3. QED
    BY <1>3, <1>7, <2>1, <2>2
<1>12. StoreHoldsFiles'
  BY <1>2 DEF StoreHoldsFiles
<1>13. UploadAttempts'
  BY <1>1, <1>2 DEF BeforeUpload, UploadAttempts, Shrinks
<1>14. Finished'
  BY <1>2, <1>3, <1>5, <1>7 DEF Finished
<1>15. QED
  BY <1>8, <1>9, <1>10, <1>11, <1>12, <1>13, <1>14

LEMMA UploadFileStep ==
    ASSUME IInv, NEW e \in execs, UploadFile(e)
    PROVE  IInv'
<1> USE DEF IInv
<1> DEFINE to == [e EXCEPT !.step = @ + 1]
<1>1. /\ e.task = "upload" /\ e.step \in Nat /\ IsExec(e) /\ e.pod \in Pods
      /\ Len(transformed) \in Nat /\ e.step + 1 \in 1..Len(transformed)
  BY DEF UploadFile, Shape, IsExec
<1>2. /\ UNCHANGED <<input, pc, idx, conn, transformed, output, tmp, refs>>
      /\ \A x \in execs' : x = to \/ x \in execs
      /\ store' = Put(store, transformed[e.step + 1].label,
                      refs[transformed[e.step + 1].ref])
  BY DEF UploadFile, Moves, runVars
<1>3. transformed[e.step + 1].label = Leaf(e.step)
  BY <1>1 DEF TransformedFiles
<1>4. /\ IsExec(to) /\ to.task = "upload" /\ to.step = e.step + 1
  BY <1>1 DEF IsExec
<1>5. pc \in {"upload", "done", "failed"}
  BY <1>1 DEF BeforeUpload, Shape, Tasks
<1>6. /\ DOMAIN store' = DOMAIN store \cup {Leaf(e.step)}
      /\ store'[Leaf(e.step)] = refs[transformed[e.step + 1].ref]
      /\ \A l \in DOMAIN store : l # Leaf(e.step) => store'[l] = store[l]
  BY <1>2, <1>3 DEF Put
<1>7. Shape'
  BY <1>2, <1>4 DEF Shape
<1>8. Resolved' /\ BeforeTransform' /\ BeforeUpload' /\ TransformAttempts'
  BY <1>2, <1>5 DEF Resolved, BeforeTransform, BeforeUpload, TransformAttempts
<1>9. TransformedFiles'
  BY <1>2 DEF TransformedFiles
<1>10. StoreHoldsFiles'
  <2> SUFFICES ASSUME NEW l \in DOMAIN store'
               PROVE  \E i \in 1..Len(transformed) :
                         l = Leaf(i - 1) /\ store'[l] = refs[transformed[i].ref]
    BY <1>2 DEF StoreHoldsFiles
  <2>1. CASE l = Leaf(e.step)
    BY <1>1, <1>6, <2>1
  <2>2. CASE l # Leaf(e.step)
    BY <1>6, <2>2 DEF StoreHoldsFiles
  <2>3. QED
    BY <2>1, <2>2
<1>11. UploadAttempts'
  <2> SUFFICES ASSUME NEW x \in execs', x.task = "upload"
               PROVE  /\ x.step <= Len(transformed)
                      /\ \A k \in 1..x.step : Leaf(k - 1) \in DOMAIN store'
    BY <1>2 DEF UploadAttempts
  <2>1. CASE x = to
    <3>1. ASSUME NEW k \in 1..(e.step + 1) PROVE Leaf(k - 1) \in DOMAIN store'
      <4>1. CASE k = e.step + 1
        BY <1>1, <1>6, <4>1
      <4>2. CASE k \in 1..e.step
        BY <1>1, <1>6, <4>2 DEF UploadAttempts
      <4>3. QED
        BY <1>1, <4>1, <4>2
    <3>2. QED
      BY <1>1, <1>4, <2>1, <3>1
  <2>2. CASE x \in execs
    BY <1>6, <2>2 DEF UploadAttempts
  <2>3. QED
    BY <1>2, <2>1, <2>2
<1>12. Finished'
  BY <1>2, <1>6 DEF Finished
<1>13. QED
  BY <1>7, <1>8, <1>9, <1>10, <1>11, <1>12

LEMMA UploadReturnsStep ==
    ASSUME IInv, NEW e \in execs, UploadReturns(e)
    PROVE  IInv'
<1> USE DEF IInv
<1>1. Shrinks
  BY GoneShrinks DEF UploadReturns
<1>2. /\ pc = "upload" /\ pc' = "done" /\ transformed # <<>>
      /\ UNCHANGED <<input, idx, conn, transformed, refs, store>>
  BY DEF UploadReturns, Return, Current, Finished
<1>3. /\ output'.assertion_only_enabled = conn.assertion
      /\ \A i \in 1..Len(transformed) : Leaf(i - 1) \in DOMAIN store
  BY DEF UploadReturns, Return, Output, UploadAttempts
<1>4. Shape'
  BY <1>1, <1>2 DEF Shape, Shrinks
<1>5. Resolved' /\ BeforeTransform' /\ BeforeUpload' /\ TransformAttempts'
  BY <1>1, <1>2 DEF Resolved, BeforeTransform, BeforeUpload, TransformAttempts, Tasks
<1>6. TransformedFiles' /\ StoreHoldsFiles' /\ UploadAttempts'
  BY <1>1, <1>2 DEF TransformedFiles, StoreHoldsFiles, UploadAttempts, Shrinks
<1>7. Finished'
  BY <1>2, <1>3 DEF Finished
<1>8. QED
  BY <1>4, <1>5, <1>6, <1>7

----------------------------------------------------------------------------
(* The theorems *)

LEMMA NextIInv == IInv /\ [Next]_vars => IInv'
<1> SUFFICES ASSUME IInv, [Next]_vars PROVE IInv'
  OBVIOUS
<1>1. CASE Begin
  BY <1>1, BeginStep
<1>2. ASSUME NEW p \in Pods, StartAttempt(p) \/ PodRestarts(p) PROVE IInv'
  BY <1>2, StartAttemptStep, RestartStep
<1>3. CASE TimeoutAttempt
  BY <1>3, TimeoutStep
<1>4. ASSUME NEW e \in execs, Execute(e) PROVE IInv'
  BY <1>4, QuietActions, WriteActions, DownloadReturnsStep, ExtractReturnsStep,
     TransformReturnsStep, UploadFileStep, UploadReturnsStep DEF Execute
<1>5. CASE UNCHANGED vars
  <2>1. Shrinks
    BY <1>5 DEF IInv, Shape, Shrinks, vars, storageVars, activityVars
  <2>2. UNCHANGED <<input, refs, store, transformed, conn, output, idx, pc>>
    BY <1>5 DEF vars, storageVars, runVars
  <2>3. QED
    BY <2>1, <2>2, QuietStep
<1>6. QED
  BY <1>1, <1>2, <1>3, <1>4, <1>5 DEF Next

\* The invariant holds of every run: attempts of a transform agree on its
\* Connection, and every object of the prefix is one transformed file.
THEOREM RunInvariant == Spec => []IInv
  BY InitIInv, NextIInv, PTL DEF Spec

\* The Connection is handed over first and once, and on REUSE not at all, in
\* which case and only then the publish asserts and does not diff.
THEOREM ConnectionIsOnce == Spec => []ConnectionOnce
<1>1. IInv => ConnectionOnce
  <2> SUFFICES ASSUME IInv, Delivered PROVE ConnectionOnce
    BY DEF ConnectionOnce
  <2> USE DEF IInv
  <2>1. /\ pc = "done" /\ output.transformed_data_prefix
        /\ transformed # <<>> /\ transformed \in Seq(Entries)
        /\ output.assertion_only_enabled = conn.assertion
        /\ conn.emit \in BOOLEAN /\ conn.assertion \in BOOLEAN
        /\ conn.emit <=> input.connection_usage # "REUSE"
        /\ conn.assertion <=> input.connection_usage = "REUSE"
    BY DEF Delivered, Finished, Resolved, Shape
  <2>2. ASSUME NEW i \in 1..Len(transformed)
        PROVE  /\ transformed[i].label = Leaf(i - 1)
               /\ Leaf(i - 1) \in DOMAIN store
               /\ store[Leaf(i - 1)].connection = (conn.emit /\ i = 1)
    <3>1. transformed[i].label = Leaf(i - 1) /\ Leaf(i - 1) \in DOMAIN store
      BY <2>1 DEF TransformedFiles, Finished
    <3>2. store[Leaf(i - 1)] = refs[transformed[i].ref]
      BY <2>1, <3>1, StoreByName
    <3>3. QED
      BY <3>1, <3>2 DEF TransformedFiles
  <2>3. \A i \in DOMAIN transformed :
           store[transformed[i].label].connection
             <=> (input.connection_usage # "REUSE" /\ i = 1)
    BY <2>1, <2>2
  <2>4. conn.emit <=> \E l \in DOMAIN store : store[l].connection
    <3>1. 1 \in 1..Len(transformed)
      BY <2>1
    <3>2. ASSUME conn.emit PROVE \E l \in DOMAIN store : store[l].connection
      BY <2>2, <3>1, <3>2
    <3>3. ASSUME NEW l \in DOMAIN store, store[l].connection PROVE conn.emit
      <4>1. PICK i \in 1..Len(transformed) : l = Leaf(i - 1)
        BY DEF StoreHoldsFiles
      <4>2. QED
        BY <2>2, <3>3, <4>1
    <3>4. QED
      BY <3>2, <3>3
  <2>5. QED
    BY <2>1, <2>3, <2>4 DEF ConnectionOnce
<1>2. QED
  BY <1>1, RunInvariant, PTL

Stable == \A l \in DOMAIN store : l \in DOMAIN store' /\ store'[l] = store[l]

LEMMA NextStable == IInv /\ [Next]_vars => Stable
<1> SUFFICES ASSUME IInv, [Next]_vars PROVE Stable
  OBVIOUS
<1>1. CASE UNCHANGED store
  BY <1>1 DEF Stable
<1>2. ASSUME NEW e \in execs, UploadFile(e) PROVE Stable
  <2> DEFINE i == e.step + 1
  <2>1. /\ i \in 1..Len(transformed) /\ transformed \in Seq(Entries)
        /\ StoreHoldsFiles
    BY <1>2 DEF UploadFile, IInv, Shape, IsExec
  <2>2. /\ transformed[i].label = Leaf(i - 1)
        /\ store' = Put(store, Leaf(i - 1), refs[transformed[i].ref])
    BY <1>2, <2>1 DEF UploadFile, IInv, TransformedFiles
  <2>3. Leaf(i - 1) \in DOMAIN store
          => store[Leaf(i - 1)] = refs[transformed[i].ref]
    BY <2>1, StoreByName
  <2>4. QED
    BY <2>2, <2>3 DEF Put, Stable
<1>3. UNCHANGED store \/ \E e \in execs : UploadFile(e)
  BY DEF Next, Begin, StartAttempt, PodRestarts, TimeoutAttempt, Execute,
     DownloadRefused, Download, DownloadReturns, FetchMissing, FetchCorrupt,
     Fetch, WriteRecords, ExtractReturns, OpenOutput, WriteRows,
     TransformReturns, UploadReturns, AttemptRaises, StaleAttemptEnds,
     vars, storageVars
<1>4. QED
  BY <1>1, <1>2, <1>3

\* No step changes an object of the prefix: an upload that repeats or overlaps
\* another writes what is already there.
THEOREM UploadsAreStable == Spec => UploadsNeverChange
<1>1. IInv /\ [Next]_vars => [Stable]_vars
  BY NextStable
<1>2. QED
  BY <1>1, RunInvariant, PTL DEF Spec, UploadsNeverChange, Stable
============================================================================
