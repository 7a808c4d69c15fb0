----------------------- MODULE SpecRunDelivery_proofs -----------------------
(***************************************************************************)
(* Proofs about what one connector run hands over: for every number of     *)
(* spec files, pods, attempts and versions, each object of the prefix is   *)
(* the complete extraction of one version of one spec file, the counters   *)
(* describe the objects, and every step of the run is one LoadPromise      *)
(* allows.                                                                 *)
(***************************************************************************)
EXTENDS SpecRun_proofs, Sums_proofs

----------------------------------------------------------------------------
(* What an extraction writes *)

LEMMA ExtractionFinite ==
    ASSUME NEW in \in Inputs, NEW f \in Files(in),
           NEW docs \in Versions[f] \ {Corrupt}, NEW c
    PROVE  /\ Cardinality(Records(c, docs).specs) \in Nat
           /\ Cardinality(Records(c, docs).paths) \in Nat
           /\ UsableDocs(docs) # {} => Cardinality(Records(c, docs).specs) # 0
<1> DEFINE U == UsableDocs(docs)
<1>1. IsFiniteSet(U)
  <2>1. IsFiniteSet(DOMAIN docs) /\ U \subseteq DOMAIN docs
    BY DocumentsAssumption DEF UsableDocs
  <2>2. QED
    BY <2>1, FS_Subset
<1>2. IsFiniteSet(SpecLines(c, docs))
  <2> DEFINE line == [d \in U |-> [doc |-> d, qn |-> SpecQN(c, docs[d].title)]]
  <2>1. line \in Surjection(U, SpecLines(c, docs))
    BY DEF Surjection, SpecLines
  <2>2. QED
    BY <1>1, <2>1, FS_Surjection
<1>3. ASSUME NEW d \in U PROVE IsFiniteSet(PathLinesOf(c, d, docs[d]))
  <2> DEFINE items == AllPathItems(docs[d])
             keys == {j \in DOMAIN items : items[j] # NotADict}
             spec == SpecQN(c, docs[d].title)
             line == [k \in keys |-> [doc |-> d, spec |-> spec, qn |-> PathQN(spec, k),
                                      ops |-> Operations(items[k])]]
  <2>1. IsFiniteSet(DOMAIN docs[d].paths) /\ IsFiniteSet(DOMAIN docs[d].webhooks)
    BY DocumentsAssumption DEF UsableDocs
  <2>2. DOMAIN items = DOMAIN docs[d].paths \cup DOMAIN docs[d].webhooks
    BY DEF AllPathItems
  <2>3. IsFiniteSet(DOMAIN items)
    BY <2>1, <2>2, FS_Union
  <2>4. IsFiniteSet(keys)
    BY <2>3, FS_Subset
  <2>5. PathLinesOf(c, d, docs[d]) = {line[k] : k \in keys}
    BY DEF PathLinesOf
  <2>6. line \in Surjection(keys, PathLinesOf(c, d, docs[d]))
    BY <2>5 DEF Surjection
  <2>7. QED
    BY <2>4, <2>6, FS_Surjection
<1>4. IsFiniteSet(PathLines(c, docs))
  <2> DEFINE parts == {PathLinesOf(c, d, docs[d]) : d \in U}
             part == [d \in U |-> PathLinesOf(c, d, docs[d])]
  <2>1. part \in Surjection(U, parts)
    BY DEF Surjection
  <2>2. IsFiniteSet(parts)
    BY <1>1, <2>1, FS_Surjection
  <2>3. IsFiniteSet(UNION parts)
    BY <1>3, <2>2, FS_UNION
  <2>4. QED
    BY <2>3 DEF PathLines
<1>5. Records(c, docs).specs = SpecLines(c, docs)
      /\ Records(c, docs).paths = PathLines(c, docs)
  BY DEF Records
<1>6. U # {} => SpecLines(c, docs) # {}
  BY DEF SpecLines
<1>7. QED
  BY <1>2, <1>4, <1>5, <1>6, FS_CardinalityType, FS_EmptySet

\* No extraction is skipped: the next one to transform is the next one.
LEMMA NoneSkipped ==
    ASSUME NEW results \in Seq(Results), NEW from \in Nat \ {0}
    PROVE  /\ from <= Len(results) => NextTransform(from, results) = {from}
           /\ from > Len(results) => NextTransform(from, results) = {}
<1>1. ASSUME NEW i \in 1..Len(results) PROVE Extracted(results[i]) > 0
  <2>1. results[i] \in Results
    OBVIOUS
  <2>2. results[i].specs \in Nat \ {0} /\ results[i].paths \in Nat
    BY <2>1 DEF Results
  <2>3. QED
    BY <2>2 DEF Extracted
<1> DEFINE next == NextTransform(from, results)
<1>2. ASSUME NEW i \in next PROVE i \in from..Len(results) /\ i = from
  <2>1. /\ i \in from..Len(results)
        /\ \A j \in from..(i - 1) : Extracted(results[j]) = 0
    BY DEF NextTransform
  <2>2. CASE i # from
    <3>1. from \in from..(i - 1) /\ from \in 1..Len(results)
      BY <2>1, <2>2
    <3>2. Extracted(results[from]) = 0 /\ Extracted(results[from]) > 0
      BY <1>1, <2>1, <3>1
    <3>3. QED
      BY <3>2
  <2>3. QED
    BY <2>1, <2>2
<1>3. ASSUME from <= Len(results) PROVE from \in next
  BY <1>1, <1>3 DEF NextTransform
<1> HIDE DEF next
<1>4. QED
  BY <1>2, <1>3 DEF next

\* What the run does next: it transforms the next file, and after the last it
\* uploads them, if it is to, or returns.
LEMMA AdvanceGoes ==
    ASSUME NEW results \in Seq(Results), NEW from \in Nat \ {0}, NEW ts, NEW files,
           Advance(from, results, ts, files), files # <<>> \/ from <= Len(results)
    PROVE  \/ from <= Len(results) /\ Schedule("transform", from) /\ UNCHANGED output
           \/ /\ from > Len(results) /\ input.load_to_atlan
              /\ Schedule("upload", 1) /\ UNCHANGED output
           \/ /\ from > Len(results) /\ ~ input.load_to_atlan
              /\ Return(FALSE, ts, files)
<1>1. from <= Len(results) \/ from > Len(results)
  OBVIOUS
<1>2. CASE from <= Len(results)
  <2>1. NextTransform(from, results) = {from}
    BY <1>2, NoneSkipped
  <2>2. Schedule("transform", from) /\ UNCHANGED output
    BY <2>1, Zenon DEF Advance
  <2>3. QED
    BY <1>2, <2>2, Zenon
<1>3. CASE from > Len(results)
  <2>1. NextTransform(from, results) = {}
    BY <1>3, NoneSkipped
  <2>2. files # <<>>
    BY <1>3
  <2>3. QED
    BY <1>3, <2>1, <2>2, Zenon DEF Advance
<1>4. QED
  BY <1>1, <1>2, <1>3, Zenon

----------------------------------------------------------------------------
(* The attempts of an activity *)

LEMMA AttemptsShrink ==
    ASSUME Attempts, execs' \subseteq execs,
           UNCHANGED <<idx, attempt>>, pc' \in {pc, "failed"},
           live' \in BOOLEAN, live' => pc' \in Tasks,
           pc' \in Tasks /\ ~live' => attempt < MaxAttempts,
           restarts' \in 0..MaxRestarts
    PROVE  Attempts'
  BY DEF Attempts, Tasks, TempDir

LEMMA AttemptsMove ==
    ASSUME Attempts, NEW e \in execs, NEW to, Moves(e, to),
           to.task = e.task, to.idx = e.idx, to.attempt = e.attempt,
           UNCHANGED <<idx, attempt, pc, live, restarts>>
    PROVE  Attempts'
<1>1. \A x \in execs' : x = to \/ (x \in execs /\ x # e)
  BY DEF Moves
<1>2. TempDir(to) = TempDir(e)
  BY DEF TempDir
<1>3. \A x, y \in execs' : TempDir(x) = TempDir(y) => x = y
  BY <1>1, <1>2 DEF Attempts
<1>4. \A x \in execs' :
          /\ x.attempt \in 1..MaxAttempts
          /\ pc = "extract" /\ x.task = "extract" => x.idx <= idx
          /\ pc \in Tasks /\ x.task = pc /\ x.idx = idx => x.attempt <= attempt
          /\ pc = "download" => x.task = "download"
  BY <1>1 DEF Attempts
<1>5. pc # "begin"
  BY DEF Attempts
<1>6. QED
  BY <1>3, <1>4, <1>5 DEF Attempts, TempDir

\* The awaited activity changes: no attempt of the new one was made yet.
LEMMA AttemptsSchedule ==
    ASSUME Attempts, execs' \subseteq execs, NEW task \in Tasks, NEW i,
           Schedule(task, i), UNCHANGED restarts,
           \A e \in execs' : ~ (e.task = task /\ e.idx = i),
           task = "download" => \A e \in execs' : e.task = "download",
           task = "extract" => \A e \in execs' : e.task = "extract" => e.idx <= i
    PROVE  Attempts'
<1>1. attempt' = 0 /\ live' = FALSE /\ pc' = task /\ idx' = i
  BY DEF Schedule
<1>2. 0 < MaxAttempts /\ 0 \in 0..MaxAttempts
  BY BoundsAssumption
<1>3. pc' # "begin"
  BY <1>1 DEF Tasks
<1>4. QED
  BY <1>1, <1>2, <1>3 DEF Attempts, TempDir

\* The run is over, and nothing is awaited any more.
LEMMA AttemptsEnd ==
    ASSUME Attempts, execs' \subseteq execs, pc' \in {"done", "failed"},
           live' = FALSE, UNCHANGED <<attempt, restarts>>
    PROVE  Attempts'
  BY DEF Attempts, Tasks, TempDir

----------------------------------------------------------------------------
(* Steps that leave run() where it is, or end it with an error *)

LEMMA QuietLineage ==
    ASSUME IInv, Lineage, Shrinks, Attempts',
           UNCHANGED <<input, conn, specUrls, extracted, transformed, idx, totals,
                       output, refs>>,
           pc' \in {pc, "failed"}
    PROVE  Lineage'
<1> USE DEF Lineage
<1>1. pc' \in Tasks \cup {"begin", "done"} => pc' = pc
  BY DEF Tasks
<1>2. Accepted'
  BY <1>1 DEF Accepted, Tasks
<1>3. SpecFiles'
  BY <1>1 DEF SpecFiles, Shrinks, Tasks
<1>4. Progress' /\ Counted' /\ Returned'
  BY <1>1 DEF Progress, Counted, Returned, Sizes, Output, Tasks
<1>5. ExtractAttempts'
  <2> SUFFICES ASSUME pc' = "extract", NEW e \in execs', e.task = "extract"
               PROVE  /\ e.idx >= 1
                      /\ e.step # Started =>
                           e.docs \in Versions[specUrls[e.idx].file] \ {Corrupt}
                      /\ e.step = Written => /\ UsableDocs(e.docs) # {}
                                             /\ TempDir(e) \in DOMAIN tmp'[e.pod]
                                             /\ tmp'[e.pod][TempDir(e)] = Extraction(e)
    BY DEF ExtractAttempts, Extraction, TempDir
  <2>1. e \in execs /\ e.pod \in Pods
    BY DEF Shrinks, IInv, Shape, IsExec
  <2>2. QED
    BY <2>1 DEF ExtractAttempts, Shrinks
<1>6. ExtractedFiles'
  BY DEF ExtractedFiles, ExtractionsOf
<1>7. TransformedRows'
  <2>1. ASSUME pc' = "transform", NEW e \in execs', e.task = "transform", e.idx = idx,
               e.step = Written
        PROVE  tmp'[e.pod][TempDir(e)] = Transformed(e.emit, refs[<<"extract", idx>>])
    <3>1. e \in execs /\ e.pod \in Pods /\ pc = "transform"
      BY <2>1 DEF Shrinks, IInv, Shape, IsExec
    <3>2. TempDir(e) \in DOMAIN tmp[e.pod]
      BY <2>1, <3>1 DEF IInv, TransformAttempts, Started, Written
    <3>3. tmp'[e.pod][TempDir(e)] = tmp[e.pod][TempDir(e)]
      BY <2>1, <3>1, <3>2 DEF Shrinks
    <3>4. QED
      BY <2>1, <3>1, <3>3 DEF TransformedRows
  <2>2. QED
    BY <2>1 DEF TransformedRows, TempDir
<1>8. QED
  BY <1>2, <1>3, <1>4, <1>5, <1>6, <1>7

\* An attempt goes on, and writes no directory but its own.
LEMMA WriteLineage ==
    ASSUME IInv, Lineage, NEW e \in execs, NEW to, Moves(e, to),
           to.task = e.task, to.idx = e.idx, to.attempt = e.attempt, to.pod = e.pod,
           to.emit = e.emit,
           UNCHANGED <<input, runVars, attempt, live, refs, restarts>>,
           NEW content,
           WriteDir(e, content) \/ (UNCHANGED tmp /\ e.task = "upload"),
           e.task = "download" => \A f \in Files(input) : content[f] \in Versions[f],
           pc = "extract" /\ e.task = "extract" =>
              /\ to.step # Started =>
                   to.docs \in Versions[specUrls[e.idx].file] \ {Corrupt}
              /\ to.step = Written => /\ UsableDocs(to.docs) # {}
                                      /\ content = Extraction(to),
           pc = "transform" /\ e.task = "transform" /\ e.idx = idx /\ to.step = Written =>
              content = Transformed(e.emit, refs[<<"extract", idx>>])
    PROVE  Lineage'
<1> USE DEF Lineage
<1>1. UNCHANGED <<input, pc, conn, specUrls, extracted, transformed, idx, totals,
                  output, refs, attempt, live, restarts>>
  BY DEF runVars
<1>2. \A x \in execs' : x = to \/ (x \in execs /\ x # e)
  BY DEF Moves
<1>3. e.pod \in Pods /\ IsExec(e) /\ TempDir(to) = TempDir(e) /\ TempDir(e)[1] = e.task
      /\ \A x \in execs : x.pod \in Pods
  BY DEF IInv, Shape, IsExec, TempDir
<1>4. \A x \in execs' : x # to => TempDir(x) # TempDir(e)
  BY <1>2 DEF Attempts
<1>5. \A p \in Pods : \A d :
         d # TempDir(e) => /\ d \in DOMAIN tmp'[p] <=> d \in DOMAIN tmp[p]
                           /\ d \in DOMAIN tmp[p] => tmp'[p][d] = tmp[p][d]
  BY <1>3 DEF WriteDir, Put, IInv, Shape
<1>6. WriteDir(e, content) => TempDir(e) \in DOMAIN tmp'[e.pod]
                              /\ tmp'[e.pod][TempDir(e)] = content
  BY <1>3 DEF WriteDir, Put, IInv, Shape
<1>7. \A p \in Pods : TempDir(e) \in DOMAIN tmp'[p] =>
         \/ TempDir(e) \in DOMAIN tmp[p] /\ tmp'[p][TempDir(e)] = tmp[p][TempDir(e)]
         \/ tmp'[p][TempDir(e)] = content /\ WriteDir(e, content)
  BY <1>3 DEF WriteDir, Put, IInv, Shape
<1>8. Attempts'
  BY <1>1, AttemptsMove
<1>9. Accepted' /\ Progress' /\ Counted' /\ Returned' /\ ExtractedFiles'
  <2>1. Accepted' /\ Progress' /\ Counted'
    BY <1>1 DEF Accepted, Progress, Counted, Sizes
  <2>2. Returned' /\ ExtractedFiles'
    BY <1>1 DEF Returned, Output, ExtractedFiles, ExtractionsOf
  <2>3. QED
    BY <2>1, <2>2
<1>10. SpecFiles'
  <2>1. ASSUME NEW p \in Pods, NEW d \in DOMAIN tmp'[p], d[1] = "download",
               NEW f \in Files(input)
        PROVE  tmp'[p][d][f] \in Versions[f]
    <3>1. CASE d \in DOMAIN tmp[p] /\ tmp'[p][d] = tmp[p][d]
      BY <2>1, <3>1 DEF SpecFiles
    <3>2. CASE d = TempDir(e) /\ tmp'[p][d] = content
      BY <1>3, <2>1, <3>2
    <3>3. QED
      BY <1>5, <1>7, <3>1, <3>2
  <2>2. QED
    BY <1>1, <2>1 DEF SpecFiles
<1>11. ExtractAttempts'
  <2> SUFFICES ASSUME pc = "extract", NEW x \in execs', x.task = "extract"
               PROVE  /\ x.idx >= 1
                      /\ x.step # Started =>
                           x.docs \in Versions[specUrls[x.idx].file] \ {Corrupt}
                      /\ x.step = Written => /\ UsableDocs(x.docs) # {}
                                             /\ TempDir(x) \in DOMAIN tmp'[x.pod]
                                             /\ tmp'[x.pod][TempDir(x)] = Extraction(x)
    BY <1>1 DEF ExtractAttempts, Extraction, TempDir
  <2>1. CASE x = to
    <3>1. WriteDir(e, content) /\ e.idx >= 1
      BY <2>1 DEF ExtractAttempts
    <3>2. QED
      BY <1>3, <1>6, <2>1, <3>1
  <2>2. CASE x \in execs /\ x # to
    <3>1. x.pod \in Pods /\ TempDir(x) # TempDir(e)
      BY <1>3, <1>4, <2>2
    <3>2. /\ x.idx >= 1
          /\ x.step # Started => x.docs \in Versions[specUrls[x.idx].file] \ {Corrupt}
          /\ x.step = Written => /\ UsableDocs(x.docs) # {}
                                 /\ TempDir(x) \in DOMAIN tmp[x.pod]
                                 /\ tmp[x.pod][TempDir(x)] = Extraction(x)
      BY <2>2 DEF ExtractAttempts
    <3>3. QED
      BY <1>5, <3>1, <3>2
  <2>3. QED
    BY <1>2, <2>1, <2>2
<1>12. TransformedRows'
  <2>1. ASSUME pc = "transform", NEW x \in execs', x.task = "transform", x.idx = idx,
               x.step = Written
        PROVE  tmp'[x.pod][TempDir(x)] = Transformed(x.emit, refs[<<"extract", idx>>])
    <3>1. CASE x = to
      BY <1>3, <1>6, <2>1, <3>1
    <3>2. CASE x \in execs /\ x # to
      <4>1. x.pod \in Pods /\ TempDir(x) # TempDir(e)
        BY <1>3, <1>4, <3>2
      <4>2. TempDir(x) \in DOMAIN tmp[x.pod]
        BY <2>1, <3>2 DEF IInv, TransformAttempts, Started, Written
      <4>3. tmp'[x.pod][TempDir(x)] = tmp[x.pod][TempDir(x)]
        BY <1>5, <4>1, <4>2
      <4>4. QED
        BY <2>1, <3>2, <4>3 DEF TransformedRows
    <3>3. QED
      BY <1>2, <3>1, <3>2
  <2>2. QED
    BY <1>1, <2>1 DEF TransformedRows, TempDir
<1>13. QED
  BY <1>8, <1>9, <1>10, <1>11, <1>12

\* What run(), the server or a pod does besides scheduling.
LEMMA QuietStepLineage ==
    ASSUME IInv, Lineage,
           \/ UNCHANGED vars
           \/ TimeoutAttempt
           \/ \E p \in Pods : PodRestarts(p)
           \/ \E e \in execs : \/ AttemptRaises(e) \/ StaleAttemptEnds(e)
                               \/ \E err : /\ Rejected(e, err)
                                           /\ UNCHANGED <<input, refs, store, restarts>>
    PROVE  Lineage'
<1> USE DEF Lineage
<1>1. Shrinks
  <2>1. CASE UNCHANGED vars
    BY <2>1 DEF vars, activityVars, storageVars, Shrinks, IInv, Shape
  <2>2. CASE TimeoutAttempt
    <3>1. CASE Remain(Stale)
      BY <3>1, RemainShrinks, Stale \in SUBSET execs DEF IInv, Stale
    <3>2. CASE UNCHANGED <<execs, tmp>>
      BY <3>2 DEF Shrinks, IInv, Shape
    <3>3. QED
      BY <2>2, <3>1, <3>2 DEF TimeoutAttempt
  <2>3. ASSUME NEW p \in Pods, PodRestarts(p) PROVE Shrinks
    BY <2>3, RestartShrinks DEF PodRestarts, IInv
  <2>4. ASSUME NEW e \in execs, Gone(e) PROVE Shrinks
    BY <2>4, GoneShrinks DEF IInv
  <2>5. QED
    BY <2>1, <2>2, <2>3, <2>4 DEF AttemptRaises, StaleAttemptEnds, Rejected
<1>2. /\ UNCHANGED <<input, conn, specUrls, extracted, transformed, idx, totals,
                     output, refs, attempt>>
      /\ pc' \in {pc, "failed"}
  BY DEF vars, runVars, activityVars, storageVars, TimeoutAttempt, PodRestarts,
         AttemptRaises, StaleAttemptEnds, Rejected, GiveUpOrRetry, Fail
<1>3. /\ live' \in BOOLEAN
      /\ live' => pc' \in Tasks
      /\ pc' \in Tasks /\ ~live' => attempt < MaxAttempts
  <2>1. CASE UNCHANGED <<live, pc>>
    BY <2>1 DEF Attempts
  <2>2. CASE pc' = "failed" /\ live' = FALSE
    BY <2>2 DEF Tasks
  <2>3. CASE live' = FALSE /\ attempt < MaxAttempts
    BY <2>3
  <2>4. QED
    BY <2>1, <2>2, <2>3 DEF vars, runVars, activityVars, TimeoutAttempt,
       PodRestarts, AttemptRaises, StaleAttemptEnds, Rejected, GiveUpOrRetry, Fail
<1>4. restarts' \in 0..MaxRestarts
  <2>1. CASE UNCHANGED restarts
    BY <2>1 DEF Attempts
  <2>2. CASE restarts < MaxRestarts /\ restarts' = restarts + 1
    BY <2>2, BoundsAssumption DEF Attempts
  <2>3. QED
    BY <2>1, <2>2 DEF vars, TimeoutAttempt, PodRestarts, AttemptRaises,
                      StaleAttemptEnds
<1>5. execs' \subseteq execs
  BY <1>1 DEF Shrinks
<1>6. Attempts'
  BY <1>2, <1>3, <1>4, <1>5, AttemptsShrink
<1>7. QED
  BY <1>1, <1>2, <1>6, QuietLineage

\* A new attempt has written nothing, and its directory is its own.
LEMMA StartAttemptLineage ==
    ASSUME IInv, Lineage, NEW p \in Pods, StartAttempt(p)
    PROVE  Lineage'
<1> USE DEF Lineage
<1> DEFINE new == [task |-> pc, idx |-> idx, attempt |-> attempt + 1, pod |-> p,
                   step |-> Started, docs |-> <<>>, emit |-> EmitConnection]
<1>1. /\ pc \in Tasks /\ ~live /\ live' = TRUE /\ attempt' = attempt + 1
      /\ execs' = execs \cup {new}
      /\ UNCHANGED <<input, pc, conn, specUrls, extracted, transformed, idx, totals,
                     output, tmp, refs, restarts>>
  BY DEF StartAttempt, runVars, storageVars
<1>2. attempt \in Nat /\ attempt < MaxAttempts /\ MaxAttempts \in Nat
  BY <1>1, BoundsAssumption DEF Attempts
<1>3. /\ new.task = pc /\ new.idx = idx /\ new.attempt = attempt + 1
      /\ new.step = Started /\ new.step # Written
      /\ TempDir(new) = <<pc, idx, attempt + 1>>
  BY DEF TempDir, Started, Written
<1> HIDE DEF new
<1>4. \A x \in execs' : x = new \/ x \in execs
  BY <1>1
<1>5. Attempts'
  <2>1. \A x \in execs : TempDir(x) # TempDir(new)
    <3> SUFFICES ASSUME NEW x \in execs, TempDir(x) = TempDir(new) PROVE FALSE
      OBVIOUS
    <3>1. x.task = pc /\ x.idx = idx /\ x.attempt = attempt + 1
      BY <1>3 DEF TempDir
    <3>2. QED
      BY <1>1, <1>2, <3>1 DEF Attempts
  <2>2. \A x, y \in execs' : TempDir(x) = TempDir(y) => x = y
    BY <1>4, <2>1 DEF Attempts
  <2>3. attempt' \in 0..MaxAttempts /\ attempt + 1 \in 1..MaxAttempts
    BY <1>1, <1>2
  <2>4. idx \in Nat
    BY DEF IInv, Shape
  <2>5. \A x \in execs' :
          /\ x.attempt \in 1..MaxAttempts
          /\ pc = "extract" /\ x.task = "extract" => x.idx <= idx
          /\ pc \in Tasks /\ x.task = pc /\ x.idx = idx => x.attempt <= attempt + 1
          /\ pc = "download" => x.task = "download"
    BY <1>2, <1>3, <1>4, <2>3, <2>4 DEF Attempts
  <2>6. pc # "begin"
    BY <1>1 DEF Tasks
  <2>7. restarts' \in 0..MaxRestarts
    BY <1>1 DEF Attempts
  <2>8. QED
    BY <1>1, <2>2, <2>3, <2>5, <2>6, <2>7 DEF Attempts, TempDir
<1>6. Accepted' /\ Progress' /\ Counted'
  BY <1>1 DEF Accepted, Progress, Counted, Sizes
<1>7. SpecFiles' /\ Returned' /\ ExtractedFiles'
  <2>1. SpecFiles'
    BY <1>1 DEF SpecFiles
  <2>2. Returned' /\ ExtractedFiles'
    BY <1>1 DEF Returned, Output, ExtractedFiles, ExtractionsOf
  <2>3. QED
    BY <2>1, <2>2
<1>8. ExtractAttempts'
  <2> SUFFICES ASSUME pc = "extract", NEW x \in execs', x.task = "extract"
               PROVE  /\ x.idx >= 1
                      /\ x.step # Started =>
                           x.docs \in Versions[specUrls[x.idx].file] \ {Corrupt}
                      /\ x.step = Written => /\ UsableDocs(x.docs) # {}
                                             /\ TempDir(x) \in DOMAIN tmp[x.pod]
                                             /\ tmp[x.pod][TempDir(x)] = Extraction(x)
    BY <1>1 DEF ExtractAttempts, Extraction, TempDir
  <2>1. CASE x = new
    BY <1>3, <2>1 DEF Progress
  <2>2. CASE x \in execs
    BY <2>2 DEF ExtractAttempts
  <2>3. QED
    BY <1>4, <2>1, <2>2
<1>9. TransformedRows'
  <2>1. ASSUME pc = "transform", NEW x \in execs', x.task = "transform", x.idx = idx,
               x.step = Written
        PROVE  tmp[x.pod][TempDir(x)] = Transformed(x.emit, refs[<<"extract", idx>>])
    BY <1>3, <1>4, <2>1 DEF TransformedRows
  <2>2. QED
    BY <1>1, <2>1 DEF TransformedRows, TempDir
<1>10. QED
  BY <1>5, <1>6, <1>7, <1>8, <1>9

\* The files of spec_urls are files the input lists.
LEMMA SpecUrlListed ==
    ASSUME Lineage, NEW i \in 1..Len(specUrls)
    PROVE  /\ specUrls[i].file \in Files(input)
           /\ i \in DOMAIN Listed(input) /\ specUrls[i].file = Listed(input)[i]
           /\ specUrls[i].dir = None \/ specUrls[i].dir[1] = "download"
<1>1. Listed(input) \in Seq(Files(input))
  BY ListingAssumption DEF Lineage, Accepted
<1>2. specUrls # <<>>
  OBVIOUS
<1>3. Len(specUrls) = Len(Listed(input)) /\ specUrls[i].file = Listed(input)[i]
      /\ (specUrls[i].dir = None \/ specUrls[i].dir[1] = "download")
  BY <1>2 DEF Lineage, SpecFiles
<1>4. i \in DOMAIN Listed(input) /\ Listed(input)[i] \in Files(input)
  BY <1>1, <1>3
<1>5. QED
  BY <1>3, <1>4

\* An extraction fetches a version of its file, from the URL or the pod's disk.
LEMMA FetchedVersions ==
    ASSUME IInv, Lineage, NEW e \in execs, e.task = "extract", pc = "extract"
    PROVE  /\ e.idx \in 1..Len(specUrls)
           /\ Fetched(e) \subseteq Versions[specUrls[e.idx].file]
<1> DEFINE u == specUrls[e.idx]
<1>1. Len(specUrls) \in Nat
  <2>1. CASE specUrls = <<>>
    BY <2>1
  <2>2. CASE specUrls # <<>>
    <3>1. Listed(input) \in Seq(Files(input))
      BY ListingAssumption DEF Lineage, Accepted
    <3>2. QED
      BY <2>2, <3>1 DEF Lineage, SpecFiles
  <2>3. QED
    BY <2>1, <2>2
<1>2. /\ e.idx \in Nat /\ e.idx >= 1 /\ e.idx <= idx /\ idx \in Nat
      /\ idx <= Len(specUrls) /\ e.pod \in Pods
  BY DEF Lineage, Progress, Attempts, ExtractAttempts, IInv, Shape, IsExec
<1>3. e.idx \in 1..Len(specUrls)
  BY <1>1, <1>2
<1>4. u.file \in Files(input) /\ (u.dir = None \/ u.dir[1] = "download")
  BY <1>3, SpecUrlListed
<1>5. u.dir # None /\ u.dir \in DOMAIN tmp[e.pod]
        => tmp[e.pod][u.dir][u.file] \in Versions[u.file]
  BY <1>2, <1>4 DEF Lineage, SpecFiles
<1>6. QED
  BY <1>3, <1>5 DEF Fetched

LEMMA WriteActionsLineage ==
    ASSUME IInv, Lineage, NEW e \in execs,
           \/ Download(e) \/ Fetch(e) \/ WriteRecords(e)
           \/ OpenOutput(e) \/ WriteRows(e) \/ UploadFile(e)
    PROVE  Lineage'
<1>1. IsExec(e)
  BY DEF IInv, Shape
<1>2. ASSUME NEW n, NEW ds
      PROVE  /\ [e EXCEPT !.step = n].step = n
             /\ [e EXCEPT !.step = n].task = e.task /\ [e EXCEPT !.step = n].idx = e.idx
             /\ [e EXCEPT !.step = n].attempt = e.attempt
             /\ [e EXCEPT !.step = n].pod = e.pod /\ [e EXCEPT !.step = n].emit = e.emit
             /\ [e EXCEPT !.step = n].docs = e.docs
             /\ [e EXCEPT !.step = n, !.docs = ds].step = n
             /\ [e EXCEPT !.step = n, !.docs = ds].task = e.task
             /\ [e EXCEPT !.step = n, !.docs = ds].idx = e.idx
             /\ [e EXCEPT !.step = n, !.docs = ds].attempt = e.attempt
             /\ [e EXCEPT !.step = n, !.docs = ds].pod = e.pod
             /\ [e EXCEPT !.step = n, !.docs = ds].emit = e.emit
             /\ [e EXCEPT !.step = n, !.docs = ds].docs = ds
  BY <1>1 DEF IsExec
<1>3. Started # Opened /\ Started # Written /\ Opened # Written
  BY DEF Started, Opened, Written
<1>4. CASE Download(e)
  <2> DEFINE to == [e EXCEPT !.step = Written]
  <2>1. PICK bytes \in Downloads : WriteDir(e, bytes)
    BY <1>4 DEF Download
  <2>2. \A f \in Files(input) : bytes[f] \in Versions[f]
    BY DEF Downloads
  <2>3. e.task = "download" /\ Moves(e, to)
        /\ UNCHANGED <<input, runVars, attempt, live, refs, restarts>>
    BY <1>4 DEF Download
  <2>4. to.task = e.task /\ to.idx = e.idx /\ to.attempt = e.attempt
        /\ to.pod = e.pod /\ to.emit = e.emit
    BY <1>2
  <2> HIDE DEF to
  <2>5. QED
    BY <2>1, <2>2, <2>3, <2>4, WriteLineage
<1>5. CASE Fetch(e)
  <2>1. PICK docs \in Fetched(e) \ {Corrupt} :
            Moves(e, [e EXCEPT !.step = Opened, !.docs = docs])
    BY <1>5 DEF Fetch
  <2> DEFINE to == [e EXCEPT !.step = Opened, !.docs = docs]
  <2>2. e.task = "extract" /\ Moves(e, to) /\ WriteDir(e, NoRecords)
        /\ UNCHANGED <<input, runVars, attempt, live, refs, restarts>>
    BY <1>5, <2>1 DEF Fetch
  <2>3. /\ to.task = e.task /\ to.idx = e.idx /\ to.attempt = e.attempt
        /\ to.pod = e.pod /\ to.emit = e.emit /\ to.step = Opened /\ to.docs = docs
    BY <1>2
  <2> HIDE DEF to
  <2>4. pc = "extract" => docs \in Versions[specUrls[e.idx].file] \ {Corrupt}
    BY <2>2, FetchedVersions
  <2>5. QED
    BY <1>3, <2>2, <2>3, <2>4, WriteLineage
<1>6. CASE WriteRecords(e)
  <2>1. CASE NothingUsable(e)
    BY <1>6, <2>1, QuietStepLineage DEF WriteRecords
  <2>2. CASE ~NothingUsable(e)
    <3> DEFINE to == [e EXCEPT !.step = Written]
    <3>1. /\ e.task = "extract" /\ e.step = Opened /\ Moves(e, to)
          /\ WriteDir(e, Extraction(e)) /\ UsableDocs(e.docs) # {}
          /\ UNCHANGED <<input, runVars, attempt, live, refs, restarts>>
      BY <1>6, <2>2 DEF WriteRecords, NothingUsable
    <3>2. /\ to.task = e.task /\ to.idx = e.idx /\ to.attempt = e.attempt
          /\ to.pod = e.pod /\ to.emit = e.emit /\ to.docs = e.docs
      BY <1>2
    <3> HIDE DEF to
    <3>3. Extraction(to) = Extraction(e)
      BY <3>2 DEF Extraction
    <3>4. pc = "extract" => e.docs \in Versions[specUrls[e.idx].file] \ {Corrupt}
      BY <1>3, <3>1 DEF Lineage, ExtractAttempts
    <3>5. QED
      BY <3>1, <3>2, <3>3, <3>4, WriteLineage
  <2>3. QED
    BY <2>1, <2>2
<1>7. CASE OpenOutput(e)
  <2> DEFINE to == [e EXCEPT !.step = Opened]
             content == Transformed(e.emit, NoRecords)
  <2>1. /\ e.task = "transform" /\ Moves(e, to) /\ WriteDir(e, content)
        /\ UNCHANGED <<input, runVars, attempt, live, refs, restarts>>
    BY <1>7 DEF OpenOutput
  <2>2. /\ to.task = e.task /\ to.idx = e.idx /\ to.attempt = e.attempt
        /\ to.pod = e.pod /\ to.emit = e.emit /\ to.step = Opened
    BY <1>2
  <2> HIDE DEF to, content
  <2>3. QED
    BY <1>3, <2>1, <2>2, WriteLineage
<1>8. CASE WriteRows(e)
  <2> DEFINE to == [e EXCEPT !.step = Written]
             content == Transformed(e.emit, RecordsRead(e))
  <2>1. /\ e.task = "transform" /\ Moves(e, to) /\ WriteDir(e, content)
        /\ UNCHANGED <<input, runVars, attempt, live, refs, restarts>>
    BY <1>8 DEF WriteRows
  <2>2. /\ to.task = e.task /\ to.idx = e.idx /\ to.attempt = e.attempt
        /\ to.pod = e.pod /\ to.emit = e.emit
    BY <1>2
  <2>3. pc = "transform" /\ e.idx = idx => RecordsRead(e) = refs[<<"extract", idx>>]
    <3>1. pc = "transform" => idx \in 1..Len(extracted)
      BY DEF Lineage, Progress, ExtractedFiles, IInv, Shape
    <3>2. QED
      BY <3>1 DEF RecordsRead, Lineage, ExtractedFiles
  <2>4. pc = "transform" /\ e.idx = idx
          => content = Transformed(e.emit, refs[<<"extract", idx>>])
    BY <2>3
  <2> HIDE DEF to, content
  <2>5. QED
    BY <2>1, <2>2, <2>4, WriteLineage
<1>9. CASE UploadFile(e)
  <2> DEFINE to == [e EXCEPT !.step = e.step + 1]
  <2>1. /\ e.task = "upload" /\ Moves(e, to)
        /\ UNCHANGED <<input, runVars, attempt, live, tmp, refs, restarts>>
    BY <1>9 DEF UploadFile
  <2>2. /\ to.task = e.task /\ to.idx = e.idx /\ to.attempt = e.attempt
        /\ to.pod = e.pod /\ to.emit = e.emit
    BY <1>2
  <2> HIDE DEF to
  <2>3. QED
    BY <2>1, <2>2, WriteLineage
<1>10. QED
  BY <1>4, <1>5, <1>6, <1>7, <1>8, <1>9

----------------------------------------------------------------------------
(* Steps of run() *)

LEMMA InitLineage == Init => Lineage
<1> SUFFICES ASSUME Init PROVE Lineage
  OBVIOUS
<1>1. Accepted /\ SpecFiles
  BY DEF Init, Accepted, SpecFiles, Tasks
<1>2. Attempts
  <2>1. /\ pc = "begin" /\ pc \notin Tasks /\ execs = {} /\ live = FALSE
        /\ attempt = 0 /\ restarts = 0
    BY DEF Init, Tasks
  <2>2. 0 \in 0..MaxAttempts /\ 0 \in 0..MaxRestarts
    BY BoundsAssumption
  <2>3. QED
    BY <2>1, <2>2 DEF Attempts
<1>3. Progress /\ ExtractAttempts
  BY DEF Init, Progress, ExtractAttempts
<1>4. ExtractedFiles /\ TransformedRows /\ Returned
  BY DEF Init, ExtractedFiles, TransformedRows, Returned
<1>5. Counted
  BY SumToStep DEF Init, Counted
<1>6. QED
  BY <1>1, <1>2, <1>3, <1>4, <1>5 DEF Lineage

\* What an accepted input with a spec_url lists.
LEMMA UrlListing ==
    ASSUME NEW in, InputError(in) = None, in.import_type # "CLOUD"
    PROVE  Listed(in) = <<in.spec_url>>
<1>1. in.import_type = "URL"
  BY NoneAssumption DEF InputError
<1>2. QED
  BY <1>1 DEF Listed

LEMMA BeginLineage == ASSUME IInv, Lineage, Begin PROVE Lineage'
<1> USE DEF Lineage
<1>1. /\ pc = "begin" /\ execs = {} /\ extracted = <<>> /\ transformed = <<>>
      /\ specUrls = <<>> /\ input \in Inputs
      /\ UNCHANGED <<input, execs, tmp, refs, restarts>>
  BY DEF Begin, Attempts, Progress, SpecFiles, Accepted, IInv, BeforeTransform,
         storageVars
<1>2. CASE InputError(input) # None
  <2>1. /\ pc' = "failed" /\ live' = FALSE
        /\ UNCHANGED <<conn, specUrls, extracted, transformed, idx, totals, output,
                       attempt>>
    BY <1>2 DEF Begin, Fail
  <2>2. Shrinks
    BY <1>1 DEF Shrinks, IInv, Shape
  <2>3. Attempts'
    BY <1>1, <2>1, AttemptsEnd
  <2>4. QED
    BY <1>1, <2>1, <2>2, <2>3, QuietLineage
<1>3. CASE InputError(input) = None
  <2>1. /\ conn' = ResolvedConnection(input)
        /\ UNCHANGED <<extracted, transformed, totals, output>>
        /\ \/ /\ Schedule("download", 1) /\ specUrls' = <<>>
           \/ /\ Schedule("extract", 1) /\ input.import_type # "CLOUD"
              /\ specUrls' = <<[file |-> input.spec_url, dir |-> None]>>
    BY <1>1, <1>3 DEF Begin
  <2>2. pc' \in {"download", "extract"} /\ idx' = 1
    BY <2>1 DEF Schedule
  <2>3. Attempts'
    BY <1>1, <2>1, AttemptsSchedule DEF Tasks
  <2>4. Accepted'
    BY <1>1, <1>3, <2>1 DEF Accepted
  <2>5. SpecFiles' /\ Progress'
    <3>1. CASE Schedule("download", 1) /\ specUrls' = <<>>
      BY <1>1, <2>1, <3>1 DEF Schedule, SpecFiles, Progress
    <3>2. CASE /\ Schedule("extract", 1) /\ input.import_type # "CLOUD"
               /\ specUrls' = <<[file |-> input.spec_url, dir |-> None]>>
      <4>1. Listed(input) = <<input.spec_url>>
        BY <1>3, <3>2, UrlListing
      <4>2. pc' = "extract" /\ idx' = 1
        BY <3>2 DEF Schedule
      <4>3. /\ specUrls' # <<>> /\ DOMAIN specUrls' = 1..Len(specUrls')
            /\ Len(specUrls') = 1 /\ Len(Listed(input)) = 1
            /\ specUrls'[1].file = Listed(input)[1] /\ specUrls'[1].dir = None
        BY <3>2, <4>1
      <4>4. SpecFiles'
        BY <1>1, <4>2, <4>3 DEF SpecFiles
      <4>5. Progress'
        BY <1>1, <2>1, <4>2, <4>3 DEF Progress
      <4>6. QED
        BY <4>4, <4>5
    <3>3. QED
      BY <2>1, <3>1, <3>2
  <2>6. ExtractAttempts'
    BY <1>1 DEF ExtractAttempts
  <2>7. ExtractedFiles' /\ TransformedRows'
    BY <1>1, <2>1, <2>2 DEF ExtractedFiles, TransformedRows
  <2>8. Counted' /\ Returned'
    BY <1>1, <2>1, <2>2 DEF Counted, Sizes, Returned
  <2>9. QED
    BY <2>3, <2>4, <2>5, <2>6, <2>7, <2>8
<1>4. QED
  BY <1>2, <1>3

LEMMA DownloadReturnsLineage ==
    ASSUME IInv, Lineage, NEW e \in execs, DownloadReturns(e)
    PROVE  Lineage'
<1> USE DEF Lineage
<1>1. /\ pc = "download" /\ e.task = "download" /\ extracted = <<>>
      /\ transformed = <<>> /\ specUrls = <<>> /\ input \in Inputs
      /\ \A x \in execs : x.task = "download"
      /\ UNCHANGED <<input, refs, restarts>>
  BY DEF DownloadReturns, Current, Attempts, Progress, SpecFiles, Accepted, IInv,
         BeforeTransform
<1>2. Shrinks
  BY GoneShrinks DEF DownloadReturns, IInv
<1>3. execs' \subseteq execs
  BY <1>2 DEF Shrinks
<1>4. CASE Listed(input) = <<>>
  <2>1. /\ pc' = "failed" /\ live' = FALSE
        /\ UNCHANGED <<conn, specUrls, extracted, transformed, idx, totals, output,
                       attempt>>
    BY <1>4 DEF DownloadReturns, Fail
  <2>2. Attempts'
    BY <1>1, <1>3, <2>1, AttemptsEnd
  <2>3. QED
    BY <1>1, <1>2, <2>1, <2>2, QuietLineage
<1>5. CASE Listed(input) # <<>>
  <2>1. /\ specUrls' = [i \in DOMAIN Listed(input) |->
                           [file |-> Listed(input)[i], dir |-> TempDir(e)]]
        /\ Schedule("extract", 1)
        /\ UNCHANGED <<conn, extracted, transformed, totals, output>>
    BY <1>5 DEF DownloadReturns
  <2>2. pc' = "extract" /\ idx' = 1
    BY <2>1 DEF Schedule
  <2>3. Attempts'
    BY <1>1, <1>3, <2>1, AttemptsSchedule DEF Tasks
  <2>4. Accepted'
    BY <1>1, <2>1, <2>2 DEF Accepted, Tasks
  <2>5. /\ Len(Listed(input)) \in Nat \ {0}
        /\ DOMAIN Listed(input) = 1..Len(Listed(input))
    BY <1>1, <1>5, ListingAssumption
  <2>6. /\ DOMAIN specUrls' = 1..Len(specUrls')
        /\ Len(specUrls') = Len(Listed(input)) /\ specUrls' # <<>>
        /\ \A i \in 1..Len(specUrls') : /\ specUrls'[i].file = Listed(input)[i]
                                        /\ specUrls'[i].dir[1] = "download"
    BY <1>1, <2>1, <2>5 DEF TempDir
  <2>7. SpecFiles'
    <3>1. \A p \in Pods : \A d \in DOMAIN tmp'[p] : d[1] = "download" =>
             \A f \in Files(input) : tmp'[p][d][f] \in Versions[f]
      BY <1>2 DEF SpecFiles, Shrinks
    <3>2. QED
      BY <1>1, <2>2, <2>6, <3>1 DEF SpecFiles
  <2>8. Progress'
    BY <1>1, <2>1, <2>2, <2>5, <2>6 DEF Progress
  <2>9. ExtractAttempts'
    BY <1>1, <1>3 DEF ExtractAttempts
  <2>10. ExtractedFiles' /\ TransformedRows'
    BY <1>1, <2>1, <2>2 DEF ExtractedFiles, TransformedRows
  <2>11. Counted' /\ Returned'
    BY <1>1, <2>1, <2>2 DEF Counted, Sizes, Returned
  <2>12. QED
    BY <2>3, <2>4, <2>7, <2>8, <2>9, <2>10, <2>11
<1>6. QED
  BY <1>4, <1>5

\* A sum is over the extractions made; those to come do not change it.
LEMMA SizesGrow ==
    ASSUME extracted \in Seq(Results), NEW r, extracted' = Append(extracted, r),
           NEW k \in 0..Len(extracted)
    PROVE  /\ SumTo(Sizes', k) = SumTo(Sizes, k)
           /\ SumTo(Sizes', Len(extracted) + 1)
                = SumTo(Sizes, Len(extracted)) + Extracted(r)
<1> DEFINE n == Len(extracted)
<1>1. n \in Nat /\ Len(extracted') = n + 1 /\ extracted'[n + 1] = r
      /\ \A i \in 1..n : extracted'[i] = extracted[i]
  OBVIOUS
<1>2. /\ \A i \in 1..n : Sizes'[i] = Sizes[i]
      /\ Sizes'[n + 1] = Extracted(r)
  BY <1>1 DEF Sizes, Extracted
<1> DEFINE g == Sizes'
<1> HIDE DEF g
<1>3. ASSUME NEW m \in 0..n PROVE SumTo(g, m) = SumTo(Sizes, m)
  <2>1. \A i \in 1..m : g[i] = Sizes[i]
    BY <1>1, <1>2 DEF g
  <2>2. QED
    BY <1>1, <2>1, SumToSame
<1>4. SumTo(g, n + 1) = SumTo(g, n) + g[n + 1]
  BY <1>1, SumToStep
<1>5. QED
  BY <1>1, <1>2, <1>3, <1>4 DEF g

LEMMA ExtractReturnsLineage ==
    ASSUME IInv, Lineage, NEW e \in execs, ExtractReturns(e)
    PROVE  Lineage'
<1> USE DEF Lineage
<1> DEFINE dir    == TempDir(e)
           result == [ref   |-> RefOf(e),
                      specs |-> Cardinality(Extraction(e).specs),
                      paths |-> Cardinality(Extraction(e).paths)]
           ts     == [totals EXCEPT !.scanned = @ + Extracted(result)]
           next   == Append(extracted, result)
<1>1. /\ pc = "extract" /\ e.task = "extract" /\ e.idx = idx /\ e.step = Written
      /\ extracted' = next /\ totals' = ts
      /\ refs' = Put(refs, RefOf(e), tmp[e.pod][dir])
      /\ UNCHANGED <<input, conn, specUrls, transformed, restarts>>
      /\ transformed = <<>>
  BY DEF ExtractReturns, Current, IInv, BeforeTransform
<1>2. Shrinks
  BY GoneShrinks DEF ExtractReturns, IInv
<1>3. execs' \subseteq execs
  BY <1>2 DEF Shrinks
<1>4. /\ idx \in 1..Len(specUrls) /\ Len(extracted) = idx - 1
      /\ extracted \in Seq(Results) /\ input \in Inputs /\ Len(specUrls) \in Nat
  BY <1>1, FetchedVersions DEF Progress, ExtractedFiles, Accepted
<1>5. /\ e.docs \in Versions[specUrls[idx].file] \ {Corrupt}
      /\ UsableDocs(e.docs) # {}
      /\ tmp[e.pod][dir] = Records(conn.qn, e.docs)
      /\ Extraction(e) = Records(conn.qn, e.docs)
  BY <1>1, Started # Written DEF ExtractAttempts, Extraction, Started, Written
<1>6. result \in Results /\ RefOf(e) = <<"extract", idx>>
  <2>1. specUrls[idx].file \in Files(input)
    BY <1>4, SpecUrlListed
  <2>2. /\ Cardinality(Extraction(e).specs) \in Nat \ {0}
        /\ Cardinality(Extraction(e).paths) \in Nat
    BY <1>4, <1>5, <2>1, ExtractionFinite
  <2>3. RefOf(e) = <<"extract", idx>> /\ idx \in Nat
    BY <1>1, <1>4 DEF RefOf
  <2>4. QED
    BY <2>2, <2>3 DEF Results
<1> HIDE DEF result
<1>7. /\ next \in Seq(Results) /\ Len(next) = idx /\ next[idx] = result
      /\ \A i \in 1..(idx - 1) : next[i] = extracted[i]
  BY <1>4, <1>6
<1>8. \/ /\ idx < Len(specUrls) /\ Schedule("extract", idx + 1) /\ UNCHANGED output
      \/ idx = Len(specUrls) /\ Schedule("transform", 1) /\ UNCHANGED output
  <2>1. CASE idx < Len(specUrls)
    BY <2>1 DEF ExtractReturns
  <2>2. CASE ~ (idx < Len(specUrls))
    <3>1. Advance(1, next, ts, transformed)
      BY <2>2, Zenon DEF ExtractReturns, result
    <3>2. /\ idx = Len(specUrls) /\ 1 <= Len(next) /\ ~ (1 > Len(next))
          /\ next \in Seq(Results) /\ 1 \in Nat \ {0}
      BY <1>4, <1>7, <2>2
    <3> HIDE DEF next, ts
    <3>3. Schedule("transform", 1) /\ UNCHANGED output
      BY <3>1, <3>2, AdvanceGoes, Zenon
    <3>4. QED
      BY <3>2, <3>3
  <2>3. QED
    BY <2>1, <2>2
<1> HIDE DEF next
<1>9. Attempts'
  <2>1. CASE Schedule("extract", idx + 1)
    <3>1. \A x \in execs' : x.task = "extract" =>
             /\ x.idx <= idx /\ x.idx \in Nat
             /\ x.idx <= idx + 1 /\ x.idx # idx + 1
      BY <1>1, <1>3, <1>4 DEF Attempts, IInv, Shape, IsExec
    <3>2. QED
      BY <1>1, <1>3, <2>1, <3>1, AttemptsSchedule DEF Tasks
  <2>2. CASE Schedule("transform", 1)
    <3>1. \A x \in execs' : x.task # "transform"
      BY <1>1, <1>3 DEF IInv, BeforeTransform
    <3>2. QED
      BY <1>1, <1>3, <2>2, <3>1, AttemptsSchedule DEF Tasks
  <2>3. QED
    BY <1>8, <2>1, <2>2
<1>10. pc' \in {"extract", "transform"}
  BY <1>8 DEF Schedule
<1>11. Accepted'
  BY <1>1, <1>10 DEF Accepted, Tasks
<1>12. SpecFiles'
  <2>1. \A p \in Pods : \A d \in DOMAIN tmp'[p] : d[1] = "download" =>
           \A f \in Files(input) : tmp'[p][d][f] \in Versions[f]
    BY <1>2 DEF SpecFiles, Shrinks
  <2>2. QED
    BY <1>1, <1>10, <2>1 DEF SpecFiles
<1>13. Progress'
  <2>1. Len(extracted') = idx /\ Len(transformed') = 0
    BY <1>1, <1>7
  <2>2. CASE pc' = "extract" /\ idx' = idx + 1 /\ idx < Len(specUrls)
    BY <1>1, <1>4, <2>1, <2>2 DEF Progress
  <2>3. CASE pc' = "transform" /\ idx' = 1 /\ idx = Len(specUrls)
    BY <1>1, <1>4, <2>1, <2>3 DEF Progress
  <2>4. QED
    BY <1>8, <2>2, <2>3 DEF Schedule
<1>14. ExtractAttempts'
  <2> SUFFICES ASSUME pc' = "extract", NEW x \in execs', x.task = "extract"
               PROVE  /\ x.idx >= 1
                      /\ x.step # Started =>
                           x.docs \in Versions[specUrls[x.idx].file] \ {Corrupt}
                      /\ x.step = Written => /\ UsableDocs(x.docs) # {}
                                             /\ TempDir(x) \in DOMAIN tmp'[x.pod]
                                             /\ tmp'[x.pod][TempDir(x)] = Extraction(x)
    BY <1>1 DEF ExtractAttempts, Extraction, TempDir
  <2>1. x \in execs /\ x.pod \in Pods
    BY <1>3 DEF IInv, Shape, IsExec
  <2>2. QED
    BY <1>1, <1>2, <2>1 DEF ExtractAttempts, Shrinks
<1>15. /\ <<"extract", idx>> \in DOMAIN refs'
       /\ refs'[<<"extract", idx>>] = Records(conn.qn, e.docs)
       /\ \A r \in DOMAIN refs : r # <<"extract", idx>> =>
             r \in DOMAIN refs' /\ refs'[r] = refs[r]
  BY <1>1, <1>5, <1>6 DEF Put
<1>16. ExtractedFiles'
  <2>1. ASSUME NEW i \in 1..idx
        PROVE  /\ next[i].ref = <<"extract", i>>
               /\ <<"extract", i>> \in DOMAIN refs'
               /\ refs'[<<"extract", i>>] \in ExtractionsOf(i)
               /\ next[i].specs = Cardinality(refs'[<<"extract", i>>].specs)
               /\ next[i].paths = Cardinality(refs'[<<"extract", i>>].paths)
    <3>1. CASE i = idx
      <4>1. Records(conn.qn, e.docs) \in ExtractionsOf(idx)
        BY <1>5, Zenon DEF ExtractionsOf
      <4>2. QED
        BY <1>5, <1>6, <1>7, <1>15, <3>1, <4>1 DEF result
    <3>2. CASE i \in 1..(idx - 1)
      <4>1. next[i] = extracted[i] /\ i \in 1..Len(extracted) /\ i # idx
        BY <1>4, <1>7, <3>2
      <4>2. /\ <<"extract", i>> # <<"extract", idx>>
            /\ <<"extract", i>> \in DOMAIN refs
        BY <4>1 DEF ExtractedFiles
      <4>3. /\ <<"extract", i>> \in DOMAIN refs'
            /\ refs'[<<"extract", i>>] = refs[<<"extract", i>>]
        BY <1>15, <4>2
      <4>4. QED
        BY <4>1, <4>3 DEF ExtractedFiles
    <3>3. QED
      BY <1>4, <3>1, <3>2
  <2>2. QED
    BY <1>1, <1>7, <2>1 DEF ExtractedFiles, ExtractionsOf
<1>17. TransformedRows'
  <2>1. \A x \in execs' : x.task # "transform"
    BY <1>1, <1>3 DEF IInv, BeforeTransform
  <2>2. QED
    BY <1>1, <2>1 DEF TransformedRows
<1>18. Counted'
  <2>1. /\ SumTo(Sizes', 0) = SumTo(Sizes, 0)
        /\ SumTo(Sizes', idx) = SumTo(Sizes, Len(extracted)) + Extracted(result)
    <3>1. /\ SumTo(Sizes', 0) = SumTo(Sizes, 0)
          /\ SumTo(Sizes', Len(extracted) + 1)
               = SumTo(Sizes, Len(extracted)) + Extracted(result)
      BY <1>1, <1>4, SizesGrow DEF next
    <3>2. Len(extracted) + 1 = idx
      BY <1>4
    <3>3. QED
      BY <3>1, <3>2
  <2> DEFINE g == Sizes'
  <2>2. /\ totals'.specs = totals.specs /\ totals'.paths = totals.paths
        /\ totals'.scanned = totals.scanned + Extracted(result)
    BY <1>1 DEF Counted
  <2> HIDE DEF g
  <2>3. QED
    BY <1>1, <1>7, <2>1, <2>2 DEF Counted, g
<1>19. Returned'
  BY <1>1, <1>10 DEF Returned
<1>20. QED
  BY <1>9, <1>11, <1>12, <1>13, <1>14, <1>16, <1>17, <1>18, <1>19

LEMMA TransformReturnsLineage ==
    ASSUME IInv, Lineage, NEW e \in execs, TransformReturns(e)
    PROVE  Lineage'
<1> USE DEF Lineage
<1> DEFINE dir   == TempDir(e)
           read  == RecordsRead(e)
           file  == [ref |-> RefOf(e), label |-> Leaf(Len(transformed))]
           files == Append(transformed, file)
           ts    == [totals EXCEPT !.specs = @ + Cardinality(read.specs),
                                   !.paths = @ + Cardinality(read.paths)]
<1>1. /\ pc = "transform" /\ e.task = "transform" /\ e.idx = idx /\ e.step = Written
      /\ transformed' = files /\ totals' = ts
      /\ refs' = Put(refs, RefOf(e), tmp[e.pod][dir])
      /\ Advance(idx + 1, extracted, ts, files)
      /\ UNCHANGED <<input, conn, specUrls, extracted, restarts>>
  BY Zenon DEF TransformReturns, Current
<1>2. Shrinks
  BY GoneShrinks DEF TransformReturns, IInv
<1>3. execs' \subseteq execs
  BY <1>2 DEF Shrinks
<1>4. /\ Len(transformed) = idx - 1 /\ idx \in 1..Len(extracted) /\ idx \in Nat \ {0}
      /\ extracted \in Seq(Results) /\ Len(extracted) \in Nat
      /\ Len(extracted) = Len(specUrls) /\ transformed \in Seq(Entries)
      /\ specUrls # <<>>
  BY <1>1 DEF Progress, ExtractedFiles, SpecFiles, IInv, Shape
<1>5. /\ RefOf(e) = <<"transform", idx>>
      /\ extracted[idx].ref = <<"extract", idx>>
      /\ read = refs[<<"extract", idx>>]
  BY <1>1, <1>4 DEF RefOf, RecordsRead, ExtractedFiles
<1>6. /\ tmp[e.pod][dir] = Transformed(e.emit, refs[<<"extract", idx>>])
      /\ e.emit = (conn.emit /\ idx = 1)
  <2>1. e.emit = EmitConnection
    BY <1>1 DEF IInv, TransformAttempts
  <2>2. EmitConnection = (conn.emit /\ idx = 1)
    BY <1>4 DEF EmitConnection
  <2>3. tmp[e.pod][dir] = Transformed(e.emit, refs[<<"extract", idx>>])
    BY <1>1 DEF TransformedRows
  <2>4. QED
    BY <2>1, <2>2, <2>3
<1>7. /\ files # <<>> /\ Len(files) = idx
      /\ files[idx].ref = <<"transform", idx>>
      /\ \A i \in 1..(idx - 1) : files[i] = transformed[i]
  <2>1. file \in Entries
    <3>1. Leaf(Len(transformed)) \in LeafNames
      BY <1>4, LeafType
    <3>2. RefOf(e) \in {"transform"} \X Nat
      BY <1>4, <1>5
    <3>3. QED
      BY <3>1, <3>2 DEF Entries
  <2>2. file.ref = <<"transform", idx>>
    BY <1>5
  <2> HIDE DEF file
  <2>3. /\ Len(files) = Len(transformed) + 1 /\ files[Len(transformed) + 1] = file
        /\ \A i \in 1..Len(transformed) : files[i] = transformed[i]
    BY <1>4, <2>1
  <2>4. Len(transformed) + 1 = idx
    BY <1>4
  <2> HIDE DEF files
  <2>5. Len(files) = idx /\ files[idx] = file
    BY <2>3, <2>4
  <2>6. QED
    BY <1>4, <2>2, <2>3, <2>5
<1> HIDE DEF files, read, file
<1>8. \/ idx < Len(extracted) /\ Schedule("transform", idx + 1) /\ UNCHANGED output
      \/ /\ idx = Len(extracted) /\ input.load_to_atlan
         /\ Schedule("upload", 1) /\ UNCHANGED output
      \/ /\ idx = Len(extracted) /\ ~ input.load_to_atlan
         /\ Return(FALSE, ts, files)
  <2> DEFINE from == idx + 1
  <2>1. /\ from \in Nat \ {0} /\ files # <<>>
        /\ from <= Len(extracted) => idx < Len(extracted)
        /\ from > Len(extracted) => idx = Len(extracted)
    BY <1>4, <1>7
  <2> HIDE DEF ts
  <2>2. Advance(from, extracted, ts, files)
    BY <1>1, Zenon
  <2> HIDE DEF from
  <2>3. \/ from <= Len(extracted) /\ Schedule("transform", from) /\ UNCHANGED output
        \/ /\ from > Len(extracted) /\ input.load_to_atlan
           /\ Schedule("upload", 1) /\ UNCHANGED output
        \/ /\ from > Len(extracted) /\ ~ input.load_to_atlan
           /\ Return(FALSE, ts, files)
    BY <1>4, <2>1, <2>2, AdvanceGoes, Zenon
  <2>4. QED
    BY <2>1, <2>3, Zenon DEF from
<1>9. Attempts'
  <2>1. CASE Schedule("transform", idx + 1)
    <3>1. \A x \in execs' : x.task = "transform" => x.idx # idx + 1
      BY <1>1, <1>3, <1>4 DEF IInv, TransformAttempts, Shape, IsExec
    <3>2. QED
      BY <1>1, <1>3, <2>1, <3>1, AttemptsSchedule DEF Tasks
  <2>2. CASE Schedule("upload", 1)
    <3>1. \A x \in execs' : x.task # "upload"
      BY <1>1, <1>3 DEF IInv, BeforeUpload
    <3>2. QED
      BY <1>1, <1>3, <2>2, <3>1, AttemptsSchedule DEF Tasks
  <2>3. CASE Return(FALSE, ts, files)
    BY <1>1, <1>3, <2>3, AttemptsEnd DEF Return
  <2>4. QED
    BY <1>8, <2>1, <2>2, <2>3, Zenon
<1>10. pc' \in {"transform", "upload", "done"}
  BY <1>8 DEF Schedule, Return
<1>11. Accepted'
  BY <1>1, <1>10 DEF Accepted, Tasks
<1>12. SpecFiles'
  <2>1. \A p \in Pods : \A d \in DOMAIN tmp'[p] : d[1] = "download" =>
           \A f \in Files(input) : tmp'[p][d][f] \in Versions[f]
    BY <1>2 DEF SpecFiles, Shrinks
  <2>2. QED
    BY <1>1, <1>4, <1>10, <2>1 DEF SpecFiles
<1>13. Progress'
  <2>1. Len(transformed') = idx
    BY <1>1, <1>7
  <2>2. CASE pc' = "transform" /\ idx' = idx + 1 /\ idx < Len(extracted)
    BY <1>1, <1>4, <2>1, <2>2 DEF Progress
  <2>3. CASE pc' \in {"upload", "done"} /\ idx' \in {1, idx} /\ idx = Len(extracted)
    BY <1>1, <1>4, <2>1, <2>3 DEF Progress
  <2>4. QED
    BY <1>8, <2>2, <2>3 DEF Schedule, Return
<1>14. ExtractAttempts'
  BY <1>10 DEF ExtractAttempts
<1>15. /\ <<"transform", idx>> \in DOMAIN refs'
       /\ refs'[<<"transform", idx>>] = tmp[e.pod][dir]
       /\ \A r \in DOMAIN refs : r # <<"transform", idx>> =>
             r \in DOMAIN refs' /\ refs'[r] = refs[r]
  BY <1>1, <1>5 DEF Put
<1>16. \A i \in 1..Len(extracted) : /\ <<"extract", i>> \in DOMAIN refs'
                                    /\ refs'[<<"extract", i>>] = refs[<<"extract", i>>]
  <2> SUFFICES ASSUME NEW i \in 1..Len(extracted)
               PROVE  /\ <<"extract", i>> \in DOMAIN refs'
                      /\ refs'[<<"extract", i>>] = refs[<<"extract", i>>]
    OBVIOUS
  <2>1. <<"extract", i>> \in DOMAIN refs /\ <<"extract", i>> # <<"transform", idx>>
    BY DEF ExtractedFiles
  <2>2. QED
    BY <1>15, <2>1
<1>17. ExtractedFiles'
  BY <1>1, <1>16 DEF ExtractedFiles, ExtractionsOf
<1>18. TransformedRows'
  <2>1. ASSUME NEW i \in 1..idx
        PROVE  /\ files[i].ref = <<"transform", i>>
               /\ refs'[<<"transform", i>>]
                    = Transformed(conn.emit /\ i = 1, refs'[<<"extract", i>>])
    <3>1. i \in 1..Len(extracted) /\ refs'[<<"extract", i>>] = refs[<<"extract", i>>]
      BY <1>4, <1>16
    <3>2. CASE i = idx
      BY <1>6, <1>7, <1>15, <3>1, <3>2
    <3>3. CASE i # idx
      <4>1. i \in 1..Len(transformed) /\ files[i] = transformed[i]
        BY <1>4, <1>7, <3>3
      <4>2. transformed[i].ref = <<"transform", i>>
        BY <4>1 DEF TransformedRows
      <4>3. <<"transform", i>> \in DOMAIN refs
        BY <4>1, <4>2 DEF IInv, TransformedFiles
      <4>4. refs'[<<"transform", i>>] = refs[<<"transform", i>>]
        BY <1>15, <3>3, <4>3
      <4>5. refs[<<"transform", i>>]
              = Transformed(conn.emit /\ i = 1, refs[<<"extract", i>>])
        BY <4>1 DEF TransformedRows
      <4>6. QED
        BY <3>1, <4>1, <4>2, <4>4, <4>5
    <3>4. QED
      BY <3>2, <3>3
  <2>2. pc' = "transform" => \A x \in execs' : x.task = "transform" => x.idx # idx'
    <3>1. pc' = "transform" => idx' = idx + 1
      BY <1>8 DEF Schedule, Return
    <3>2. QED
      BY <1>1, <1>3, <1>4, <3>1 DEF IInv, TransformAttempts, Shape, IsExec
  <2>3. QED
    BY <1>1, <1>7, <2>1, <2>2 DEF TransformedRows
<1>19. Counted'
  <2>1. Sizes' = Sizes
    BY <1>1 DEF Sizes
  <2>2. /\ Cardinality(read.specs) = extracted[idx].specs
        /\ Cardinality(read.paths) = extracted[idx].paths
        /\ extracted[idx] \in Results
    BY <1>4, <1>5 DEF ExtractedFiles
  <2>3. /\ Cardinality(read.specs) \in Nat \ {0} /\ Cardinality(read.paths) \in Nat
        /\ Sizes[idx] = Cardinality(read.specs) + Cardinality(read.paths)
    BY <1>4, <2>2 DEF Results, Sizes, Extracted
  <2> DEFINE s == Cardinality(read.specs)
             p == Cardinality(read.paths)
  <2>4. /\ totals'.specs = totals.specs + s /\ totals'.paths = totals.paths + p
        /\ totals'.scanned = totals.scanned
    BY <1>1 DEF Counted
  <2>5. SumTo(Sizes, idx) = SumTo(Sizes, idx - 1) + Sizes[idx]
    <3>1. idx - 1 \in Nat /\ (idx - 1) + 1 = idx
      BY <1>4
    <3>2. QED
      BY <3>1, SumToStep
  <2>6. totals.specs + totals.paths = SumTo(Sizes, idx - 1)
    BY <1>4 DEF Counted
  <2>7. totals.specs \in Nat /\ totals.paths \in Nat
    BY DEF Counted
  <2> HIDE DEF s, p
  <2>8. /\ totals'.specs \in Nat /\ totals'.paths \in Nat /\ totals'.specs >= 1
        /\ totals'.specs + totals'.paths = SumTo(Sizes, idx)
    BY <2>3, <2>4, <2>5, <2>6, <2>7 DEF s, p
  <2>9. totals.scanned = SumTo(Sizes, Len(extracted))
    BY DEF Counted
  <2> DEFINE g == Sizes'
  <2> HIDE DEF g
  <2>10. QED
    BY <1>1, <1>7, <2>1, <2>4, <2>8, <2>9 DEF Counted, g
<1>20. Returned'
  <2>1. CASE pc' = "transform"
    BY <2>1 DEF Returned
  <2>2. CASE pc' = "upload" /\ input.load_to_atlan
    BY <1>1, <2>2 DEF Returned
  <2>3. CASE pc' = "done" /\ ~ input.load_to_atlan /\ output' = Output(FALSE, ts, files)
    BY <1>1, <2>3 DEF Returned, Output
  <2>4. QED
    BY <1>8, <2>1, <2>2, <2>3 DEF Schedule, Return
<1>21. QED
  BY <1>9, <1>11, <1>12, <1>13, <1>14, <1>17, <1>18, <1>19, <1>20

LEMMA UploadReturnsLineage ==
    ASSUME IInv, Lineage, NEW e \in execs, UploadReturns(e)
    PROVE  Lineage'
<1> USE DEF Lineage
<1>1. /\ pc = "upload" /\ Return(TRUE, totals, transformed)
      /\ UNCHANGED <<input, conn, specUrls, extracted, transformed, totals, refs,
                     restarts>>
  BY DEF UploadReturns, Current
<1>2. Shrinks
  BY GoneShrinks DEF UploadReturns, IInv
<1>3. /\ pc' = "done" /\ live' = FALSE /\ UNCHANGED <<idx, attempt>>
      /\ output' = Output(TRUE, totals, transformed)
  BY <1>1 DEF Return
<1>4. Attempts'
  BY <1>1, <1>2, <1>3, AttemptsEnd DEF Shrinks
<1>5. Accepted' /\ Progress' /\ ExtractAttempts'
  BY <1>1, <1>3 DEF Accepted, Progress, ExtractAttempts, Tasks
<1>6. SpecFiles'
  <2>1. \A p \in Pods : \A d \in DOMAIN tmp'[p] : d[1] = "download" =>
           \A f \in Files(input) : tmp'[p][d][f] \in Versions[f]
    BY <1>2 DEF SpecFiles, Shrinks
  <2>2. QED
    BY <1>1, <1>3, <2>1 DEF SpecFiles
<1>7. ExtractedFiles' /\ TransformedRows' /\ Counted'
  <2>1. ExtractedFiles'
    BY <1>1 DEF ExtractedFiles, ExtractionsOf
  <2>2. TransformedRows' /\ Counted'
    BY <1>1, <1>3 DEF TransformedRows, Counted, Sizes
  <2>3. QED
    BY <2>1, <2>2
<1>8. Returned'
  BY <1>1, <1>3 DEF Returned, Output
<1>9. QED
  BY <1>4, <1>5, <1>6, <1>7, <1>8

----------------------------------------------------------------------------
(* The theorems *)

LEMMA NextLineage == IInv /\ Lineage /\ [Next]_vars => Lineage'
<1> SUFFICES ASSUME IInv, Lineage, [Next]_vars PROVE Lineage'
  OBVIOUS
<1>1. CASE Begin
  BY <1>1, BeginLineage
<1>2. ASSUME NEW p \in Pods, StartAttempt(p) PROVE Lineage'
  BY <1>2, StartAttemptLineage
<1>3. ASSUME NEW p \in Pods, PodRestarts(p) PROVE Lineage'
  BY <1>3, QuietStepLineage
<1>4. CASE TimeoutAttempt \/ UNCHANGED vars
  BY <1>4, QuietStepLineage
<1>5. ASSUME NEW e \in execs, DownloadRefused(e) \/ FetchMissing(e) \/ FetchCorrupt(e)
      PROVE  Lineage'
  <2>1. \E err : Rejected(e, err) /\ UNCHANGED <<input, refs, store, restarts>>
    BY <1>5 DEF DownloadRefused, FetchMissing, FetchCorrupt
  <2>2. QED
    BY <2>1, QuietStepLineage
<1>6. ASSUME NEW e \in execs, AttemptRaises(e) \/ StaleAttemptEnds(e) PROVE Lineage'
  BY <1>6, QuietStepLineage
<1>7. ASSUME NEW e \in execs, \/ Download(e) \/ Fetch(e) \/ WriteRecords(e)
                              \/ OpenOutput(e) \/ WriteRows(e) \/ UploadFile(e)
      PROVE  Lineage'
  BY <1>7, WriteActionsLineage
<1>8. ASSUME NEW e \in execs, \/ DownloadReturns(e) \/ ExtractReturns(e)
                              \/ TransformReturns(e) \/ UploadReturns(e)
      PROVE  Lineage'
  BY <1>8, DownloadReturnsLineage, ExtractReturnsLineage, TransformReturnsLineage,
     UploadReturnsLineage
<1>9. QED
  BY <1>1, <1>2, <1>3, <1>4, <1>5, <1>6, <1>7, <1>8 DEF Next, Execute

\* The lineage of every file and the agreement of every counter hold of every
\* run, whichever attempts were lost, repeated or left behind.
THEOREM RunLineage == Spec => []Lineage
<1>1. Init => Lineage
  BY InitLineage
<1>2. IInv /\ Lineage /\ [Next]_vars => Lineage'
  BY NextLineage
<1>3. QED
  BY <1>1, <1>2, RunInvariant, PTL DEF Spec

\* The variables of a run keep their types: positions stay within the lists,
\* every spec file is one the input lists, attempts stay within their limit.
THEOREM RunTypeOK == Spec => []TypeOK
<1>1. IInv /\ Lineage => TypeOK
  <2> SUFFICES ASSUME IInv, Lineage PROVE TypeOK
    OBVIOUS
  <2>1. /\ input \in Inputs
        /\ pc \in Tasks \cup {"begin", "done", "failed"}
        /\ conn.emit \in BOOLEAN /\ conn.assertion \in BOOLEAN
        /\ idx \in Nat \ {0} /\ DOMAIN tmp = Pods
    BY DEF IInv, Shape, Lineage, Accepted, Progress
  <2>2. ASSUME NEW i \in DOMAIN specUrls PROVE specUrls[i].file \in Files(input)
    <3>1. specUrls # <<>>
      OBVIOUS
    <3>2. i \in 1..Len(specUrls)
      BY <3>1 DEF Lineage, SpecFiles
    <3>3. QED
      BY <3>2, SpecUrlListed
  <2>3. Len(extracted) <= Len(specUrls) /\ Len(transformed) <= Len(extracted)
    BY DEF Lineage, Progress
  <2>4. /\ attempt \in 0..MaxAttempts /\ live \in BOOLEAN
        /\ restarts \in 0..MaxRestarts
        /\ \A e \in execs : /\ e.task \in Tasks /\ e.pod \in Pods
                            /\ e.attempt \in 1..MaxAttempts /\ e.step \in Nat
    BY DEF Lineage, Attempts, IInv, Shape, IsExec
  <2>5. QED
    BY <2>1, <2>2, <2>3, <2>4 DEF TypeOK
<1>2. QED
  BY <1>1, RunInvariant, RunLineage, PTL

\* What a run that delivers has in the store: the transformed files, by name,
\* each with the rows of one extraction.
LEMMA DeliveredObjects ==
    ASSUME IInv, Lineage, Delivered, NEW n, n = Len(specUrls)
    PROVE  /\ n \in Nat \ {0} /\ n = Len(transformed) /\ n = Len(extracted)
           /\ DOMAIN specUrls = 1..n /\ input.load_to_atlan
           /\ DOMAIN store = {Leaf(i - 1) : i \in 1..n}
           /\ \A i \in 1..n :
                 /\ store[Leaf(i - 1)]
                      = Transformed(conn.emit /\ i = 1, refs[<<"extract", i>>])
                 /\ refs[<<"extract", i>>] \in ExtractionsOf(i)
           /\ IsFiniteSet(DOMAIN store) /\ Cardinality(DOMAIN store) = n
<1>1. /\ n \in Nat /\ n = Len(transformed) /\ n = Len(extracted) /\ n # 0
      /\ DOMAIN specUrls = 1..n /\ input.load_to_atlan
      /\ transformed \in Seq(Entries) /\ output.transformed_data_prefix /\ pc = "done"
  <2>1. /\ pc = "done" /\ output.transformed_data_prefix /\ specUrls # <<>>
        /\ transformed \in Seq(Entries) /\ transformed # <<>> /\ input.load_to_atlan
    BY DEF Delivered, Lineage, SpecFiles, IInv, Shape, Finished, Returned
  <2>2. n = Len(transformed) /\ n = Len(extracted) /\ DOMAIN specUrls = 1..n
    BY <2>1 DEF Lineage, Progress, SpecFiles
  <2>3. QED
    BY <2>1, <2>2
<1>2. DOMAIN store = {Leaf(i - 1) : i \in 1..n}
  <2>1. \A i \in 1..n : Leaf(i - 1) \in DOMAIN store
    BY <1>1 DEF IInv, Finished
  <2>2. \A l \in DOMAIN store : \E i \in 1..n : l = Leaf(i - 1)
    BY <1>1 DEF IInv, StoreHoldsFiles
  <2>3. QED
    BY <2>1, <2>2
<1>3. ASSUME NEW i \in 1..n
      PROVE  /\ store[Leaf(i - 1)]
                  = Transformed(conn.emit /\ i = 1, refs[<<"extract", i>>])
             /\ refs[<<"extract", i>>] \in ExtractionsOf(i)
  <2>1. store[Leaf(i - 1)] = refs[transformed[i].ref]
    BY <1>1, <1>2, StoreByName DEF IInv
  <2>2. transformed[i].ref = <<"transform", i>>
        /\ refs[<<"transform", i>>]
             = Transformed(conn.emit /\ i = 1, refs[<<"extract", i>>])
    BY <1>1 DEF Lineage, TransformedRows
  <2>3. refs[<<"extract", i>>] \in ExtractionsOf(i)
    BY <1>1 DEF Lineage, ExtractedFiles
  <2>4. QED
    BY <2>1, <2>2, <2>3
<1>4. IsFiniteSet(DOMAIN store) /\ Cardinality(DOMAIN store) = n
  <2> DEFINE D == DOMAIN store
             name == [i \in 1..n |-> Leaf(i - 1)]
  <2>1. \A i, j \in 1..n : Leaf(i - 1) = Leaf(j - 1) => i = j
    <3> SUFFICES ASSUME NEW i \in 1..n, NEW j \in 1..n, Leaf(i - 1) = Leaf(j - 1)
                 PROVE  i = j
      OBVIOUS
    <3>1. i - 1 \in Nat /\ j - 1 \in Nat
      OBVIOUS
    <3>2. i - 1 = j - 1
      BY <3>1, LeafInjective
    <3>3. QED
      BY <3>2
  <2>2. name \in Bijection(1..n, D)
    BY <1>2, <2>1 DEF Bijection, Injection, Surjection, IsInjective
  <2>3. IsFiniteSet(1..n) /\ Cardinality(1..n) = n
    <3>1. n \in Int /\ 1 \in Int /\ ~ (1 > n) /\ n - 1 + 1 = n
      BY <1>1
    <3>2. QED
      BY <3>1, FS_Interval
  <2> HIDE DEF D, name
  <2>4. ExistsBijection(1..n, D)
    BY <2>2 DEF ExistsBijection
  <2>5. IsFiniteSet(D) /\ Cardinality(D) = Cardinality(1..n)
    BY <2>3, <2>4, FS_Bijection
  <2>6. QED
    BY <2>3, <2>5 DEF D
<1>5. QED
  BY <1>1, <1>2, <1>3, <1>4

\* A run that hands over its prefix has one object there per spec file, and
\* each is the complete extraction of one version of that file.
THEOREM DeliveryIsComplete == Spec => []DeliveredIsComplete
<1>1. IInv /\ Lineage => DeliveredIsComplete
  <2> SUFFICES ASSUME IInv, Lineage, Delivered
               PROVE  /\ Cardinality(DOMAIN store) = Len(specUrls)
                      /\ \A i \in DOMAIN specUrls :
                            \E docs \in Versions[specUrls[i].file] \ {Corrupt} :
                               Body(store[Leaf(i - 1)]) = Records(conn.qn, docs)
    BY DEF DeliveredIsComplete
  <2> DEFINE n == Len(specUrls)
  <2>1. Cardinality(DOMAIN store) = n /\ DOMAIN specUrls = 1..n
    BY DeliveredObjects
  <2>2. ASSUME NEW i \in 1..n
        PROVE  \E docs \in Versions[specUrls[i].file] \ {Corrupt} :
                  Body(store[Leaf(i - 1)]) = Records(conn.qn, docs)
    <3>1. /\ store[Leaf(i - 1)]
               = Transformed(conn.emit /\ i = 1, refs[<<"extract", i>>])
          /\ refs[<<"extract", i>>] \in ExtractionsOf(i)
      BY DeliveredObjects
    <3>2. PICK docs \in Versions[specUrls[i].file] \ {Corrupt} :
              refs[<<"extract", i>>] = Records(conn.qn, docs)
      BY <3>1, Zenon DEF ExtractionsOf
    <3>3. Body(store[Leaf(i - 1)]) = Records(conn.qn, docs)
      BY <3>1, <3>2 DEF Body, Transformed, Records
    <3>4. QED
      BY <3>3
  <2>3. QED
    BY <2>1, <2>2
<1>2. QED
  BY <1>1, RunInvariant, RunLineage, PTL

\* Every APIPath row of an object names an APISpec row of that object.
THEOREM PathsHaveSpecs == Spec => []NoOrphanPaths
<1>1. IInv /\ Lineage => NoOrphanPaths
  <2> SUFFICES ASSUME IInv, Lineage, Delivered, NEW l \in DOMAIN store,
                      NEW path \in store[l].paths
               PROVE  \E spec \in store[l].specs : spec.qn = path.spec
    BY DEF NoOrphanPaths
  <2> DEFINE n == Len(specUrls)
  <2>1. PICK i \in 1..n : l = Leaf(i - 1)
    <3>1. DOMAIN store = {Leaf(i - 1) : i \in 1..n}
      BY DeliveredObjects
    <3>2. QED
      BY <3>1
  <2>2. /\ store[l] = Transformed(conn.emit /\ i = 1, refs[<<"extract", i>>])
        /\ refs[<<"extract", i>>] \in ExtractionsOf(i)
    BY <2>1, DeliveredObjects
  <2>3. PICK docs : refs[<<"extract", i>>] = Records(conn.qn, docs)
    BY <2>2, Zenon DEF ExtractionsOf
  <2>4. /\ store[l].paths = PathLines(conn.qn, docs)
        /\ store[l].specs = SpecLines(conn.qn, docs)
    BY <2>2, <2>3 DEF Transformed, Records
  <2>5. PICK d \in UsableDocs(docs) : path \in PathLinesOf(conn.qn, d, docs[d])
    BY <2>4 DEF PathLines
  <2>6. path.spec = SpecQN(conn.qn, docs[d].title)
    BY <2>5 DEF PathLinesOf
  <2>7. [doc |-> d, qn |-> SpecQN(conn.qn, docs[d].title)] \in store[l].specs
    BY <2>4 DEF SpecLines
  <2>8. QED
    BY <2>6, <2>7
<1>2. QED
  BY <1>1, RunInvariant, RunLineage, PTL

\* No run finishes green without an APISpec and an output file, nor without
\* the delivery it was asked for.
THEOREM GreenRunDelivers == Spec => []GreenRunHasAssets
<1>1. IInv /\ Lineage => GreenRunHasAssets
  <2> SUFFICES ASSUME IInv, Lineage, pc = "done"
               PROVE  /\ output.api_spec_count >= 1
                      /\ output.output_file # None
                      /\ input.load_to_atlan => Delivered
    BY DEF GreenRunHasAssets
  <2> DEFINE n == Len(transformed)
  <2>1. /\ output = Output(output.transformed_data_prefix, totals, transformed)
        /\ output.transformed_data_prefix <=> input.load_to_atlan
    BY DEF Lineage, Returned
  <2>2. transformed # <<>> /\ transformed \in Seq(Entries)
    <3>1. Len(transformed) >= 1 /\ transformed \in Seq(Entries)
      BY DEF Lineage, SpecFiles, Progress, IInv, Shape
    <3>2. QED
      BY <3>1
  <2>3. output.api_spec_count = totals.specs /\ totals.specs >= 1
    BY <2>1, <2>2 DEF Output, Lineage, Counted
  <2>4. output.output_file # None
    <3>1. n \in 1..n /\ n \in Nat
      BY <2>2
    <3>2. output.output_file = transformed[n].ref
      BY <2>1, <2>2 DEF Output
    <3>3. transformed[n].ref = <<"transform", n>>
      BY <3>1 DEF Lineage, TransformedRows
    <3>4. QED
      BY <3>1, <3>2, <3>3, NoneAssumption
  <2>5. QED
    BY <2>1, <2>3, <2>4 DEF Delivered
<1>2. QED
  BY <1>1, RunInvariant, RunLineage, PTL

\* The counts a run returns add up, and are the rows of the objects it hands
\* over.
THEOREM CountsAreRows == Spec => []CountsAgree
<1>1. IInv /\ Lineage => CountsAgree
  <2> SUFFICES ASSUME IInv, Lineage, pc = "done"
               PROVE  /\ output.api_spec_count + output.api_path_count
                           = output.total_scanned
                      /\ Delivered => output.total_scanned = RowsIn(store)
    BY DEF CountsAgree
  <2>1. /\ output.api_spec_count = totals.specs
        /\ output.api_path_count = totals.paths
        /\ output.total_scanned = totals.scanned
    BY DEF Lineage, Returned, Output
  <2>2. /\ totals.specs + totals.paths = SumTo(Sizes, Len(extracted))
        /\ totals.scanned = SumTo(Sizes, Len(extracted))
    BY DEF Lineage, Counted, Progress
  <2>3. ASSUME Delivered PROVE SumTo(Sizes, Len(extracted)) = RowsIn(store)
    <3> DEFINE n  == Len(specUrls)
               g  == [l \in DOMAIN store |-> RecordCount(store[l])]
               at == [i \in 1..n |-> Leaf(i - 1)]
    <3>1. /\ n \in Nat /\ n = Len(extracted) /\ IsFiniteSet(DOMAIN store)
          /\ DOMAIN store = {Leaf(i - 1) : i \in 1..n}
      BY <2>3, DeliveredObjects
    <3>2. ASSUME NEW i \in 1..n
          PROVE  /\ Leaf(i - 1) \in DOMAIN store
                 /\ Sizes[i] = g[Leaf(i - 1)] /\ g[Leaf(i - 1)] \in Nat
      <4>1. store[Leaf(i - 1)]
              = Transformed(conn.emit /\ i = 1, refs[<<"extract", i>>])
        BY <2>3, DeliveredObjects
      <4>2. /\ extracted[i].specs = Cardinality(store[Leaf(i - 1)].specs)
            /\ extracted[i].paths = Cardinality(store[Leaf(i - 1)].paths)
        <5>1. i \in 1..Len(extracted)
          BY <3>1
        <5>2. /\ extracted[i].specs = Cardinality(refs[<<"extract", i>>].specs)
              /\ extracted[i].paths = Cardinality(refs[<<"extract", i>>].paths)
          BY <5>1 DEF Lineage, ExtractedFiles
        <5>3. QED
          BY <4>1, <5>2 DEF Transformed
      <4>3. extracted[i].specs \in Nat /\ extracted[i].paths \in Nat
        <5>1. extracted \in Seq(Results) /\ i \in 1..Len(extracted)
          BY <3>1 DEF Lineage, ExtractedFiles
        <5>2. extracted[i] \in Results
          BY <5>1
        <5>3. QED
          BY <5>2 DEF Results
      <4>4. Sizes[i] = RecordCount(store[Leaf(i - 1)]) /\ Sizes[i] \in Nat
        BY <3>1, <4>2, <4>3 DEF Sizes, Extracted, RecordCount
      <4>5. Leaf(i - 1) \in DOMAIN store
        BY <3>1
      <4>6. QED
        BY <4>4, <4>5
    <3>3. \A i, j \in 1..n : at[i] = at[j] => i = j
      <4> SUFFICES ASSUME NEW i \in 1..n, NEW j \in 1..n, Leaf(i - 1) = Leaf(j - 1)
                   PROVE  i = j
        OBVIOUS
      <4>1. i - 1 \in Nat /\ j - 1 \in Nat
        OBVIOUS
      <4>2. i - 1 = j - 1
        BY <4>1, LeafInjective
      <4>3. QED
        BY <4>2
    <3>4. /\ DOMAIN g = DOMAIN store /\ DOMAIN g = {at[i] : i \in 1..n}
          /\ \A i \in 1..n : Sizes[i] = g[at[i]]
      BY <3>1, <3>2
    <3>5. \A l \in DOMAIN g : g[l] \in Nat
      BY <3>2, <3>4
    <3>6. RowsIn(store) = SumOver(g)
      BY DEF RowsIn
    <3> DEFINE h == Sizes
    <3> HIDE DEF g, at, h, n
    <3>7. SumOver(g) = SumTo(h, n)
      <4>1. /\ IsFiniteSet(DOMAIN g) /\ n \in Nat
            /\ \A i \in 1..n : h[i] = g[at[i]]
        BY <3>1, <3>4 DEF h
      <4>2. QED
        BY <3>3, <3>4, <3>5, <4>1, SumByNumber
    <3>8. QED
      BY <3>1, <3>6, <3>7 DEF h
  <2>4. QED
    BY <2>1, <2>2, <2>3
<1>2. QED
  BY <1>1, RunInvariant, RunLineage, PTL

----------------------------------------------------------------------------
(* Every step of a run is one LoadPromise allows *)

Outcome == IF pc \in {"done", "failed"} THEN pc ELSE "running"

Handed == IF Delivered THEN [n \in 1..Cardinality(DOMAIN store) |-> store[Leaf(n - 1)]]
                       ELSE <<>>

\* What a run that returns has handed over is a delivery its input asks for.
LEMMA HandedIsPromised ==
    IInv /\ Lineage /\ pc = "done" => Handed \in Promised(input)
<1> SUFFICES ASSUME IInv, Lineage, pc = "done" PROVE Handed \in Promised(input)
  OBVIOUS
<1> DEFINE files == Listed(input)
           n     == Len(specUrls)
<1>1. /\ files \in Seq(Files(input)) /\ n >= 1 /\ n = Len(files) /\ specUrls # <<>>
      /\ conn = ResolvedConnection(input)
  BY ListingAssumption DEF Lineage, SpecFiles, Accepted
<1>2. files # <<>> /\ DOMAIN files = 1..n
  BY <1>1
<1>3. CASE ~ input.load_to_atlan
  <2>1. ~ Delivered
    BY <1>3 DEF Delivered, Lineage, Returned
  <2>2. Promised(input) = {<<>>}
    BY <1>2, <1>3 DEF Promised
  <2>3. QED
    BY <2>1, <2>2 DEF Handed
<1>4. CASE input.load_to_atlan
  <2>1. Delivered
    BY <1>4 DEF Delivered, Lineage, Returned
  <2>2. Cardinality(DOMAIN store) = n
    BY <2>1, DeliveredObjects
  <2> DEFINE Good(i) == {v \in Versions[files[i]] \ {Corrupt} : UsableDocs(v) # {}}
             Is(i, docs) == refs[<<"extract", i>>] = Records(conn.qn, docs)
             pick(i) == CHOOSE docs \in Good(i) : Is(i, docs)
             v == [i \in 1..n |-> pick(i)]
  <2>3. ASSUME NEW i \in 1..n
        PROVE  /\ v[i] \in Versions[files[i]] \ {Corrupt} /\ UsableDocs(v[i]) # {}
               /\ files[i] \in Files(input)
               /\ store[Leaf(i - 1)]
                    = Transformed(conn.emit /\ i = 1, Records(conn.qn, v[i]))
    <3>1. /\ store[Leaf(i - 1)]
               = Transformed(conn.emit /\ i = 1, refs[<<"extract", i>>])
          /\ refs[<<"extract", i>>] \in ExtractionsOf(i)
      BY <2>1, DeliveredObjects
    <3>2. specUrls[i].file = files[i] /\ files[i] \in Files(input)
      BY SpecUrlListed
    <3>3. \E docs \in Good(i) : Is(i, docs)
      BY <3>1, <3>2, Zenon DEF ExtractionsOf
    <3> HIDE DEF Good, Is
    <3>4. v[i] \in Good(i) /\ Is(i, v[i])
      BY <3>3
    <3>5. QED
      BY <3>1, <3>2, <3>4 DEF Good, Is
  <2> HIDE DEF pick
  <2>4. \A S : (\A i \in 1..n : v[i] \in S) => v \in [1..n -> S]
    OBVIOUS
  <2> HIDE DEF v
  <2> DEFINE all == UNION {Versions[f] : f \in Files(input)}
  <2>5. \A i \in 1..n : v[i] \in all
    BY <2>3
  <2> HIDE DEF all
  <2>6. v \in [DOMAIN files -> all]
    BY <1>2, <2>4, <2>5
  <2> DEFINE choices == {w \in [DOMAIN files -> all] :
                           \A i \in DOMAIN files :
                              /\ w[i] \in Versions[files[i]] \ {Corrupt}
                              /\ UsableDocs(w[i]) # {}}
             delivery(w) == [i \in DOMAIN files |->
                               Transformed(input.connection_usage # "REUSE" /\ i = 1,
                                           Records(ResolvedQN(input), w[i]))]
  <2>7. v \in choices
    BY <1>2, <2>3, <2>6
  <2>8. Promised(input) = {delivery(w) : w \in choices}
    BY <1>2, <1>4 DEF Promised, all
  <2>9. Handed = delivery(v)
    <3>1. conn.qn = ResolvedQN(input)
          /\ conn.emit = (input.connection_usage # "REUSE")
      BY <1>1 DEF ResolvedConnection
    <3>2. \A i \in 1..n :
             store[Leaf(i - 1)] = Transformed(input.connection_usage # "REUSE" /\ i = 1,
                                              Records(ResolvedQN(input), v[i]))
      BY <2>3, <3>1
    <3>3. QED
      BY <1>2, <2>1, <2>2, <3>2, Zenon DEF Handed
  <2> HIDE DEF choices, delivery
  <2>10. QED
    BY <2>7, <2>8, <2>9
<1>5. QED
  BY <1>3, <1>4

LEMMA DeliveredSize ==
    IInv /\ Lineage /\ Delivered =>
       /\ Cardinality(DOMAIN store) = Len(specUrls)
       /\ \A n \in 1..Len(specUrls) : Leaf(n - 1) \in DOMAIN store
<1> SUFFICES ASSUME IInv, Lineage, Delivered
             PROVE  /\ Cardinality(DOMAIN store) = Len(specUrls)
                    /\ \A n \in 1..Len(specUrls) : Leaf(n - 1) \in DOMAIN store
  OBVIOUS
<1>1. /\ Cardinality(DOMAIN store) = Len(specUrls)
      /\ DOMAIN store = {Leaf(n - 1) : n \in 1..Len(specUrls)}
  BY DeliveredObjects
<1>2. QED
  BY <1>1

\* A run that ended stays as it is; the input of a run never changes.
LEMMA EndIsFinal ==
    ASSUME Lineage, [Next]_vars
    PROVE  /\ UNCHANGED input
           /\ pc \in {"done", "failed"} => UNCHANGED <<pc, output, specUrls>>
<1> DEFINE Final == pc \in {"done", "failed"} => UNCHANGED <<pc, output, specUrls>>
<1>1. CASE Begin
  BY <1>1 DEF Begin
<1>2. ASSUME NEW p \in Pods, StartAttempt(p) \/ PodRestarts(p)
      PROVE  UNCHANGED input /\ Final
  BY <1>2 DEF StartAttempt, PodRestarts, runVars
<1>3. CASE TimeoutAttempt
  BY <1>3 DEF TimeoutAttempt, Lineage, Attempts, Tasks
<1>4. CASE UNCHANGED vars
  BY <1>4 DEF vars, runVars
<1>5. ASSUME NEW e \in execs, Execute(e)
      PROVE  UNCHANGED input /\ Final
  <2>1. ASSUME Current(e) PROVE pc \notin {"done", "failed"}
    BY <2>1 DEF Current, Lineage, Attempts, Tasks
  <2>2. CASE Current(e)
    BY <1>5, <2>1, <2>2 DEF Execute, DownloadRefused, Download, DownloadReturns,
       FetchMissing, FetchCorrupt, Fetch, WriteRecords, ExtractReturns, OpenOutput,
       WriteRows, TransformReturns, UploadFile, UploadReturns, AttemptRaises,
       StaleAttemptEnds
  <2>3. CASE ~ Current(e)
    BY <1>5, <2>3 DEF Execute, DownloadRefused, Download, DownloadReturns,
       FetchMissing, FetchCorrupt, Fetch, WriteRecords, ExtractReturns, OpenOutput,
       WriteRows, TransformReturns, UploadFile, UploadReturns, AttemptRaises,
       StaleAttemptEnds, Rejected, runVars
  <2>4. QED
    BY <2>2, <2>3
<1>6. QED
  BY <1>1, <1>2, <1>3, <1>4, <1>5 DEF Next

LEMMA PromiseStep ==
    ASSUME IInv, Lineage, [Next]_vars,
           pc' \in Tasks \cup {"begin", "done", "failed"},
           pc' = "done" => Handed' \in Promised(input'),
           Delivered => /\ Cardinality(DOMAIN store) = Len(specUrls)
                        /\ \A n \in 1..Len(specUrls) : Leaf(n - 1) \in DOMAIN store,
           Delivered' => Cardinality(DOMAIN store') = Len(specUrls')
    PROVE  [Promise!Next]_(Promise!vars)
<1>1. UNCHANGED input
  BY EndIsFinal
<1>2. pc \in Tasks \cup {"begin", "done", "failed"}
  BY DEF IInv, Shape
<1>3. \A x : Promise!vars' = Promise!vars <=>
                /\ UNCHANGED input /\ Outcome' = Outcome /\ Handed' = Handed
  BY DEF Promise!vars, Outcome, Handed, Delivered
<1>4. CASE pc \in {"done", "failed"}
  <2>1. UNCHANGED <<pc, output, specUrls>>
    BY <1>4, EndIsFinal
  <2>2. Outcome' = Outcome /\ Delivered' = Delivered
    BY <2>1 DEF Outcome, Delivered
  <2>3. Handed' = Handed
    <3>1. CASE Delivered
      <4> DEFINE n == Len(specUrls)
      <4>1. \A i \in 1..n : store'[Leaf(i - 1)] = store[Leaf(i - 1)]
        BY <3>1, NextStable DEF Stable
      <4>2. Cardinality(DOMAIN store) = n /\ Cardinality(DOMAIN store') = n
        BY <2>1, <2>2, <3>1
      <4>3. Handed = [i \in 1..n |-> store[Leaf(i - 1)]]
        BY <3>1, <4>2 DEF Handed
      <4>4. Handed' = [i \in 1..n |-> store'[Leaf(i - 1)]]
        BY <2>2, <3>1, <4>2 DEF Handed
      <4> HIDE DEF n
      <4>5. QED
        BY <4>1, <4>3, <4>4
    <3>2. CASE ~ Delivered
      BY <2>2, <3>2 DEF Handed
    <3>3. QED
      BY <3>1, <3>2
  <2>4. QED
    BY <1>1, <1>3, <2>2, <2>3
<1>5. CASE pc \notin {"done", "failed"}
  <2>1. Outcome = "running" /\ Handed = <<>>
    BY <1>5 DEF Outcome, Handed, Delivered
  <2>2. CASE pc' \notin {"done", "failed"}
    <3>1. Outcome' = "running" /\ Handed' = <<>>
      BY <2>2 DEF Outcome, Handed, Delivered
    <3>2. QED
      BY <1>1, <1>3, <2>1, <3>1
  <2>3. CASE pc' = "failed"
    <3>1. Outcome' = "failed" /\ Handed' = <<>>
      BY <2>3 DEF Outcome, Handed, Delivered
    <3>2. Promise!Refuse
      BY <1>1, <2>1, <3>1 DEF Promise!Refuse, Outcome, Handed, Delivered
    <3>3. QED
      BY <3>2 DEF Promise!Next
  <2>4. CASE pc' = "done"
    <3>1. Outcome' = "done" /\ Handed' \in Promised(input)
      BY <1>1, <2>4 DEF Outcome
    <3>2. Promise!Deliver
      BY <1>1, <2>1, <3>1 DEF Promise!Deliver, Outcome, Handed, Delivered
    <3>3. QED
      BY <3>2 DEF Promise!Next
  <2>5. QED
    BY <2>2, <2>3, <2>4
<1>6. QED
  BY <1>4, <1>5

\* SpecRun implements the safety of LoadPromise: a run hands over nothing, or
\* all at once one of the deliveries its input asks for, and then ends.
THEOREM RunKeepsPromise == Spec => Promise!Init /\ [][Promise!Next]_(Promise!vars)
<1> DEFINE Kind    == pc \in Tasks \cup {"begin", "done", "failed"}
           Kept    == pc = "done" => Handed \in Promised(input)
           Full == Delivered =>
                          /\ Cardinality(DOMAIN store) = Len(specUrls)
                          /\ \A n \in 1..Len(specUrls) : Leaf(n - 1) \in DOMAIN store
<1>1. Init => Promise!Init
  BY DEF Init, Promise!Init, Delivered
<1>2. IInv /\ Lineage => Kind /\ Kept /\ Full
  BY HandedIsPromised, DeliveredSize DEF IInv, Shape
<1>3. /\ IInv /\ Lineage /\ [Next]_vars
      /\ Kind' /\ Kept' /\ Full /\ Full'
      => [Promise!Next]_(Promise!vars)
  BY PromiseStep
<1>4. QED
  BY <1>1, <1>2, <1>3, RunInvariant, RunLineage, PTL DEF Spec
=============================================================================
