------------------------- MODULE ReleaseGate_proofs -------------------------
(***************************************************************************)
(* No bump PR merges before its release gate has passed on its head: for   *)
(* every number of commits, statuses and events, lookups that fail between *)
(* two pages and runs that are cancelled or re-run.                        *)
(***************************************************************************)
EXTENDS ReleaseGate, TLAPS

\* What a run holds in its file was posted on its commit.
Holds(r) == \A k \in DOMAIN r.lines :
               \E l \in DOMAIN statuses[r.commit] :
                  statuses[r.commit][l] = r.lines[k]

\* Whatever lets a bump PR pass is backed by a verdict of the bot.
GateInv ==
    /\ TypeOK
    /\ \A i \in DOMAIN runs : Holds(runs[i])
    /\ branch = "bump-version" =>
          /\ \A i \in DOMAIN runs : runs[i].step = "green" => Passed(runs[i].commit)
          /\ queued \/ merged => Passed(head)

\* A prefix of a list of statuses is a list of statuses.
LEMMA PrefixType ==
    ASSUME NEW S, NEW s \in Seq(S), NEW n \in 0..Len(s)
    PROVE  /\ SubSeq(s, 1, n) \in Seq(S)
           /\ \A k \in DOMAIN SubSeq(s, 1, n) : k \in DOMAIN s /\ SubSeq(s, 1, n)[k] = s[k]
  OBVIOUS

\* Runs that are over hold no lines, and are runs.
LEMMA OverType ==
    ASSUME NEW r \in Runs, NEW c \in {"green", "red", "cancelled"}
    PROVE  /\ Over(r, c) \in Runs
           /\ Over(r, c).commit = r.commit /\ Over(r, c).step = c
           /\ Over(r, c).lines = <<>>
  <1>1. <<>> \in Seq(Statuses)
    OBVIOUS
  <1>2. [r EXCEPT !.step = c] \in Runs
    BY DEF Runs
  <1>3. Over(r, c) = [[r EXCEPT !.step = c] EXCEPT !.lines = <<>>]
    BY DEF Over, Runs
  <1>4. Over(r, c) \in Runs
    BY <1>1, <1>2, <1>3 DEF Runs
  <1>5. Over(r, c).commit = r.commit /\ Over(r, c).step = c /\ Over(r, c).lines = <<>>
    BY DEF Over, Runs
  <1>6. QED
    BY <1>4, <1>5

\* Retiring changes no commit and makes nothing green.
LEMMA RetireKeeps ==
    ASSUME NEW rs \in Seq(Runs), NEW event
    PROVE  /\ Retire(rs, event) \in Seq(Runs)
           /\ DOMAIN Retire(rs, event) = DOMAIN rs
           /\ Len(Retire(rs, event)) = Len(rs)
           /\ \A i \in DOMAIN rs :
                 \/ Retire(rs, event)[i] = rs[i]
                 \/ /\ Retire(rs, event)[i] = Over(rs[i], "cancelled")
                    /\ Retire(rs, event)[i].step = "cancelled"
                    /\ Retire(rs, event)[i].commit = rs[i].commit
                    /\ Retire(rs, event)[i].lines = <<>>
  <1>1. \A i \in DOMAIN rs : Over(rs[i], "cancelled") \in Runs
    BY OverType
  <1>2. \A i \in DOMAIN rs : Retire(rs, event)[i] \in Runs
    BY <1>1 DEF Retire
  <1>3. DOMAIN Retire(rs, event) = 1..Len(rs)
    BY DEF Retire
  <1>4. Retire(rs, event) \in Seq(Runs) /\ Len(Retire(rs, event)) = Len(rs)
    <2>1. Retire(rs, event) \in [1..Len(rs) -> Runs]
      BY <1>2 DEF Retire
    <2>2. QED  BY <2>1
  <1>5. QED
    BY <1>3, <1>4, OverType DEF Retire

\* A green decision on a bump PR rests on a verdict among the lines.
LEMMA GreenHasVerdict ==
    ASSUME NEW r \in Runs, branch = "bump-version",
           Decide(IsReleasePR(r), r.lines) = "green"
    PROVE  \E k \in DOMAIN r.lines :
              r.lines[k] = [state |-> "success", creator |-> Bot]
  BY DEF Decide, IsReleasePR, ReadsState

LEMMA InitGateInv == Init => GateInv
  <1> SUFFICES ASSUME Init PROVE GateInv
    OBVIOUS
  <1>1. 1 \in Commits
    BY GateBounds DEF Commits
  <1>2. NewRun("opened") \in Runs
    <2>1. <<>> \in Seq(Statuses)
      OBVIOUS
    <2>2. QED  BY <1>1, <2>1 DEF NewRun, Runs, Init
  <1>3. runs \in Seq(Runs) /\ DOMAIN runs = {1} /\ runs[1] = NewRun("opened")
    BY <1>2 DEF Init
  <1>4. TypeOK
    <2>1. statuses \in [Commits -> Seq(Statuses)]
      BY DEF Init
    <2>2. events \in 0..MaxEvents
      BY GateBounds DEF Init
    <2>3. /\ branch \in Branches /\ labelled \in BOOLEAN /\ wanted \subseteq Commits
          /\ queued \in BOOLEAN /\ merged \in BOOLEAN
      BY Zenon DEF Init
    <2>4. head \in Commits /\ runs \in Seq(Runs)
      BY <1>1, <1>3 DEF Init
    <2>5. QED  BY <2>1, <2>2, <2>3, <2>4, Zenon DEF TypeOK
  <1>5. QED
    BY <1>3, <1>4 DEF GateInv, Holds, NewRun, Init

(***************************************************************************)
(* Statuses are only added, so what was posted stays posted.               *)
(***************************************************************************)
LEMMA PostKeeps ==
    ASSUME TypeOK, NEW c \in Commits, NEW state \in States, NEW creator \in Creators,
           Post(c, state, creator)
    PROVE  /\ statuses' \in [Commits -> Seq(Statuses)]
           /\ \A d \in Commits : \A l \in DOMAIN statuses[d] :
                 \E m \in DOMAIN statuses'[d] : statuses'[d][m] = statuses[d][l]
  <1> DEFINE s == [state |-> state, creator |-> creator]
  <1>1. s \in Statuses /\ statuses[c] \in Seq(Statuses)
    BY DEF Statuses, TypeOK
  <1>2. <<s>> \o statuses[c] \in Seq(Statuses)
    BY <1>1
  <1>3. statuses' = [statuses EXCEPT ![c] = <<s>> \o statuses[c]]
    BY DEF Post
  <1>4. statuses' \in [Commits -> Seq(Statuses)]
    BY <1>2, <1>3 DEF TypeOK
  <1>5. ASSUME NEW d \in Commits, NEW l \in DOMAIN statuses[d]
        PROVE  \E m \in DOMAIN statuses'[d] : statuses'[d][m] = statuses[d][l]
    <2>1. CASE d = c
      <3>1. statuses'[d] = <<s>> \o statuses[c]
        BY <1>3, <2>1 DEF TypeOK
      <3>2. l + 1 \in DOMAIN (<<s>> \o statuses[c])
            /\ (<<s>> \o statuses[c])[l + 1] = statuses[c][l]
        BY <1>1, <1>5, <2>1
      <3>3. QED  BY <2>1, <3>1, <3>2
    <2>2. CASE d # c
      BY <1>3, <2>2 DEF TypeOK
    <2>3. QED  BY <2>1, <2>2
  <1>6. QED
    BY <1>4, <1>5

LEMMA RunType ==
    ASSUME TypeOK, NEW i \in DOMAIN runs
    PROVE  runs[i] \in Runs /\ runs[i].commit \in Commits /\ runs[i].lines \in Seq(Statuses)
  <1>1. runs[i] \in Runs
    BY DEF TypeOK
  <1>2. QED
    BY <1>1 DEF Runs

(***************************************************************************)
(* The actions that change statuses: the runs are those they were, and     *)
(* every status they rest on is still there.                               *)
(***************************************************************************)
LEMMA PostStep ==
    ASSUME GateInv, NEW c \in Commits, NEW state \in States, NEW creator \in Creators,
           Post(c, state, creator),
           UNCHANGED <<branch, labelled, head, runs, queued, merged, events>>,
           wanted' \subseteq Commits
    PROVE  GateInv'
  <1>1. TypeOK
    BY DEF GateInv
  <1>2. /\ statuses' \in [Commits -> Seq(Statuses)]
        /\ \A d \in Commits : \A l \in DOMAIN statuses[d] :
              \E m \in DOMAIN statuses'[d] : statuses'[d][m] = statuses[d][l]
    BY <1>1, PostKeeps
  <1>3. TypeOK'
    BY <1>1, <1>2 DEF TypeOK
  <1>4. \A i \in DOMAIN runs : runs[i] \in Runs /\ runs[i].commit \in Commits
    BY <1>1, RunType
  <1>5. \A i \in DOMAIN runs : Holds(runs[i])'
    <2> SUFFICES ASSUME NEW i \in DOMAIN runs, NEW k \in DOMAIN runs[i].lines
                 PROVE  \E m \in DOMAIN statuses'[runs[i].commit] :
                           statuses'[runs[i].commit][m] = runs[i].lines[k]
      BY DEF Holds
    <2>1. PICK l \in DOMAIN statuses[runs[i].commit] :
             statuses[runs[i].commit][l] = runs[i].lines[k]
      BY DEF GateInv, Holds
    <2>2. QED  BY <1>2, <1>4, <2>1
  <1>6. \A d \in Commits : Passed(d) => Passed(d)'
    BY <1>2 DEF Passed
  <1>7. QED
    BY <1>1, <1>3, <1>4, <1>5, <1>6 DEF GateInv, TypeOK

(***************************************************************************)
(* The actions that change one run: a run that is not over needs its lines *)
(* posted, and one that turns green its commit passed.                     *)
(***************************************************************************)
LEMMA RunStep ==
    ASSUME GateInv, NEW i \in DOMAIN runs, NEW r \in Runs,
           r.commit = runs[i].commit,
           Holds(r),
           branch = "bump-version" /\ r.step = "green" => Passed(r.commit),
           runs' = [runs EXCEPT ![i] = r],
           UNCHANGED <<branch, labelled, head, statuses, wanted, queued, merged, events>>
    PROVE  GateInv'
  <1>1. TypeOK
    BY DEF GateInv
  <1>2. runs' \in Seq(Runs) /\ DOMAIN runs' = DOMAIN runs
    BY <1>1 DEF TypeOK
  <1>3. TypeOK'
    BY <1>1, <1>2 DEF TypeOK
  <1>4. runs'[i] = r /\ \A j \in DOMAIN runs : j # i => runs'[j] = runs[j]
    BY <1>1 DEF TypeOK
  <1>5. Passed(head)' = Passed(head) /\ \A c : Passed(c)' = Passed(c)
    BY DEF Passed
  <1>6. \A j \in DOMAIN runs' : Holds(runs[j])'
    <2> SUFFICES ASSUME NEW j \in DOMAIN runs
                 PROVE  Holds(runs[j])'
      BY <1>2
    <2>1. CASE j = i  BY <1>4, <2>1 DEF Holds
    <2>2. CASE j # i  BY <1>4, <2>2 DEF Holds, GateInv
    <2>3. QED  BY <2>1, <2>2
  <1>7. QED
    BY <1>2, <1>3, <1>4, <1>5, <1>6 DEF GateInv

(***************************************************************************)
(* The actions that create, retire and re-run runs: a run is as it was, or *)
(* is not green and holds what it held, or nothing.                        *)
(***************************************************************************)
LEMMA RunsStep ==
    ASSUME GateInv, TypeOK',
           \A i \in DOMAIN runs' :
              \/ i \in DOMAIN runs /\ runs'[i] = runs[i]
              \/ /\ i \in DOMAIN runs /\ runs'[i].step # "green"
                 /\ runs'[i].lines = runs[i].lines /\ runs'[i].commit = runs[i].commit
              \/ runs'[i].lines = <<>> /\ runs'[i].step # "green",
           UNCHANGED <<branch, statuses>>,
           branch = "bump-version" => (queued' \/ merged' => Passed(head'))
    PROVE  GateInv'
  <1>1. \A c : Passed(c)' = Passed(c)
    BY DEF Passed
  <1>2. Passed(head)' = Passed(head')
    BY DEF Passed
  <1>3. \A i \in DOMAIN runs' : Holds(runs[i])'
    BY DEF Holds, GateInv
  <1>4. QED
    BY <1>1, <1>2, <1>3 DEF GateInv

LEMMA NewRunType ==
    ASSUME TypeOK, NEW event \in {"opened", "synchronize", "reopened"}
    PROVE  /\ NewRun(event) \in Runs
           /\ NewRun(event).lines = <<>> /\ NewRun(event).step = "queued"
  <1>1. <<>> \in Seq(Statuses)
    OBVIOUS
  <1>2. QED
    BY <1>1 DEF NewRun, Runs, TypeOK

LEMMA FetchStep == ASSUME GateInv, NEW i \in DOMAIN runs, Fetch(i) PROVE GateInv'
  <1>1. TypeOK
    BY DEF GateInv
  <1>2. runs[i] \in Runs /\ runs[i].commit \in Commits
    BY <1>1, RunType
  <1> DEFINE posted == statuses[runs[i].commit]
  <1>3. posted \in Seq(Statuses)
    BY <1>1, <1>2 DEF TypeOK
  <1>4. PICK n \in 0..Len(posted) :
           runs' = [runs EXCEPT ![i].step = "fetched",
                                ![i].lines = SubSeq(posted, 1, n),
                                ![i].whole = (n = Len(posted))]
    BY DEF Fetch
  <1> DEFINE ls == SubSeq(posted, 1, n)
             w  == n = Len(posted)
             r  == [[[runs[i] EXCEPT !.step = "fetched"] EXCEPT !.lines = ls]
                       EXCEPT !.whole = w]
  <1>5. ls \in Seq(Statuses) /\ \A k \in DOMAIN ls : k \in DOMAIN posted /\ ls[k] = posted[k]
    BY <1>3, <1>4, PrefixType
  <1>6. w \in BOOLEAN
    OBVIOUS
  <1> HIDE DEF ls, w
  <1>7. /\ r \in Runs /\ r.commit = runs[i].commit /\ r.lines = ls
        /\ r.step = "fetched"
    <2>1. [runs[i] EXCEPT !.step = "fetched"] \in Runs
      BY <1>2 DEF Runs
    <2>2. [[runs[i] EXCEPT !.step = "fetched"] EXCEPT !.lines = ls] \in Runs
      BY <2>1, <1>5 DEF Runs
    <2>3. r \in Runs
      BY <2>2, <1>6 DEF Runs
    <2>4. QED  BY <1>2, <2>3 DEF Runs
  <1>8. runs' = [runs EXCEPT ![i] = r]
    BY <1>4 DEF ls, w
  <1> HIDE DEF r
  <1>9. Holds(r)
    BY <1>5, <1>7 DEF Holds
  <1>10. QED
    BY <1>7, <1>8, <1>9, RunStep DEF Fetch

LEMMA VerifyStep == ASSUME GateInv, NEW i \in DOMAIN runs, Verify(i) PROVE GateInv'
  <1>1. TypeOK
    BY DEF GateInv
  <1>2. runs[i] \in Runs /\ runs[i].commit \in Commits
    BY <1>1, RunType
  <1> DEFINE c == Decide(IsReleasePR(runs[i]), runs[i].lines)
             r == Over(runs[i], c)
  <1>3. c \in {"green", "red"}
    BY DEF Decide
  <1>4. branch = "bump-version" /\ c = "green" => Passed(runs[i].commit)
    <2> SUFFICES ASSUME branch = "bump-version", c = "green"
                 PROVE  Passed(runs[i].commit)
      OBVIOUS
    <2>1. PICK k \in DOMAIN runs[i].lines :
             runs[i].lines[k] = [state |-> "success", creator |-> Bot]
      BY <1>2, GreenHasVerdict
    <2>2. PICK l \in DOMAIN statuses[runs[i].commit] :
             statuses[runs[i].commit][l] = runs[i].lines[k]
      BY DEF GateInv, Holds
    <2>3. QED  BY <2>1, <2>2 DEF Passed
  <1>5. runs' = [runs EXCEPT ![i] = r]
    BY DEF Verify
  <1> HIDE DEF c
  <1>6. r \in Runs /\ r.commit = runs[i].commit /\ r.step = c /\ r.lines = <<>>
    BY <1>2, <1>3, OverType
  <1> HIDE DEF r
  <1>7. Holds(r)
    BY <1>6 DEF Holds
  <1>8. QED
    BY <1>4, <1>5, <1>6, <1>7, RunStep DEF Verify

LEMMA DiesStep == ASSUME GateInv, NEW i \in DOMAIN runs, Dies(i) PROVE GateInv'
  <1>1. runs[i] \in Runs
    BY RunType DEF GateInv
  <1> DEFINE r == Over(runs[i], "cancelled")
  <1>2. runs' = [runs EXCEPT ![i] = r]
    BY DEF Dies
  <1>3. r \in Runs /\ r.commit = runs[i].commit /\ r.step = "cancelled" /\ r.lines = <<>>
    BY <1>1, OverType
  <1> HIDE DEF r
  <1>4. Holds(r)
    BY <1>3 DEF Holds
  <1>5. QED
    BY <1>2, <1>3, <1>4, RunStep DEF Dies

LEMMA RerunStep == ASSUME GateInv, NEW c \in Commits, Rerun(c) PROVE GateInv'
  <1>1. TypeOK
    BY DEF GateInv
  <1>2. PICK i \in DOMAIN runs :
           runs' = [Retire(runs, runs[i].event) EXCEPT
                       ![i] = [runs[i] EXCEPT !.step = "queued", !.whole = FALSE]]
    BY DEF Rerun
  <1> DEFINE rs == Retire(runs, runs[i].event)
             r  == [[runs[i] EXCEPT !.step = "queued"] EXCEPT !.whole = FALSE]
  <1>3. /\ rs \in Seq(Runs) /\ DOMAIN rs = DOMAIN runs
        /\ \A j \in DOMAIN runs :
              rs[j] = runs[j] \/ (rs[j].step = "cancelled" /\ rs[j].lines = <<>>)
    BY <1>1, RetireKeeps DEF TypeOK
  <1>4. runs[i] \in Runs
    BY <1>1, RunType
  <1>5. /\ r \in Runs /\ r.step = "queued"
        /\ r.lines = runs[i].lines /\ r.commit = runs[i].commit
    <2>1. [runs[i] EXCEPT !.step = "queued"] \in Runs
      BY <1>4 DEF Runs
    <2>2. r \in Runs
      BY <2>1 DEF Runs
    <2>3. QED  BY <1>4, <2>2 DEF Runs
  <1>6. runs' = [rs EXCEPT ![i] = r]
    BY <1>2
  <1> HIDE DEF rs, r
  <1>7. runs' \in Seq(Runs) /\ DOMAIN runs' = DOMAIN runs
    BY <1>3, <1>5, <1>6
  <1>8. /\ wanted' \subseteq Commits
        /\ UNCHANGED <<branch, labelled, head, statuses, queued, merged, events>>
    BY <1>1 DEF Rerun, TypeOK
  <1>9. TypeOK'
    BY <1>1, <1>7, <1>8 DEF TypeOK
  <1>10. runs'[i] = r /\ \A j \in DOMAIN runs : j # i => runs'[j] = rs[j]
    BY <1>3, <1>6
  <1>11. branch = "bump-version" => (queued' \/ merged' => Passed(head'))
    BY <1>8 DEF GateInv
  <1>12. \A j \in DOMAIN runs' :
            \/ j \in DOMAIN runs /\ runs'[j] = runs[j]
            \/ /\ j \in DOMAIN runs /\ runs'[j].step # "green"
               /\ runs'[j].lines = runs[j].lines /\ runs'[j].commit = runs[j].commit
            \/ runs'[j].lines = <<>> /\ runs'[j].step # "green"
    <2> SUFFICES ASSUME NEW j \in DOMAIN runs
                 PROVE  \/ runs'[j] = runs[j]
                        \/ /\ runs'[j].step # "green"
                           /\ runs'[j].lines = runs[j].lines
                           /\ runs'[j].commit = runs[j].commit
                        \/ runs'[j].lines = <<>> /\ runs'[j].step # "green"
      BY <1>7
    <2>1. CASE j = i  BY <1>5, <1>10, <2>1
    <2>2. CASE j # i  BY <1>3, <1>10, <2>2
    <2>3. QED  BY <2>1, <2>2
  <1>13. QED
    BY <1>8, <1>9, <1>11, <1>12, RunsStep

LEMMA PushStep == ASSUME GateInv, Push PROVE GateInv'
  <1>1. TypeOK
    BY DEF GateInv
  <1> DEFINE rs == Retire(runs, "synchronize")
             r  == [NewRun("synchronize") EXCEPT !.commit = head + 1]
  <1>2. /\ rs \in Seq(Runs) /\ DOMAIN rs = DOMAIN runs
        /\ \A j \in DOMAIN runs :
              rs[j] = runs[j] \/ (rs[j].step = "cancelled" /\ rs[j].lines = <<>>)
    BY <1>1, RetireKeeps DEF TypeOK
  <1>3. head + 1 \in Commits
    BY <1>1, GateBounds DEF Push, TypeOK, Commits
  <1>4. r \in Runs /\ r.step = "queued" /\ r.lines = <<>>
    <2>1. NewRun("synchronize") \in Runs
          /\ NewRun("synchronize").lines = <<>> /\ NewRun("synchronize").step = "queued"
      BY <1>1, NewRunType
    <2>2. QED  BY <1>3, <2>1 DEF Runs
  <1>5. runs' = Append(rs, r)
    BY DEF Push
  <1> HIDE DEF rs, r
  <1>6. runs' \in Seq(Runs)
    BY <1>2, <1>4, <1>5
  <1>7. TypeOK'
    <2>1. head' \in Commits /\ queued' \in BOOLEAN
      BY <1>3 DEF Push
    <2>2. QED  BY <1>1, <1>6, <2>1 DEF Push, TypeOK
  <1>8. \A j \in DOMAIN runs' :
           \/ j \in DOMAIN runs /\ runs'[j] = runs[j]
           \/ runs'[j].lines = <<>> /\ runs'[j].step # "green"
    BY <1>2, <1>4, <1>5
  <1>9. UNCHANGED <<branch, statuses>> /\ ~queued' /\ ~merged'
    BY DEF Push
  <1>10. QED
    BY <1>7, <1>8, <1>9, RunsStep

LEMMA ReopenStep == ASSUME GateInv, Reopen PROVE GateInv'
  <1>1. TypeOK
    BY DEF GateInv
  <1>2. NewRun("reopened") \in Runs
        /\ NewRun("reopened").lines = <<>> /\ NewRun("reopened").step = "queued"
    BY <1>1, NewRunType
  <1>3. runs' = Append(runs, NewRun("reopened"))
    BY DEF Reopen
  <1>4. runs' \in Seq(Runs) /\ events' \in 0..MaxEvents
    <2>1. runs' \in Seq(Runs)
      BY <1>1, <1>2, <1>3 DEF TypeOK
    <2>2. events' \in 0..MaxEvents
      BY <1>1, GateBounds DEF Reopen, TypeOK
    <2>3. QED  BY <2>1, <2>2
  <1>5. TypeOK'
    BY <1>1, <1>4 DEF Reopen, TypeOK
  <1>6. \A j \in DOMAIN runs' :
           \/ j \in DOMAIN runs /\ runs'[j] = runs[j]
           \/ runs'[j].lines = <<>> /\ runs'[j].step # "green"
    BY <1>1, <1>2, <1>3 DEF TypeOK
  <1>7. UNCHANGED <<branch, statuses>> /\ ~queued' /\ ~merged'
    BY DEF Reopen
  <1>8. QED
    BY <1>5, <1>6, <1>7, RunsStep

\* The actions that change neither runs nor statuses nor the head.
LEMMA SameRuns ==
    ASSUME GateInv, TypeOK', UNCHANGED <<branch, head, statuses, runs>>,
           branch = "bump-version" => (queued' \/ merged' => Passed(head))
    PROVE  GateInv'
  <1>1. \A i \in DOMAIN runs' :
           i \in DOMAIN runs /\ runs'[i] = runs[i]
    OBVIOUS
  <1>2. Passed(head') = Passed(head)
    BY DEF Passed
  <1>3. QED
    BY <1>1, <1>2, RunsStep

LEMMA LabelStep == ASSUME GateInv, Label PROVE GateInv'
  <1>1. events' \in 0..MaxEvents
    BY GateBounds DEF GateInv, TypeOK, Label
  <1>2. labelled' \in BOOLEAN
    BY Zenon DEF Label
  <1>3. TypeOK'
    BY <1>1, <1>2 DEF GateInv, TypeOK, Label
  <1>4. QED
    BY <1>3, SameRuns DEF Label, GateInv

\* The check that lets a PR into the queue is that of a run on its head.
LEMMA EnqueueStep == ASSUME GateInv, Enqueue PROVE GateInv'
  <1>1. TypeOK'
    BY DEF GateInv, TypeOK, Enqueue
  <1>2. branch = "bump-version" => Passed(head)
    BY DEF GateInv, Enqueue, Green, Speaks
  <1>3. QED
    BY <1>1, <1>2, SameRuns DEF Enqueue

LEMMA MergeStep == ASSUME GateInv, Merge PROVE GateInv'
  <1>1. TypeOK'
    BY DEF GateInv, TypeOK, Merge
  <1>2. QED
    BY <1>1, SameRuns DEF Merge, GateInv

LEMMA NextGateInv == GateInv /\ [Next]_vars => GateInv'
  <1> SUFFICES ASSUME GateInv, [Next]_vars PROVE GateInv'
    OBVIOUS
  <1>1. CASE \E i \in DOMAIN runs : Fetch(i) \/ Verify(i) \/ Dies(i)
    BY <1>1, FetchStep, VerifyStep, DiesStep
  <1>2. ASSUME NEW c \in Commits, Rerun(c) PROVE GateInv'
    BY <1>2, RerunStep
  <1>3. ASSUME NEW c \in Commits, VerdictLands(c) PROVE GateInv'
    <2>1. PICK state \in {"success", "failure"} : Post(c, state, Bot)
      BY <1>3 DEF VerdictLands
    <2>2. state \in States /\ Bot \in Creators
      BY DEF States, Creators
    <2>3. /\ UNCHANGED <<branch, labelled, head, runs, queued, merged, events>>
          /\ wanted' \subseteq Commits
      BY <1>3 DEF VerdictLands, GateInv, TypeOK
    <2>4. QED  BY <2>1, <2>2, <2>3, PostStep
  <1>4. ASSUME NEW c \in Commits, SomeonePosts(c) PROVE GateInv'
    <2>1. PICK state \in {"success", "failure"} : Post(c, state, "someone")
      BY <1>4 DEF SomeonePosts
    <2>2. state \in States /\ "someone" \in Creators
      BY DEF States, Creators
    <2>3. /\ UNCHANGED <<branch, labelled, head, runs, queued, merged, events>>
          /\ wanted' \subseteq Commits
      BY <1>4 DEF SomeonePosts, GateInv, TypeOK
    <2>4. QED  BY <2>1, <2>2, <2>3, PostStep
  <1>5. CASE GateCheck
    <2>1. head \in Commits /\ "pending" \in States /\ Bot \in Creators
      BY DEF GateInv, TypeOK, States, Creators
    <2>2. /\ UNCHANGED <<branch, labelled, head, runs, queued, merged, events>>
          /\ wanted' \subseteq Commits
      BY <1>5 DEF GateCheck, GateInv, TypeOK
    <2>3. Post(head, "pending", Bot)
      BY <1>5 DEF GateCheck
    <2>4. QED  BY <2>1, <2>2, <2>3, PostStep
  <1>6. CASE UNCHANGED vars
    <2>1. TypeOK'
      BY <1>6 DEF GateInv, TypeOK, vars
    <2>2. QED  BY <1>6, <2>1, SameRuns DEF GateInv, vars
  <1>7. QED
    BY <1>1, <1>2, <1>3, <1>4, <1>5, <1>6, PushStep, ReopenStep, LabelStep,
       EnqueueStep, MergeStep DEF Next

\* The invariant of the gate, for every number of commits, statuses and events.
LEMMA GateInvariant == Spec => []GateInv
  BY InitGateInv, NextGateInv, PTL DEF Spec

\* Every run and every status of the gate has its type.
THEOREM GateIsTyped == Spec => []TypeOK
  <1>1. GateInv => TypeOK
    BY DEF GateInv
  <1>2. QED
    BY <1>1, GateInvariant, PTL

(***************************************************************************)
(* FND-3947: whatever lookups fail, runs are cancelled, retired or re-run, *)
(* and whoever posts statuses, a bump PR that has merged has a verdict of  *)
(* success by the bot on the commit that merged (release_gate.py,          *)
(* release-gate.yaml).                                                     *)
(***************************************************************************)
THEOREM BumpGateTheorem == Spec => []BumpPassedItsGate
  <1>1. GateInv => BumpPassedItsGate
    BY DEF GateInv, BumpPassedItsGate
  <1>2. QED
    BY <1>1, GateInvariant, PTL

----------------------------------------------------------------------------
(* The check of a commit no verdict is on its way to *)

Settled(c) == c \notin wanted /\ ~Verdict(c, "pending")

Pass(r, c) == IsReleasePR(r) => Verdict(c, "success")

\* What a run that speaks for a settled commit will say, or has said.
Right(r, c) ==
    /\ r.step = "fetched" =>
          /\ Decide(IsReleasePR(r), r.lines) = "green" => Pass(r, c)
          /\ Pass(r, c) /\ r.whole => Decide(IsReleasePR(r), r.lines) = "green"
    /\ r.step = "green" => Pass(r, c)
    /\ r.step = "red" => ~(Pass(r, c) /\ r.whole)

Speakers == \A i \in DOMAIN runs : \A c \in Commits :
               Speaks(i, c) /\ Settled(c) => Right(runs[i], c)

\* What the gate would read in a whole list is what the bot says there.
LEMMA Reading ==
    ASSUME NEW s \in Seq(Statuses), NEW state
    PROVE  ReadsState(s, state) <=>
              \E i \in {k \in DOMAIN s : s[k].creator = Bot} :
                 /\ \A j \in {k \in DOMAIN s : s[k].creator = Bot} : i <= j
                 /\ s[i].state = state
  <1>1. \A i \in DOMAIN s : s[i] \in Statuses /\ i \in Nat
    OBVIOUS
  <1>2. ASSUME ReadsState(s, state)
        PROVE  \E i \in {k \in DOMAIN s : s[k].creator = Bot} :
                 /\ \A j \in {k \in DOMAIN s : s[k].creator = Bot} : i <= j
                 /\ s[i].state = state
    <2>1. PICK i \in DOMAIN s : /\ s[i] = [state |-> state, creator |-> Bot]
                                /\ \A j \in DOMAIN s : j < i => s[j].creator # Bot
      BY <1>2 DEF ReadsState
    <2>2. s[i].state = state /\ s[i].creator = Bot
      BY <2>1
    <2>3. \A j \in {k \in DOMAIN s : s[k].creator = Bot} : i <= j
      BY <1>1, <2>1
    <2>4. QED  BY <2>2, <2>3
  <1>3. ASSUME NEW i \in {k \in DOMAIN s : s[k].creator = Bot},
               \A j \in {k \in DOMAIN s : s[k].creator = Bot} : i <= j,
               s[i].state = state
        PROVE  ReadsState(s, state)
    <2>1. s[i] = [state |-> state, creator |-> Bot]
      BY <1>1, <1>3 DEF Statuses
    <2>2. \A j \in DOMAIN s : j < i => s[j].creator # Bot
      BY <1>1, <1>3
    <2>3. QED  BY <2>1, <2>2 DEF ReadsState
  <1>4. QED
    BY <1>2, <1>3

LEMMA VerdictIs ==
    ASSUME statuses \in [Commits -> Seq(Statuses)], NEW c \in Commits, NEW state
    PROVE  Verdict(c, state) <=> ReadsState(statuses[c], state)
  <1>1. statuses[c] \in Seq(Statuses)
    OBVIOUS
  <1>2. QED
    BY <1>1, Reading, Zenon DEF Verdict

LEMMA VerdictWillBe ==
    ASSUME statuses' \in [Commits -> Seq(Statuses)], NEW c \in Commits, NEW state
    PROVE  Verdict(c, state)' <=> ReadsState(statuses'[c], state)
  <1>1. statuses'[c] \in Seq(Statuses)
    OBVIOUS
  <1>2. QED
    BY <1>1, Reading, Zenon DEF Verdict

\* A lookup that fails between two pages loses older statuses only: what it
\* makes out is the verdict.
LEMMA PrefixReads ==
    ASSUME NEW s \in Seq(Statuses), NEW n \in 0..Len(s), NEW state,
           ReadsState(SubSeq(s, 1, n), state)
    PROVE  ReadsState(s, state)
  <1> DEFINE t == SubSeq(s, 1, n)
  <1>1. DOMAIN t = 1..n /\ DOMAIN s = 1..Len(s) /\ Len(s) \in Nat /\ n \in Nat /\ n <= Len(s)
    OBVIOUS
  <1>2. \A k \in 1..n : t[k] = s[k]
    OBVIOUS
  <1> HIDE DEF t
  <1>3. PICK i \in DOMAIN t : /\ t[i] = [state |-> state, creator |-> Bot]
                              /\ \A j \in DOMAIN t : j < i => t[j].creator # Bot
    BY DEF ReadsState, t
  <1>4. i \in DOMAIN s /\ s[i] = [state |-> state, creator |-> Bot]
    BY <1>1, <1>2, <1>3
  <1>5. \A j \in DOMAIN s : j < i => s[j].creator # Bot
    BY <1>1, <1>2, <1>3
  <1>6. QED
    BY <1>4, <1>5 DEF ReadsState

\* The bot's newest word is its verdict; what others post is not.
LEMMA PostReads ==
    ASSUME NEW s \in Seq(Statuses), NEW posted \in States, NEW creator \in Creators,
           NEW state
    PROVE  LET t == <<[state |-> posted, creator |-> creator]>> \o s
           IN  /\ creator = Bot => ReadsState(t, posted)
               /\ creator # Bot => (ReadsState(t, state) <=> ReadsState(s, state))
  <1> DEFINE t == <<[state |-> posted, creator |-> creator]>> \o s
  <1>1. /\ DOMAIN t = 1..(Len(s) + 1) /\ DOMAIN s = 1..Len(s) /\ Len(s) \in Nat
        /\ t[1] = [state |-> posted, creator |-> creator]
    OBVIOUS
  <1>2. \A k \in DOMAIN s : k + 1 \in DOMAIN t /\ t[k + 1] = s[k]
    OBVIOUS
  <1>3. \A k \in DOMAIN t : k = 1 \/ (k - 1 \in DOMAIN s /\ t[k] = s[k - 1])
    OBVIOUS
  <1> HIDE DEF t
  <1>4. creator = Bot => ReadsState(t, posted)
    BY <1>1 DEF ReadsState
  <1>5. ASSUME creator # Bot, ReadsState(t, state) PROVE ReadsState(s, state)
    <2>1. PICK i \in DOMAIN t : /\ t[i] = [state |-> state, creator |-> Bot]
                                /\ \A j \in DOMAIN t : j < i => t[j].creator # Bot
      BY <1>5 DEF ReadsState
    <2>2. i # 1
      BY <1>1, <1>5, <2>1
    <2>3. i - 1 \in DOMAIN s /\ s[i - 1] = [state |-> state, creator |-> Bot]
      BY <1>3, <2>1, <2>2
    <2>4. \A j \in DOMAIN s : j < i - 1 => s[j].creator # Bot
      BY <1>1, <1>2, <2>1
    <2>5. QED  BY <2>3, <2>4 DEF ReadsState
  <1>6. ASSUME creator # Bot, ReadsState(s, state) PROVE ReadsState(t, state)
    <2>1. PICK i \in DOMAIN s : /\ s[i] = [state |-> state, creator |-> Bot]
                                /\ \A j \in DOMAIN s : j < i => s[j].creator # Bot
      BY <1>6 DEF ReadsState
    <2>2. i + 1 \in DOMAIN t /\ t[i + 1] = [state |-> state, creator |-> Bot]
      BY <1>2, <2>1
    <2>3. ASSUME NEW j \in DOMAIN t, j < i + 1 PROVE t[j].creator # Bot
      <3>1. CASE j = 1
        BY <1>1, <1>6, <3>1
      <3>2. CASE j # 1
        BY <1>1, <1>3, <2>1, <2>3, <3>2
      <3>3. QED  BY <3>1, <3>2
    <2>4. QED  BY <2>2, <2>3 DEF ReadsState
  <1>7. QED
    BY <1>4, <1>5, <1>6 DEF t

\* What a post does to the verdict of each commit.
LEMMA PostVerdict ==
    ASSUME TypeOK, TypeOK', NEW c \in Commits, NEW posted \in States,
           NEW creator \in Creators, Post(c, posted, creator)
    PROVE  /\ creator = Bot => Verdict(c, posted)'
           /\ \A d \in Commits : (creator # Bot \/ d # c) =>
                 \A state : Verdict(d, state)' <=> Verdict(d, state)
  <1> DEFINE t == <<[state |-> posted, creator |-> creator]>> \o statuses[c]
  <1>1. /\ statuses \in [Commits -> Seq(Statuses)]
        /\ statuses' \in [Commits -> Seq(Statuses)]
    BY DEF TypeOK
  <1>2. statuses[c] \in Seq(Statuses)
    BY <1>1
  <1>3. statuses'[c] = t
    BY <1>1 DEF Post
  <1>4. \A d \in Commits : d # c => statuses'[d] = statuses[d]
    BY <1>1 DEF Post
  <1>5. creator = Bot => ReadsState(t, posted)
    BY <1>2, PostReads
  <1>6. \A state : creator # Bot => (ReadsState(t, state) <=> ReadsState(statuses[c], state))
    BY <1>2, PostReads
  <1> HIDE DEF t
  <1>7. creator = Bot => Verdict(c, posted)'
    BY <1>1, <1>3, <1>5, VerdictWillBe
  <1>8. ASSUME NEW d \in Commits, creator # Bot \/ d # c, NEW state
        PROVE  Verdict(d, state)' <=> Verdict(d, state)
    <2>1. ReadsState(statuses'[d], state) <=> ReadsState(statuses[d], state)
      BY <1>3, <1>4, <1>6, <1>8
    <2>2. Verdict(d, state) <=> ReadsState(statuses[d], state)
      BY <1>1, VerdictIs
    <2>3. Verdict(d, state)' <=> ReadsState(statuses'[d], state)
      BY <1>1, VerdictWillBe
    <2>4. QED  BY <2>1, <2>2, <2>3
  <1>9. QED
    BY <1>7, <1>8

LEMMA InitSpeakers == Init => Speakers
  <1> SUFFICES ASSUME Init, NEW i \in DOMAIN runs, NEW c \in Commits
               PROVE  Right(runs[i], c)
    BY DEF Speakers
  <1>1. runs[i].step = "queued"
    BY DEF Init, NewRun
  <1>2. QED
    BY <1>1 DEF Right

(***************************************************************************)
(* The actions that change one run and no verdict.                         *)
(***************************************************************************)
LEMMA OneSpeaker ==
    ASSUME TypeOK, Speakers, NEW i \in DOMAIN runs, NEW r,
           r.commit = runs[i].commit,
           runs' = [runs EXCEPT ![i] = r],
           UNCHANGED <<branch, statuses, wanted>>,
           \A c \in Commits : Speaks(i, c) /\ Settled(c) => Right(r, c)
    PROVE  Speakers'
  <1> SUFFICES ASSUME NEW j \in DOMAIN runs', NEW c \in Commits,
                      Speaks(j, c)', Settled(c)'
               PROVE  Right(runs[j], c)'
    BY Zenon DEF Speakers, Commits
  <1>1. DOMAIN runs' = DOMAIN runs
    BY DEF TypeOK
  <1>2. \A k \in DOMAIN runs : runs'[k].commit = runs[k].commit
    BY DEF TypeOK
  <1>3. Speaks(j, c)
    BY <1>1, <1>2 DEF Speaks
  <1>4. Settled(c) /\ \A state : Verdict(c, state)' <=> Verdict(c, state)
    BY Zenon DEF Settled, Verdict
  <1>5. Right(runs'[j], c)
    <2>1. CASE j = i
      BY <1>3, <1>4, <2>1 DEF TypeOK
    <2>2. CASE j # i
      <3>1. runs'[j] = runs[j]
        BY <2>2 DEF TypeOK
      <3>2. Right(runs[j], c)
        BY <1>1, <1>3, <1>4 DEF Speakers
      <3>3. QED  BY <3>1, <3>2
    <2>3. QED  BY <2>1, <2>2
  <1>6. QED
    BY <1>4, <1>5, Zenon DEF Right, Pass, IsReleasePR

\* A run reads what is posted while its commit is settled: the verdict, or,
\* if a lookup failed, less than the verdict.
LEMMA FetchSpeaks ==
    ASSUME TypeOK, Speakers, NEW i \in DOMAIN runs, Fetch(i) PROVE Speakers'
  <1>1. runs[i] \in Runs /\ runs[i].commit \in Commits
    BY RunType
  <1> DEFINE posted == statuses[runs[i].commit]
  <1>2. posted \in Seq(Statuses) /\ statuses \in [Commits -> Seq(Statuses)]
    BY <1>1 DEF TypeOK
  <1>3. PICK n \in 0..Len(posted) :
           runs' = [runs EXCEPT ![i].step = "fetched",
                                ![i].lines = SubSeq(posted, 1, n),
                                ![i].whole = (n = Len(posted))]
    BY DEF Fetch
  <1> DEFINE ls == SubSeq(posted, 1, n)
             w  == n = Len(posted)
             r  == [[[runs[i] EXCEPT !.step = "fetched"] EXCEPT !.lines = ls]
                       EXCEPT !.whole = w]
  <1>4. w => ls = posted
    BY <1>2
  <1>5. ReadsState(ls, "success") => ReadsState(posted, "success")
    BY <1>2, PrefixReads
  <1> HIDE DEF ls, w
  <1>6. /\ r.commit = runs[i].commit /\ r.lines = ls /\ r.whole = w
        /\ r.step = "fetched" /\ r.labelled = runs[i].labelled
    BY <1>1 DEF Runs
  <1>7. runs' = [runs EXCEPT ![i] = r]
    BY <1>3 DEF ls, w
  <1> HIDE DEF r
  <1>8. ASSUME NEW c \in Commits, Speaks(i, c) PROVE Right(r, c)
    <2>1. c = runs[i].commit
      BY <1>8 DEF Speaks
    <2>2. Verdict(c, "success") <=> ReadsState(posted, "success")
      BY <1>2, <2>1, VerdictIs
    <2>3. ReadsState(ls, "success") => Verdict(c, "success")
      BY <1>5, <2>2
    <2>4. w /\ Verdict(c, "success") => ReadsState(ls, "success")
      BY <1>4, <2>2
    <2>5. Decide(IsReleasePR(r), ls) = "green" <=>
             (IsReleasePR(r) => ReadsState(ls, "success"))
      BY DEF Decide
    <2>6. QED
      BY <1>6, <2>3, <2>4, <2>5 DEF Right, Pass
  <1>9. UNCHANGED <<branch, statuses, wanted>>
    BY DEF Fetch
  <1>10. QED
    BY <1>6, <1>7, <1>8, <1>9, OneSpeaker

LEMMA VerifySpeaks ==
    ASSUME TypeOK, Speakers, NEW i \in DOMAIN runs, Verify(i) PROVE Speakers'
  <1>1. runs[i] \in Runs
    BY RunType
  <1> DEFINE c == Decide(IsReleasePR(runs[i]), runs[i].lines)
             r == Over(runs[i], c)
  <1>2. c \in {"green", "red"}
    BY DEF Decide
  <1>3. runs' = [runs EXCEPT ![i] = r]
    BY DEF Verify
  <1>4. runs[i].step = "fetched"
    BY DEF Verify
  <1>5. ASSUME NEW d \in Commits, Speaks(i, d), Settled(d)
        PROVE  /\ c = "green" => Pass(runs[i], d)
               /\ Pass(runs[i], d) /\ runs[i].whole => c = "green"
    BY <1>4, <1>5, Zenon DEF Speakers, Right
  <1> HIDE DEF c
  <1>6. /\ r.commit = runs[i].commit /\ r.step = c
        /\ r.whole = runs[i].whole /\ r.labelled = runs[i].labelled
    BY <1>1 DEF Over, Runs
  <1> HIDE DEF r
  <1>7. ASSUME NEW d \in Commits, Speaks(i, d), Settled(d) PROVE Right(r, d)
    <2>1. /\ c = "green" => Pass(runs[i], d)
          /\ Pass(runs[i], d) /\ runs[i].whole => c = "green"
      BY <1>5, <1>7
    <2>2. Pass(r, d) <=> Pass(runs[i], d)
      BY <1>6, Zenon DEF Pass, IsReleasePR
    <2>3. QED
      BY <1>2, <1>6, <2>1, <2>2 DEF Right
  <1>8. UNCHANGED <<branch, statuses, wanted>>
    BY DEF Verify
  <1>9. QED
    BY <1>3, <1>6, <1>7, <1>8, OneSpeaker

LEMMA DiesSpeaks ==
    ASSUME TypeOK, Speakers, NEW i \in DOMAIN runs, Dies(i) PROVE Speakers'
  <1>1. runs[i] \in Runs
    BY RunType
  <1> DEFINE r == Over(runs[i], "cancelled")
  <1>2. runs' = [runs EXCEPT ![i] = r]
    BY DEF Dies
  <1>3. r.step = "cancelled" /\ r.commit = runs[i].commit
    BY <1>1, OverType
  <1> HIDE DEF r
  <1>4. \A c \in Commits : Right(r, c)
    BY <1>3 DEF Right
  <1>5. UNCHANGED <<branch, statuses, wanted>>
    BY DEF Dies
  <1>6. QED
    BY <1>2, <1>3, <1>4, <1>5, OneSpeaker

(***************************************************************************)
(* The actions that create, retire and re-run runs: every run is as it was *)
(* and speaks if it did, or has nothing to say yet, or any more.           *)
(***************************************************************************)
LEMMA NewSpeakers ==
    ASSUME Speakers,
           UNCHANGED <<branch, statuses>>,
           \A i \in DOMAIN runs' :
              \/ runs'[i].step \in {"queued", "cancelled"}
              \/ i \in DOMAIN runs /\ runs'[i] = runs[i],
           \A i \in DOMAIN runs : i \in DOMAIN runs' /\ runs'[i].commit = runs[i].commit,
           \A i \in DOMAIN runs', c \in Commits :
              Speaks(i, c)' /\ c \in wanted /\ c \notin wanted' =>
                 runs'[i].step \in {"queued", "cancelled"}
    PROVE  Speakers'
  <1> SUFFICES ASSUME NEW i \in DOMAIN runs', NEW c \in Commits,
                      Speaks(i, c)', Settled(c)'
               PROVE  Right(runs[i], c)'
    BY Zenon DEF Speakers, Commits
  <1>1. CASE runs'[i].step \in {"queued", "cancelled"}
    BY <1>1 DEF Right
  <1>2. CASE runs'[i].step \notin {"queued", "cancelled"}
    <2>1. i \in DOMAIN runs /\ runs'[i] = runs[i]
      BY <1>2
    <2>2. Speaks(i, c)
      BY <2>1 DEF Speaks
    <2>3. c \notin wanted
      BY <1>2 DEF Settled
    <2>4. \A state : Verdict(c, state)' <=> Verdict(c, state)
      BY Zenon DEF Verdict
    <2>5. Settled(c)
      BY <2>3, <2>4 DEF Settled
    <2>6. Right(runs[i], c)
      BY <2>1, <2>2, <2>5 DEF Speakers
    <2>7. QED
      BY <2>1, <2>4, <2>6, Zenon DEF Right, Pass, IsReleasePR
  <1>3. QED
    BY <1>1, <1>2

\* The one run that speaks for the commit starts over.
LEMMA RerunSpeaks ==
    ASSUME TypeOK, Speakers, NEW c \in Commits, Rerun(c) PROVE Speakers'
  <1>1. PICK i \in DOMAIN runs :
           /\ Speaks(i, c)
           /\ runs' = [Retire(runs, runs[i].event) EXCEPT
                          ![i] = [runs[i] EXCEPT !.step = "queued", !.whole = FALSE]]
    BY DEF Rerun
  <1> DEFINE rs == Retire(runs, runs[i].event)
             r  == [[runs[i] EXCEPT !.step = "queued"] EXCEPT !.whole = FALSE]
  <1>2. /\ rs \in Seq(Runs) /\ DOMAIN rs = DOMAIN runs
        /\ \A j \in DOMAIN runs :
              \/ rs[j] = runs[j]
              \/ rs[j].step = "cancelled" /\ rs[j].commit = runs[j].commit
    BY RetireKeeps DEF TypeOK
  <1>3. r.step = "queued" /\ r.commit = runs[i].commit
    BY RunType DEF Runs
  <1>4. runs' = [rs EXCEPT ![i] = r]
    BY <1>1
  <1> HIDE DEF rs, r
  <1>5. /\ DOMAIN runs' = DOMAIN runs /\ runs'[i] = r
        /\ \A j \in DOMAIN runs : j # i => runs'[j] = rs[j]
    BY <1>2, <1>4
  <1>6. \A j \in DOMAIN runs : runs'[j].commit = runs[j].commit
    BY <1>2, <1>3, <1>5
  <1>7. \A j \in DOMAIN runs' :
           \/ runs'[j].step \in {"queued", "cancelled"}
           \/ j \in DOMAIN runs /\ runs'[j] = runs[j]
    BY <1>2, <1>3, <1>5
  <1>8. ASSUME NEW j \in DOMAIN runs', NEW d \in Commits, Speaks(j, d)',
               d \in wanted, d \notin wanted'
        PROVE  runs'[j].step \in {"queued", "cancelled"}
    <2>1. d = c
      BY <1>8 DEF Rerun
    <2>2. Speaks(j, c)
      BY <1>5, <1>6, <1>8, <2>1 DEF Speaks
    <2>3. DOMAIN runs \subseteq Nat
      BY DEF TypeOK
    <2>4. j = i
      BY <1>1, <1>5, <2>2, <2>3 DEF Speaks
    <2>5. QED  BY <1>3, <1>5, <2>4
  <1>9. UNCHANGED <<branch, statuses>>
    BY DEF Rerun
  <1>10. QED
    BY <1>5, <1>6, <1>7, <1>8, <1>9, NewSpeakers

LEMMA PushSpeaks == ASSUME TypeOK, Speakers, Push PROVE Speakers'
  <1> DEFINE rs == Retire(runs, "synchronize")
             r  == [NewRun("synchronize") EXCEPT !.commit = head + 1]
  <1>1. /\ rs \in Seq(Runs) /\ DOMAIN rs = DOMAIN runs /\ Len(rs) = Len(runs)
        /\ \A j \in DOMAIN runs :
              \/ rs[j] = runs[j]
              \/ rs[j].step = "cancelled" /\ rs[j].commit = runs[j].commit
    BY RetireKeeps DEF TypeOK
  <1>2. r.step = "queued"
    BY DEF NewRun
  <1>3. runs' = Append(rs, r)
    BY DEF Push
  <1> HIDE DEF rs, r
  <1>4. /\ DOMAIN runs' = 1..(Len(rs) + 1) /\ DOMAIN rs = 1..Len(rs) /\ Len(rs) \in Nat
        /\ runs'[Len(rs) + 1] = r /\ \A j \in DOMAIN rs : runs'[j] = rs[j]
    BY <1>1, <1>3
  <1>5. \A j \in DOMAIN runs : j \in DOMAIN runs' /\ runs'[j].commit = runs[j].commit
    BY <1>1, <1>4
  <1>6. \A j \in DOMAIN runs' :
           \/ runs'[j].step \in {"queued", "cancelled"}
           \/ j \in DOMAIN runs /\ runs'[j] = runs[j]
    BY <1>1, <1>2, <1>4
  <1>7. UNCHANGED <<branch, statuses, wanted>>
    BY DEF Push
  <1>8. QED
    BY <1>5, <1>6, <1>7, NewSpeakers

LEMMA ReopenSpeaks == ASSUME TypeOK, Speakers, Reopen PROVE Speakers'
  <1>1. runs' = Append(runs, NewRun("reopened")) /\ runs \in Seq(Runs)
    BY DEF Reopen, TypeOK
  <1>2. NewRun("reopened").step = "queued"
    BY DEF NewRun
  <1>3. /\ DOMAIN runs' = 1..(Len(runs) + 1) /\ DOMAIN runs = 1..Len(runs)
        /\ Len(runs) \in Nat /\ runs'[Len(runs) + 1] = NewRun("reopened")
        /\ \A j \in DOMAIN runs : runs'[j] = runs[j]
    BY <1>1
  <1>4. \A j \in DOMAIN runs : j \in DOMAIN runs' /\ runs'[j].commit = runs[j].commit
    BY <1>3
  <1>5. \A j \in DOMAIN runs' :
           \/ runs'[j].step \in {"queued", "cancelled"}
           \/ j \in DOMAIN runs /\ runs'[j] = runs[j]
    BY <1>2, <1>3
  <1>6. UNCHANGED <<branch, statuses, wanted>>
    BY DEF Reopen
  <1>7. QED
    BY <1>4, <1>5, <1>6, NewSpeakers

(***************************************************************************)
(* A post changes the verdict of one commit at most, which then waits for  *)
(* its gate: the bot's gate-check is pending, or its verdict is to be      *)
(* re-read.                                                                *)
(***************************************************************************)
LEMMA PostSpeaks ==
    ASSUME Speakers,
           UNCHANGED <<branch, runs>>, wanted \subseteq wanted',
           \A c \in Commits :
              \/ ~Settled(c)'
              \/ \A state : Verdict(c, state)' <=> Verdict(c, state)
    PROVE  Speakers'
  <1> SUFFICES ASSUME NEW i \in DOMAIN runs', NEW c \in Commits,
                      Speaks(i, c)', Settled(c)'
               PROVE  Right(runs[i], c)'
    BY Zenon DEF Speakers, Commits
  <1>1. \A state : Verdict(c, state)' <=> Verdict(c, state)
    OBVIOUS
  <1>2. Settled(c)
    <2>1. ~Verdict(c, "pending") /\ c \notin wanted
      BY <1>1 DEF Settled
    <2>2. QED  BY <2>1 DEF Settled
  <1>3. Speaks(i, c)
    BY DEF Speaks
  <1>4. Right(runs[i], c)
    BY <1>2, <1>3 DEF Speakers
  <1>5. QED
    BY <1>1, <1>4, Zenon DEF Right, Pass, IsReleasePR

LEMMA NextSpeakers == TypeOK /\ TypeOK' /\ Speakers /\ [Next]_vars => Speakers'
  <1> SUFFICES ASSUME TypeOK, TypeOK', Speakers, [Next]_vars PROVE Speakers'
    OBVIOUS
  <1>1. CASE \E i \in DOMAIN runs : Fetch(i) \/ Verify(i) \/ Dies(i)
    BY <1>1, FetchSpeaks, VerifySpeaks, DiesSpeaks
  <1>2. ASSUME NEW c \in Commits, Rerun(c) PROVE Speakers'
    BY <1>2, RerunSpeaks
  <1>3. ASSUME NEW c \in Commits, VerdictLands(c) PROVE Speakers'
    <2>1. PICK posted \in {"success", "failure"} : Post(c, posted, Bot)
      BY <1>3 DEF VerdictLands
    <2>2. posted \in States /\ Bot \in Creators
      BY DEF States, Creators
    <2>3. \A d \in Commits : d # c => \A state : Verdict(d, state)' <=> Verdict(d, state)
      BY <2>1, <2>2, PostVerdict
    <2>4. ~Settled(c)' /\ wanted \subseteq wanted' /\ UNCHANGED <<branch, runs>>
      BY <1>3 DEF VerdictLands, Settled
    <2>5. QED  BY <2>3, <2>4, PostSpeaks
  <1>4. ASSUME NEW c \in Commits, SomeonePosts(c) PROVE Speakers'
    <2>1. PICK posted \in {"success", "failure"} : Post(c, posted, "someone")
      BY <1>4 DEF SomeonePosts
    <2>2. posted \in States /\ "someone" \in Creators /\ "someone" # Bot
      BY DEF States, Creators, Bot
    <2>3. \A d \in Commits : \A state : Verdict(d, state)' <=> Verdict(d, state)
      BY <2>1, <2>2, PostVerdict
    <2>4. wanted \subseteq wanted' /\ UNCHANGED <<branch, runs>>
      BY <1>4 DEF SomeonePosts
    <2>5. QED  BY <2>3, <2>4, PostSpeaks
  <1>5. CASE GateCheck
    <2>1. PICK c \in Commits : c = head
      BY DEF TypeOK
    <2>2. Post(c, "pending", Bot) /\ "pending" \in States /\ Bot \in Creators
      BY <1>5, <2>1 DEF GateCheck, States, Creators
    <2>3. /\ Verdict(c, "pending")'
          /\ \A d \in Commits : d # c => \A state : Verdict(d, state)' <=> Verdict(d, state)
      BY <2>2, PostVerdict
    <2>4. wanted \subseteq wanted' /\ UNCHANGED <<branch, runs>>
      BY <1>5 DEF GateCheck
    <2>5. ~Settled(c)'
      BY <2>3, Zenon DEF Settled
    <2>6. QED  BY <2>3, <2>4, <2>5, PostSpeaks
  <1>6. CASE Label \/ Enqueue \/ Merge \/ UNCHANGED vars
    <2>1. UNCHANGED <<branch, runs, statuses, wanted>>
      BY <1>6 DEF Label, Enqueue, Merge, vars
    <2>2. \A d \in Commits : \A state : Verdict(d, state)' <=> Verdict(d, state)
      BY <2>1, Zenon DEF Verdict
    <2>3. QED  BY <2>1, <2>2, PostSpeaks
  <1>7. QED
    BY <1>1, <1>2, <1>3, <1>4, <1>5, <1>6, PushSpeaks, ReopenSpeaks DEF Next

(***************************************************************************)
(* While no verdict is on its way, the check on the head says what the     *)
(* bot's newest verdict says, unless its run was cut short: never green by *)
(* a verdict that was overturned, and green when the verdict is            *)
(* (release_gate.py read_state, release-gate.yaml).                        *)
(***************************************************************************)
THEOREM SettledGateTheorem == Spec => []SettledGateIsRight
  <1>1. TypeOK /\ Speakers => SettledGateIsRight
    <2> SUFFICES ASSUME TypeOK, Speakers, NEW i \in DOMAIN runs,
                        Speaks(i, head), ~Running(runs[i]), Settled(head)
                 PROVE  /\ runs[i].step = "green" => Pass(runs[i], head)
                        /\ Pass(runs[i], head) /\ runs[i].whole /\ runs[i].step # "cancelled"
                              => runs[i].step = "green"
      BY Zenon DEF SettledGateIsRight, Settled, Pass
    <2>1. Right(runs[i], head)
      BY Zenon DEF Speakers, TypeOK
    <2>2. runs[i].step \in {"green", "red", "cancelled"}
      BY RunType DEF Running, Runs
    <2>3. QED
      BY <2>1, <2>2 DEF Right
  <1>2. Spec => []TypeOK
    BY GateIsTyped
  <1>3. Spec => []Speakers
    BY <1>2, InitSpeakers, NextSpeakers, PTL DEF Spec
  <1>4. QED
    BY <1>1, <1>2, <1>3, PTL
=============================================================================
