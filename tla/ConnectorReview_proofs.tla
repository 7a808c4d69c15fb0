----------------------- MODULE ConnectorReview_proofs -----------------------
(***************************************************************************)
(* The connector-review gate holds what it promises for every number of    *)
(* commits, reviews, pages, edits and events, whichever commits change the *)
(* gate itself, and for every page size of GitHub's API.                   *)
(***************************************************************************)
EXTENDS ConnectorReview, Sums_proofs, SequenceTheorems

----------------------------------------------------------------------------
(* flatten_pages gives back what the API cut into pages *)

LEMMA PageCount ==
    ASSUME NEW n \in Nat, NEW z \in Nat \ {0}
    PROVE  LET p == (n + z - 1) \div z
           IN  p \in Nat /\ n <= p * z /\ (p >= 1 => (p - 1) * z < n)
<1> DEFINE p == (n + z - 1) \div z
<1>1. p \in Int /\ p * z <= n + z - 1 /\ n + z - 1 < (p + 1) * z
  OBVIOUS
<1>2. (p + 1) * z = p * z + z /\ (p - 1) * z = p * z - z
  BY <1>1
<1>3. p >= 0
  BY <1>1
<1> HIDE DEF p
<1>4. p * z \in Int
  BY <1>1
<1> DEFINE q == p * z
<1>5. q \in Int /\ q <= n + z - 1 /\ n + z - 1 < q + z /\ (p - 1) * z = q - z
  BY <1>1, <1>2, <1>4
<1> HIDE DEF q
<1>6. n <= q /\ q - z < n
  BY <1>5
<1>7. QED
  BY <1>1, <1>3, <1>5, <1>6 DEF p, q

LEMMA TimesMonotonic ==
    ASSUME NEW a \in Nat, NEW b \in Nat, a <= b, NEW z \in Nat
    PROVE  a * z \in Nat /\ a * z <= b * z
  OBVIOUS

\* The function FlattenSeq takes its value from, which has one solution.
Flattens(g, seqs) ==
    g = [i \in 1..Len(seqs) |-> IF i = 1 THEN seqs[i] ELSE g[i - 1] \o seqs[i]]

LEMMA FlattenIs ==
    ASSUME NEW seqs, Len(seqs) \in Nat \ {0}, NEW g, Flattens(g, seqs)
    PROVE  FlattenSeq(seqs) = g[Len(seqs)]
<1> DEFINE f == CHOOSE h : Flattens(h, seqs)
           T == {n \in Nat : n \in 1..Len(seqs) => f[n] = g[n]}
<1>1. Flattens(f, seqs)
  OBVIOUS
<1>2. FlattenSeq(seqs) = f[Len(seqs)]
  BY DEF FlattenSeq, Flattens
<1> HIDE DEF f
<1>3. \A i \in 1..Len(seqs) :
         f[i] = IF i = 1 THEN seqs[i] ELSE f[i - 1] \o seqs[i]
  BY <1>1 DEF Flattens
<1>4. \A i \in 1..Len(seqs) :
         g[i] = IF i = 1 THEN seqs[i] ELSE g[i - 1] \o seqs[i]
  BY DEF Flattens
<1>5. 0 \in T
  OBVIOUS
<1>6. ASSUME NEW n \in Nat, n \in T PROVE n + 1 \in T
  <2> SUFFICES ASSUME n + 1 \in 1..Len(seqs) PROVE f[n + 1] = g[n + 1]
    OBVIOUS
  <2>1. CASE n = 0
    BY <1>3, <1>4, <2>1
  <2>2. CASE n # 0
    <3>1. f[n] = g[n]
      BY <1>6, <2>2
    <3>2. n + 1 \in 1..Len(seqs) /\ n + 1 # 1 /\ (n + 1) - 1 = n
      BY <2>2
    <3>3. f[n + 1] = f[n] \o seqs[n + 1]
      BY <1>3, <3>2
    <3>4. g[n + 1] = g[n] \o seqs[n + 1]
      BY <1>4, <3>2
    <3>5. QED
      BY <3>1, <3>3, <3>4
  <2>3. QED
    BY <2>1, <2>2
<1> HIDE DEF T
<1>7. \A n \in Nat : n \in T
  BY <1>5, <1>6, Induction
<1>8. QED
  BY <1>2, <1>7 DEF T

\* flatten_pages gives back the list that the API cut into pages, in its order,
\* for every list and every size of a page: what find_review calls the newest
\* review is the newest one.
THEOREM PagesFlatten ==
    ASSUME NEW S, NEW list \in Seq(S)
    PROVE  FlattenPages(Pages(list)) = list
<1> DEFINE n == Len(list)
           z == PageSize
           pages == (n + z - 1) \div z
           Upto(k) == IF k * z > n THEN n ELSE k * z
           g == [i \in 1..pages |-> SubSeq(list, 1, Upto(i))]
<1>1. n \in Nat /\ z \in Nat \ {0}
  BY ReviewBounds
<1>2. pages \in Nat /\ n <= pages * z /\ (pages >= 1 => (pages - 1) * z < n)
  BY <1>1, PageCount
<1>3. Pages(list) = [i \in 1..pages |-> SubSeq(list, (i - 1) * z + 1, Upto(i))]
  BY DEF Pages
<1> HIDE DEF pages
<1>4. Len(Pages(list)) = pages
  BY <1>2, <1>3
<1>5. CASE pages = 0
  <2>1. n = 0
    BY <1>1, <1>2, <1>5
  <2>2. Pages(list) = <<>>
    BY <1>3, <1>5
  <2>3. list = <<>>
    BY <2>1, EmptySeq
  <2>4. QED
    BY <1>4, <1>5, <2>2, <2>3 DEF FlattenPages, FlattenSeq
<1>6. CASE pages # 0
  <2>1. ASSUME NEW i \in 1..pages
        PROVE  /\ (i - 1) * z \in Nat /\ (i - 1) * z <= n
               /\ Upto(i) \in Nat /\ (i - 1) * z <= Upto(i) /\ Upto(i) <= n
    <3>1. (i - 1) * z \in Nat /\ (i - 1) * z <= (pages - 1) * z
      BY <1>1, <1>2, TimesMonotonic
    <3>2. (i - 1) * z <= i * z /\ i * z \in Nat
      BY <1>1, <1>2, TimesMonotonic
    <3>3. (pages - 1) * z \in Nat
      BY <1>1, <1>2, <1>6, TimesMonotonic
    <3>4. QED
      BY <1>1, <1>2, <1>6, <3>1, <3>2, <3>3
  <2>2. ASSUME NEW i \in 1..pages
        PROVE  g[i] = IF i = 1 THEN Pages(list)[i] ELSE g[i - 1] \o Pages(list)[i]
    <3>1. CASE i = 1
      <4>1. (i - 1) * z + 1 = 1
        BY <1>1, <3>1
      <4> HIDE DEF Upto
      <4>2. QED
        BY <1>3, <3>1, <4>1
    <3>2. CASE i # 1
      <4>1. i - 1 \in 1..pages /\ i - 1 >= 1
        BY <1>2, <3>2
      <4>2. Upto(i - 1) = (i - 1) * z
        BY <1>1, <2>1
      <4>3. g[i - 1] = SubSeq(list, 1, (i - 1) * z)
        BY <4>1, <4>2
      <4>4. Pages(list)[i] = SubSeq(list, (i - 1) * z + 1, Upto(i))
        BY <1>3
      <4>5. SubSeq(list, 1, (i - 1) * z) \o SubSeq(list, (i - 1) * z + 1, Upto(i))
              = SubSeq(list, 1, Upto(i))
        <5> DEFINE k == (i - 1) * z
                   m == Upto(i)
        <5>1. k \in Nat /\ k <= m /\ m \in Nat /\ m <= n
          BY <2>1
        <5> HIDE DEF k, m
        <5>2. 1 \in 1..(n + 1) /\ k \in (1 - 1)..n /\ m \in k..n
          BY <5>1, <1>1
        <5>3. SubSeq(list, 1, k) \o SubSeq(list, k + 1, m) = SubSeq(list, 1, m)
          BY <5>2, ConcatAdjacentSubSeq
        <5>4. QED
          BY <5>3 DEF k, m
      <4>6. QED
        BY <3>2, <4>3, <4>4, <4>5
    <3>3. QED
      BY <3>1, <3>2
  <2>3. Flattens(g, Pages(list))
    <3> DEFINE h == [i \in 1..pages |-> IF i = 1 THEN Pages(list)[i]
                                        ELSE g[i - 1] \o Pages(list)[i]]
    <3>1. \A i \in 1..pages : g[i] = h[i]
      BY <2>2
    <3>2. g = [i \in 1..pages |-> g[i]]
      <4> HIDE DEF Upto
      <4>1. QED
        OBVIOUS
    <3>3. h = [i \in 1..pages |-> h[i]]
      <4> HIDE DEF g
      <4>1. QED
        OBVIOUS
    <3> HIDE DEF g, h
    <3>4. g = h
      BY <3>1, <3>2, <3>3
    <3>5. QED
      BY <1>4, <3>4 DEF h, Flattens
  <2>4. FlattenSeq(Pages(list)) = g[pages]
    <3> HIDE DEF g
    <3>1. QED
      BY <1>2, <1>4, <1>6, <2>3, FlattenIs
  <2>5. g[pages] = SubSeq(list, 1, n)
    BY <1>1, <1>2, <1>6, <2>1
  <2>6. QED
    BY <2>4, <2>5, SubSeqFull DEF FlattenPages
<1>7. QED
  BY <1>5, <1>6

----------------------------------------------------------------------------
(* The inductive invariant *)

\* A review remembers a commit exactly if the script reads it off its body.
Trailers ==
    \A i \in DOMAIN reviews :
       IF reviews[i].of # None
       THEN /\ reviews[i].login \in REVIEWER_LOGINS
            /\ ReviewedSha(reviews[i].body) = reviews[i].of
       ELSE \/ reviews[i].login \notin REVIEWER_LOGINS
            \/ ReviewedSha(reviews[i].body) \notin Commits

\* An approval that stands was given, or its text was.
Given ==
    \A i \in DOMAIN reviews :
       reviews[i].of # None /\ reviews[i].state = "APPROVED"
         => reviews[i].of \in Vouched

\* A run that fetched the reviews has made up its mind.
Decided == run # None /\ run.step = "fetched" => run.says \in {"green", "red"}

OnHead == run # None => run.commit = head

Says(r, answer) == \/ r.step = answer
                   \/ r.step = "fetched" /\ r.says = answer

Reviewed(r) == \/ head \in OwnGate
               \/ Excused(r)
               \/ head \in Vouched
               \/ r.policy = "enforce" /\ Vouched # {}

\* A green check, or one about to be, has been earned, if the gate is not the
\* head's own making.
Earned == run # None /\ Says(run, "green") => Reviewed(run)

\* A check no event will renew says what the reviews say.
Fresh ==
    waiting = 0 /\ run # None /\ run.commit \notin OwnGate =>
       /\ Says(run, "green") => Excused(run) \/ Standing(Wanted(run))
       /\ Says(run, "red") => ~(Excused(run) \/ Standing(Wanted(run)))

CRInv == TypeOK /\ Trailers /\ Given /\ Decided /\ OnHead /\ Earned /\ Fresh
           /\ EnforcedMergeIsReviewed
----------------------------------------------------------------------------
(* What the script makes of the reviews *)

LEMMA MatchesOf ==
    ASSUME TypeOK, Trailers, NEW i \in DOMAIN reviews, NEW wanted \in SUBSET Commits
    PROVE  Matches(reviews[i], wanted) <=> reviews[i].of \in wanted
<1>1. reviews[i].of \in Commits \cup {None}
  <2>1. reviews[i] \in Reviews
    BY DEF TypeOK
  <2>2. QED
    BY <2>1 DEF Reviews
<1>2. None \notin Commits
  BY ReviewBounds
<1>3. QED
  BY <1>1, <1>2 DEF Matches, Trailers

LEMMA ApprovedIsStanding ==
    ASSUME TypeOK, Trailers, NEW r, Wanted(r) \subseteq Commits
    PROVE  Approved(r, reviews) <=> Standing(Wanted(r))
<1> DEFINE w == Wanted(r)
           found(i) == /\ Matches(reviews[i], w)
                       /\ \A k \in DOMAIN reviews : k > i => ~Matches(reviews[k], w)
<1> HIDE DEF w
<1>1. w \subseteq Commits
  BY DEF w
<1>2. \A i \in DOMAIN reviews : Matches(reviews[i], w) <=> reviews[i].of \in w
  BY <1>1, MatchesOf
<1>3. FindReview(reviews, w) = {reviews[i] : i \in {j \in DOMAIN reviews : found(j)}}
  BY DEF FindReview
<1>4. (\E x \in FindReview(reviews, w) : x.state = "APPROVED")
         <=> \E i \in DOMAIN reviews : found(i) /\ reviews[i].state = "APPROVED"
  <2> HIDE DEF found
  <2>1. QED
    BY <1>3
<1>5. Standing(w)
         <=> \E i \in DOMAIN reviews : found(i) /\ reviews[i].state = "APPROVED"
  BY <1>2 DEF Standing
<1>6. QED
  BY <1>4, <1>5 DEF Approved, w

\* The verdict on a run that saw all the reviews.
LEMMA DecideIs ==
    ASSUME TypeOK, Trailers, NEW r, r.commit \in Commits
    PROVE  Decide(r, reviews) =
             IF Excused(r) \/ Standing(Wanted(r)) THEN "green" ELSE "red"
<1>1. Wanted(r) \subseteq Commits
  BY DEF Wanted
<1>2. Approved(r, reviews) <=> Standing(Wanted(r))
  BY <1>1, ApprovedIsStanding
<1>3. QED
  BY <1>2 DEF Decide, Excused

LEMMA StandingIsReviewed ==
    ASSUME TypeOK, Given, NEW r \in Runs, r.commit = head, Standing(Wanted(r))
    PROVE  Reviewed(r)
<1>1. PICK i \in DOMAIN reviews : reviews[i].of \in Wanted(r)
                                  /\ reviews[i].state = "APPROVED"
  BY DEF Standing
<1>2. reviews[i].of # None
  BY <1>1, ReviewBounds DEF Wanted, Runs
<1>3. reviews[i].of \in Vouched
  BY <1>1, <1>2 DEF Given
<1>4. CASE r.policy = "enforce-head"
  BY <1>1, <1>3, <1>4 DEF Wanted, Reviewed
<1>5. CASE r.policy # "enforce-head"
  <2>1. r.policy \in {"unset", "enforce"}
    BY <1>5, ReviewBounds DEF Runs
  <2>2. QED
    BY <1>3, <2>1 DEF Reviewed, Excused
<1>6. QED
  BY <1>4, <1>5

Lines == [kind : {"profile", "footer", "commit", "prose"}, sha : Commits \cup {None}]

LEMMA LineIsLine ==
    ASSUME NEW kind \in {"profile", "footer", "commit", "prose"}
    PROVE  Line(kind) \in Lines
  BY DEF Line, Lines

LEMMA BrokenTrailer ==
    ASSUME NEW body \in Seq(Lines)
    PROVE  /\ Append(body, Line("prose")) \in Seq(Lines)
           /\ ReviewedSha(Append(body, Line("prose"))) = None
<1> DEFINE b == Append(body, Line("prose"))
<1>1. b \in Seq(Lines) /\ b[Len(b)] = Line("prose")
  BY LineIsLine
<1> HIDE DEF b
<1>2. b[Len(b)].kind = "prose" /\ b[Len(b)].sha = None
  BY <1>1 DEF Line
<1>3. QED
  BY <1>1, <1>2 DEF ReviewedSha, b

\* Both forms of the trailer are read.
LEMMA TrailerIsRead ==
    ASSUME NEW c \in Commits
    PROVE  Trailer(c) \in Seq(Lines) /\ ReviewedSha(Trailer(c)) = c
<1> DEFINE b == <<Line("footer"), CommitMarker(c), Line("profile")>>
<1>1. Len(b) = 3 /\ b[3].kind = "profile" /\ b[2].sha = c
  BY DEF Line, CommitMarker
<1>2. b \in Seq(Lines)
  BY DEF Line, CommitMarker, Lines
<1>3. Trailer(c) = b
  BY DEF Trailer
<1> HIDE DEF b
<1>4. ReviewedSha(b) = c
  BY <1>1 DEF ReviewedSha
<1>5. QED
  BY <1>2, <1>3, <1>4

LEMMA LaneTrailers ==
    ASSUME NEW c \in Commits, NEW review \in LaneReviews(c)
    PROVE  /\ review.login \in REVIEWER_LOGINS
           /\ review.body \in Seq(Lines)
           /\ ReviewedSha(review.body) = c
<1>1. CASE review = [login |-> "mothership-reviewer[bot]", body |-> Trailer(c)]
  BY <1>1, TrailerIsRead DEF REVIEWER_LOGINS
<1>2. CASE review = [login |-> "mothership-ai[bot]",
                     body |-> <<Line("footer"), CommitMarker(c)>>]
  <2> DEFINE b == <<Line("footer"), CommitMarker(c)>>
  <2>1. Len(b) = 2 /\ b[1].kind = "footer" /\ b[2].kind = "commit" /\ b[2].sha = c
    BY DEF Line, CommitMarker
  <2>2. b \in Seq(Lines)
    BY DEF Line, CommitMarker, Lines
  <2> HIDE DEF b
  <2>3. ReviewedSha(b) = c
    BY <2>1 DEF ReviewedSha
  <2>4. QED
    BY <1>2, <2>2, <2>3 DEF b, REVIEWER_LOGINS
<1>3. QED
  BY <1>1, <1>2 DEF LaneReviews

LEMMA OtherTrailers ==
    ASSUME NEW c \in Commits
    PROVE  /\ "someone" \notin REVIEWER_LOGINS
           /\ <<CommitMarker(c), Line("profile"), Line("prose")>> \in Seq(Lines)
           /\ ReviewedSha(<<CommitMarker(c), Line("profile"), Line("prose")>>)
                 \notin Commits
<1>1. <<CommitMarker(c), Line("profile")>> \in Seq(Lines)
  BY DEF Line, CommitMarker, Lines
<1>2. <<CommitMarker(c), Line("profile"), Line("prose")>>
        = Append(<<CommitMarker(c), Line("profile")>>, Line("prose"))
  OBVIOUS
<1>3. ReviewedSha(<<CommitMarker(c), Line("profile"), Line("prose")>>) = None
  BY <1>1, <1>2, BrokenTrailer
<1>4. <<CommitMarker(c), Line("profile"), Line("prose")>> \in Seq(Lines)
  BY DEF Line, CommitMarker, Lines
<1>5. QED
  BY <1>3, <1>4, ReviewBounds DEF REVIEWER_LOGINS
----------------------------------------------------------------------------
(* The steps of the gate *)

LEMMA InitCRInv == Init => CRInv
<1> SUFFICES ASSUME Init PROVE CRInv
  OBVIOUS
<1>1. TypeOK
  <2>1. <<>> \in Seq(Reviews) /\ 1 \in Commits
    BY ReviewBounds DEF Commits
  <2>2. 1 \in 0..MaxWaiting /\ 0 \in 0..MaxTouches
    BY ReviewBounds
  <2>3. QED
    BY <2>1, <2>2 DEF Init, TypeOK
<1>2. Trailers /\ Given
  BY DEF Init, Trailers, Given
<1>3. Decided /\ OnHead /\ Earned /\ Fresh /\ EnforcedMergeIsReviewed
  BY DEF Init, Decided, OnHead, Earned, Fresh, EnforcedMergeIsReviewed
<1>4. QED
  BY <1>1, <1>2, <1>3 DEF CRInv

\* As long as the reviews stay, so does what they say.
LEMMA ReviewsStay ==
    ASSUME Trailers, Given, UNCHANGED <<author, reviewVars>>
    PROVE  /\ Trailers' /\ Given'
           /\ \A w : Standing(w)' <=> Standing(w)
           /\ \A r : Excused(r)' <=> Excused(r)
<1> USE DEF reviewVars
<1>1. Trailers' /\ Given'
  BY DEF Trailers, Given, Vouched
<1>2. \A w : Standing(w)' <=> Standing(w)
  BY DEF Standing
<1>3. \A r : Excused(r)' <=> Excused(r)
  BY DEF Excused
<1>4. QED
  BY <1>1, <1>2, <1>3

\* A run's verdict is about the reviews the run was given.
LEMMA FetchStep == ASSUME CRInv, Fetch PROVE CRInv'
<1> USE DEF CRInv
<1>1. /\ run # None /\ run.step = "queued" /\ run \in Runs
      /\ UNCHANGED <<prVars, reviewVars, policy, waiting, touches>>
  BY DEF Fetch, TypeOK
<1>2. PICK whole \in BOOLEAN :
         LET r == [run EXCEPT !.step = "fetched", !.policy = policy, !.blind = ~whole]
             list == IF whole THEN FlattenPages(Pages(reviews)) ELSE <<>>
         IN  \E says \in IF run.commit \in OwnGate THEN {"green", "red"}
                         ELSE {Decide(r, list)} :
                run' = [r EXCEPT !.says = says]
  BY DEF Fetch
<1> DEFINE r == [run EXCEPT !.step = "fetched", !.policy = policy, !.blind = ~whole]
           list == IF whole THEN FlattenPages(Pages(reviews)) ELSE <<>>
<1>3. r \in Runs /\ r.commit = head /\ r.blind = ~whole /\ r.step = "fetched"
  BY <1>1 DEF Runs, TypeOK, OnHead
<1>4. PICK answer \in IF head \in OwnGate THEN {"green", "red"}
                      ELSE {Decide(r, list)} :
         run' = [r EXCEPT !.says = answer]
  BY <1>1, <1>2 DEF OnHead
<1>5. Decide(r, list) = IF Excused(r) \/ Standing(Wanted(r)) THEN "green" ELSE "red"
  <2>1. CASE whole
    <3>1. list = reviews
      BY <2>1, PagesFlatten DEF TypeOK
    <3>2. r.commit \in Commits
      BY <1>3 DEF Runs
    <3> HIDE DEF r, list
    <3>3. QED
      BY <3>1, <3>2, DecideIs
  <2>2. CASE ~whole
    <3> HIDE DEF list
    <3>1. QED
      BY <1>3, <2>2 DEF Decide, Excused
  <2>3. QED
    BY <2>1, <2>2
<1> HIDE DEF r, list
<1>6. /\ answer \in {"green", "red"}
      /\ head \notin OwnGate => answer = Decide(r, list)
  BY <1>4, <1>5
<1>7. /\ run' \in Runs /\ run'.step = "fetched" /\ run'.says = answer
      /\ run'.commit = head /\ run'.policy = r.policy /\ run'.blind = r.blind
  BY <1>3, <1>4, <1>6 DEF Runs
<1>8. Excused(run') <=> Excused(r)
  BY <1>3, <1>7 DEF Excused
<1>9. Wanted(run') = Wanted(r)
  BY <1>3, <1>7 DEF Wanted
<1>10. /\ Trailers' /\ Given'
       /\ \A w : Standing(w)' <=> Standing(w)
       /\ \A x : Excused(x)' <=> Excused(x)
  BY <1>1, ReviewsStay DEF prVars
<1>11. TypeOK'
  BY <1>1, <1>7 DEF TypeOK, prVars, reviewVars
<1>12. Decided' /\ OnHead'
  BY <1>1, <1>6, <1>7 DEF Decided, OnHead, prVars
<1>13. Earned'
  <2>1. answer = "green" => Reviewed(r)
    BY <1>3, <1>5, <1>6, StandingIsReviewed DEF Reviewed
  <2>2. Reviewed(r) => Reviewed(run)'
    BY <1>1, <1>7, <1>8, <1>10 DEF Reviewed, Vouched, prVars, reviewVars
  <2>3. QED
    BY <1>7, <2>1, <2>2 DEF Earned, Says
<1>14. Fresh'
  <2>1. Standing(Wanted(run))' <=> Standing(Wanted(r))
    BY <1>9, <1>10
  <2>2. Excused(run)' <=> Excused(r)
    BY <1>8, <1>10
  <2>3. QED
    BY <1>1, <1>5, <1>6, <1>7, <2>1, <2>2 DEF Fresh, Says, prVars
<1>15. EnforcedMergeIsReviewed'
  BY <1>1, <1>10 DEF EnforcedMergeIsReviewed, Vouched, prVars, reviewVars
<1>16. QED
  BY <1>10, <1>11, <1>12, <1>13, <1>14, <1>15

LEMMA VerifyStep == ASSUME CRInv, Verify PROVE CRInv'
<1> USE DEF CRInv
<1>1. /\ run # None /\ run.step = "fetched" /\ run \in Runs
      /\ run.says \in {"green", "red"}
      /\ UNCHANGED <<prVars, reviewVars, policy, waiting, touches>>
  BY DEF Verify, TypeOK, Decided
<1>2. run' = [run EXCEPT !.step = run.says, !.says = "nothing"]
  BY DEF Verify, Over
<1>3. /\ run' \in Runs /\ run'.step = run.says /\ run'.commit = run.commit
      /\ run'.policy = run.policy /\ run'.blind = run.blind
  BY <1>1, <1>2 DEF Runs
<1>4. Excused(run') <=> Excused(run)
  BY <1>3 DEF Excused
<1>5. Wanted(run') = Wanted(run)
  BY <1>3 DEF Wanted
<1>6. /\ Trailers' /\ Given'
      /\ \A w : Standing(w)' <=> Standing(w)
      /\ \A x : Excused(x)' <=> Excused(x)
  BY <1>1, ReviewsStay DEF prVars
<1>7. TypeOK'
  BY <1>1, <1>3 DEF TypeOK, prVars, reviewVars
<1>8. Decided' /\ OnHead'
  BY <1>1, <1>3 DEF Decided, OnHead, prVars
<1>9. Earned'
  <2>1. Says(run, "green")' => Says(run, "green")
    BY <1>1, <1>3 DEF Says
  <2>2. Reviewed(run) => Reviewed(run)'
    BY <1>1, <1>3, <1>4, <1>6 DEF Reviewed, Vouched, prVars, reviewVars
  <2>3. QED
    BY <1>1, <2>1, <2>2 DEF Earned
<1>10. Fresh'
  <2>1. /\ Says(run, "green")' <=> Says(run, "green")
        /\ Says(run, "red")' <=> Says(run, "red")
    BY <1>1, <1>3 DEF Says
  <2>2. Standing(Wanted(run))' <=> Standing(Wanted(run))
    BY <1>5, <1>6
  <2>3. Excused(run)' <=> Excused(run)
    BY <1>4, <1>6
  <2>4. QED
    BY <1>1, <1>3, <2>1, <2>2, <2>3 DEF Fresh
<1>11. EnforcedMergeIsReviewed'
  BY <1>1, <1>6 DEF EnforcedMergeIsReviewed, Vouched, prVars, reviewVars
<1>12. QED
  BY <1>6, <1>7, <1>8, <1>9, <1>10, <1>11

\* A run that has just started or was cut short says nothing.
LEMMA SilentRunStep ==
    ASSUME CRInv, UNCHANGED <<prVars, reviewVars, policy, touches>>,
           run' \in Runs, run'.commit = head, run'.step \in {"queued", "cancelled"},
           waiting' \in 0..MaxWaiting
    PROVE  CRInv'
<1> USE DEF CRInv, prVars, reviewVars
<1>1. Trailers' /\ Given' /\ \A x : Excused(x)' <=> Excused(x)
  BY ReviewsStay
<1>2. TypeOK'
  BY DEF TypeOK
<1>3. Decided' /\ OnHead' /\ Earned' /\ Fresh'
  BY DEF Decided, OnHead, Earned, Fresh, Says
<1>4. EnforcedMergeIsReviewed'
  BY <1>1 DEF EnforcedMergeIsReviewed, Vouched
<1>5. QED
  BY <1>1, <1>2, <1>3, <1>4

LEMMA StartRunStep == ASSUME CRInv, StartRun PROVE CRInv'
<1>1. /\ run' = [commit |-> head, step |-> "queued", policy |-> "unset",
                 blind |-> FALSE, says |-> "nothing"]
      /\ waiting > 0 /\ waiting' = waiting - 1
      /\ UNCHANGED <<prVars, reviewVars, policy, touches>>
  BY DEF StartRun
<1>2. waiting' \in 0..MaxWaiting /\ head \in Commits
  BY <1>1, ReviewBounds DEF CRInv, TypeOK
<1>3. run' \in Runs /\ run'.commit = head /\ run'.step = "queued"
  BY <1>1, <1>2 DEF Runs
<1>4. QED
  BY <1>1, <1>2, <1>3, SilentRunStep

LEMMA DiesStep == ASSUME CRInv, Dies PROVE CRInv'
<1>1. /\ run # None /\ run \in Runs
      /\ run' = [run EXCEPT !.step = "cancelled", !.says = "nothing"]
      /\ UNCHANGED <<prVars, reviewVars, policy, waiting, touches>>
  BY DEF Dies, Running, Over, CRInv, TypeOK
<1>2. run' \in Runs /\ run'.commit = head /\ run'.step = "cancelled"
  BY <1>1 DEF Runs, CRInv, OnHead
<1>3. waiting' \in 0..MaxWaiting
  BY <1>1 DEF CRInv, TypeOK
<1>4. QED
  BY <1>1, <1>2, <1>3, SilentRunStep

----------------------------------------------------------------------------
(* The steps of the pull request *)

LEMMA PushStep == ASSUME CRInv, Push PROVE CRInv'
<1> USE DEF CRInv
<1>1. /\ head' = head + 1 /\ head < MaxCommits /\ run' = None /\ admitted' = None
      /\ waiting' \in {0, 1}
      /\ UNCHANGED <<author, merged, reviewVars, policy, touches>>
  BY DEF Push
<1>2. Trailers' /\ Given'
  BY <1>1, ReviewsStay
<1>3. TypeOK'
  BY <1>1, ReviewBounds DEF TypeOK, Commits, reviewVars
<1>4. Decided' /\ OnHead' /\ Earned' /\ Fresh' /\ EnforcedMergeIsReviewed'
  BY <1>1 DEF Decided, OnHead, Earned, Fresh, EnforcedMergeIsReviewed
<1>5. QED
  BY <1>2, <1>3, <1>4

\* What neither the gate nor the reviews have a part in.
LEMMA AsideStep ==
    ASSUME CRInv, UNCHANGED <<author, head, reviewVars, run>>,
           \/ admitted' \in {None, admitted}
           \/ admitted' = run /\ run.step = "green",
           merged' \in BOOLEAN, policy' \in Policies, touches' \in 0..MaxTouches,
           waiting' \in waiting..MaxWaiting
    PROVE  CRInv'
<1> USE DEF CRInv
<1>1. Trailers' /\ Given'
  BY ReviewsStay
<1>2. /\ \A w : Standing(w)' <=> Standing(w)
      /\ \A x : Excused(x)' <=> Excused(x)
  BY ReviewsStay
<1>3. TypeOK'
  BY DEF TypeOK, reviewVars
<1>4. Decided' /\ OnHead'
  BY DEF Decided, OnHead
<1>5. Reviewed(run)' <=> Reviewed(run)
  BY <1>2 DEF Reviewed, Vouched, reviewVars
<1>6. Earned'
  BY <1>5 DEF Earned, Says
<1>7. Fresh'
  BY <1>2 DEF Fresh, Says, Wanted, TypeOK
<1>8. EnforcedMergeIsReviewed'
  BY <1>2 DEF EnforcedMergeIsReviewed, Earned, Says, Reviewed, OnHead, Vouched, reviewVars
<1>9. QED
  BY <1>1, <1>3, <1>4, <1>6, <1>7, <1>8
LEMMA RaiseWaits ==
    ASSUME TypeOK, NEW kind \in Triggers, Raise(kind)
    PROVE  waiting' = waiting + 1 /\ waiting' \in 1..MaxWaiting
  BY ReviewBounds DEF TypeOK, Raise

LEMMA ReopenStep == ASSUME CRInv, Reopen PROVE CRInv'
<1>1. "reopened" \in Triggers
  BY DEF Triggers
<1>2. waiting' = waiting + 1 /\ waiting' \in 1..MaxWaiting
  BY <1>1, RaiseWaits DEF Reopen, CRInv
<1>3. touches' \in 0..MaxTouches
  BY ReviewBounds DEF Reopen, Touch, CRInv, TypeOK
<1>4. waiting' \in waiting..MaxWaiting
  BY <1>2 DEF CRInv, TypeOK
<1>5. merged' \in BOOLEAN /\ policy' \in Policies
  BY DEF Reopen, CRInv, TypeOK
<1>6. UNCHANGED <<author, head, reviewVars, run>> /\ admitted' \in {None, admitted}
  BY DEF Reopen
<1>7. QED
  BY <1>3, <1>4, <1>5, <1>6, AsideStep

LEMMA ArmStep == ASSUME CRInv, Arm PROVE CRInv'
<1>1. touches' \in 0..MaxTouches
  BY ReviewBounds DEF Arm, Touch, CRInv, TypeOK
<1>2. waiting' \in waiting..MaxWaiting
  BY DEF Arm, CRInv, TypeOK
<1>3. merged' \in BOOLEAN /\ policy' \in Policies
  BY DEF Arm, CRInv, TypeOK, prVars
<1>4. UNCHANGED <<author, head, reviewVars, run>> /\ admitted' \in {None, admitted}
  BY DEF Arm, prVars
<1>5. QED
  BY <1>1, <1>2, <1>3, <1>4, AsideStep

LEMMA QueueStep == ASSUME CRInv, Enqueue \/ Merge PROVE CRInv'
<1>1. touches' \in 0..MaxTouches /\ waiting' \in waiting..MaxWaiting
  BY DEF Enqueue, Merge, CRInv, TypeOK
<1>2. merged' \in BOOLEAN /\ policy' \in Policies
  BY DEF Enqueue, Merge, CRInv, TypeOK
<1>3. UNCHANGED <<author, head, reviewVars, run>>
  BY DEF Enqueue, Merge
<1>4. admitted' \in {None, admitted} \/ (admitted' = run /\ run.step = "green")
  BY DEF Enqueue, Merge
<1>5. QED
  BY <1>1, <1>2, <1>3, <1>4, AsideStep

----------------------------------------------------------------------------
(* The steps of the reviews *)

\* Whatever becomes of the reviews raises an event, so the check is stale at
\* most until a run has started; what was approved stays approved.
LEMMA NewsStep ==
    ASSUME CRInv, UNCHANGED <<prVars, policy, run>>,
           waiting' \in 1..MaxWaiting, touches' \in 0..MaxTouches,
           reviews' \in Seq(Reviews), Trailers', Given',
           approved \subseteq approved', approved' \subseteq Commits,
           edited \subseteq edited', edited' \subseteq Commits
    PROVE  CRInv'
<1> USE DEF CRInv, prVars
<1>1. TypeOK'
  BY DEF TypeOK
<1>2. Decided' /\ OnHead' /\ Fresh'
  BY DEF Decided, OnHead, Fresh
<1>3. (\A x : Excused(x)' <=> Excused(x)) /\ Vouched \subseteq Vouched'
  BY DEF Excused, Vouched
<1>4. Reviewed(run) => Reviewed(run)'
  BY <1>3 DEF Reviewed
<1>5. Earned'
  BY <1>4 DEF Earned, Says
<1>6. EnforcedMergeIsReviewed'
  BY <1>3 DEF EnforcedMergeIsReviewed
<1>7. QED
  BY <1>1, <1>2, <1>5, <1>6

\* One review more, which remembers a commit exactly if its body shows it.
LEMMA OneReviewMore ==
    ASSUME CRInv, NEW review \in Reviews, reviews' = Append(reviews, review),
           Vouched \subseteq Vouched',
           IF review.of # None
           THEN /\ review.login \in REVIEWER_LOGINS
                /\ ReviewedSha(review.body) = review.of
           ELSE \/ review.login \notin REVIEWER_LOGINS
                \/ ReviewedSha(review.body) \notin Commits,
           review.of # None /\ review.state = "APPROVED" => review.of \in Vouched'
    PROVE  reviews' \in Seq(Reviews) /\ Trailers' /\ Given'
<1> USE DEF CRInv
<1>1. reviews \in Seq(Reviews)
  BY DEF TypeOK
<1>2. /\ reviews' \in Seq(Reviews) /\ Len(reviews') = Len(reviews) + 1
      /\ \A i \in 1..Len(reviews) : reviews'[i] = reviews[i]
      /\ reviews'[Len(reviews) + 1] = review
  BY <1>1, AppendProperties
<1>3. ASSUME NEW i \in DOMAIN reviews'
      PROVE  (i \in DOMAIN reviews /\ reviews'[i] = reviews[i]) \/ reviews'[i] = review
  BY <1>1, <1>2
<1>4. Trailers'
  BY <1>3 DEF Trailers
<1>5. Given'
  BY <1>3 DEF Given
<1>6. QED
  BY <1>2, <1>4, <1>5

LEMMA ReviewLandsStep ==
    ASSUME CRInv, NEW c \in Commits, ReviewLands(c)
    PROVE  CRInv'
<1> USE DEF CRInv
<1>1. PICK review \in LaneReviews(c), state \in {"APPROVED", "COMMENTED"} :
         /\ reviews' = Append(reviews, [login |-> review.login, body |-> review.body,
                                        state |-> state, of |-> c])
         /\ approved' = IF state = "APPROVED" THEN approved \cup {c} ELSE approved
  BY DEF ReviewLands
<1>2. review.login \in REVIEWER_LOGINS /\ review.body \in Seq(Lines)
      /\ ReviewedSha(review.body) = c
  BY LaneTrailers
<1> DEFINE added == [login |-> review.login, body |-> review.body,
                     state |-> state, of |-> c]
<1>3. added \in Reviews
  BY <1>2 DEF Reviews, Lines
<1>4. /\ added.login \in REVIEWER_LOGINS /\ ReviewedSha(added.body) = added.of
      /\ added.of = c /\ added.state = state
  BY <1>2
<1>5. c # None
  BY ReviewBounds
<1>6. reviews' = Append(reviews, added)
  BY <1>1
<1> HIDE DEF added
<1>7. Raise("submitted") /\ UNCHANGED <<prVars, edited, policy, run, touches>>
  BY DEF ReviewLands
<1>8. /\ approved \subseteq approved' /\ approved' \subseteq Commits
      /\ edited \subseteq edited' /\ edited' \subseteq Commits
  BY <1>1, <1>7 DEF TypeOK
<1>9. /\ reviews' \in Seq(Reviews) /\ Trailers' /\ Given'
  <2>1. Vouched \subseteq Vouched' /\ (state = "APPROVED" => c \in Vouched')
    BY <1>1, <1>8 DEF Vouched
  <2>2. QED
    BY <1>3, <1>4, <1>5, <1>6, <2>1, OneReviewMore
<1>10. waiting' \in 1..MaxWaiting /\ touches' \in 0..MaxTouches
  BY <1>7, RaiseWaits DEF Triggers, TypeOK
<1>11. QED
  BY <1>7, <1>8, <1>9, <1>10, NewsStep

LEMMA OtherReviewStep == ASSUME CRInv, OtherReview PROVE CRInv'
<1> USE DEF CRInv
<1>1. PICK review \in
            {[login |-> "someone", body |-> Trailer(head)],
             [login |-> "mothership-ai[bot]",
              body  |-> <<CommitMarker(head), Line("profile"), Line("prose")>>]} :
         reviews' = Append(reviews, [login |-> review.login, body |-> review.body,
                                     state |-> "APPROVED", of |-> None])
  BY DEF OtherReview
<1> DEFINE added == [login |-> review.login, body |-> review.body,
                     state |-> "APPROVED", of |-> None]
<1>2. head \in Commits
  BY DEF TypeOK
<1>3. /\ review.login \in REVIEWER_LOGINS \cup {"someone"}
      /\ review.body \in Seq(Lines)
      /\ \/ review.login \notin REVIEWER_LOGINS
         \/ ReviewedSha(review.body) \notin Commits
  <2>1. CASE review.login = "someone"
    <3>1. review.body = Trailer(head)
      BY <1>1, <2>1
    <3>2. QED
      BY <1>2, <2>1, <3>1, OtherTrailers, TrailerIsRead
  <2>2. CASE review.login # "someone"
    <3>1. /\ review.login = "mothership-ai[bot]"
          /\ review.body = <<CommitMarker(head), Line("profile"), Line("prose")>>
      BY <1>1, <2>2
    <3>2. QED
      BY <1>2, <3>1, OtherTrailers DEF REVIEWER_LOGINS
  <2>3. QED
    BY <2>1, <2>2
<1>4. added \in Reviews
  BY <1>3 DEF Reviews, Lines
<1>5. /\ added.of = None
      /\ \/ added.login \notin REVIEWER_LOGINS
         \/ ReviewedSha(added.body) \notin Commits
  BY <1>3
<1>6. reviews' = Append(reviews, added)
  BY <1>1
<1>7. Raise("submitted") /\ UNCHANGED <<prVars, approved, edited, policy, run, touches>>
  BY DEF OtherReview
<1> HIDE DEF added
<1>8. reviews' \in Seq(Reviews) /\ Trailers' /\ Given'
  <2>1. Vouched \subseteq Vouched'
    BY <1>7 DEF Vouched
  <2>2. QED
    BY <1>4, <1>5, <1>6, <2>1, OneReviewMore
<1>9. /\ approved \subseteq approved' /\ approved' \subseteq Commits
      /\ edited \subseteq edited' /\ edited' \subseteq Commits
  BY <1>7 DEF TypeOK
<1>10. waiting' \in 1..MaxWaiting /\ touches' \in 0..MaxTouches
  BY <1>7, RaiseWaits DEF Triggers, TypeOK
<1>11. QED
  BY <1>7, <1>8, <1>9, <1>10, NewsStep

\* One review changed, so that it remembers what its body shows.
LEMMA OneReviewChanged ==
    ASSUME CRInv, NEW i \in DOMAIN reviews, NEW review \in Reviews,
           reviews' = [reviews EXCEPT ![i] = review], Vouched \subseteq Vouched',
           IF review.of # None
           THEN /\ review.login \in REVIEWER_LOGINS
                /\ ReviewedSha(review.body) = review.of
           ELSE \/ review.login \notin REVIEWER_LOGINS
                \/ ReviewedSha(review.body) \notin Commits,
           review.of # None /\ review.state = "APPROVED" => review.of \in Vouched'
    PROVE  reviews' \in Seq(Reviews) /\ Trailers' /\ Given'
<1> USE DEF CRInv
<1>1. reviews \in Seq(Reviews) /\ i \in 1..Len(reviews)
  BY DEF TypeOK
<1>2. /\ reviews' \in Seq(Reviews) /\ Len(reviews') = Len(reviews)
      /\ \A j \in 1..Len(reviews) :
            reviews'[j] = IF j = i THEN review ELSE reviews[j]
  BY <1>1, ExceptSeq
<1>3. ASSUME NEW j \in DOMAIN reviews'
      PROVE  (j \in DOMAIN reviews /\ reviews'[j] = reviews[j]) \/ reviews'[j] = review
  BY <1>1, <1>2
<1>4. Trailers'
  BY <1>3 DEF Trailers
<1>5. Given'
  BY <1>3 DEF Given
<1>6. QED
  BY <1>2, <1>4, <1>5

LEMMA BreakReviews ==
    ASSUME CRInv, NEW i \in DOMAIN reviews, Break(i), UNCHANGED approved
    PROVE  reviews' \in Seq(Reviews) /\ Trailers' /\ Given'
<1> USE DEF CRInv
<1>1. /\ reviews' = [reviews EXCEPT ![i].body = Append(@, Line("prose")),
                                    ![i].of = None]
      /\ UNCHANGED edited
  BY DEF Break
<1> DEFINE old == reviews[i]
           review == [old EXCEPT !.body = Append(@, Line("prose")), !.of = None]
<1>2. old \in Reviews
  BY DEF TypeOK
<1>3. old.body \in Seq(Lines)
  BY <1>2 DEF Reviews, Lines
<1>4. /\ Append(old.body, Line("prose")) \in Seq(Lines)
      /\ ReviewedSha(Append(old.body, Line("prose"))) = None
  BY <1>3, BrokenTrailer
<1>5. /\ review \in Reviews /\ review.of = None
      /\ review.body = Append(old.body, Line("prose"))
  BY <1>2, <1>4 DEF Reviews, Lines
<1>6. reviews' = [reviews EXCEPT ![i] = review]
  BY <1>1, <1>2 DEF TypeOK, Reviews
<1>7. ReviewedSha(review.body) \notin Commits
  BY <1>4, <1>5, ReviewBounds
<1>8. Vouched \subseteq Vouched'
  BY <1>1 DEF Vouched
<1> HIDE DEF review, old
<1>9. QED
  BY <1>5, <1>6, <1>7, <1>8, OneReviewChanged

LEMMA RewriteReviews ==
    ASSUME CRInv, NEW i \in DOMAIN reviews, Rewrite(i), UNCHANGED approved
    PROVE  /\ reviews' \in Seq(Reviews) /\ Trailers' /\ Given'
           /\ edited \subseteq edited' /\ edited' \subseteq Commits
<1> USE DEF CRInv
<1>1. PICK c \in Commits :
         /\ reviews' = [reviews EXCEPT ![i].body = Trailer(c),
                                       ![i].of = IF Signed(reviews[i]) THEN c ELSE None]
         /\ edited' = IF Signed(reviews[i]) /\ reviews[i].state = "APPROVED"
                      THEN edited \cup {c} ELSE edited
  BY DEF Rewrite
<1> DEFINE old == reviews[i]
           now == IF Signed(old) THEN c ELSE None
           review == [old EXCEPT !.body = Trailer(c), !.of = now]
<1>2. old \in Reviews
  BY DEF TypeOK
<1>3. Trailer(c) \in Seq(Lines) /\ ReviewedSha(Trailer(c)) = c
  BY TrailerIsRead
<1>4. now \in Commits \cup {None}
  OBVIOUS
<1>5. reviews' = [reviews EXCEPT ![i] = review]
  BY <1>1, <1>2 DEF TypeOK, Reviews
<1> HIDE DEF now
<1>6. /\ review \in Reviews /\ review.of = now /\ review.body = Trailer(c)
      /\ review.login = old.login /\ review.state = old.state
  BY <1>2, <1>3, <1>4 DEF Reviews, Lines
<1>7. edited \subseteq edited' /\ edited' \subseteq Commits
  BY <1>1 DEF TypeOK
<1>8. Vouched \subseteq Vouched'
  BY <1>7 DEF Vouched
<1>9. IF review.of # None
      THEN /\ review.login \in REVIEWER_LOGINS
           /\ ReviewedSha(review.body) = review.of
      ELSE \/ review.login \notin REVIEWER_LOGINS
           \/ ReviewedSha(review.body) \notin Commits
  BY <1>3, <1>6, ReviewBounds DEF now, Signed
<1>10. review.of # None /\ review.state = "APPROVED" => review.of \in Vouched'
  BY <1>1, <1>6 DEF now, Vouched
<1> HIDE DEF review, old
<1>11. QED
  BY <1>5, <1>6, <1>7, <1>8, <1>9, <1>10, OneReviewChanged

LEMMA EditStep ==
    ASSUME CRInv, NEW i \in DOMAIN reviews, Edit(i)
    PROVE  CRInv'
<1> USE DEF CRInv
<1>1. /\ Touch /\ Raise("edited") /\ (Break(i) \/ Rewrite(i))
      /\ UNCHANGED <<prVars, approved, policy, run>>
  BY DEF Edit
<1>2. /\ reviews' \in Seq(Reviews) /\ Trailers' /\ Given'
      /\ edited \subseteq edited' /\ edited' \subseteq Commits
  <2>1. CASE Break(i)
    BY <1>1, <2>1, BreakReviews DEF Break, TypeOK
  <2>2. CASE Rewrite(i)
    BY <1>1, <2>2, RewriteReviews
  <2>3. QED
    BY <1>1, <2>1, <2>2
<1>3. waiting' \in 1..MaxWaiting /\ touches' \in 0..MaxTouches
  BY <1>1, RaiseWaits, ReviewBounds DEF Triggers, TypeOK, Touch
<1>4. approved \subseteq approved' /\ approved' \subseteq Commits
  BY <1>1 DEF TypeOK
<1>5. QED
  BY <1>1, <1>2, <1>3, <1>4, NewsStep

LEMMA DismissStep ==
    ASSUME CRInv, NEW i \in DOMAIN reviews, Dismiss(i)
    PROVE  CRInv'
<1> USE DEF CRInv
<1>1. /\ Touch /\ Raise("dismissed")
      /\ reviews' = [reviews EXCEPT ![i].state = "DISMISSED"]
      /\ UNCHANGED <<prVars, approved, edited, policy, run>>
  BY DEF Dismiss
<1> DEFINE old == reviews[i]
           review == [old EXCEPT !.state = "DISMISSED"]
<1>2. old \in Reviews
  BY DEF TypeOK
<1>3. /\ review \in Reviews /\ review.of = old.of /\ review.login = old.login
      /\ review.body = old.body /\ review.state = "DISMISSED"
  BY <1>2 DEF Reviews
<1>4. reviews' = [reviews EXCEPT ![i] = review]
  BY <1>1, <1>2 DEF TypeOK, Reviews
<1>5. IF review.of # None
      THEN /\ review.login \in REVIEWER_LOGINS
           /\ ReviewedSha(review.body) = review.of
      ELSE \/ review.login \notin REVIEWER_LOGINS
           \/ ReviewedSha(review.body) \notin Commits
  BY <1>3 DEF Trailers
<1> HIDE DEF review, old
<1>6. reviews' \in Seq(Reviews) /\ Trailers' /\ Given'
  <2>1. Vouched \subseteq Vouched'
    BY <1>1 DEF Vouched
  <2>2. QED
    BY <1>3, <1>4, <1>5, <2>1, OneReviewChanged
<1>7. waiting' \in 1..MaxWaiting /\ touches' \in 0..MaxTouches
  BY <1>1, RaiseWaits, ReviewBounds DEF Triggers, TypeOK, Touch
<1>8. /\ approved \subseteq approved' /\ approved' \subseteq Commits
      /\ edited \subseteq edited' /\ edited' \subseteq Commits
  BY <1>1 DEF TypeOK
<1>9. QED
  BY <1>1, <1>6, <1>7, <1>8, NewsStep

----------------------------------------------------------------------------
(* The theorems *)

LEMMA NextCRInv == ASSUME CRInv, [Next]_vars PROVE CRInv'
<1>1. CASE UNCHANGED vars
  <2>1. /\ UNCHANGED <<author, head, reviewVars, run, admitted, merged, policy>>
        /\ UNCHANGED <<waiting, touches>>
    BY <1>1 DEF vars, prVars
  <2>2. /\ admitted' \in {None, admitted} /\ merged' \in BOOLEAN
        /\ policy' \in Policies /\ touches' \in 0..MaxTouches
        /\ waiting' \in waiting..MaxWaiting
    BY <2>1 DEF CRInv, TypeOK
  <2>3. QED
    BY <2>1, <2>2, AsideStep
<1>2. CASE StartRun \/ Job
  BY <1>2, StartRunStep, FetchStep, VerifyStep, DiesStep DEF Job
<1>3. CASE \E c \in Commits : ReviewLands(c)
  BY <1>3, ReviewLandsStep
<1>4. CASE \E i \in DOMAIN reviews : Edit(i) \/ Dismiss(i)
  BY <1>4, EditStep, DismissStep
<1>5. CASE Push \/ Reopen \/ Arm \/ Enqueue \/ Merge \/ OtherReview
  BY <1>5, PushStep, ReopenStep, ArmStep, QueueStep, OtherReviewStep
<1>6. QED
  BY <1>1, <1>2, <1>3, <1>4, <1>5 DEF Next

\* The gate's run, the reviews and the queue stay what the script and GitHub
\* make of them.
THEOREM ReviewTypeOK == Spec => []TypeOK
<1>1. CRInv => TypeOK
  BY DEF CRInv
<1>2. QED
  BY <1>1, InitCRInv, NextCRInv, PTL DEF Spec

\* No commit is admitted to the queue by a run that was about another, and
\* under enforcement none without an approval of the lane's own or one that an
\* edit made out of a review of its logins, but by a gate of its own.
THEOREM EnforcedMergeTheorem == Spec => []EnforcedMergeIsReviewed
<1>1. CRInv => EnforcedMergeIsReviewed
  BY DEF CRInv
<1>2. QED
  BY <1>1, InitCRInv, NextCRInv, PTL DEF Spec

\* A check that no event will renew says what the reviews say, however many
\* there are, whatever was edited in them and however the API pages them, where
\* the head leaves the gate as it is.
THEOREM SettledCheckTheorem == Spec => []SettledCheckIsRight
<1>1. CRInv => SettledCheckIsRight
  BY DEF CRInv, SettledCheckIsRight, Fresh, Says, Concluded
<1>2. QED
  BY <1>1, InitCRInv, NextCRInv, PTL DEF Spec
=============================================================================
