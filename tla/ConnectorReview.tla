--------------------------- MODULE ConnectorReview ---------------------------
(***************************************************************************)
(* The connector-review gate of a pull request                             *)
(* (.github/scripts/connector_review_gate.py and                           *)
(* workflows/connector-review-gate.yaml). The gate is satisfied by a       *)
(* review of mothership's connector lane, which lands minutes after it was *)
(* asked for, on a pull request that may have moved since; reviews are     *)
(* edited and dismissed, and each event starts a run of the gate that      *)
(* reads the reviews anew, by the workflow and the script of the pull      *)
(* request's own tree (its TRUST BOUNDARY). What counts for the merge is the newest run on  *)
(* the head commit, and the model keeps that one only: a run that has a    *)
(* successor, or whose commit is no longer the head, changes nothing any   *)
(* more, be it retired by its concurrency group or not. A branch is not    *)
(* rewound.                                                                *)
(*                                                                         *)
(* Mothership, GitHub's events and its merge queue are modelled from how   *)
(* the workflow uses them. The events about one head differ in nothing the *)
(* gate reads, so the model counts those that wait for their run.          *)
(*                                                                         *)
(* The body of a review is the sequence of its last lines, each of a kind: *)
(* "profile" and "footer", the two forms of the profile marker, "commit",  *)
(* the marker of a commit, or "prose".                                     *)
(***************************************************************************)
EXTENDS Naturals, Sequences, SequencesExt

CONSTANTS None,         \* no commit, no run
          MaxCommits,   \* bound on the commits pushed
          Configured,   \* those whose tree has .mothership/reviewer.yaml
          OwnGate,      \* those whose tree changes the workflow or its script
          Authors,      \* who opens the pull request
          Policies,     \* values of vars.CONNECTOR_REVIEW_GATE
          PageSize,     \* reviews on a page of the API
          MaxReviews,   \* bound on the reviews
          MaxTouches,   \* on edits, dismissals, reopenings and re-armings
          MaxWaiting    \* on the events that wait for their run

Commits == 1..MaxCommits

ASSUME ReviewBounds == /\ None \notin Commits /\ OwnGate \subseteq Commits
                       /\ Policies \subseteq {"unset", "enforce", "enforce-head"}
                       /\ PageSize \in Nat \ {0}
                       /\ MaxCommits \in Nat \ {0} /\ MaxReviews \in Nat
                       /\ MaxTouches \in Nat
                       /\ MaxWaiting \in Nat \ {0}

VARIABLES author,
          policy,     \* the repository's setting
          head,       \* the head commit
          reviews,    \* oldest first; `of` remembers the commit that a
                      \* review of the connector lane's speaks of, by the
                      \* trailer it came with or one an edit gave it
          waiting,    \* events about the head no run was started for yet
          run,        \* the newest run of the gate on the head
          admitted,   \* the run that let the PR into the merge queue
          merged,
          approved,   \* history: commits the connector lane ever approved
          edited,     \* history: those that an edit ever made an approving
                      \* review of its logins speak of
          touches

prVars == <<author, head, admitted, merged>>
reviewVars == <<reviews, approved, edited>>
vars == <<prVars, reviewVars, policy, waiting, run, touches>>

----------------------------------------------------------------------------
(* connector_review_gate.py *)

REVIEWER_LOGINS == {"mothership-reviewer[bot]", "mothership-ai[bot]"}

EXEMPT_AUTHORS == {"renovate[bot]", "atlan-app-fleet[bot]", "dependabot[bot]"}

Line(kind) == [kind |-> kind, sha |-> None]

CommitMarker(c) == [kind |-> "commit", sha |-> c]

(***************************************************************************)
(* reviewed_sha: a marker counts at the tail of the body only, the commit  *)
(* above the profile or, in the older form, below the footer.              *)
(***************************************************************************)
ReviewedSha(lines) ==
    LET n == Len(lines)
    IN  IF lines[n].kind = "profile" /\ n >= 2 THEN lines[n - 1].sha
        ELSE IF \E i \in 1..(n - 1) : i + 14 >= n /\ lines[i].kind = "footer"
        THEN lines[n].sha ELSE None

\* flatten_pages: `gh api --paginate --slurp` prints a list of pages.
FlattenPages(pages) == FlattenSeq(pages)

\* Mutant: whoever signs it, a review with the marker counts.
Matches_AnyLogin(review, wanted) == ReviewedSha(review.body) \in wanted

Matches(review, wanted) == /\ review.login \in REVIEWER_LOGINS
                           /\ ReviewedSha(review.body) \in wanted

\* find_review: the newest connector review of a wanted commit, if any.
FindReview(list, wanted) ==
    {list[i] : i \in {j \in DOMAIN list :
        /\ Matches(list[j], wanted)
        /\ \A k \in DOMAIN list : k > j => ~Matches(list[k], wanted)}}

\* The commits whose review counts: --policy and --head-sha.
Wanted(r) == IF r.policy = "enforce-head" THEN {r.commit} ELSE Commits

Approved(r, list) == \E found \in FindReview(list, Wanted(r)) : found.state = "APPROVED"

\* Mutant: a lookup that failed reads as a PR without reviews.
Decide_FailsClosed(r, list) ==
    IF \/ r.commit \notin Configured \/ author \in EXEMPT_AUTHORS
       \/ Approved(r, list)
       \/ r.policy = "unset"
    THEN "green" ELSE "red"

\* Mutant: a missing review is neither red nor green until the gate is armed.
Decide_Neutral(r, list) ==
    IF \/ r.commit \notin Configured \/ author \in EXEMPT_AUTHORS \/ r.blind
       \/ Approved(r, list)
    THEN "green" ELSE IF r.policy = "unset" THEN "neutral" ELSE "red"

\* main: fail open on what could not be read.
Decide(r, list) ==
    IF \/ r.commit \notin Configured \/ author \in EXEMPT_AUTHORS \/ r.blind
       \/ Approved(r, list)
       \/ r.policy = "unset"
    THEN "green" ELSE "red"

----------------------------------------------------------------------------
(* connector-review-gate.yaml *)

\* Mutant: a dismissed review starts no run.
Triggers_NoDismissals ==
    {"opened", "synchronize", "reopened", "submitted", "edited"}

\* `ready_for_review` is as `reopened`.
Triggers == {"opened", "synchronize", "reopened", "submitted", "edited",
             "dismissed"}

\* An event carries the head its pull request has when it occurs.
Raise(kind) == /\ waiting < MaxWaiting
               /\ waiting' = IF kind \in Triggers THEN waiting + 1 ELSE waiting

Running == run # None /\ run.step \in {"queued", "fetched"}

Concluded == run # None /\ run.step \in {"green", "red"}

Over(conclusion) == run' = [run EXCEPT !.step = conclusion, !.says = "nothing"]

StartRun ==
    /\ waiting > 0
    /\ waiting' = waiting - 1
    /\ run' = [commit |-> head, step |-> "queued", policy |-> "unset",
               blind |-> FALSE, says |-> "nothing"]
    /\ UNCHANGED <<prVars, reviewVars, policy, touches>>

\* The pages the API answers with.
Pages(list) ==
    [p \in 1..((Len(list) + PageSize - 1) \div PageSize) |->
        SubSeq(list, (p - 1) * PageSize + 1,
               IF p * PageSize > Len(list) THEN Len(list) ELSE p * PageSize)]

\* The job starts, under the policy of the hour, and reads the reviews. A
\* lookup that fails leaves an empty file, or one that does not parse. Of what
\* it read the model keeps what the script will say of it. A script of the
\* pull request's own may say anything.
Fetch ==
    /\ run # None /\ run.step = "queued"
    /\ \E whole \in BOOLEAN :
          LET r == [run EXCEPT !.step = "fetched", !.policy = policy, !.blind = ~whole]
              list == IF whole THEN FlattenPages(Pages(reviews)) ELSE <<>>
          IN  \E says \in IF run.commit \in OwnGate THEN {"green", "red"}
                          ELSE {Decide(r, list)} :
                 run' = [r EXCEPT !.says = says]
    /\ UNCHANGED <<prVars, reviewVars, policy, waiting, touches>>

Verify ==
    /\ run # None /\ run.step = "fetched"
    /\ Over(run.says)
    /\ UNCHANGED <<prVars, reviewVars, policy, waiting, touches>>

\* timeout-minutes: 2, or the runner is lost.
Dies ==
    /\ Running
    /\ Over("cancelled")
    /\ UNCHANGED <<prVars, reviewVars, policy, waiting, touches>>

----------------------------------------------------------------------------
(* The pull request and its repository *)

Push ==
    /\ head < MaxCommits
    /\ head' = head + 1
    /\ waiting' = IF "synchronize" \in Triggers THEN 1 ELSE 0
    /\ run' = None /\ admitted' = None
    /\ UNCHANGED <<author, merged, reviewVars, policy, touches>>

Touch == touches < MaxTouches /\ touches' = touches + 1

Reopen ==
    /\ Touch
    /\ Raise("reopened")
    /\ admitted' = None
    /\ UNCHANGED <<author, head, merged, reviewVars, policy, run>>

\* A variable of the repository: no workflow is triggered.
Arm ==
    /\ Touch
    /\ policy' \in Policies \ {policy}
    /\ UNCHANGED <<prVars, reviewVars, waiting, run>>

Enqueue ==
    /\ admitted = None
    /\ run # None /\ run.step = "green"
    /\ admitted' = run
    /\ UNCHANGED <<author, head, merged, reviewVars, policy, waiting, run,
                   touches>>

\* On the queue's own event the job is skipped, which passes.
Merge ==
    /\ admitted # None
    /\ merged' = TRUE
    /\ UNCHANGED <<author, head, admitted, reviewVars, policy, waiting, run,
                   touches>>

----------------------------------------------------------------------------
(* Reviews *)

Trailer(c) == <<Line("footer"), CommitMarker(c), Line("profile")>>

\* Both logins and both forms of the trailer.
LaneReviews(c) ==
    {[login |-> "mothership-reviewer[bot]", body |-> Trailer(c)],
     [login |-> "mothership-ai[bot]", body |-> <<Line("footer"), CommitMarker(c)>>]}

\* A review that was asked for when the head was c. toReviewEvent: APPROVE is
\* APPROVED, everything else is COMMENTED.
ReviewLands(c) ==
    /\ c <= head /\ Len(reviews) < MaxReviews
    /\ \E review \in LaneReviews(c), state \in {"APPROVED", "COMMENTED"} :
          /\ reviews' = Append(reviews, [login |-> review.login, body |-> review.body,
                                         state |-> state, of |-> c])
          /\ approved' = IF state = "APPROVED" THEN approved \cup {c} ELSE approved
    /\ Raise("submitted")
    /\ UNCHANGED <<prVars, edited, policy, run, touches>>

\* A person, or another lane of the same bot, who quote the markers.
OtherReview ==
    /\ Len(reviews) < MaxReviews
    /\ \E review \in
            {[login |-> "someone", body |-> Trailer(head)],
             [login |-> "mothership-ai[bot]",
              body  |-> <<CommitMarker(head), Line("profile"), Line("prose")>>]} :
          reviews' = Append(reviews, [login |-> review.login, body |-> review.body,
                                      state |-> "APPROVED", of |-> None])
    /\ Raise("submitted")
    /\ UNCHANGED <<prVars, approved, edited, policy, run, touches>>

\* An edit of the body that breaks its trailer.
Break(i) ==
    /\ reviews' = [reviews EXCEPT ![i].body = Append(@, Line("prose")), ![i].of = None]
    /\ UNCHANGED edited

Signed(review) == review.login \in REVIEWER_LOGINS

\* One that gives it a trailer, of whatever commit; its author and its state
\* stay what they are.
Rewrite(i) ==
    \E c \in Commits :
       /\ reviews' = [reviews EXCEPT ![i].body = Trailer(c),
                                     ![i].of = IF Signed(reviews[i]) THEN c ELSE None]
       /\ edited' = IF Signed(reviews[i]) /\ reviews[i].state = "APPROVED"
                    THEN edited \cup {c} ELSE edited

\* "A write-access user can edit the bot's review body."
Edit(i) ==
    /\ Touch
    /\ Break(i) \/ Rewrite(i)
    /\ Raise("edited")
    /\ UNCHANGED <<prVars, approved, policy, run>>

Dismiss(i) ==
    /\ Touch /\ reviews[i].state = "APPROVED"
    /\ reviews' = [reviews EXCEPT ![i].state = "DISMISSED"]
    /\ Raise("dismissed")
    /\ UNCHANGED <<prVars, approved, edited, policy, run>>

----------------------------------------------------------------------------
Init ==
    /\ author \in Authors /\ policy \in Policies /\ head = 1
    /\ reviews = <<>> /\ approved = {} /\ edited = {}
    /\ waiting = 1 /\ run = None
    /\ admitted = None /\ merged = FALSE
    /\ touches = 0

Job == Fetch \/ Verify \/ Dies

\* What happens after the merge is of no interest.
Next ==
    /\ ~merged
    /\ \/ StartRun \/ Job
       \/ \E c \in Commits : ReviewLands(c)
       \/ \E i \in DOMAIN reviews : Edit(i) \/ Dismiss(i)
       \/ Push \/ Reopen \/ Arm \/ Enqueue \/ Merge \/ OtherReview

\* GitHub starts the runs and times their jobs out.
Spec == Init /\ [][Next]_vars /\ WF_vars(~merged /\ StartRun) /\ WF_vars(~merged /\ Job)

----------------------------------------------------------------------------
(* Properties *)

Reviews == [login : REVIEWER_LOGINS \cup {"someone"},
            body  : Seq([kind : {"profile", "footer", "commit", "prose"},
                         sha  : Commits \cup {None}]),
            state : {"APPROVED", "COMMENTED", "DISMISSED"},
            of    : Commits \cup {None}]

Runs == [commit : Commits,
         step   : {"queued", "fetched", "green", "red", "cancelled"},
         policy : Policies \cup {"unset"}, blind : BOOLEAN,
         says   : {"nothing", "green", "red"}]

TypeOK ==
    /\ author \in Authors /\ policy \in Policies /\ head \in Commits
    /\ reviews \in Seq(Reviews)
    /\ approved \subseteq Commits /\ edited \subseteq Commits
    /\ waiting \in 0..MaxWaiting
    /\ run \in Runs \cup {None} /\ admitted \in Runs \cup {None}
    /\ merged \in BOOLEAN /\ touches \in 0..MaxTouches

\* The check does not ask for a review, or could not.
Excused(r) == \/ r.policy = "unset" \/ author \in EXEMPT_AUTHORS
              \/ r.commit \notin Configured \/ r.blind

\* Commits that an approving review has spoken of.
Vouched == approved \cup edited

(***************************************************************************)
(* `enforce` blocks until the connector lane has approved the PR, and      *)
(* `enforce-head` until it has approved the commit that is merged: the run *)
(* that let a PR into the queue was about its head and, unless it was      *)
(* excused, such an approval had been given by the lane, or somebody with  *)
(* write access had edited an approval of its logins to say so (line 43 of *)
(* the workflow), whatever else was reviewed, quoted, pushed or re-armed   *)
(* meanwhile. A head that changes the gate itself passes as it pleases     *)
(* (lines 23 to 28).                                                       *)
(***************************************************************************)
EnforcedMergeIsReviewed ==
    admitted # None =>
       /\ admitted.commit = head
       /\ \/ head \in OwnGate
          \/ Excused(admitted)
          \/ head \in Vouched
          \/ admitted.policy = "enforce" /\ Vouched # {}

\* The newest review of the connector lane that is one of `wanted` approves.
Standing(wanted) ==
    \E i \in DOMAIN reviews :
       /\ reviews[i].of \in wanted /\ reviews[i].state = "APPROVED"
       /\ \A j \in DOMAIN reviews : j > i => reviews[j].of \notin wanted

(***************************************************************************)
(* "It still has the last word": when every event has had its run and the  *)
(* newest on the head is over, the check says what the reviews say now,    *)
(* whatever their bodies were edited to, if the gate is not the head's own *)
(* making. An approval that was dismissed, edited away or followed by      *)
(* findings leaves no stale green, and a later clean review no stale red.  *)
(***************************************************************************)
SettledCheckIsRight ==
    waiting = 0 /\ Concluded /\ run.commit \notin OwnGate =>
       (run.step = "green" <=> Excused(run) \/ Standing(Wanted(run)))

Clear(c) == head = c /\ Standing({c}) /\ Standing(Commits)

(***************************************************************************)
(* Once the reviews approve the head it becomes mergeable with no further  *)
(* push: its check turns green, unless the PR or the reviews change again, *)
(* or the job that would say so is cut short. An outage of the API does    *)
(* not keep it red. A head that changes the gate is left out.              *)
(***************************************************************************)
ApprovalUnblocks ==
    \A c \in Commits \ OwnGate :
       Clear(c)
         ~> \/ ~Clear(c) \/ merged
            \/ run # None /\ run.step \in {"green", "cancelled"}
=============================================================================
