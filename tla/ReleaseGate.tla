---------------------------- MODULE ReleaseGate ----------------------------
(***************************************************************************)
(* The release gate of a pull request (.github/scripts/release_gate.py and *)
(* workflows/release-gate.yaml): the only required check that holds a      *)
(* release PR back. Each run of the workflow belongs to a commit, reads    *)
(* the commit's gate-check statuses and files a check run; what counts for *)
(* the merge is the newest run on the head commit.                         *)
(*                                                                         *)
(* /gate-check, which posts the statuses and has the gate re-run when the  *)
(* verdict lands, is the reusable workflow that test-commands.yaml calls;  *)
(* GitHub's events, re-runs and merges are modelled from how the workflow  *)
(* uses them. Anybody with write access may post statuses too.             *)
(***************************************************************************)
EXTENDS Naturals, Sequences, FiniteSets

CONSTANTS Branches,      \* kinds of head branch: "bump-version" or another
          MaxCommits,    \* bound on the commits pushed
          MaxChecks,     \* bound on the /gate-check comments
          MaxPosts,      \* bound on the statuses others post
          MaxEvents      \* bound on label changes and reopenings

ASSUME GateBounds == /\ MaxCommits \in Nat \ {0} /\ MaxChecks \in Nat
                     /\ MaxPosts \in Nat /\ MaxEvents \in Nat

Bot == "github-actions[bot]"
Creators == {Bot, "someone"}
States == {"pending", "success", "failure"}

Commits == 1..MaxCommits

VARIABLES branch,     \* the head branch
          labelled,   \* the PR carries the `release` label
          head,       \* its head commit
          statuses,   \* statuses[commit], newest first
          runs,       \* runs of the gate, in the order GitHub created them
          wanted,     \* commits whose verdict landed: their gate is to re-run
          queued,     \* the PR is in the merge queue
          merged,
          events

vars == <<branch, labelled, head, statuses, runs, wanted, queued, merged, events>>

----------------------------------------------------------------------------
(* release_gate.py *)

\* is_release_pr, on the labels the event's payload carries.
IsReleasePR(r) == branch = "bump-version" \/ r.labelled

\* Mutant: whoever posted it, a status is a verdict.
ReadsState_AnyCreator(lines, state) == lines # <<>> /\ lines[1].state = state

\* Mutant: the statuses are taken to be listed oldest first.
ReadsState_Oldest(lines, state) ==
    \E i \in DOMAIN lines :
       /\ lines[i] = [state |-> state, creator |-> Bot]
       /\ \A j \in DOMAIN lines : j > i => lines[j].creator # Bot

\* read_state: the first line whose creator is the bot is the verdict.
ReadsState(lines, state) ==
    \E i \in DOMAIN lines :
       /\ lines[i] = [state |-> state, creator |-> Bot]
       /\ \A j \in DOMAIN lines : j < i => lines[j].creator # Bot

\* Mutant: a gate that is still running is neither red nor green.
Decide_Neutral(release, lines) ==
    IF release /\ ReadsState(lines, "pending") THEN "neutral"
    ELSE IF release /\ ~ReadsState(lines, "success") THEN "red" ELSE "green"

\* No status, or none that could be read, fails.
Decide(release, lines) ==
    IF release /\ ~ReadsState(lines, "success") THEN "red" ELSE "green"

----------------------------------------------------------------------------
(* release-gate.yaml *)

Running(r) == r.step \in {"queued", "fetched"}

NewRun(event) == [commit |-> head, event |-> event, labelled |-> labelled,
                  step |-> "queued", lines |-> <<>>, whole |-> FALSE]

\* What a run read is forgotten with it.
Over(r, conclusion) == [r EXCEPT !.step = conclusion, !.lines = <<>>]

\* The concurrency group of `opened` and `synchronize`, and whom a run that
\* starts for a `synchronize` retires in it.
InGroup(r) == r.event \in {"opened", "synchronize"}

Retire(rs, event) ==
    [i \in DOMAIN rs |->
        IF event = "synchronize" /\ InGroup(rs[i]) /\ Running(rs[i])
        THEN Over(rs[i], "cancelled") ELSE rs[i]]

\* Run i is the newest of its commit and speaks for it.
Speaks(i, c) == /\ runs[i].commit = c
                /\ \A j \in DOMAIN runs : j > i => runs[j].commit # c

Green(c) == \E i \in DOMAIN runs : Speaks(i, c) /\ runs[i].step = "green"

\* `gh api --paginate`, newest first: it may fail between two pages, and the
\* step goes on with what was written.
Fetch(i) ==
    /\ runs[i].step = "queued"
    /\ LET posted == statuses[runs[i].commit]
       IN  \E n \in 0..Len(posted) :
              runs' = [runs EXCEPT ![i].step = "fetched",
                                   ![i].lines = SubSeq(posted, 1, n),
                                   ![i].whole = (n = Len(posted))]
    /\ UNCHANGED <<branch, labelled, head, statuses, wanted, queued, merged, events>>

Verify(i) ==
    /\ runs[i].step = "fetched"
    /\ runs' = [runs EXCEPT ![i] = Over(@, Decide(IsReleasePR(@), @.lines))]
    /\ UNCHANGED <<branch, labelled, head, statuses, wanted, queued, merged, events>>

\* timeout-minutes: 2, or the runner is lost.
Dies(i) ==
    /\ Running(runs[i])
    /\ runs' = [runs EXCEPT ![i] = Over(@, "cancelled")]
    /\ UNCHANGED <<branch, labelled, head, statuses, wanted, queued, merged, events>>

\* A re-run keeps the payload of the event that created the run.
Rerun(c) ==
    /\ c \in wanted
    /\ \E i \in DOMAIN runs :
          /\ Speaks(i, c) /\ ~Running(runs[i])
          /\ runs' = [Retire(runs, runs[i].event) EXCEPT
                         ![i] = [runs[i] EXCEPT !.step = "queued", !.whole = FALSE]]
    /\ wanted' = wanted \ {c}
    /\ UNCHANGED <<branch, labelled, head, statuses, queued, merged, events>>

----------------------------------------------------------------------------
(* The pull request *)

Push ==
    /\ ~merged /\ head < MaxCommits
    /\ head' = head + 1
    /\ runs' = Append(Retire(runs, "synchronize"),
                      [NewRun("synchronize") EXCEPT !.commit = head + 1])
    /\ queued' = FALSE
    /\ UNCHANGED <<branch, labelled, statuses, wanted, merged, events>>

Reopen ==
    /\ ~merged /\ events < MaxEvents
    /\ events' = events + 1
    /\ runs' = Append(runs, NewRun("reopened"))
    /\ queued' = FALSE
    /\ UNCHANGED <<branch, labelled, head, statuses, wanted, merged>>

\* No workflow is triggered by a label.
Label ==
    /\ ~merged /\ events < MaxEvents
    /\ events' = events + 1
    /\ labelled' = ~labelled
    /\ UNCHANGED <<branch, head, statuses, runs, wanted, queued, merged>>

Enqueue ==
    /\ ~merged /\ Green(head)
    /\ queued' = TRUE
    /\ UNCHANGED <<branch, labelled, head, statuses, runs, wanted, merged, events>>

\* On the queue's own event the job is skipped, which passes.
Merge ==
    /\ queued /\ ~merged
    /\ merged' = TRUE
    /\ UNCHANGED <<branch, labelled, head, statuses, runs, wanted, queued, events>>

----------------------------------------------------------------------------
(* gate-check statuses *)

Post(c, state, creator) ==
    statuses' = [statuses EXCEPT
                    ![c] = <<[state |-> state, creator |-> creator]>> \o @]

\* How many statuses there are of a kind.
Posted(kind) ==
    Cardinality({p \in UNION {{c} \X DOMAIN statuses[c] : c \in Commits} :
                    statuses[p[1]][p[2]] \in kind})

\* What the bot says of a commit now: the newest of what it posted.
Verdict(c, state) ==
    LET said == {i \in DOMAIN statuses[c] : statuses[c][i].creator = Bot}
    IN  \E i \in said : /\ \A j \in said : i <= j
                        /\ statuses[c][i].state = state

\* `/gate-check` on a bump PR, with or without `force`.
GateCheck ==
    /\ branch = "bump-version" /\ ~merged
    /\ ~Verdict(head, "pending")
    /\ Posted({[state |-> "pending", creator |-> Bot]}) < MaxChecks
    /\ Post(head, "pending", Bot)
    /\ UNCHANGED <<branch, labelled, head, runs, wanted, queued, merged, events>>

\* The last of the gated workflows has finished on c.
VerdictLands(c) ==
    /\ Verdict(c, "pending")
    /\ \E state \in {"success", "failure"} : Post(c, state, Bot)
    /\ wanted' = wanted \cup {c}
    /\ UNCHANGED <<branch, labelled, head, runs, queued, merged, events>>

SomeonePosts(c) ==
    /\ Posted([state : States, creator : {"someone"}]) < MaxPosts
    /\ \E state \in {"success", "failure"} : Post(c, state, "someone")
    /\ UNCHANGED <<branch, labelled, head, runs, wanted, queued, merged, events>>

Init ==
    /\ branch \in Branches /\ labelled \in BOOLEAN
    /\ head = 1 /\ statuses = [c \in Commits |-> <<>>]
    /\ runs = <<NewRun("opened")>>
    /\ wanted = {} /\ queued = FALSE /\ merged = FALSE /\ events = 0

Next == \/ \E i \in DOMAIN runs : Fetch(i) \/ Verify(i) \/ Dies(i)
        \/ \E c \in Commits : Rerun(c) \/ VerdictLands(c) \/ SomeonePosts(c)
        \/ Push \/ Reopen \/ Label \/ Enqueue \/ Merge \/ GateCheck

Spec == Init /\ [][Next]_vars

----------------------------------------------------------------------------
(* Properties *)

Statuses == [state : States, creator : Creators]

Runs == [commit   : Commits,
         event    : {"opened", "synchronize", "reopened"},
         labelled : BOOLEAN,
         step     : {"queued", "fetched", "green", "red", "cancelled"},
         lines    : Seq(Statuses),
         whole    : BOOLEAN]

TypeOK ==
    /\ branch \in Branches /\ labelled \in BOOLEAN /\ head \in Commits
    /\ statuses \in [Commits -> Seq(Statuses)]
    /\ runs \in Seq(Runs)
    /\ wanted \subseteq Commits
    /\ queued \in BOOLEAN /\ merged \in BOOLEAN /\ events \in 0..MaxEvents

Passed(c) == \E i \in DOMAIN statuses[c] :
                statuses[c][i] = [state |-> "success", creator |-> Bot]

(***************************************************************************)
(* FND-3947: a bump PR merges only if its release gate has passed on the   *)
(* commit that is merged, by the word of the bot alone, whatever lookups   *)
(* fail, runs are cancelled or re-run, and events come in between.         *)
(***************************************************************************)
BumpPassedItsGate == merged /\ branch = "bump-version" => Passed(head)

(***************************************************************************)
(* When no verdict is on its way to the gate, the check on the head says   *)
(* what the newest verdict says: it is never green by a verdict that was   *)
(* overturned, and is green if the verdict is and its run was not cut      *)
(* short.                                                                  *)
(***************************************************************************)
SettledGateIsRight ==
    \A i \in DOMAIN runs :
       LET r == runs[i]
           pass == IsReleasePR(r) => Verdict(head, "success")
       IN  /\ Speaks(i, head) /\ ~Running(r)
           /\ head \notin wanted /\ ~Verdict(head, "pending")
           => /\ r.step = "green" => pass
              /\ pass /\ r.whole /\ r.step # "cancelled" => r.step = "green"
=============================================================================
