------------------------------- MODULE RfdUpdate -------------------------------
(***************************************************************************)
(* RfdUpdater: what the jobs of one RFD do once the processor runs them.   *)
(* A run reads the document at the commit of its job, stores a revision of *)
(* it, runs the configured actions on its own copy, writes the copy back   *)
(* to the repository and stores it again.  Runs of different jobs, and two *)
(* runs of one job, overlap (JobQueue says when they start); users push,   *)
(* merge and open and close pull requests meanwhile, and the API changes   *)
(* the visibility of the RFD.                                              *)
(*                                                                         *)
(* GitHub is external.  A document is its text, its state attribute and    *)
(* the pull request its discussion attribute links to (0: none).  Commits  *)
(* are numbered by their date, and each of them changes the RFD.           *)
(***************************************************************************)
EXTENDS Naturals, Sequences, FiniteSets

CONSTANTS
    Main, Own,     \* the default branch, and the branch named after the RFD
    Copies,        \* the runs one job may have
    Actions,       \* ctx.processor.actions, in the order configured
    Mode,          \* "read" or "write"
    Docs,          \* the documents users may push to the branch of the RFD
    Known,         \* whether the RFD and its first commit are stored already
    Faulty,        \* the commits whose runs may fail, or be lost with the process
    UserPulls,     \* whether users open and close pull requests
    Visibilities,  \* what the API may set the visibility to
    MaxPush,       \* bound: commits after which users push no more
    MaxPull,       \* bound: pull requests after which users open no more
    MaxRunning     \* bound: runs at a time

\* The actions that change what is modelled here.
ActionName == {"CreatePullRequest", "UpdateDiscussionUrl",
               "EnsureRfdWithPullRequestIsInValidState"}
Visibility == {"private", "public"}
State == {"prediscussion", "ideation", "discussion", "published"}
Doc == [text : Nat, state : State, url : Nat]

ASSUME UpdateAssumption ==
    /\ Main # Own
    /\ Actions \in Seq(ActionName)
    /\ Mode \in {"read", "write"}
    /\ Docs \subseteq Doc
    /\ Faulty \subseteq Nat
    /\ Known \in BOOLEAN /\ UserPulls \in BOOLEAN
    /\ Visibilities \subseteq Visibility
    /\ MaxPush \in Nat \ {0} /\ MaxPull \in Nat /\ MaxRunning \in Nat \ {0}

VARIABLES
    commits,  \* the repository: branch, document, and the commit a run
              \* derived it from (0 for a commit of a user)
    pulls,    \* pulls[p]: whether pull request p of the branch Own is open
    rfds,     \* the rfd table: the visibility of each row with this number
    revs,     \* the rfd_revision table: row and commit to document
    run       \* the runs: what each of them keeps in memory

vars == <<commits, pulls, rfds, revs, run>>
repo == <<commits, pulls>>
tables == <<rfds, revs>>

Commits == DOMAIN commits
CommitsOf(b) == {c \in Commits : commits[c].branch = b}
HeadOf(b) == CHOOSE c \in CommitsOf(b) : \A d \in CommitsOf(b) : d <= c
OpenIn(ps) == {p \in DOMAIN ps : ps[p]}

PC == {"load", "lookup", "rfd", "revision", "pulls", "actions",
       "store_rfd", "store_revision", "ended"}

With(f, k, v) == [x \in DOMAIN f \cup {k} |-> IF x = k THEN v ELSE f[x]]

\* A run of the update of commit c: the row it found before (0: none), the row
\* and visibility it works with, its copy of the document, the pull requests it
\* saw, the next action, and whether the copy and the repository need writing.
NewRun(c) == [pc |-> "load", prev |-> 0, row |-> 0, vis |-> "private",
              doc |-> commits[c].doc, pulls |-> <<>>, next |-> 1,
              needs_update |-> FALSE, requires_source_commit |-> FALSE]

RunState == [pc : PC, prev : Nat, row : Nat, vis : Visibility, doc : Doc,
             pulls : Seq(BOOLEAN), next : Nat \ {0},
             needs_update : BOOLEAN, requires_source_commit : BOOLEAN]

TypeOK ==
    /\ commits \in Seq([branch : {Main, Own}, doc : Doc, base : Nat])
    /\ pulls \in Seq(BOOLEAN)
    /\ rfds \in Seq(Visibility)
    /\ DOMAIN revs \subseteq (DOMAIN rfds) \X Commits
    /\ \A k \in DOMAIN revs : revs[k] \in Doc
    /\ DOMAIN run \subseteq Commits \X Copies
    /\ \A t \in DOMAIN run : run[t] \in RunState

Running == {t \in DOMAIN run : run[t].pc # "ended"}

First(d) == [branch |-> Own, doc |-> d, base |-> 0]

\* Either nobody has seen the RFD yet, or its first commit is stored.
Init ==
    /\ pulls = <<>>
    /\ \E d \in Docs : commits = <<First(d)>>
    /\ IF Known
       THEN /\ rfds = <<"private">>
            /\ revs = [k \in {<<1, 1>>} |-> commits[1].doc]
            /\ run = [t \in {1} \X Copies |-> [NewRun(1) EXCEPT !.pc = "ended"]]
       ELSE rfds = <<>> /\ revs = <<>> /\ run = <<>>

-----------------------------------------------------------------------------
(* Users, GitHub and the API (external, but for the visibility). *)

Commit(b, d, base) == commits' = Append(commits, [branch |-> b, doc |-> d, base |-> base])

Push(d) ==
    /\ Len(commits) < MaxPush
    /\ Commit(Own, d, 0)
    /\ UNCHANGED <<pulls, tables, run>>

\* Merging the branch puts its document on the default branch and closes the
\* pull request.
Merge ==
    /\ UserPulls
    /\ Len(commits) < MaxPush
    /\ OpenIn(pulls) # {}
    /\ Commit(Main, commits[HeadOf(Own)].doc, 0)
    /\ pulls' = [p \in DOMAIN pulls |-> FALSE]
    /\ UNCHANGED <<tables, run>>

\* GitHub has at most one open pull request from a branch to the default one.
PullOpens == OpenIn(pulls) = {} /\ pulls' = Append(pulls, TRUE)

OpenPull ==
    /\ UserPulls
    /\ Len(pulls) < MaxPull
    /\ PullOpens
    /\ UNCHANGED <<commits, tables, run>>

ClosePull ==
    /\ UserPulls
    /\ OpenIn(pulls) # {}
    /\ pulls' = [p \in DOMAIN pulls |-> FALSE]
    /\ UNCHANGED <<commits, tables, run>>

\* rfd-api: the row is read and written back with the new visibility, which is
\* all that a run may have changed in it.
update_rfd_visibility(v) ==
    /\ \E r \in DOMAIN rfds : rfds' = [rfds EXCEPT ![r] = v]
    /\ UNCHANGED <<repo, revs, run>>

-----------------------------------------------------------------------------
(* run_update. *)

\* The task of a job enters the update; every commit has a job.
Start(c, copy) ==
    /\ <<c, copy>> \notin DOMAIN run
    /\ Cardinality(Running) < MaxRunning
    /\ run' = With(run, <<c, copy>>, NewRun(c))
    /\ UNCHANGED <<repo, tables>>

Goto(t, pc) == run' = [run EXCEPT ![t].pc = pc]

HasRevision(r) == \E k \in DOMAIN revs : k[1] = r

\* PersistedRfd::load: the row that was there before, when it has a revision.
\* Of several rows any may come first.
Load(t) ==
    /\ run[t].pc = "load"
    /\ \E prev \in {IF HasRevision(r) THEN r ELSE 0 : r \in DOMAIN rfds}
                     \cup (IF rfds = <<>> THEN {0} ELSE {}) :
          run' = [run EXCEPT ![t].pc = "lookup", ![t].prev = prev]
    /\ UNCHANGED <<repo, tables>>

\* RemoteRfd::upsert first reads the row and its visibility; without one it
\* makes up an id and is private.
Lookup(t) ==
    /\ run[t].pc = "lookup"
    /\ IF rfds = <<>> THEN Goto(t, "rfd")
       ELSE \E r \in DOMAIN rfds :
               run' = [run EXCEPT ![t].pc = "rfd", ![t].row = r, ![t].vis = rfds[r]]
    /\ UNCHANGED <<repo, tables>>

\* Mutant of UpsertRfd: always makes up an id.
UpsertRfdAlwaysNew(t) ==
    /\ run[t].pc = "rfd"
    /\ rfds' = Append(rfds, "private")
    /\ run' = [run EXCEPT ![t].pc = "revision", ![t].row = Len(rfds) + 1]
    /\ UNCHANGED <<repo, revs>>

\* Then it writes the row: a new one, or the old one with what it read.
UpsertRfd(t) ==
    /\ run[t].pc = "rfd"
    /\ IF run[t].row = 0
       THEN /\ rfds' = Append(rfds, "private")
            /\ run' = [run EXCEPT ![t].pc = "revision", ![t].row = Len(rfds) + 1]
       ELSE /\ rfds' = [rfds EXCEPT ![run[t].row] = run[t].vis]
            /\ Goto(t, "revision")
    /\ UNCHANGED <<repo, revs>>

\* Mutants of UpsertRevision: files the revision under the row loaded first;
\* takes any revision of the RFD for the one to update.
UpsertRevisionOfLoaded(t) ==
    /\ run[t].pc = "revision"
    /\ revs' = With(revs, <<run[t].prev, t[1]>>, run[t].doc)
    /\ Goto(t, "pulls")
    /\ UNCHANGED <<repo, rfds>>
UpsertRevisionReuses(t) ==
    /\ run[t].pc = "revision"
    /\ LET old == {k \in DOMAIN revs : k[1] = run[t].row} IN
       \E k \in IF old = {} THEN {<<run[t].row, t[1]>>} ELSE old :
           revs' = With(revs, k, run[t].doc)
    /\ Goto(t, "pulls")
    /\ UNCHANGED <<repo, rfds>>

\* Then the revision.  The revision of the same commit is looked for by the
\* hash of the file, so it is never found: the unique index (rfd_id, commit_sha)
\* rejects the insert, and the run ends.  A run whose RFD is not the one loaded
\* first ends as well, after it stored its revision.
UpsertRevision(t) ==
    /\ run[t].pc = "revision"
    /\ LET k == <<run[t].row, t[1]>> IN
       \/ /\ k \in DOMAIN revs
          /\ Goto(t, "ended")
          /\ UNCHANGED revs
       \/ /\ k \notin DOMAIN revs
          /\ revs' = With(revs, k, run[t].doc)
          /\ Goto(t, IF run[t].prev \in {0, run[t].row} THEN "pulls" ELSE "ended")
    /\ UNCHANGED <<repo, rfds>>

\* find_pull_requests: all of the branch, open or not; none for the default one.
FindPullRequests(t) ==
    /\ run[t].pc = "pulls"
    /\ run' = [run EXCEPT ![t].pc = "actions",
                          ![t].pulls = IF commits[t[1]].branch = Main THEN <<>> ELSE pulls]
    /\ UNCHANGED <<repo, tables>>

-----------------------------------------------------------------------------
(* The actions. *)

IsNext(t, name) ==
    /\ run[t].pc = "actions"
    /\ run[t].next <= Len(Actions)
    /\ Actions[run[t].next] = name

Skipped(t) == [run EXCEPT ![t].next = @ + 1]

\* The document becomes another one, to be stored and committed.
Modified(t, d) ==
    [run EXCEPT ![t].next = @ + 1, ![t].doc = d,
                ![t].needs_update = TRUE, ![t].requires_source_commit = TRUE]

\* A pull request is wanted when the run saw none, not even a closed one.
WantsPullRequest(t) ==
    /\ commits[t[1]].branch # Main
    /\ run[t].doc.state = "discussion"
    /\ run[t].pulls = <<>>
    /\ Mode = "write"


\* The new one is in the list for the actions that follow.  That GitHub rejects
\* a second open one is not fatal.
CreatePullRequest(t) ==
    /\ IsNext(t, "CreatePullRequest")
    /\ \/ /\ WantsPullRequest(t)
          /\ PullOpens
          /\ run' = [Skipped(t) EXCEPT ![t].pulls = pulls']
       \/ /\ WantsPullRequest(t) => OpenIn(pulls) # {}
          /\ run' = Skipped(t)
          /\ UNCHANGED pulls
    /\ UNCHANGED <<commits, tables>>

\* With exactly one open pull request, the document links to it.
UpdateDiscussionUrl(t) ==
    /\ IsNext(t, "UpdateDiscussionUrl")
    /\ LET open == OpenIn(run[t].pulls)
           doc == run[t].doc
       IN  IF Cardinality(open) = 1 /\ doc.url \notin open
           THEN \E p \in open : run' = Modified(t, [doc EXCEPT !.url = p])
           ELSE run' = Skipped(t)
    /\ UNCHANGED <<repo, tables>>

\* With exactly one open pull request, the document is in a state that goes
\* with it; "prediscussion" stands for the states that do not.
EnsureRfdWithPullRequestIsInValidState(t) ==
    /\ IsNext(t, "EnsureRfdWithPullRequestIsInValidState")
    /\ LET doc == run[t].doc
       IN  IF Cardinality(OpenIn(run[t].pulls)) = 1 /\ doc.state = "prediscussion"
           THEN run' = Modified(t, [doc EXCEPT !.state = "discussion"])
           ELSE run' = Skipped(t)
    /\ UNCHANGED <<repo, tables>>

-----------------------------------------------------------------------------
(* After the actions. *)

\* Mutants of CommitSource: writes over whatever the head of the branch is;
\* goes on when GitHub rejects the commit.
CommitSourceForced(t) ==
    /\ run[t].pc = "actions" /\ run[t].next > Len(Actions)
    /\ LET c == commits[t[1]]
           writes == /\ run[t].requires_source_commit /\ Mode = "write"
                     /\ run[t].doc # c.doc
       IN  /\ IF writes THEN Commit(c.branch, run[t].doc, t[1]) ELSE UNCHANGED commits
           /\ Goto(t, IF run[t].needs_update THEN "store_rfd" ELSE "ended")
    /\ UNCHANGED <<pulls, tables>>
CommitSourceIgnoresError(t) ==
    /\ run[t].pc = "actions" /\ run[t].next > Len(Actions)
    /\ LET c == commits[t[1]]
           writes == /\ run[t].requires_source_commit /\ Mode = "write"
                     /\ run[t].doc # c.doc
           accepted == commits[HeadOf(c.branch)].doc = c.doc
       IN  /\ IF writes /\ accepted THEN Commit(c.branch, run[t].doc, t[1])
              ELSE UNCHANGED commits
           /\ Goto(t, IF run[t].needs_update THEN "store_rfd" ELSE "ended")
    /\ UNCHANGED <<pulls, tables>>

\* GitHubRfdLocation::upsert: nothing to do when the document at the commit of
\* the run is the same.  GitHub takes a new file in place of the one the run
\* read at its commit, and rejects it when the head of the branch has another.
CommitSource(t) ==
    /\ run[t].pc = "actions" /\ run[t].next > Len(Actions)
    /\ LET c == commits[t[1]]
           writes == /\ run[t].requires_source_commit /\ Mode = "write"
                     /\ run[t].doc # c.doc
           accepted == commits[HeadOf(c.branch)].doc = c.doc
       IN  /\ IF writes /\ accepted THEN Commit(c.branch, run[t].doc, t[1])
              ELSE UNCHANGED commits
           /\ Goto(t, IF run[t].needs_update /\ (writes => accepted)
                      THEN "store_rfd" ELSE "ended")
    /\ UNCHANGED <<pulls, tables>>

\* PersistedRfd::upsert stores the row as it was read or written before, and
\* then the revision.
StoreRfd(t) ==
    /\ run[t].pc = "store_rfd"
    /\ rfds' = [rfds EXCEPT ![run[t].row] = run[t].vis]
    /\ Goto(t, "store_revision")
    /\ UNCHANGED <<repo, revs>>

StoreRevision(t) ==
    /\ run[t].pc = "store_revision"
    /\ revs' = [revs EXCEPT ![<<run[t].row, t[1]>>] = run[t].doc]
    /\ Goto(t, "ended")
    /\ UNCHANGED <<repo, rfds>>

\* A call to GitHub or the database fails, the document has no title or state,
\* or the process is gone.
Fail(t) ==
    /\ t[1] \in Faulty
    /\ Goto(t, "ended")
    /\ UNCHANGED <<repo, tables>>

-----------------------------------------------------------------------------
RunStep(t) ==
    \/ Load(t) \/ Lookup(t) \/ UpsertRfd(t) \/ UpsertRevision(t)
    \/ FindPullRequests(t)
    \/ CreatePullRequest(t) \/ UpdateDiscussionUrl(t)
    \/ EnsureRfdWithPullRequestIsInValidState(t)
    \/ CommitSource(t) \/ StoreRfd(t) \/ StoreRevision(t)

UserStep ==
    \/ \E d \in Docs : Push(d)
    \/ Merge \/ OpenPull \/ ClosePull
    \/ \E v \in Visibilities : update_rfd_visibility(v)

Next ==
    \/ UserStep
    \/ \E c \in Commits, copy \in Copies : Start(c, copy)
    \/ \E t \in Running : RunStep(t) \/ Fail(t)

Spec == Init /\ [][Next]_vars

\* JobQueue starts a run of every job, and the runtime schedules every run.
\* Nothing is assumed of users.
Fairness ==
    /\ WF_vars(\E c \in Commits, copy \in Copies : Start(c, copy))
    /\ WF_vars(\E t \in Running : RunStep(t))

FairSpec == Spec /\ Fairness

-----------------------------------------------------------------------------
(* Properties. *)

\* The commit that was the head of the branch of commit n before it.
Before(n) == CHOOSE m \in CommitsOf(commits[n].branch) :
                m < n /\ \A k \in CommitsOf(commits[n].branch) : k < n => k <= m

\* A commit of the processor never takes back what a user wrote: it keeps the
\* text of the commit it is put on and any state that goes with a pull request,
\* however old the job is that made it.
NoEditIsLost ==
    \A n \in Commits :
        commits[n].base # 0 =>
            LET old == commits[Before(n)].doc
                new == commits[n].doc
            IN  /\ new.text = old.text
                /\ new.state = old.state \/ old.state = "prediscussion"

\* A stored revision is what the repository has at its commit or what the
\* processor committed in place of it; nothing that GitHub rejected is stored.
RevisionIsInRepository ==
    \A k \in DOMAIN revs :
        \/ revs[k] = commits[k[2]].doc
        \/ \E n \in Commits : commits[n].base = k[2] /\ commits[n].doc = revs[k]

\* Runs never end up with two rows for one RFD when the RFD was known.
\* mod.rs: "Ensure that the persisted revision ... is referencing the same RFD
\* as the previous revision".
RevisionsShareRfd == \A k, l \in DOMAIN revs : k[1] = l[1]

\* Once users are quiet, the newest commit is stored as it is in the repository,
\* so that the latest revision by date is the current document, whatever became
\* of the runs of older commits.
CurrentDocumentIsStored ==
    <>[](Len(commits) \notin Faulty =>
            \A r \in DOMAIN rfds :
                /\ <<r, Len(commits)>> \in DOMAIN revs
                /\ revs[<<r, Len(commits)>>] = commits[Len(commits)].doc)


=============================================================================
