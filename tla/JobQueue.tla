------------------------------- MODULE JobQueue -------------------------------
(***************************************************************************)
(* The update queue of the RFD service: the job table that rfd-api (the    *)
(* webhook handler and the content endpoints) and rfd-processor (the       *)
(* scanner) fill, and that the processor loop of rfd-processor drains.     *)
(*                                                                         *)
(* GitHub is external: branches with a head commit, one push per commit    *)
(* and one webhook delivery per push.  Commits are numbered in the order   *)
(* they are made.  What processing a job does to the RFD it names is the   *)
(* subject of RfdUpdate; here a job that ran to completion is "applied".   *)
(***************************************************************************)
EXTENDS Naturals, Sequences, FiniteSets

CONSTANTS
    Rfd,          \* the RFD numbers; the branch of an RFD is named by its number
    Main,         \* the default branch of the repository
    BatchSize,    \* ctx.processor.batch_size
    Faults,       \* the kinds of fault that may occur
    ApiBranches,  \* the branches on which the API commits edits
    Pushes,       \* the pushes users may make: a branch and the RFD files changed
    Deletable,    \* the RFD branches users may delete
    MaxCommit,    \* bound: commits pushed to the repository
    MaxJob,       \* bound: rows of the job table
    MaxTask       \* bound: tasks that one job has at a time

Branch == Rfd \cup {Main}
Push == [branch : Branch, files : Seq(Rfd)]
Commit == 1..MaxCommit
Id == 1..MaxJob

\* "db": a statement fails; "github": an update fails on the way; "crash": the
\* processor exits; "bare": the default branch may lack the directory of RFDs.
FaultKind == {"db", "github", "crash", "bare"}

ASSUME QueueAssumption ==
    /\ Main \notin Rfd
    /\ BatchSize \in Nat \ {0}
    /\ Faults \subseteq FaultKind
    /\ ApiBranches \subseteq Branch
    /\ Pushes \subseteq Push
    /\ Deletable \subseteq Rfd
    /\ MaxCommit \in Nat /\ MaxJob \in Nat
    /\ MaxTask \in Nat

VARIABLES
    tip,        \* tip[b]: the head commit of branch b, 0 when b does not exist (or,
                \* for the default branch, when it is older than the model)
    directory,  \* whether the default branch has the directory of RFDs
    onDefault,  \* the RFDs that have a directory of their own in it
    pushes,     \* pushes[c]: the branch and the RFD files commit c changed
    hook,       \* hook[c]: the webhook delivery of commit c
    job,        \* the job table, in the order of creation; ids are positions
    scan,       \* the scanner: what it fetched and has not queued yet
    apiJob,     \* jobs the API has still to register for commits it made
    spawned,    \* spawned[j]: tasks of job j that have not called start
    running,    \* running[j]: tasks of job j in RfdUpdater::handle
    finished,   \* finished[j]: tasks of job j about to call complete
    applied     \* jobs whose update ran to completion

github == <<tip, directory, onDefault, pushes>>
tasks == <<spawned, running, finished>>
vars == <<tip, directory, onDefault, pushes, hook, job, scan, apiJob,
          spawned, running, finished, applied>>

Delivery == [pc : {"sent", "handling", "accepted", "failed"},
             todo : Seq(Rfd)]
NewJob == [sha : Commit, rfd : Rfd, branch : Branch]
Row == [sha : Commit, rfd : Rfd, branch : Branch,
        started : BOOLEAN, processed : BOOLEAN]

Directories == IF "bare" \in Faults THEN BOOLEAN ELSE {TRUE}

\* An RFD on the default branch has brought the directory, and a head, with it.
RepositoryOK ==
    /\ tip \in [Branch -> 0..MaxCommit]
    /\ directory \in Directories
    /\ onDefault \subseteq Rfd
    /\ onDefault # {} => directory /\ tip[Main] # 0

TypeOK ==
    /\ RepositoryOK
    /\ pushes \in Seq(Push)
    /\ hook \in Seq(Delivery) /\ Len(hook) = Len(pushes)
    /\ Len(pushes) <= MaxCommit
    /\ job \in Seq(Row) /\ Len(job) <= MaxJob
    /\ scan \in [pc : {"idle", "branches", "insert"}, found : SUBSET NewJob]
    /\ apiJob \subseteq NewJob
    /\ spawned \in [Id -> Nat]
    /\ running \in [Id -> Nat]
    /\ finished \in [Id -> Nat]
    /\ applied \subseteq Id

Idle == [pc |-> "idle", found |-> {}]
NoTasks == [j \in Id |-> 0]

Init ==
    /\ tip = [b \in Branch |-> 0]
    /\ directory \in Directories
    /\ onDefault = {}
    /\ pushes = <<>>
    /\ hook = <<>>
    /\ job = <<>>
    /\ scan = Idle
    /\ apiJob = {}
    /\ spawned = NoTasks
    /\ running = NoTasks
    /\ finished = NoTasks
    /\ applied = {}

-----------------------------------------------------------------------------
(* The job table (JobStore). *)

Rows == DOMAIN job

Started == {j \in Rows : job[j].started}
Processed == {j \in Rows : job[j].processed}

HasRow(sha, rfd) == \E j \in Rows : job[j].sha = sha /\ job[j].rfd = rfd

\* JobStore::upsert is a plain insert; UNIQUE (sha, rfd) rejects a second row
\* for the same RFD at the same commit.
Insertable(nj) == ~HasRow(nj.sha, nj.rfd) /\ Len(job) < MaxJob

Insert(nj) ==
    job' = Append(job, [sha |-> nj.sha, rfd |-> nj.rfd, branch |-> nj.branch,
                        started |-> FALSE, processed |-> FALSE])

\* JobStore::list with processed = false and started = false.
Pending == {j \in Rows : ~job[j].started /\ ~job[j].processed}

\* Mutants of Batch: newest first; a page that starts at the second job.
BatchNewestFirst == {j \in Pending : Cardinality({i \in Pending : i > j}) < BatchSize}
BatchFromSecond ==
    {j \in Pending : Cardinality({i \in Pending : i < j}) \in 1..BatchSize}

\* The page of that list: the last .order() of the query is the one that
\* counts, so the oldest rows by creation come first.
Batch == {j \in Pending : Cardinality({i \in Pending : i < j}) < BatchSize}

-----------------------------------------------------------------------------
(* GitHub (external). *)

\* The RFDs a push schedules: every changed file on the default branch, and
\* only the files of the RFD the branch is named after elsewhere.  An RFD with
\* several changed files is named several times.
affected_rfds(p) ==
    IF p.branch = Main THEN p.files
    ELSE [i \in 1..Cardinality({i \in DOMAIN p.files : p.files[i] = p.branch}) |->
            p.branch]

SeqRange(s) == {s[i] : i \in DOMAIN s}

CommitTo(b, files) ==
    LET c == Len(pushes) + 1 IN
    /\ c <= MaxCommit
    /\ tip' = [tip EXCEPT ![b] = c]
    /\ onDefault' = IF b = Main THEN onDefault \cup SeqRange(files) ELSE onDefault
    /\ directory' = (directory \/ onDefault' # {})
    /\ pushes' = Append(pushes, [branch |-> b, files |-> files])
    /\ hook' = Append(hook, [pc |-> "sent", todo |-> <<>>])

PushCommit(p) ==
    /\ CommitTo(p.branch, p.files)
    /\ UNCHANGED <<job, scan, apiJob, tasks, applied>>

\* A branch is removed after its pull request is merged or abandoned.
DeleteBranch(r) ==
    /\ tip[r] # 0
    /\ tip' = [tip EXCEPT ![r] = 0]
    /\ UNCHANGED <<directory, onDefault, pushes, hook, job, scan, apiJob, tasks, applied>>

\* A delivery may stay "sent" for ever: nothing obliges it to arrive.  One that
\* was answered can be sent again from GitHub.
Redeliver(c) ==
    /\ hook[c].pc \in {"accepted", "failed"}
    /\ hook' = [hook EXCEPT ![c].pc = "sent"]
    /\ UNCHANGED <<github, job, scan, apiJob, tasks, applied>>

-----------------------------------------------------------------------------
(* rfd-api: github_webhook and commit_rfd_document. *)

\* The handler is done, and answers 202, once every job is registered.
Handling(todo) == [pc |-> IF todo = <<>> THEN "accepted" ELSE "handling",
                   todo |-> todo]

HookReceive(c) ==
    /\ hook[c].pc = "sent"
    /\ hook' = [hook EXCEPT ![c] = Handling(affected_rfds(pushes[c]))]
    /\ UNCHANGED <<github, job, scan, apiJob, tasks, applied>>

\* create_jobs: the job of RFD r in the delivery of commit c.
HookJob(c, r) == [sha |-> c, rfd |-> r, branch |-> pushes[c].branch]

HookRegister(c) ==
    /\ hook[c].pc = "handling"
    /\ LET nj == HookJob(c, Head(hook[c].todo)) IN
          Insertable(nj) /\ Insert(nj)
    /\ hook' = [hook EXCEPT ![c] = Handling(Tail(@.todo))]
    /\ UNCHANGED <<github, scan, apiJob, tasks, applied>>

\* Mutant of HookAbort: skips the job it cannot register.
HookAbortSkips(c) ==
    /\ hook[c].pc = "handling"
    /\ HasRow(c, Head(hook[c].todo)) \/ "db" \in Faults
    /\ hook' = [hook EXCEPT ![c] = Handling(Tail(@.todo))]
    /\ UNCHANGED <<github, job, scan, apiJob, tasks, applied>>

\* The first job that cannot be registered ends the handler with an error;
\* the jobs behind it are not registered.
HookAbort(c) ==
    /\ hook[c].pc = "handling"
    /\ HasRow(c, Head(hook[c].todo)) \/ "db" \in Faults
    /\ hook' = [hook EXCEPT ![c] = [pc |-> "failed", todo |-> <<>>]]
    /\ UNCHANGED <<github, job, scan, apiJob, tasks, applied>>

\* The latest stored revision of RFD r: the newest commit whose job ran.
IsLatestRevision(r, c) ==
    /\ \E j \in applied : job[j].rfd = r /\ job[j].sha = c
    /\ \A j \in applied : job[j].rfd = r => job[j].sha <= c

\* An edit through the API is committed to the branch whose head is the latest
\* revision.  The job it then registers names the RFD's own branch, whatever
\* branch the commit went to.
ApiCommit(r, b) ==
    /\ b \in ApiBranches
    /\ tip[b] # 0
    /\ IsLatestRevision(r, tip[b])
    /\ CommitTo(b, <<r>>)
    /\ apiJob' = apiJob \cup {[sha |-> Len(pushes) + 1, rfd |-> r, branch |-> r]}
    /\ UNCHANGED <<job, scan, tasks, applied>>

\* An error of register_job is logged and ignored.
ApiRegister(nj) ==
    /\ nj \in apiJob
    /\ apiJob' = apiJob \ {nj}
    /\ \/ Insertable(nj) /\ Insert(nj)
       \/ (HasRow(nj.sha, nj.rfd) \/ "db" \in Faults) /\ UNCHANGED job
    /\ UNCHANGED <<github, hook, scan, tasks, applied>>

-----------------------------------------------------------------------------
(* rfd-processor: scanner. *)

\* get_rfd_sync_updates, first half: every RFD on the default branch, at the
\* head of the default branch.
ScanDefault ==
    /\ scan.pc = "idle"
    /\ directory
    /\ scan' = [pc |-> "branches",
                found |-> {[sha |-> tip[Main], rfd |-> r, branch |-> Main] : r \in onDefault}]
    /\ UNCHANGED <<github, hook, job, apiJob, tasks, applied>>

\* Tasks and the scan are memory only.
Exit ==
    /\ scan' = Idle
    /\ spawned' = NoTasks
    /\ running' = NoTasks
    /\ finished' = NoTasks

\* Without the directory GitHub answers 404, which is an error like any other: it
\* ends the scanner, and with it the process, before the branches are read.
ScanFails ==
    /\ scan.pc = "idle"
    /\ ~directory
    /\ Exit
    /\ UNCHANGED <<github, hook, job, apiJob, applied>>

\* The scan ends with its last update.
Inserting(found) == IF found = {} THEN Idle ELSE [pc |-> "insert", found |-> found]

\* Mutant of ScanBranches: only looks at the default branch.
ScanBranchesNone ==
    /\ scan.pc = "branches"
    /\ scan' = Inserting(scan.found)
    /\ UNCHANGED <<github, hook, job, apiJob, tasks, applied>>

\* Second half, later: the branches of RFDs the first half did not find.
ScanBranches ==
    /\ scan.pc = "branches"
    /\ LET known == {u.rfd : u \in scan.found}
           branches == {r \in Rfd \ known : tip[r] # 0}
       IN  scan' = Inserting(scan.found \cup
                       {[sha |-> tip[r], rfd |-> r, branch |-> r] : r \in branches})
    /\ UNCHANGED <<github, hook, job, apiJob, tasks, applied>>

\* Mutant of ScanInsert: queues the commit the branch has by now.
ScanInsertLate(u) ==
    /\ scan.pc = "insert"
    /\ u \in scan.found
    /\ scan' = Inserting(scan.found \ {u})
    /\ LET late == [u EXCEPT !.sha = tip[u.branch]] IN
       \/ Insertable(late) /\ Insert(late)
       \/ (HasRow(late.sha, late.rfd) \/ "db" \in Faults) /\ UNCHANGED job
    /\ UNCHANGED <<github, hook, apiJob, tasks, applied>>

\* One update is queued at a time; a uniqueness conflict is expected, and any
\* other failure is logged and skipped.
ScanInsert(u) ==
    /\ scan.pc = "insert"
    /\ u \in scan.found
    /\ scan' = Inserting(scan.found \ {u})
    /\ \/ Insertable(u) /\ Insert(u)
       \/ (HasRow(u.sha, u.rfd) \/ "db" \in Faults) /\ UNCHANGED job
    /\ UNCHANGED <<github, hook, apiJob, tasks, applied>>

-----------------------------------------------------------------------------
(* rfd-processor: processor. *)

\* A tick lists a batch and spawns one task for each job in it.  Nothing
\* records that a listed job already has a task.
Tick ==
    /\ Batch # {}
    /\ \A j \in Batch : spawned[j] + running[j] + finished[j] < MaxTask
    /\ spawned' = [j \in Id |-> spawned[j] + IF j \in Batch THEN 1 ELSE 0]
    /\ UNCHANGED <<github, hook, job, scan, apiJob, running, finished, applied>>

\* Mutant of StartJob: does not mark the job.
StartJobUnmarked(j) ==
    /\ spawned[j] > 0
    /\ spawned' = [spawned EXCEPT ![j] = @ - 1]
    /\ running' = [running EXCEPT ![j] = @ + 1]
    /\ UNCHANGED <<github, hook, job, scan, apiJob, finished, applied>>

\* JobStore::start: the UPDATE only touches a job that has not started, but the
\* row is read back and returned in either case, so the task goes on.
StartJob(j) ==
    /\ spawned[j] > 0
    /\ spawned' = [spawned EXCEPT ![j] = @ - 1]
    /\ job' = [job EXCEPT ![j].started = TRUE]
    /\ running' = [running EXCEPT ![j] = @ + 1]
    /\ UNCHANGED <<github, hook, scan, apiJob, finished, applied>>

\* Mutant of StartFails: gives the job back.
StartFailsReleases(j) ==
    /\ "db" \in Faults
    /\ spawned[j] > 0
    /\ spawned' = [spawned EXCEPT ![j] = @ - 1]
    /\ job' = [job EXCEPT ![j].started = FALSE]
    /\ UNCHANGED <<github, hook, scan, apiJob, running, finished, applied>>

\* start returned an error: the UPDATE failed, or the read after it did.
StartFails(j) ==
    /\ "db" \in Faults
    /\ spawned[j] > 0
    /\ spawned' = [spawned EXCEPT ![j] = @ - 1]
    /\ job' \in {job, [job EXCEPT ![j].started = TRUE]}
    /\ UNCHANGED <<github, hook, scan, apiJob, running, finished, applied>>

\* Validate::is_valid and exists_in_remote.
Runnable(j) ==
    /\ job[j].branch \in {Main, job[j].rfd}
    /\ tip[job[j].branch] # 0

\* Mutant of Handle: an update that does not run ends the task with an error.
HandleReturnsErr(j) ==
    /\ running[j] > 0
    /\ running' = [running EXCEPT ![j] = @ - 1]
    /\ \/ /\ Runnable(j)
          /\ applied' = applied \cup {j}
          /\ finished' = [finished EXCEPT ![j] = @ + 1]
       \/ ~Runnable(j) /\ UNCHANGED <<applied, finished>>
    /\ UNCHANGED <<github, hook, job, scan, apiJob, spawned>>

\* RfdUpdater::handle returns Ok whatever happened to the update: it ran, it
\* was dropped as invalid or for a missing branch, or it failed on the way.
Handle(j) ==
    /\ running[j] > 0
    /\ running' = [running EXCEPT ![j] = @ - 1]
    /\ finished' = [finished EXCEPT ![j] = @ + 1]
    /\ \/ Runnable(j) /\ applied' = applied \cup {j}
       \/ (~Runnable(j) \/ "github" \in Faults) /\ UNCHANGED applied
    /\ UNCHANGED <<github, hook, job, scan, apiJob, spawned>>

CompleteJob(j) ==
    /\ finished[j] > 0
    /\ finished' = [finished EXCEPT ![j] = @ - 1]
    /\ \/ job' = [job EXCEPT ![j].processed = TRUE]
       \/ "db" \in Faults /\ UNCHANGED job
    /\ UNCHANGED <<github, hook, scan, apiJob, spawned, running, applied>>

\* Either loop returning (another GitHub error in the scanner, a database error in
\* list) makes main exit.  The service manager starts the process again.
Crash ==
    /\ "crash" \in Faults
    /\ Exit
    /\ UNCHANGED <<github, hook, job, apiJob, applied>>

-----------------------------------------------------------------------------
Deliveries == DOMAIN hook

GitHubStep ==
    \/ \E p \in Pushes : PushCommit(p)
    \/ \E r \in Deletable : DeleteBranch(r)
    \/ \E c \in Deliveries : Redeliver(c)

HookStep(c) == HookReceive(c) \/ HookRegister(c) \/ HookAbort(c)

ApiStep ==
    \/ \E r \in Rfd, b \in Branch : ApiCommit(r, b)
    \/ \E nj \in apiJob : ApiRegister(nj)

ScanStep ==
    \/ ScanDefault
    \/ ScanFails
    \/ ScanBranches
    \/ \E u \in scan.found : ScanInsert(u)

TaskStep(j) == StartJob(j) \/ StartFails(j) \/ Handle(j) \/ CompleteJob(j)

Next ==
    \/ GitHubStep
    \/ \E c \in Deliveries : HookStep(c)
    \/ ApiStep
    \/ ScanStep
    \/ Tick
    \/ \E j \in Rows : TaskStep(j)
    \/ Crash

Spec == Init /\ [][Next]_vars

\* The loops of the processor tick for ever, and the runtime schedules every
\* task it spawned.  Nothing is assumed of GitHub or of users.
Fairness ==
    /\ WF_vars(ScanStep)
    /\ WF_vars(Tick)
    /\ \A j \in Id : WF_vars(j \in Rows /\ TaskStep(j))

FairSpec == Spec /\ Fairness

-----------------------------------------------------------------------------
(* Properties. *)

\* GitHub's delivery of a push is answered with 202 only when every RFD that
\* the push affects has a job at that commit, whoever queued it
\* (github_webhook returns at the first job it cannot register).
AcceptedDeliveryIsQueued ==
    \A c \in Deliveries :
        hook[c].pc = "accepted" =>
            \A r \in SeqRange(affected_rfds(pushes[c])) : HasRow(c, r)

\* A job that a task is working on, has worked on, or has applied is never
\* offered to the processor again, whatever failed or crashed in between: the
\* list of processor() and the marks of start() and complete() fit together.
WorkIsNotOfferedAgain ==
    \A j \in Pending :
        /\ running[j] = 0
        /\ finished[j] = 0
        /\ j \notin applied

\* An update is queued, begun and finished in that order, each once, across
\* webhooks, scans, API commits, duplicate tasks and restarts.
updatesOf(rows) == {<<job[j].sha, job[j].rfd>> : j \in rows}

Lifecycle == INSTANCE JobLifecycle WITH
    Update <- Commit \X Rfd,
    queued <- updatesOf(Rows),
    begun <- updatesOf(Started),
    done <- updatesOf(Processed)

QueueImplementsLifecycle == Lifecycle!Spec

\* The same with progress: a processor that stays up and whose statements
\* succeed begins and finishes every update that anybody queued.
QueueImplementsFairLifecycle == Lifecycle!FairSpec

\* While the processor stays up and its statements succeed, a started job that
\* is not processed has a task that will complete it.
StartedJobHasTask ==
    \A j \in Rows :
        job[j].started /\ ~job[j].processed => running[j] + finished[j] > 0

\* Jobs are handed out oldest first: one is not spawned or started while an
\* older one has neither been started nor been given a task.
OldestFirst ==
    \A i, j \in Rows :
        i < j /\ (job[j].started \/ spawned[j] > 0) =>
            job[i].started \/ spawned[i] > 0

\* What makes the two invariants inductive.  A delivery in hand still has jobs
\* to register, and each affected RFD has its job or is among those to do.
HookInv ==
    \A c \in Deliveries :
        /\ hook[c].pc = "handling" => hook[c].todo # <<>>
        /\ hook[c].pc = "accepted" => hook[c].todo = <<>>
        /\ hook[c].pc \in {"handling", "accepted"} =>
               \A r \in SeqRange(affected_rfds(pushes[c])) :
                   HasRow(c, r) \/ r \in SeqRange(hook[c].todo)

\* Tasks belong to rows, and a row carries the mark of what was done with it.
TaskInv ==
    /\ \A j \in Id : spawned[j] > 0 => j \in Rows
    /\ \A j \in Id : running[j] > 0 \/ finished[j] > 0 => j \in Started
    /\ applied \subseteq Started
    /\ Processed \subseteq Started

QueueInv == TypeOK /\ HookInv /\ TaskInv

\* The branch and commit at which get_rfd_sync_updates reports RFD r.
HeadOf(r) == IF r \in onDefault THEN tip[Main] ELSE tip[r]

\* The scanner makes up for webhooks that were lost or failed: once the
\* repository is quiet, the latest commit of every RFD has been applied.
LatestEventuallyApplied ==
    \A r \in Rfd :
        <>[](HeadOf(r) # 0 =>
                \E j \in applied : job[j].rfd = r /\ job[j].sha = HeadOf(r))

=============================================================================
