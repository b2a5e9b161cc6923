---------------------------- MODULE JobQueueProofs ----------------------------
(***************************************************************************)
(* The update queue keeps its types, and never offers work again, for any  *)
(* number of RFDs, commits, jobs and tasks and any mix of faults.          *)
(***************************************************************************)
EXTENDS JobQueue, SequenceTheorems, FiniteSetTheorems, TLAPS

-----------------------------------------------------------------------------
(* Lemmas about the job table. *)

\* A new row is put behind the rows there were, which keep their place.
LEMMA InsertRow ==
    ASSUME NEW nj \in NewJob, job \in Seq(Row), Insertable(nj), Insert(nj),
           MaxJob \in Nat
    PROVE  /\ job' \in Seq(Row)
           /\ Len(job') = Len(job) + 1
           /\ Len(job') <= MaxJob
           /\ \A j \in 1..Len(job) : job'[j] = job[j]
           /\ job'[Len(job) + 1].started = FALSE
           /\ job'[Len(job) + 1].processed = FALSE
<1> DEFINE row == [sha |-> nj.sha, rfd |-> nj.rfd, branch |-> nj.branch,
                   started |-> FALSE, processed |-> FALSE]
<1>1. row \in Row
  BY DEF Row, NewJob
<1>2. job' = Append(job, row)
  BY DEF Insert
<1>3. Len(job) \in Nat /\ Len(job) + 1 <= MaxJob
  BY LenProperties DEF Insertable
<1> HIDE DEF row
<1>4. /\ job' \in Seq(Row)
      /\ Len(job') = Len(job) + 1
      /\ \A j \in 1..Len(job) : job'[j] = job[j]
      /\ job'[Len(job) + 1] = row
  BY <1>1, <1>2, AppendProperties
<1>5. QED
  BY <1>3, <1>4 DEF row

\* Marking a row as started or processed changes nothing else.
LEMMA MarkRow ==
    ASSUME job \in Seq(Row), NEW j \in Rows
    PROVE  /\ [job EXCEPT ![j].started = TRUE] \in Seq(Row)
           /\ Len([job EXCEPT ![j].started = TRUE]) = Len(job)
           /\ [job EXCEPT ![j].processed = TRUE] \in Seq(Row)
           /\ Len([job EXCEPT ![j].processed = TRUE]) = Len(job)
<1>1. j \in 1..Len(job) /\ job[j] \in Row /\ Len(job) \in Nat
  BY ElementOfSeq, LenProperties DEF Rows
<1>2. /\ [job[j] EXCEPT !.started = TRUE] \in Row
      /\ [job[j] EXCEPT !.processed = TRUE] \in Row
  BY <1>1 DEF Row
<1>3. QED
  BY <1>1, <1>2, ExceptSeq

\* The RFDs of a push are a sequence of RFDs.
LEMMA AffectedType ==
    ASSUME NEW p \in Push
    PROVE  affected_rfds(p) \in Seq(Rfd)
<1>1. p.branch \in Branch /\ p.files \in Seq(Rfd)
  BY DEF Push
<1>2. CASE p.branch = Main
  BY <1>1, <1>2 DEF affected_rfds
<1>3. CASE p.branch # Main
  <2> DEFINE same == {i \in DOMAIN p.files : p.files[i] = p.branch}
  <2>1. Len(p.files) \in Nat /\ DOMAIN p.files = 1..Len(p.files)
    BY <1>1, LenProperties
  <2>2. IsFiniteSet(1..Len(p.files))
    BY <2>1, FS_Interval
  <2>3. IsFiniteSet(same)
    BY <2>1, <2>2, FS_Subset
  <2>4. Cardinality(same) \in Nat
    BY <2>3, FS_CardinalityType
  <2>5. p.branch \in Rfd
    BY <1>1, <1>3 DEF Branch
  <2>6. affected_rfds(p) = [i \in 1..Cardinality(same) |-> p.branch]
    BY <1>3 DEF affected_rfds
  <2>7. \A i \in 1..Cardinality(same) : p.branch \in Rfd
    BY <2>5
  <2> HIDE DEF same
  <2>8. QED
    BY <2>4, <2>6, <2>7, IsASeq
<1>4. QED
  BY <1>2, <1>3

-----------------------------------------------------------------------------
(* Type correctness. *)

\* A push extends the repository by one well-typed commit.
LEMMA CommitToType ==
    ASSUME QueueAssumption, TypeOK, NEW b \in Branch, NEW files \in Seq(Rfd),
           CommitTo(b, files)
    PROVE  /\ RepositoryOK'
           /\ pushes' \in Seq(Push)
           /\ hook' \in Seq(Delivery) /\ Len(hook') = Len(pushes')
           /\ Len(pushes') <= MaxCommit
<1> DEFINE push == [branch |-> b, files |-> files]
           sent == [pc |-> "sent", todo |-> <<>>]
<1>0. /\ tip \in [Branch -> 0..MaxCommit] /\ Main \in Branch
      /\ onDefault \subseteq Rfd /\ directory \in Directories
      /\ onDefault # {} => directory
      /\ onDefault # {} => tip[Main] # 0
  BY Zenon DEF TypeOK, RepositoryOK, Branch
<1>1. Len(pushes) \in Nat /\ Len(pushes) + 1 <= MaxCommit /\ MaxCommit \in Nat
  BY LenProperties, Zenon DEF CommitTo, TypeOK, QueueAssumption
<1>2. tip' = [tip EXCEPT ![b] = Len(pushes) + 1]
  BY Zenon DEF CommitTo
<1>3. tip' \in [Branch -> 0..MaxCommit]
  BY <1>0, <1>1, <1>2
<1>4. RepositoryOK'
  <2>1. SeqRange(files) \subseteq Rfd
    BY ElementOfSeq, LenProperties DEF SeqRange
  <2>2. /\ b = Main => onDefault' = onDefault \cup SeqRange(files)
        /\ b # Main => onDefault' = onDefault
    BY Zenon DEF CommitTo
  <2>3. onDefault' \subseteq Rfd
    BY <1>0, <2>1, <2>2
  <2>4. directory' \in Directories /\ (onDefault' # {} => directory')
    BY <1>0, Zenon DEF CommitTo, Directories
  <2>5. onDefault' # {} => tip'[Main] # 0
    BY <1>0, <1>1, <1>2, <2>2
  <2>6. QED
    BY <1>3, <2>3, <2>4, <2>5, Zenon DEF RepositoryOK
<1>5. push \in Push
  BY DEF Push
<1>6. sent \in Delivery
  BY EmptySeq DEF Delivery
<1>7. pushes' = Append(pushes, push) /\ hook' = Append(hook, sent)
  BY DEF CommitTo
<1>8. pushes \in Seq(Push) /\ hook \in Seq(Delivery) /\ Len(hook) = Len(pushes)
  BY DEF TypeOK
<1> HIDE DEF push, sent
<1>9. pushes' \in Seq(Push) /\ Len(pushes') = Len(pushes) + 1
  BY <1>5, <1>7, <1>8, AppendProperties
<1>10. hook' \in Seq(Delivery) /\ Len(hook') = Len(hook) + 1
  BY <1>6, <1>7, <1>8, AppendProperties
<1>11. QED
  BY <1>1, <1>4, <1>8, <1>9, <1>10

\* A delivery that is answered stays a well-typed delivery.
LEMMA HookType ==
    ASSUME hook \in Seq(Delivery), NEW c \in Deliveries, NEW d \in Delivery
    PROVE  /\ [hook EXCEPT ![c] = d] \in Seq(Delivery)
           /\ Len([hook EXCEPT ![c] = d]) = Len(hook)
<1>1. c \in 1..Len(hook)
  BY LenProperties DEF Deliveries
<1>2. QED
  BY <1>1, ExceptSeq

\* Handling(todo) is a delivery.
LEMMA HandlingType ==
    ASSUME NEW todo \in Seq(Rfd)
    PROVE  Handling(todo) \in Delivery
  BY DEF Handling, Delivery

\* The queue gets a well-typed row, from whichever side it comes.
Queued == \E nj \in NewJob : Insertable(nj) /\ Insert(nj)

LEMMA HookQueues ==
    ASSUME QueueAssumption, TypeOK, HookInv, NEW c \in Deliveries, HookRegister(c)
    PROVE  Queued
<1>0. /\ hook \in Seq(Delivery) /\ pushes \in Seq(Push)
      /\ Len(hook) = Len(pushes) /\ Len(pushes) <= MaxCommit /\ MaxCommit \in Nat
      /\ c \in 1..Len(hook) /\ Len(hook) \in Nat
  BY LenProperties DEF TypeOK, Deliveries, QueueAssumption
<1>1. hook[c] \in Delivery /\ pushes[c] \in Push /\ c \in Commit
  BY <1>0, ElementOfSeq DEF Commit
<1>2. hook[c].todo \in Seq(Rfd) /\ hook[c].todo # <<>>
  BY <1>1 DEF HookRegister, HookInv, Delivery
<1>3. Head(hook[c].todo) \in Rfd
  BY <1>2, HeadTailProperties
<1>4. HookJob(c, Head(hook[c].todo)) \in NewJob
  BY <1>1, <1>3 DEF HookJob, NewJob, Push
<1>5. QED
  BY <1>4 DEF HookRegister, Queued

\* Rows are numbered by the ids of jobs.
LEMMA RowIds ==
    ASSUME QueueAssumption, TypeOK
    PROVE  Rows \subseteq Id
<1>1. job \in Seq(Row) /\ Len(job) <= MaxJob /\ MaxJob \in Nat
  BY DEF TypeOK, QueueAssumption
<1>2. Len(job) \in Nat /\ Rows = 1..Len(job)
  BY <1>1, LenProperties DEF Rows
<1>3. QED
  BY <1>1, <1>2 DEF Id

LEMMA TypeStep ==
    ASSUME QueueAssumption, TypeOK, HookInv, TaskInv, [Next]_vars
    PROVE  TypeOK'
<1>0. /\ job \in Seq(Row) /\ hook \in Seq(Delivery) /\ pushes \in Seq(Push)
      /\ Rows = 1..Len(job) /\ Deliveries = 1..Len(hook)
      /\ Len(hook) = Len(pushes) /\ Len(pushes) <= MaxCommit
      /\ Len(hook) \in Nat /\ Len(job) \in Nat
      /\ Len(job) <= MaxJob /\ MaxJob \in Nat /\ MaxCommit \in Nat
      /\ Deliveries \subseteq Commit /\ Rows \subseteq Id
  BY LenProperties DEF TypeOK, Rows, Deliveries, QueueAssumption, Commit, Id
<1>a. ASSUME UNCHANGED github PROVE RepositoryOK'
  BY <1>a, Zenon DEF TypeOK, RepositoryOK, github
<1>1. ASSUME NEW p \in Pushes, PushCommit(p) PROVE TypeOK'
  <2>1. p.branch \in Branch /\ p.files \in Seq(Rfd) /\ CommitTo(p.branch, p.files)
    BY <1>1 DEF QueueAssumption, Push, PushCommit
  <2>2. QED
    BY <1>1, <2>1, CommitToType DEF PushCommit, TypeOK, tasks
<1>2. ASSUME NEW r \in Deletable, DeleteBranch(r) PROVE TypeOK'
  <2>1. 0 \in 0..MaxCommit /\ tip \in [Branch -> 0..MaxCommit] /\ r # Main
    BY <1>0 DEF TypeOK, RepositoryOK, QueueAssumption
  <2>2. tip' = [tip EXCEPT ![r] = 0] /\ UNCHANGED <<directory, onDefault>>
    BY <1>2 DEF DeleteBranch
  <2>3. tip' \in [Branch -> 0..MaxCommit] /\ tip'[Main] = tip[Main]
    BY <2>1, <2>2 DEF Branch
  <2>4. RepositoryOK'
    BY <2>2, <2>3, Zenon DEF TypeOK, RepositoryOK
  <2>5. QED
    BY <1>2, <2>4 DEF DeleteBranch, TypeOK, tasks
<1>3. ASSUME NEW c \in Deliveries, Redeliver(c) PROVE TypeOK'
  <2>0. hook[c] \in Delivery
    BY <1>0, ElementOfSeq
  <2>1. [hook[c] EXCEPT !.pc = "sent"] \in Delivery
    BY <2>0 DEF Delivery
  <2>2. hook' = [hook EXCEPT ![c] = [hook[c] EXCEPT !.pc = "sent"]]
    BY <1>3 DEF Redeliver
  <2>3. QED
    BY <1>a, <1>0, <1>3, <2>1, <2>2, HookType DEF Redeliver, TypeOK, tasks, github
<1>4. ASSUME NEW c \in Deliveries, HookReceive(c) PROVE TypeOK'
  <2>1. pushes[c] \in Push
    BY <1>0, ElementOfSeq
  <2>2. Handling(affected_rfds(pushes[c])) \in Delivery
    BY <2>1, AffectedType, HandlingType
  <2>3. QED
    BY <1>a, <1>0, <1>4, <2>2, HookType DEF HookReceive, TypeOK, tasks, github
<1>5. ASSUME NEW c \in Deliveries, HookRegister(c) PROVE TypeOK'
  <2>1. hook[c] \in Delivery /\ pushes[c] \in Push /\ c \in Commit
    BY <1>0, ElementOfSeq
  <2>2. hook[c].todo \in Seq(Rfd) /\ hook[c].todo # <<>>
    BY <1>5, <2>1 DEF HookRegister, HookInv, Delivery
  <2>3. Head(hook[c].todo) \in Rfd /\ Tail(hook[c].todo) \in Seq(Rfd)
    BY <2>2, HeadTailProperties
  <2>4. Handling(Tail(hook[c].todo)) \in Delivery
    BY <2>3, HandlingType
  <2>5. Queued
    BY <1>5, HookQueues
  <2>6. job' \in Seq(Row) /\ Len(job') <= MaxJob
    BY <1>0, <2>5, InsertRow DEF Queued
  <2>7. hook' = [hook EXCEPT ![c] = Handling(Tail(hook[c].todo))]
    BY <1>5 DEF HookRegister
  <2>8. QED
    BY <1>a, <1>0, <1>5, <2>4, <2>6, <2>7, HookType DEF HookRegister, TypeOK, tasks, github
<1>6. ASSUME NEW c \in Deliveries, HookAbort(c) PROVE TypeOK'
  <2>1. [pc |-> "failed", todo |-> <<>>] \in Delivery
    BY EmptySeq DEF Delivery
  <2>2. QED
    BY <1>a, <1>0, <1>6, <2>1, HookType DEF HookAbort, TypeOK, tasks, github
<1>7. ASSUME NEW r \in Rfd, NEW b \in Branch, ApiCommit(r, b) PROVE TypeOK'
  <2>1. <<r>> \in Seq(Rfd)
    OBVIOUS
  <2>2. CommitTo(b, <<r>>)
    BY <1>7 DEF ApiCommit
  <2>3. [sha |-> Len(pushes) + 1, rfd |-> r, branch |-> r] \in NewJob
    BY <1>0, <2>2 DEF CommitTo, NewJob, Commit, Branch
  <2>4. QED
    BY <1>7, <2>1, <2>2, <2>3, CommitToType DEF ApiCommit, TypeOK, tasks
<1>8. ASSUME NEW nj \in apiJob, ApiRegister(nj) PROVE TypeOK'
  <2>1. nj \in NewJob
    BY DEF TypeOK
  <2>2. job' \in Seq(Row) /\ Len(job') <= MaxJob
    BY <1>0, <1>8, <2>1, InsertRow DEF ApiRegister
  <2>3. QED
    BY <1>a, <1>0, <1>8, <2>2 DEF ApiRegister, TypeOK, tasks, github
<1>9. CASE ScanDefault
  <2>1. ASSUME NEW r \in onDefault
        PROVE  [sha |-> tip[Main], rfd |-> r, branch |-> Main] \in NewJob
    BY <1>0, <2>1 DEF TypeOK, RepositoryOK, NewJob, Branch, Commit
  <2>2. QED
    BY <1>a, <1>9, <2>1 DEF ScanDefault, Directories, TypeOK, tasks, github
<1>10. CASE ScanBranches
  <2>1. ASSUME NEW r \in Rfd, tip[r] # 0
        PROVE  [sha |-> tip[r], rfd |-> r, branch |-> r] \in NewJob
    BY <1>0, <2>1 DEF TypeOK, RepositoryOK, NewJob, Branch, Commit
  <2>2. \A found \in SUBSET NewJob :
            Inserting(found) \in [pc : {"idle", "branches", "insert"}, found : SUBSET NewJob]
    BY DEF Inserting, Idle
  <2>3. scan.found \subseteq NewJob
    BY DEF TypeOK
  <2>4. scan' \in [pc : {"idle", "branches", "insert"}, found : SUBSET NewJob]
    BY <1>10, <2>1, <2>2, <2>3 DEF ScanBranches
  <2>5. QED
    BY <1>a, <1>10, <2>4 DEF ScanBranches, TypeOK, tasks, github
<1>11. ASSUME NEW u \in scan.found, ScanInsert(u) PROVE TypeOK'
  <2>1. u \in NewJob /\ scan.found \ {u} \in SUBSET NewJob
    BY DEF TypeOK
  <2>2. job' \in Seq(Row) /\ Len(job') <= MaxJob
    BY <1>0, <1>11, <2>1, InsertRow DEF ScanInsert
  <2>3. scan' \in [pc : {"idle", "branches", "insert"}, found : SUBSET NewJob]
    BY <1>11, <2>1 DEF ScanInsert, Inserting, Idle
  <2>4. QED
    BY <1>a, <1>0, <1>11, <2>2, <2>3 DEF ScanInsert, TypeOK, tasks, github
<1>12. CASE Tick
  <2>1. spawned' \in [Id -> Nat]
    BY <1>12 DEF Tick, TypeOK
  <2>2. QED
    BY <1>a, <1>12, <2>1 DEF Tick, TypeOK, github
<1>13. ASSUME NEW j \in Rows, StartJob(j) PROVE TypeOK'
  <2>1. job' \in Seq(Row) /\ Len(job') = Len(job)
    BY <1>0, <1>13, MarkRow DEF StartJob
  <2>2. spawned' \in [Id -> Nat] /\ running' \in [Id -> Nat]
    BY <1>0, <1>13 DEF StartJob, TypeOK
  <2>3. QED
    BY <1>a, <1>0, <1>13, <2>1, <2>2 DEF StartJob, TypeOK, github
<1>14. ASSUME NEW j \in Rows, StartFails(j) PROVE TypeOK'
  <2>1. job' \in Seq(Row) /\ Len(job') = Len(job)
    BY <1>0, <1>14, MarkRow DEF StartFails
  <2>2. spawned' \in [Id -> Nat]
    BY <1>0, <1>14 DEF StartFails, TypeOK
  <2>3. QED
    BY <1>a, <1>0, <1>14, <2>1, <2>2 DEF StartFails, TypeOK, github
<1>15. ASSUME NEW j \in Rows, Handle(j) PROVE TypeOK'
  <2>a. running[j] > 0 /\ running' = [running EXCEPT ![j] = @ - 1]
    BY <1>15, Zenon DEF Handle
  <2>b. finished' = [finished EXCEPT ![j] = @ + 1]
    BY <1>15, Zenon DEF Handle
  <2>c. applied' = applied \cup {j} \/ applied' = applied
    BY <1>15, Zenon DEF Handle
  <2>d. j \in Id /\ running \in [Id -> Nat] /\ finished \in [Id -> Nat] /\ applied \subseteq Id
    BY <1>0 DEF TypeOK
  <2>1. running' \in [Id -> Nat] /\ finished' \in [Id -> Nat]
    BY <2>a, <2>b, <2>d
  <2>2. applied' \subseteq Id
    BY <2>c, <2>d
  <2>3. QED
    BY <1>a, <1>0, <1>15, <2>1, <2>2 DEF Handle, TypeOK, github
<1>16. ASSUME NEW j \in Rows, CompleteJob(j) PROVE TypeOK'
  <2>1. job' \in Seq(Row) /\ Len(job') = Len(job)
    BY <1>0, <1>16, MarkRow DEF CompleteJob
  <2>2. finished' \in [Id -> Nat]
    BY <1>0, <1>16 DEF CompleteJob, TypeOK
  <2>3. QED
    BY <1>a, <1>0, <1>16, <2>1, <2>2 DEF CompleteJob, TypeOK, github
<1>17. CASE Crash \/ ScanFails
  BY <1>a, <1>17 DEF Crash, ScanFails, Exit, TypeOK, Idle, NoTasks, github
<1>18. CASE UNCHANGED vars
  BY <1>a, <1>18 DEF vars, TypeOK, github
<1>19. QED
  BY <1>1, <1>2, <1>3, <1>4, <1>5, <1>6, <1>7, <1>8, <1>9, <1>10, <1>11,
     <1>12, <1>13, <1>14, <1>15, <1>16, <1>17, <1>18
  DEF Next, GitHubStep, HookStep, ApiStep, ScanStep, TaskStep

-----------------------------------------------------------------------------
(* The table only grows. *)

\* Rows are only ever added: each keeps its place, its commit and its RFD.
KeysStay ==
    /\ Len(job') >= Len(job)
    /\ \A j \in 1..Len(job) : job'[j].sha = job[j].sha /\ job'[j].rfd = job[j].rfd

\* Marks are only ever set.
MarksStay ==
    \A j \in 1..Len(job) : /\ job[j].started => job'[j].started
                           /\ job[j].processed => job'[j].processed

RowsGrow == KeysStay /\ MarksStay

LEMMA MarkGrows ==
    ASSUME job \in Seq(Row), NEW j \in Rows,
           \/ job' = [job EXCEPT ![j].started = TRUE]
           \/ job' = [job EXCEPT ![j].processed = TRUE]
           \/ job' = job
    PROVE  /\ RowsGrow
           /\ Len(job') = Len(job)
           /\ \A i \in 1..Len(job) : i # j => job'[i] = job[i]
<1>1. j \in 1..Len(job) /\ Len(job) \in Nat
  BY LenProperties DEF Rows
<1>2. \A i \in 1..Len(job) : job[i] \in Row
  BY ElementOfSeq
<1>3. Len(job') = Len(job)
  BY MarkRow
<1>4. \A i \in 1..Len(job) : i # j => job'[i] = job[i]
  BY <1>1
<1>5. \/ job'[j] = [job[j] EXCEPT !.started = TRUE]
      \/ job'[j] = [job[j] EXCEPT !.processed = TRUE]
      \/ job'[j] = job[j]
  BY DEF Rows
<1>6. job[j] \in Row
  BY <1>1, <1>2
<1>7. job'[j].sha = job[j].sha /\ job'[j].rfd = job[j].rfd
  BY <1>5, <1>6 DEF Row
<1>8. /\ job[j].started => job'[j].started
      /\ job[j].processed => job'[j].processed
  BY <1>5, <1>6 DEF Row
<1>9. KeysStay
  BY <1>1, <1>3, <1>4, <1>7 DEF KeysStay
<1>10. MarksStay
  BY <1>4, <1>8, Zenon DEF MarksStay
<1>11. QED
  BY <1>3, <1>4, <1>9, <1>10, Zenon DEF RowsGrow

LEMMA InsertGrows ==
    ASSUME job \in Seq(Row), MaxJob \in Nat, NEW nj \in NewJob,
           (Insertable(nj) /\ Insert(nj)) \/ UNCHANGED job
    PROVE  RowsGrow
<1>1. Len(job) \in Nat
  BY LenProperties
<1>2. CASE Insertable(nj) /\ Insert(nj)
  <2>1. Len(job') = Len(job) + 1 /\ \A j \in 1..Len(job) : job'[j] = job[j]
    BY <1>2, InsertRow
  <2>2. Len(job') >= Len(job)
    BY <1>1, <2>1
  <2>3. QED
    BY <2>1, <2>2, Zenon DEF RowsGrow, KeysStay, MarksStay
<1>3. CASE UNCHANGED job
  BY <1>1, <1>3 DEF RowsGrow, KeysStay, MarksStay
<1>4. QED
  BY <1>2, <1>3

LEMMA TableGrows ==
    ASSUME QueueAssumption, TypeOK, HookInv, [Next]_vars
    PROVE  RowsGrow
<1>0. job \in Seq(Row) /\ Len(job) \in Nat /\ MaxJob \in Nat
  BY LenProperties DEF TypeOK, QueueAssumption
<1>1. CASE UNCHANGED job
  BY <1>0, <1>1 DEF RowsGrow, KeysStay, MarksStay
<1>2. ASSUME NEW c \in Deliveries, HookRegister(c) PROVE RowsGrow
  BY <1>0, <1>2, HookQueues, InsertGrows DEF Queued
<1>3. ASSUME NEW nj \in apiJob, ApiRegister(nj) PROVE RowsGrow
  BY <1>0, <1>3, InsertGrows DEF ApiRegister, TypeOK
<1>4. ASSUME NEW u \in scan.found, ScanInsert(u) PROVE RowsGrow
  BY <1>0, <1>4, InsertGrows DEF ScanInsert, TypeOK
<1>5. ASSUME NEW j \in Rows, TaskStep(j) PROVE RowsGrow
  <2>1. \/ job' = [job EXCEPT ![j].started = TRUE]
        \/ job' = [job EXCEPT ![j].processed = TRUE]
        \/ job' = job
    BY <1>5, Zenon DEF TaskStep, StartJob, StartFails, Handle, CompleteJob
  <2>2. QED
    BY <1>0, <2>1, MarkGrows
<1>6. QED
  BY <1>1, <1>2, <1>3, <1>4, <1>5
  DEF Next, vars, GitHubStep, HookStep, ApiStep, ScanStep, PushCommit, DeleteBranch,
      Redeliver, HookReceive, HookAbort, ApiCommit, ScanDefault, ScanFails, ScanBranches, Tick,
      Crash, Exit

\* A row that is there stays there.
LEMMA HasRowStays ==
    ASSUME job \in Seq(Row), job' \in Seq(Row), KeysStay,
           NEW c, NEW r, HasRow(c, r)
    PROVE  HasRow(c, r)'
<1>1. /\ Len(job) \in Nat /\ Len(job') \in Nat
      /\ Rows = 1..Len(job) /\ Rows' = 1..Len(job')
  BY LenProperties DEF Rows
<1>2. PICK j \in Rows : job[j].sha = c /\ job[j].rfd = r
  BY DEF HasRow
<1>3. /\ Len(job') >= Len(job)
      /\ \A i \in 1..Len(job) : job'[i].sha = job[i].sha /\ job'[i].rfd = job[i].rfd
  BY DEF KeysStay
<1>4. j \in Rows' /\ job'[j].sha = c /\ job'[j].rfd = r
  BY <1>1, <1>2, <1>3
<1>5. QED
  BY <1>4 DEF HasRow

-----------------------------------------------------------------------------
(* An accepted delivery left nothing out. *)

LEMMA HeadOrTail ==
    ASSUME NEW s \in Seq(Rfd), s # <<>>, NEW r \in SeqRange(s)
    PROVE  r = Head(s) \/ r \in SeqRange(Tail(s))
<1>1. PICK i \in 1..Len(s) : r = s[i]
  BY LenProperties DEF SeqRange
<1>2. Len(s) \in Nat /\ Head(s) = s[1]
  BY LenProperties
<1>3. /\ Tail(s) \in Seq(Rfd)
      /\ Len(Tail(s)) = Len(s) - 1
      /\ \A k \in 1..Len(Tail(s)) : Tail(s)[k] = s[k + 1]
  BY HeadTailProperties
<1>4. DOMAIN Tail(s) = 1..Len(Tail(s))
  BY <1>3, LenProperties
<1>5. CASE i # 1
  <2>1. i - 1 \in 1..Len(Tail(s))
    BY <1>2, <1>3, <1>5
  <2>2. Tail(s)[i - 1] = r
    BY <1>1, <1>3, <2>1
  <2>3. QED
    BY <1>4, <2>1, <2>2 DEF SeqRange
<1>6. QED
  BY <1>1, <1>2, <1>5

\* What HookInv says of one delivery.
HookOK(c) ==
    /\ hook[c].pc = "handling" => hook[c].todo # <<>>
    /\ hook[c].pc = "accepted" => hook[c].todo = <<>>
    /\ hook[c].pc \in {"handling", "accepted"} =>
           \A r \in SeqRange(affected_rfds(pushes[c])) :
               HasRow(c, r) \/ r \in SeqRange(hook[c].todo)

\* A delivery that nobody touches stays as it is.
LEMMA HookKept ==
    ASSUME job \in Seq(Row), job' \in Seq(Row), KeysStay,
           NEW c, HookOK(c), hook'[c] = hook[c], pushes'[c] = pushes[c]
    PROVE  HookOK(c)'
<1>1. affected_rfds(pushes[c])' = affected_rfds(pushes[c])
  BY DEF affected_rfds
<1>2. \A r : HasRow(c, r) => HasRow(c, r)'
  BY HasRowStays
<1>3. QED
  BY <1>1, <1>2, Zenon DEF HookOK, SeqRange

\* A delivery in hand is in order when each affected RFD has its job or is
\* among those to do.
LEMMA HookHandled ==
    ASSUME NEW c, NEW todo, hook'[c] = Handling(todo), pushes'[c] = pushes[c],
           \A r \in SeqRange(affected_rfds(pushes[c])) :
               HasRow(c, r)' \/ r \in SeqRange(todo)
    PROVE  HookOK(c)'
<1>1. affected_rfds(pushes[c])' = affected_rfds(pushes[c])
  BY DEF affected_rfds
<1>2. /\ hook'[c].todo = todo
      /\ hook'[c].pc = "handling" => todo # <<>>
      /\ hook'[c].pc = "accepted" => todo = <<>>
  BY DEF Handling
<1>3. QED
  BY <1>1, <1>2, Zenon DEF HookOK, SeqRange

LEMMA HookStepInv ==
    ASSUME QueueAssumption, TypeOK, HookInv, TypeOK', KeysStay, [Next]_vars
    PROVE  HookInv'
<1>0. /\ job \in Seq(Row) /\ hook \in Seq(Delivery) /\ pushes \in Seq(Push)
      /\ job' \in Seq(Row)
      /\ Len(hook) = Len(pushes) /\ Len(hook) \in Nat
      /\ Deliveries = 1..Len(hook)
  BY LenProperties DEF TypeOK, Deliveries
<1>1. \A c \in Deliveries : HookOK(c)
  BY DEF HookInv, HookOK
<1>2. SUFFICES \A c \in Deliveries' : HookOK(c)'
  BY DEF HookInv, HookOK
<1>3. CASE UNCHANGED <<hook, pushes>>
  BY <1>0, <1>1, <1>3, HookKept DEF Deliveries
<1>4. ASSUME NEW b, NEW files, CommitTo(b, files), b \in Branch, files \in Seq(Rfd)
      PROVE  \A c \in Deliveries' : HookOK(c)'
  <2> DEFINE push == [branch |-> b, files |-> files]
             sent == [pc |-> "sent", todo |-> <<>>]
  <2>1. push \in Push /\ sent \in Delivery
    BY <1>4, EmptySeq DEF Push, Delivery
  <2>2. pushes' = Append(pushes, push) /\ hook' = Append(hook, sent)
    BY <1>4 DEF CommitTo
  <2> HIDE DEF push, sent
  <2>3. /\ \A c \in 1..Len(hook) : hook'[c] = hook[c]
        /\ hook'[Len(hook) + 1] = sent
        /\ hook' \in Seq(Delivery)
        /\ Len(hook') = Len(hook) + 1
    BY <1>0, <2>1, <2>2, AppendProperties
  <2>4. \A c \in 1..Len(hook) : pushes'[c] = pushes[c]
    BY <1>0, <2>1, <2>2, AppendProperties
  <2>5. Deliveries' = 1..Len(hook')
    BY <2>3, LenProperties DEF Deliveries
  <2>6. ASSUME NEW c \in Deliveries, HookOK(c) PROVE HookOK(c)'
    BY <1>0, <2>3, <2>4, <2>6, HookKept
  <2>7. ASSUME NEW c, c = Len(hook) + 1 PROVE HookOK(c)'
    <3>1. hook'[c].pc = "sent"
      BY <2>3, <2>7 DEF sent
    <3>2. QED
      BY <3>1 DEF HookOK
  <2>8. QED
    BY <1>0, <1>1, <2>3, <2>5, <2>6, <2>7
<1>5. ASSUME NEW d \in Deliveries, NEW v,
             UNCHANGED pushes, hook' = [hook EXCEPT ![d] = v], HookOK(d)'
      PROVE  \A c \in Deliveries' : HookOK(c)'
  <2>1. Deliveries' = Deliveries
    BY <1>5 DEF Deliveries
  <2>2. ASSUME NEW c \in Deliveries, c # d PROVE HookOK(c)'
    <3>1. hook'[c] = hook[c]
      BY <1>5, <2>2 DEF Deliveries
    <3>2. QED
      BY <1>0, <1>1, <1>5, <3>1, HookKept
  <2>3. QED
    BY <1>5, <2>1, <2>2
<1>6. ASSUME NEW p \in Pushes, PushCommit(p) PROVE \A c \in Deliveries' : HookOK(c)'
  BY <1>4, <1>6 DEF QueueAssumption, Push, PushCommit
<1>7. ASSUME NEW r \in Rfd, NEW b \in Branch, ApiCommit(r, b)
      PROVE  \A c \in Deliveries' : HookOK(c)'
  <2>1. <<r>> \in Seq(Rfd) /\ CommitTo(b, <<r>>)
    BY <1>7 DEF ApiCommit
  <2>2. QED
    BY <1>4, <2>1
<1>8. ASSUME NEW c \in Deliveries, Redeliver(c) PROVE \A d \in Deliveries' : HookOK(d)'
  <2>1. /\ hook' = [hook EXCEPT ![c] = [hook[c] EXCEPT !.pc = "sent"]]
        /\ UNCHANGED pushes
    BY <1>8 DEF Redeliver, github
  <2>2. hook'[c] = [hook[c] EXCEPT !.pc = "sent"]
    BY <2>1 DEF Deliveries
  <2>3. hook[c] \in Delivery
    BY <1>0, ElementOfSeq
  <2>4. hook'[c].pc = "sent"
    BY <2>2, <2>3 DEF Delivery
  <2>5. HookOK(c)'
    BY <2>4 DEF HookOK
  <2>6. QED
    BY <1>5, <2>1, <2>5
<1>9. ASSUME NEW c \in Deliveries, HookReceive(c) PROVE \A d \in Deliveries' : HookOK(d)'
  <2>1. /\ hook' = [hook EXCEPT ![c] = Handling(affected_rfds(pushes[c]))]
        /\ UNCHANGED pushes
    BY <1>9 DEF HookReceive, github
  <2>2. hook'[c] = Handling(affected_rfds(pushes[c]))
    BY <2>1 DEF Deliveries
  <2>3. \A r \in SeqRange(affected_rfds(pushes[c])) :
            r \in SeqRange(affected_rfds(pushes[c]))
    OBVIOUS
  <2>4. HookOK(c)'
    BY <2>1, <2>2, <2>3, HookHandled
  <2>5. QED
    BY <1>5, <2>1, <2>4
<1>10. ASSUME NEW c \in Deliveries, HookRegister(c), NEW todo, todo = hook[c].todo
       PROVE  \A d \in Deliveries' : HookOK(d)'
  <2>1. /\ hook' = [hook EXCEPT ![c] = Handling(Tail(todo))]
        /\ UNCHANGED pushes
        /\ hook[c].pc = "handling"
        /\ Insert(HookJob(c, Head(todo)))
    BY <1>10, Zenon DEF HookRegister, github
  <2>2. hook'[c] = Handling(Tail(todo))
    BY <2>1 DEF Deliveries
  <2>4. todo \in Seq(Rfd) /\ todo # <<>>
    <3>1. hook[c] \in Delivery
      BY <1>0, ElementOfSeq
    <3>2. QED
      BY <1>1, <1>10, <2>1, <3>1 DEF Delivery, HookOK
  <2>5. HasRow(c, Head(todo))'
    <3> DEFINE row == [sha |-> c, rfd |-> Head(todo), branch |-> pushes[c].branch,
                       started |-> FALSE, processed |-> FALSE]
    <3>1. job' = Append(job, row) /\ row.sha = c /\ row.rfd = Head(todo)
      BY <2>1 DEF Insert, HookJob
    <3> HIDE DEF row
    <3>2. Len(job) \in Nat /\ Len(job) + 1 \in DOMAIN job' /\ job'[Len(job) + 1] = row
      BY <1>0, <3>1, LenProperties
    <3>3. PICK j \in Rows' : job'[j] = row
      BY <3>2 DEF Rows
    <3>4. QED
      BY <3>1, <3>3, Zenon DEF HasRow
  <2>6. ASSUME NEW r \in SeqRange(affected_rfds(pushes[c]))
        PROVE  HasRow(c, r)' \/ r \in SeqRange(Tail(todo))
    <3>1. HasRow(c, r) \/ r \in SeqRange(todo)
      BY <1>1, <1>10, <2>1 DEF HookOK
    <3>2. HasRow(c, r) => HasRow(c, r)'
      BY <1>0, HasRowStays
    <3>3. r \in SeqRange(todo) => r = Head(todo) \/ r \in SeqRange(Tail(todo))
      BY <2>4, HeadOrTail
    <3>4. QED
      BY <2>5, <3>1, <3>2, <3>3
  <2>7. HookOK(c)'
    BY <2>1, <2>2, <2>6, HookHandled
  <2>8. QED
    BY <1>5, <2>1, <2>7
<1>11. ASSUME NEW c \in Deliveries, HookAbort(c) PROVE \A d \in Deliveries' : HookOK(d)'
  <2>1. /\ hook' = [hook EXCEPT ![c] = [pc |-> "failed", todo |-> <<>>]]
        /\ UNCHANGED pushes
    BY <1>11, Zenon DEF HookAbort, github
  <2>2. hook'[c].pc = "failed"
    BY <2>1 DEF Deliveries
  <2>3. HookOK(c)'
    BY <2>2 DEF HookOK
  <2>4. QED
    BY <1>5, <2>1, <2>3
<1>12. QED
  BY <1>3, <1>6, <1>7, <1>8, <1>9, <1>10, <1>11
  DEF Next, vars, github, tasks, GitHubStep, HookStep, ApiStep, ScanStep, TaskStep,
      DeleteBranch, ApiRegister, ScanDefault, ScanFails, ScanBranches, ScanInsert, Tick,
      StartJob, StartFails, Handle, CompleteJob, Crash, Exit

-----------------------------------------------------------------------------
(* Marks and tasks. *)

\* A new row carries no mark.
LEMMA InsertMarks ==
    ASSUME job \in Seq(Row), MaxJob \in Nat, NEW nj \in NewJob,
           Insertable(nj), Insert(nj)
    PROVE  /\ Rows' = Rows \cup {Len(job) + 1}
           /\ Started' = Started
           /\ Processed' = Processed
<1>1. Len(job) \in Nat /\ Rows = 1..Len(job)
  BY LenProperties DEF Rows
<1>2. /\ job' \in Seq(Row) /\ Len(job') = Len(job) + 1
      /\ \A j \in 1..Len(job) : job'[j] = job[j]
      /\ job'[Len(job) + 1].started = FALSE
      /\ job'[Len(job) + 1].processed = FALSE
  BY InsertRow
<1>3. Rows' = 1..Len(job')
  BY <1>2, LenProperties DEF Rows
<1>4. Rows' = Rows \cup {Len(job) + 1}
  BY <1>1, <1>2, <1>3
<1>5. \A j \in Rows : job'[j] = job[j]
  BY <1>1, <1>2
<1>6. Started' = Started /\ Processed' = Processed
  BY <1>2, <1>4, <1>5, Zenon DEF Started, Processed
<1>7. QED
  BY <1>4, <1>6

\* A mark is set on one row.
LEMMA StartMarks ==
    ASSUME job \in Seq(Row), NEW j \in Rows, job' = [job EXCEPT ![j].started = TRUE]
    PROVE  /\ Rows' = Rows
           /\ Started' = Started \cup {j}
           /\ Processed' = Processed
<1>1. Rows' = Rows /\ \A i \in Rows : i # j => job'[i] = job[i]
  BY DEF Rows
<1>2. job[j] \in Row
  BY ElementOfSeq, LenProperties DEF Rows
<1>3. job'[j] = [job[j] EXCEPT !.started = TRUE]
  BY DEF Rows
<1>4. job'[j].started = TRUE /\ job'[j].processed = job[j].processed
  BY <1>2, <1>3 DEF Row
<1>5. QED
  BY <1>1, <1>4, Zenon DEF Started, Processed

LEMMA CompleteMarks ==
    ASSUME job \in Seq(Row), NEW j \in Rows, job' = [job EXCEPT ![j].processed = TRUE]
    PROVE  /\ Rows' = Rows
           /\ Started' = Started
           /\ Processed' = Processed \cup {j}
<1>1. Rows' = Rows /\ \A i \in Rows : i # j => job'[i] = job[i]
  BY DEF Rows
<1>2. job[j] \in Row
  BY ElementOfSeq, LenProperties DEF Rows
<1>3. job'[j] = [job[j] EXCEPT !.processed = TRUE]
  BY DEF Rows
<1>4. job'[j].processed = TRUE /\ job'[j].started = job[j].started
  BY <1>2, <1>3 DEF Row
<1>5. QED
  BY <1>1, <1>4, Zenon DEF Started, Processed

LEMMA TaskStepInv ==
    ASSUME QueueAssumption, TypeOK, HookInv, TaskInv, [Next]_vars
    PROVE  TaskInv'
<1>0. /\ job \in Seq(Row) /\ MaxJob \in Nat /\ Rows \subseteq Id
      /\ spawned \in [Id -> Nat] /\ running \in [Id -> Nat] /\ finished \in [Id -> Nat]
  BY RowIds DEF TypeOK, QueueAssumption
<1>1. CASE /\ Queued \/ UNCHANGED job
           /\ UNCHANGED <<tasks, applied>>
  <2>1. Rows \subseteq Rows' /\ Started' = Started /\ Processed' = Processed
    BY <1>0, <1>1, InsertMarks DEF Queued, Rows, Started, Processed
  <2>2. QED
    BY <1>1, <2>1 DEF TaskInv, tasks
<1>2. CASE Tick
  <2>1. Rows' = Rows /\ Started' = Started /\ Processed' = Processed
    BY <1>2 DEF Tick, Rows, Started, Processed
  <2>2. spawned' = [j \in Id |-> spawned[j] + IF j \in Batch THEN 1 ELSE 0]
        /\ UNCHANGED <<running, finished, applied>>
    BY <1>2 DEF Tick
  <2>3. Batch \subseteq Rows
    BY DEF Batch, Pending
  <2>4. QED
    BY <1>0, <2>1, <2>2, <2>3 DEF TaskInv
<1>3. ASSUME NEW j \in Rows, StartJob(j) PROVE TaskInv'
  <2>1. Rows' = Rows /\ Started' = Started \cup {j} /\ Processed' = Processed
    BY <1>0, <1>3, StartMarks DEF StartJob
  <2>2. QED
    BY <1>0, <1>3, <2>1 DEF TaskInv, StartJob
<1>4. ASSUME NEW j \in Rows, StartFails(j) PROVE TaskInv'
  <2>1. Rows' = Rows /\ Started \subseteq Started' /\ Processed' = Processed
    <3>1. CASE UNCHANGED job
      BY <3>1 DEF Rows, Started, Processed
    <3>2. CASE job' = [job EXCEPT ![j].started = TRUE]
      BY <1>0, <3>2, StartMarks
    <3>3. QED
      BY <1>4, <3>1, <3>2 DEF StartFails
  <2>2. spawned' = [spawned EXCEPT ![j] = @ - 1] /\ UNCHANGED <<running, finished, applied>>
    BY <1>4 DEF StartFails
  <2>3. QED
    BY <1>0, <2>1, <2>2 DEF TaskInv
<1>5. ASSUME NEW j \in Rows, Handle(j) PROVE TaskInv'
  <2>1. UNCHANGED <<job, spawned>> /\ (applied' = applied \cup {j} \/ applied' = applied)
    BY <1>5, Zenon DEF Handle
  <2>2. /\ running[j] > 0
        /\ running' = [running EXCEPT ![j] = @ - 1]
        /\ finished' = [finished EXCEPT ![j] = @ + 1]
    BY <1>5, Zenon DEF Handle
  <2>3. Rows' = Rows /\ Started' = Started /\ Processed' = Processed
    BY <2>1 DEF Rows, Started, Processed
  <2>4. QED
    BY <1>0, <2>1, <2>2, <2>3 DEF TaskInv
<1>6. ASSUME NEW j \in Rows, CompleteJob(j) PROVE TaskInv'
  <2>1. Rows' = Rows /\ Started' = Started /\ Processed' \subseteq Processed \cup {j}
    <3>1. CASE UNCHANGED job
      BY <3>1 DEF Rows, Started, Processed
    <3>2. CASE job' = [job EXCEPT ![j].processed = TRUE]
      BY <1>0, <3>2, CompleteMarks
    <3>3. QED
      BY <1>6, <3>1, <3>2, Zenon DEF CompleteJob
  <2>2. /\ finished[j] > 0 /\ finished' = [finished EXCEPT ![j] = @ - 1]
        /\ UNCHANGED <<spawned, running, applied>>
    BY <1>6, Zenon DEF CompleteJob
  <2>3. QED
    BY <1>0, <2>1, <2>2 DEF TaskInv
<1>7. CASE Crash \/ ScanFails
  <2>1. /\ spawned' = NoTasks /\ running' = NoTasks /\ finished' = NoTasks
        /\ UNCHANGED <<job, applied>>
    BY <1>7 DEF Crash, ScanFails, Exit
  <2>2. Rows' = Rows /\ Started' = Started /\ Processed' = Processed
    BY <2>1 DEF Rows, Started, Processed
  <2>3. QED
    BY <2>1, <2>2 DEF TaskInv, NoTasks
<1>8. ASSUME NEW nj \in apiJob, ApiRegister(nj) PROVE Queued \/ UNCHANGED job
  BY <1>8, Zenon DEF ApiRegister, TypeOK, Queued
<1>9. ASSUME NEW u \in scan.found, ScanInsert(u) PROVE Queued \/ UNCHANGED job
  <2>1. u \in NewJob
    BY DEF TypeOK
  <2>2. QED
    BY <1>9, <2>1, Zenon DEF ScanInsert, Queued
<1>10. QED
  BY <1>1, <1>2, <1>3, <1>4, <1>5, <1>6, <1>7, <1>8, <1>9, HookQueues, Zenon
  DEF Next, vars, tasks, GitHubStep, HookStep, ApiStep, ScanStep, TaskStep, PushCommit,
      DeleteBranch, Redeliver, HookReceive, HookRegister, HookAbort, ApiCommit,
      ApiRegister, ScanDefault, ScanBranches, ScanInsert

-----------------------------------------------------------------------------
(* The inductive invariant, and what follows from it. *)

THEOREM QueueInvariant == Spec => []QueueInv
<1>1. Init => QueueInv
  <2> SUFFICES ASSUME Init PROVE QueueInv
    OBVIOUS
  <2>1. TypeOK
    <3>1. job \in Seq(Row) /\ Len(job) = 0 /\ hook \in Seq(Delivery) /\ Len(hook) = 0
          /\ pushes \in Seq(Push) /\ Len(pushes) = 0
      BY EmptySeq DEF Init
    <3>2. 0 \in 0..MaxCommit /\ 0 <= MaxCommit /\ 0 <= MaxJob
      BY QueueAssumption DEF QueueAssumption
    <3>3. RepositoryOK
      BY <3>2 DEF Init, RepositoryOK
    <3>4. QED
      BY <3>1, <3>2, <3>3 DEF Init, TypeOK, Idle, NoTasks
  <2>2. HookInv
    BY DEF Init, HookInv, Deliveries
  <2>3. TaskInv
    BY DEF Init, TaskInv, NoTasks, Started, Processed, Rows
  <2>4. QED
    BY <2>1, <2>2, <2>3 DEF QueueInv
<1>2. QueueInv /\ [Next]_vars => QueueInv'
  <2> SUFFICES ASSUME TypeOK, HookInv, TaskInv, [Next]_vars PROVE QueueInv'
    BY DEF QueueInv
  <2>1. TypeOK'
    BY QueueAssumption, TypeStep
  <2>2. KeysStay
    BY QueueAssumption, TableGrows, Zenon DEF RowsGrow
  <2>3. HookInv'
    BY QueueAssumption, <2>1, <2>2, HookStepInv
  <2>4. TaskInv'
    BY QueueAssumption, TaskStepInv
  <2>5. QED
    BY <2>1, <2>3, <2>4 DEF QueueInv
<1>3. QED
  BY <1>1, <1>2, PTL DEF Spec

\* The variables keep their types (for the whole service).
THEOREM QueueTypes == Spec => []TypeOK
<1>1. QueueInv => TypeOK
  BY DEF QueueInv
<1>2. QED
  BY <1>1, QueueInvariant, PTL

\* github_webhook answers 202 only when every affected RFD has its job.
THEOREM AcceptedIsQueued == Spec => []AcceptedDeliveryIsQueued
<1>1. QueueInv => AcceptedDeliveryIsQueued
  <2> SUFFICES ASSUME HookInv, NEW c \in Deliveries, hook[c].pc = "accepted",
                      NEW r \in SeqRange(affected_rfds(pushes[c]))
               PROVE  HasRow(c, r)
    BY Zenon DEF QueueInv, AcceptedDeliveryIsQueued
  <2>1. hook[c].todo = <<>>
    BY DEF HookInv
  <2>2. SeqRange(hook[c].todo) = {}
    BY <2>1 DEF SeqRange
  <2>3. HasRow(c, r) \/ r \in SeqRange(hook[c].todo)
    BY Zenon DEF HookInv
  <2>4. QED
    BY <2>2, <2>3
<1>2. QED
  BY <1>1, QueueInvariant, PTL

\* list never returns a job that a task has started, finished or applied.
THEOREM NotOfferedAgain == Spec => []WorkIsNotOfferedAgain
<1>1. QueueInv => WorkIsNotOfferedAgain
  <2> SUFFICES ASSUME TypeOK, TaskInv, NEW j \in Pending
               PROVE  running[j] = 0 /\ finished[j] = 0 /\ j \notin applied
    BY DEF QueueInv, WorkIsNotOfferedAgain
  <2>1. j \in Rows /\ j \notin Started
    BY DEF Pending, Started
  <2>2. j \in Id
    BY <2>1, RowIds, QueueAssumption
  <2>3. QED
    BY <2>1, <2>2 DEF TypeOK, TaskInv
<1>2. QED
  BY <1>1, QueueInvariant, PTL

-----------------------------------------------------------------------------
(* The queue implements the life of an update. *)

KeyOf(j) == <<job[j].sha, job[j].rfd>>

\* Rows that are added or marked leave the updates of the other rows alone.
LEMMA KeysKept ==
    ASSUME job \in Seq(Row), KeysStay
    PROVE  \A j \in Rows : KeyOf(j)' = KeyOf(j)
  BY LenProperties, Zenon DEF KeysStay, KeyOf, Rows

LEMMA QueuedIsNew ==
    ASSUME job \in Seq(Row), MaxJob \in Nat, Queued, KeysStay, Started \subseteq Rows
    PROVE  Lifecycle!Next
<1>1. PICK nj \in NewJob : Insertable(nj) /\ Insert(nj)
  BY DEF Queued
<1> DEFINE u == <<nj.sha, nj.rfd>>
           new == Len(job) + 1
<1>2. u \in Commit \X Rfd
  BY DEF NewJob
<1>3. ~HasRow(nj.sha, nj.rfd)
  BY <1>1, Zenon DEF Insertable
<1>4. u \notin updatesOf(Rows)
  <2> SUFFICES ASSUME NEW j \in Rows, <<job[j].sha, job[j].rfd>> = u PROVE FALSE
    BY DEF updatesOf
  <2>1. job[j].sha = nj.sha /\ job[j].rfd = nj.rfd
    OBVIOUS
  <2>2. QED
    BY <1>3, <2>1, Zenon DEF HasRow
<1>5. Rows' = Rows \cup {new} /\ Started' = Started /\ Processed' = Processed
  BY <1>1, InsertMarks
<1>6. \A j \in Rows : <<job'[j].sha, job'[j].rfd>> = <<job[j].sha, job[j].rfd>>
  BY KeysKept DEF KeyOf
<1>7. Started \subseteq Rows /\ Processed \subseteq Rows
  BY DEF Started, Processed
<1>8. <<job'[new].sha, job'[new].rfd>> = u
  <2> DEFINE row == [sha |-> nj.sha, rfd |-> nj.rfd, branch |-> nj.branch,
                     started |-> FALSE, processed |-> FALSE]
  <2>1. job' = Append(job, row) /\ row.sha = nj.sha /\ row.rfd = nj.rfd
    BY <1>1 DEF Insert
  <2> HIDE DEF row
  <2>2. job'[new] = row
    BY <2>1, LenProperties
  <2>3. QED
    BY <2>1, <2>2
<1> HIDE DEF u, new
<1>9. updatesOf(Rows)' = updatesOf(Rows) \cup {u}
  BY <1>5, <1>6, <1>8 DEF updatesOf
<1>10. updatesOf(Started)' = updatesOf(Started) /\ updatesOf(Processed)' = updatesOf(Processed)
  BY <1>5, <1>6, <1>7 DEF updatesOf
<1>11. Lifecycle!Queue(u)
  BY <1>4, <1>9, <1>10 DEF Lifecycle!Queue
<1>12. QED
  BY <1>2, <1>11 DEF Lifecycle!Next

\* A step of the queue queues, begins or finishes one update, or none.
LEMMA LifecycleStep ==
    ASSUME QueueAssumption, QueueInv, KeysStay, [Next]_vars
    PROVE  [Lifecycle!Next]_(Lifecycle!progress)
<1>0. /\ job \in Seq(Row) /\ MaxJob \in Nat /\ Rows \subseteq Id
      /\ Started \subseteq Rows /\ Processed \subseteq Rows
      /\ TypeOK /\ HookInv /\ TaskInv
  BY RowIds DEF TypeOK, QueueAssumption, QueueInv, Started, Processed
<1>1. CASE UNCHANGED job
  BY <1>1 DEF Lifecycle!progress, updatesOf, Rows, Started, Processed
<1>2. CASE Queued
  BY <1>0, <1>2, QueuedIsNew
<1>3. \A j \in Rows : <<job'[j].sha, job'[j].rfd>> = <<job[j].sha, job[j].rfd>>
  BY <1>0, KeysKept DEF KeyOf
<1>4. ASSUME NEW j \in Rows, job' = [job EXCEPT ![j].started = TRUE]
      PROVE  [Lifecycle!Next]_(Lifecycle!progress)
  <2>1. PICK u : u = <<job[j].sha, job[j].rfd>>
    OBVIOUS
  <2>2. Rows' = Rows /\ Started' = Started \cup {j} /\ Processed' = Processed
    BY <1>0, <1>4, StartMarks
  <2>3. updatesOf(Rows)' = updatesOf(Rows) /\ updatesOf(Processed)' = updatesOf(Processed)
    BY <1>0, <1>3, <2>2 DEF updatesOf
  <2>4. updatesOf(Started)' = updatesOf(Started) \cup {u}
    BY <1>0, <1>3, <2>1, <2>2 DEF updatesOf
  <2>5. u \in updatesOf(Rows)
    BY <2>1 DEF updatesOf
  <2>6. CASE u \in updatesOf(Started)
    BY <2>3, <2>4, <2>6 DEF Lifecycle!progress
  <2>7. CASE u \notin updatesOf(Started)
    BY <2>3, <2>4, <2>5, <2>7 DEF Lifecycle!Next, Lifecycle!Begin
  <2>8. QED
    BY <2>6, <2>7
<1>5. ASSUME NEW j \in Started, job' = [job EXCEPT ![j].processed = TRUE]
      PROVE  [Lifecycle!Next]_(Lifecycle!progress)
  <2>1. PICK u : u = <<job[j].sha, job[j].rfd>>
    OBVIOUS
  <2>2. Rows' = Rows /\ Started' = Started /\ Processed' = Processed \cup {j}
    BY <1>0, <1>5, CompleteMarks
  <2>3. updatesOf(Rows)' = updatesOf(Rows) /\ updatesOf(Started)' = updatesOf(Started)
    BY <1>0, <1>3, <2>2 DEF updatesOf
  <2>4. updatesOf(Processed)' = updatesOf(Processed) \cup {u}
    BY <1>0, <1>3, <2>1, <2>2 DEF updatesOf
  <2>5. u \in updatesOf(Started)
    BY <2>1 DEF updatesOf
  <2>6. CASE u \in updatesOf(Processed)
    BY <2>3, <2>4, <2>6 DEF Lifecycle!progress
  <2>7. CASE u \notin updatesOf(Processed)
    BY <2>3, <2>4, <2>5, <2>7 DEF Lifecycle!Next, Lifecycle!Finish
  <2>8. QED
    BY <2>6, <2>7
<1>6. ASSUME NEW nj \in apiJob, ApiRegister(nj) PROVE Queued \/ UNCHANGED job
  BY <1>0, <1>6, Zenon DEF ApiRegister, TypeOK, Queued
<1>7. ASSUME NEW u \in scan.found, ScanInsert(u) PROVE Queued \/ UNCHANGED job
  <2>1. u \in NewJob
    BY <1>0 DEF TypeOK
  <2>2. QED
    BY <1>7, <2>1, Zenon DEF ScanInsert, Queued
<1>8. ASSUME NEW c \in Deliveries, HookRegister(c) PROVE Queued
  BY <1>0, <1>8, HookQueues
<1>9. ASSUME NEW j \in Rows, TaskStep(j) PROVE [Lifecycle!Next]_(Lifecycle!progress)
  <2>1. StartJob(j) \/ StartFails(j) =>
            UNCHANGED job \/ job' = [job EXCEPT ![j].started = TRUE]
    BY DEF StartJob, StartFails
  <2>2. CompleteJob(j) => UNCHANGED job \/ job' = [job EXCEPT ![j].processed = TRUE]
    BY Zenon DEF CompleteJob
  <2>3. CompleteJob(j) => j \in Started
    BY <1>0 DEF CompleteJob, TaskInv
  <2>4. Handle(j) => UNCHANGED job
    BY Zenon DEF Handle
  <2>5. QED
    BY <1>1, <1>4, <1>5, <1>9, <2>1, <2>2, <2>3, <2>4, Zenon DEF TaskStep
<1>10. QED
  BY <1>1, <1>2, <1>6, <1>7, <1>8, <1>9, Zenon
  DEF Next, vars, GitHubStep, HookStep, ApiStep, ScanStep, PushCommit,
      DeleteBranch, Redeliver, HookReceive, HookAbort, ApiCommit,
      ScanDefault, ScanFails, ScanBranches, Tick, Crash, Exit

\* Whatever is lost, repeated or restarted, an update is queued once, begun
\* after it was queued and done after it was begun.
THEOREM ImplementsLifecycle == Spec => QueueImplementsLifecycle
<1>1. Init => Lifecycle!Init
  BY DEF Init, Lifecycle!Init, updatesOf, Rows, Started, Processed
<1>2. QueueInv /\ [Next]_vars => [Lifecycle!Next]_(Lifecycle!progress)
  <2> SUFFICES ASSUME QueueInv, [Next]_vars PROVE [Lifecycle!Next]_(Lifecycle!progress)
    OBVIOUS
  <2>1. KeysStay
    BY QueueAssumption, TableGrows, Zenon DEF RowsGrow, QueueInv
  <2>2. QED
    BY QueueAssumption, <2>1, LifecycleStep
<1>3. QED
  BY <1>1, <1>2, QueueInvariant, PTL DEF Spec, QueueImplementsLifecycle, Lifecycle!Spec


-----------------------------------------------------------------------------
(* A processor that stays up and whose statements succeed. *)

\* The two invariants of such a processor, in terms of the marked rows.
NoneStranded == \A j \in Started \ Processed : running[j] + finished[j] > 0
NoneOvertaken ==
    \A i, j \in Rows :
        i < j /\ (j \in Started \/ spawned[j] > 0) => i \in Started \/ spawned[i] > 0

\* A page of the list has with a job every older one that is listed.
LEMMA BatchIsOldest ==
    ASSUME QueueAssumption, TypeOK,
           NEW j \in Batch, NEW i \in Pending, i < j
    PROVE  i \in Batch
<1> DEFINE older(k) == {p \in Pending : p < k}
<1>0. Rows \subseteq Id
  BY RowIds DEF TypeOK, QueueAssumption
<1>1. i \in Nat /\ j \in Nat /\ Pending \subseteq 1..MaxJob /\ MaxJob \in Nat
  <2>1. Pending \subseteq Rows /\ j \in Pending
    BY Zenon DEF Pending, Batch
  <2>2. Pending \subseteq 1..MaxJob
    BY <1>0, <2>1 DEF Id
  <2>3. MaxJob \in Nat
    BY DEF QueueAssumption
  <2>4. QED
    BY <2>1, <2>2, <2>3
<1>2. \A p \in older(i) : p \in older(j)
  BY <1>1
<1>3. IsFiniteSet(older(j))
  <2>1. IsFiniteSet(1..MaxJob)
    BY <1>1, FS_Interval
  <2>2. older(j) \subseteq 1..MaxJob
    BY <1>1
  <2>3. QED
    BY <2>1, <2>2, FS_Subset
<1>4. Cardinality(older(i)) <= Cardinality(older(j)) /\ IsFiniteSet(older(i))
  BY <1>2, <1>3, FS_Subset
<1>5. Cardinality(older(i)) \in Nat /\ Cardinality(older(j)) \in Nat
  BY <1>3, <1>4, FS_CardinalityType
<1>6. Cardinality(older(j)) < BatchSize /\ BatchSize \in Nat
  BY DEF Batch, QueueAssumption
<1>7. Cardinality(older(i)) < BatchSize
  BY <1>4, <1>5, <1>6
<1>8. QED
  BY <1>7 DEF Batch

LEMMA FaultlessStep ==
    ASSUME Faults = {}, QueueAssumption, QueueInv, QueueInv',
           NoneStranded, NoneOvertaken, [Next]_vars
    PROVE  NoneStranded' /\ NoneOvertaken'
<1>0. /\ job \in Seq(Row) /\ MaxJob \in Nat /\ Rows \subseteq Id
      /\ spawned \in [Id -> Nat] /\ running \in [Id -> Nat] /\ finished \in [Id -> Nat]
      /\ Started \subseteq Rows /\ Processed \subseteq Started
      /\ TypeOK /\ HookInv /\ TaskInv
  BY RowIds DEF QueueInv, TypeOK, TaskInv, QueueAssumption, Started
<1>00. \A j \in Id : j \in Nat
  BY <1>0 DEF Id
<1>1. CASE /\ Queued \/ UNCHANGED job
           /\ UNCHANGED <<tasks, applied>>
  <2>1. /\ Started' = Started /\ Processed' = Processed
        /\ Rows' = Rows \/ Rows' = Rows \cup {Len(job) + 1}
    BY <1>0, <1>1, InsertMarks DEF Queued, Rows, Started, Processed
  <2>2. UNCHANGED <<spawned, running, finished>>
    BY <1>1 DEF tasks
  <2>3. NoneStranded'
    BY <2>1, <2>2, Zenon DEF NoneStranded
  <2>4. Len(job) \in Nat /\ \A j \in Rows : j <= Len(job)
    BY <1>0, LenProperties DEF Rows
  <2>5. \A j \in Rows' : j \in Started \/ spawned[j] > 0 => j \in Rows
    <3>1. Rows' \subseteq Id
      <4>1. job' \in Seq(Row) /\ Len(job') <= MaxJob
        BY DEF QueueInv, TypeOK
      <4>2. DOMAIN job' = 1..Len(job') /\ Len(job') \in Nat
        BY <4>1, LenProperties
      <4>3. QED
        BY <1>0, <4>1, <4>2 DEF Rows, Id
    <3>2. QED
      BY <1>0, <3>1 DEF TaskInv
  <2>6. \A i \in Rows', j \in Rows : i < j => i \in Rows
    BY <1>0, <1>00, <2>1, <2>4
  <2>7. NoneOvertaken'
    BY <2>1, <2>2, <2>5, <2>6 DEF NoneOvertaken
  <2>8. QED
    BY <2>3, <2>7
<1>2. CASE Tick
  <2>1. Rows' = Rows /\ Started' = Started /\ Processed' = Processed
    BY <1>2 DEF Tick, Rows, Started, Processed
  <2>2. spawned' = [j \in Id |-> spawned[j] + IF j \in Batch THEN 1 ELSE 0]
        /\ UNCHANGED <<running, finished>>
    BY <1>2 DEF Tick
  <2>3. NoneStranded'
    BY <2>1, <2>2 DEF NoneStranded
  <2>4. \A j \in Rows : spawned'[j] > 0 <=> spawned[j] > 0 \/ j \in Batch
    BY <1>0, <2>2
  <2>5. ASSUME NEW i \in Rows, NEW j \in Batch, i < j
        PROVE  i \in Started \/ i \in Batch
    <3>1. i \notin Started => i \in Pending
      BY <1>0, Zenon DEF Pending, Started, Processed
    <3>2. QED
      BY <1>0, <2>5, <3>1, BatchIsOldest, QueueAssumption
  <2>6. NoneOvertaken'
    BY <2>1, <2>4, <2>5 DEF NoneOvertaken
  <2>7. QED
    BY <2>3, <2>6
<1>3. ASSUME NEW j \in Rows, StartJob(j) PROVE NoneStranded' /\ NoneOvertaken'
  <2>1. Rows' = Rows /\ Started' = Started \cup {j} /\ Processed' = Processed
    BY <1>0, <1>3, StartMarks DEF StartJob
  <2>2. /\ spawned[j] > 0
        /\ spawned' = [spawned EXCEPT ![j] = @ - 1]
        /\ running' = [running EXCEPT ![j] = @ + 1]
        /\ UNCHANGED finished
    BY <1>3 DEF StartJob
  <2>3. NoneStranded'
    BY <1>0, <2>1, <2>2 DEF NoneStranded
  <2>4. \A i \in Rows : i # j => spawned'[i] = spawned[i]
    BY <1>0, <2>2
  <2>5. NoneOvertaken'
    BY <2>1, <2>2, <2>4 DEF NoneOvertaken
  <2>6. QED
    BY <2>3, <2>5
<1>4. ASSUME NEW j \in Rows, Handle(j) PROVE NoneStranded' /\ NoneOvertaken'
  <2>1. UNCHANGED <<job, spawned>>
    BY <1>4, Zenon DEF Handle
  <2>2. /\ running[j] > 0
        /\ running' = [running EXCEPT ![j] = @ - 1]
        /\ finished' = [finished EXCEPT ![j] = @ + 1]
    BY <1>4, Zenon DEF Handle
  <2>3. Rows' = Rows /\ Started' = Started /\ Processed' = Processed
    BY <2>1 DEF Rows, Started, Processed
  <2>4. NoneStranded'
    BY <1>0, <2>2, <2>3 DEF NoneStranded
  <2>5. QED
    BY <2>1, <2>3, <2>4 DEF NoneOvertaken
<1>5. ASSUME NEW j \in Rows, CompleteJob(j) PROVE NoneStranded' /\ NoneOvertaken'
  <2>1. job' = [job EXCEPT ![j].processed = TRUE]
    BY <1>5, Zenon DEF CompleteJob
  <2>2. Rows' = Rows /\ Started' = Started /\ Processed' = Processed \cup {j}
    BY <1>0, <2>1, CompleteMarks
  <2>3. finished' = [finished EXCEPT ![j] = @ - 1] /\ UNCHANGED <<spawned, running>>
    BY <1>5, Zenon DEF CompleteJob
  <2>4. NoneStranded'
    BY <1>0, <2>2, <2>3 DEF NoneStranded
  <2>5. QED
    BY <2>2, <2>3, <2>4 DEF NoneOvertaken
<1>6. ~Crash /\ ~ScanFails /\ \A j : ~StartFails(j)
  BY <1>0, Zenon DEF Crash, ScanFails, StartFails, TypeOK, RepositoryOK, Directories
<1>7. ASSUME NEW nj \in apiJob, ApiRegister(nj) PROVE Queued \/ UNCHANGED job
  BY <1>0, <1>7, Zenon DEF ApiRegister, TypeOK, Queued
<1>8. ASSUME NEW u \in scan.found, ScanInsert(u) PROVE Queued \/ UNCHANGED job
  <2>1. u \in NewJob
    BY <1>0 DEF TypeOK
  <2>2. QED
    BY <1>8, <2>1, Zenon DEF ScanInsert, Queued
<1>9. ASSUME NEW c \in Deliveries, HookRegister(c) PROVE Queued
  BY <1>0, <1>9, HookQueues
<1>10. QED
  BY <1>1, <1>2, <1>3, <1>4, <1>5, <1>6, <1>7, <1>8, <1>9, Zenon
  DEF Next, vars, tasks, GitHubStep, HookStep, ApiStep, ScanStep, TaskStep, PushCommit,
      DeleteBranch, Redeliver, HookReceive, HookRegister, HookAbort, ApiCommit,
      ApiRegister, ScanDefault, ScanBranches, ScanInsert

LEMMA FaultlessInvariant ==
    ASSUME Faults = {}
    PROVE  Spec => [](NoneStranded /\ NoneOvertaken)
<1>1. Init => NoneStranded /\ NoneOvertaken
  BY DEF Init, NoneStranded, NoneOvertaken, Started, Rows
<1>2. QueueInv /\ QueueInv' /\ NoneStranded /\ NoneOvertaken /\ [Next]_vars =>
          NoneStranded' /\ NoneOvertaken'
  BY QueueAssumption, FaultlessStep
<1>3. QED
  BY <1>1, <1>2, QueueInvariant, PTL DEF Spec

\* Without faults no job is stranded: one that start() marked is in the hands of
\* a task until complete() marks it, for any number of tasks of one job.
THEOREM NoJobIsStranded ==
    ASSUME Faults = {}
    PROVE  Spec => []StartedJobHasTask
<1>1. NoneStranded => StartedJobHasTask
  BY Zenon DEF NoneStranded, StartedJobHasTask, Started, Processed
<1>2. QED
  BY <1>1, FaultlessInvariant, PTL

\* Without faults no job is overtaken, whatever the size of the pages and however
\* many tasks wait to start (the order of JobStore::list).
THEOREM NoJobIsOvertaken ==
    ASSUME Faults = {}
    PROVE  Spec => []OldestFirst
<1>1. NoneOvertaken => OldestFirst
  BY Zenon DEF NoneOvertaken, OldestFirst, Started
<1>2. QED
  BY <1>1, FaultlessInvariant, PTL

=============================================================================
