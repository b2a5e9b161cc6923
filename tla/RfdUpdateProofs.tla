--------------------------- MODULE RfdUpdateProofs ---------------------------
(***************************************************************************)
(* What is proved of RfdUpdate, for any documents, configured actions,     *)
(* faults and numbers of runs, commits and pull requests: the types, that  *)
(* the commits of the processor take nothing back, that a processor which  *)
(* may write stores only what the repository has, and when an RFD has one  *)
(* row.                                                                    *)
(***************************************************************************)
EXTENDS RfdUpdate, FiniteSetTheorems, WellFoundedInduction, TLAPS

-----------------------------------------------------------------------------
(* The invariant. *)

CommitType == [branch : {Main, Own}, doc : Doc, base : Nat]

\* Document d is that of commit c, or what the processor committed in its place.
InRepository(c, d) ==
    \/ d = commits[c].doc
    \/ \E n \in Commits : commits[n].base = c /\ commits[n].doc = d

Early == {"load", "lookup", "rfd", "revision", "pulls"}
Late == {"revision", "pulls", "actions", "store_rfd", "store_revision"}
Storing == {"store_rfd", "store_revision"}

\* What a document may become: it keeps its text, and the state unless that does
\* not go with a pull request.
Follows(new, old) ==
    /\ new.text = old.text
    /\ new.state = old.state \/ old.state = "prediscussion"

\* A run: it has a row once it wrote one; its copy is the document of its commit
\* until actions change it, and then it wants the change committed; and what it is
\* about to store is in the repository when the processor may write to it.
RunOk(t, x) ==
    /\ x \in RunState
    /\ x.row \in 0 .. Len(rfds)
    /\ x.pc \in Late => x.row # 0
    /\ x.pc \in Early => x.doc = commits[t[1]].doc
    /\ x.pc = "actions" => /\ Follows(x.doc, commits[t[1]].doc)
                           /\ x.doc = commits[t[1]].doc \/ x.requires_source_commit
    /\ x.pc \in Storing /\ Mode = "write" => InRepository(t[1], x.doc)

RunsOk == \A t \in DOMAIN run : RunOk(t, run[t])

\* Commit m was the head of the branch of commit n before it.
IsBefore(m, n) ==
    /\ m \in CommitsOf(commits[n].branch)
    /\ m < n
    /\ \A k \in CommitsOf(commits[n].branch) : k < n => k <= m

EditsOk ==
    \A n \in Commits : commits[n].base # 0 =>
        \E m \in Commits : IsBefore(m, n) /\ Follows(commits[n].doc, commits[m].doc)

RevsOk == Mode = "write" => \A k \in DOMAIN revs : InRepository(k[2], revs[k])

\* The branch of the RFD has a commit.
OwnBranch == \E c \in Commits : commits[c].branch = Own

Inv == TypeOK /\ RunsOk /\ EditsOk /\ RevsOk /\ OwnBranch

-----------------------------------------------------------------------------
(* Commits. *)

\* Commits are never changed, only added; rows are never removed.
Grows ==
    /\ commits' \in Seq(CommitType)
    /\ Commits \subseteq Commits'
    /\ \A c \in Commits : commits'[c] = commits[c]
    /\ rfds' \in Seq(Visibility)
    /\ Len(rfds) <= Len(rfds')

LEMMA CommitTyped ==
    ASSUME TypeOK
    PROVE  /\ commits \in Seq(CommitType)
           /\ Len(commits) \in Nat
           /\ Commits = 1 .. Len(commits)
           /\ \A c \in Commits : commits[c] \in CommitType
           /\ rfds \in Seq(Visibility)
           /\ Len(rfds) \in Nat
           /\ DOMAIN rfds = 1 .. Len(rfds)
<1>1. commits \in Seq(CommitType) /\ rfds \in Seq(Visibility)
    BY Zenon DEF TypeOK, CommitType
<1> HIDE DEF CommitType
<1> QED
    BY <1>1 DEF Commits

LEMMA CommitAppended ==
    ASSUME TypeOK, NEW b \in {Main, Own}, NEW d \in Doc, NEW base \in Nat,
           Commit(b, d, base)
    PROVE  /\ commits' \in Seq(CommitType)
           /\ Len(commits') = Len(commits) + 1
           /\ Commits' = Commits \cup {Len(commits) + 1}
           /\ Len(commits) + 1 \notin Commits
           /\ \A c \in Commits : commits'[c] = commits[c]
           /\ commits'[Len(commits) + 1] = [branch |-> b, doc |-> d, base |-> base]
<1> DEFINE x == [branch |-> b, doc |-> d, base |-> base]
<1>1. x \in CommitType
    BY Zenon DEF CommitType
<1>2. commits' = Append(commits, x)
    BY Zenon DEF Commit
<1>3. commits \in Seq(CommitType)
    BY CommitTyped
<1>4. x = [branch |-> b, doc |-> d, base |-> base]
    OBVIOUS
<1> HIDE DEF x, CommitType
<1>5. /\ commits' \in Seq(CommitType)
      /\ Len(commits') = Len(commits) + 1
      /\ commits'[Len(commits) + 1] = x
      /\ \A c \in 1 .. Len(commits) : commits'[c] = commits[c]
      /\ Len(commits) \in Nat
      /\ DOMAIN commits = 1 .. Len(commits)
      /\ DOMAIN commits' = 1 .. Len(commits')
    BY <1>1, <1>2, <1>3
<1> QED
    BY <1>4, <1>5, SMT DEF Commits

\* A set of commits that is not empty has a last one.
LEMMA LastOf ==
    ASSUME NEW N \in Nat, NEW S \in SUBSET (1 .. N), S # {}
    PROVE  \E m \in S : \A k \in S : k <= m
<1> DEFINE T == {N - c : c \in S}
<1>1. T \subseteq Nat /\ T # {}
  <2>1. \A c \in 1 .. N : N - c \in Nat
      BY SMT
  <2> QED
      BY <2>1, Zenon
<1>2. PICK x \in T : \A y \in T : ~(<<y, x>> \in OpToRel(<, Nat))
    BY <1>1, NatLessThanWellFounded, WFMin, Zenon
<1>3. \A y \in T : ~(y < x)
  <2>1. OpToRel(<, Nat) = {p \in Nat \X Nat : p[1] < p[2]}
      BY Zenon DEF OpToRel
  <2>2. \A y \in T : <<y, x>> \notin {p \in Nat \X Nat : p[1] < p[2]}
      BY <1>2, <2>1, Zenon
  <2> HIDE DEF T
  <2> QED
      BY <1>1, <2>2
<1>4. PICK m \in S : x = N - m
    BY <1>2
<1>5. ASSUME NEW k \in S PROVE k <= m
  <2>1. N - k \in T /\ ~(N - k < x)
      BY <1>3
  <2> QED
      BY <1>4, <2>1, SMT
<1> QED
    BY <1>4, <1>5

LEMMA HeadIsLast ==
    ASSUME TypeOK, NEW c \in Commits
    PROVE  LET h == HeadOf(commits[c].branch)
           IN  /\ h \in CommitsOf(commits[c].branch)
               /\ \A d \in CommitsOf(commits[c].branch) : d <= h
<1> DEFINE S == CommitsOf(commits[c].branch)
<1>1. /\ Len(commits) \in Nat /\ S \subseteq 1 .. Len(commits) /\ c \in S
    BY CommitTyped DEF CommitsOf
<1>2. \E m \in S : \A k \in S : k <= m
    BY <1>1, LastOf
<1> QED
    BY <1>2, Zenon DEF HeadOf

\* What is true of a commit stays true when others are added.
LEMMA RepositoryKept ==
    ASSUME Grows, NEW c \in Commits, NEW d, InRepository(c, d)
    PROVE  InRepository(c, d)'
BY Zenon DEF Grows, InRepository

LEMMA BeforeKept ==
    ASSUME TypeOK, Grows, NEW n \in Commits, NEW m \in Commits, IsBefore(m, n),
           \A k \in Commits' : k \in Commits \/ k > n
    PROVE  IsBefore(m, n)'
<1>1. commits'[n] = commits[n] /\ \A k \in Commits : commits'[k] = commits[k]
    BY Zenon DEF Grows
<1>2. m \in CommitsOf(commits[n].branch)'
    BY <1>1, Zenon DEF IsBefore, CommitsOf, Grows
<1>3. ASSUME NEW k \in CommitsOf(commits[n].branch)', k < n
      PROVE  k <= m
  <2>1. k \in Commits' /\ commits'[k].branch = commits'[n].branch
      BY Zenon DEF CommitsOf
  <2>2. n \in Nat /\ Commits' \subseteq Nat
    <3>1. Commits' = 1 .. Len(commits')
        BY DEF Grows, Commits
    <3>2. Len(commits') \in Nat
        BY DEF Grows
    <3> QED
        BY <3>1, <3>2, CommitTyped
  <2>3. k \in Commits
      BY <1>3, <2>1, <2>2
  <2>4. k \in CommitsOf(commits[n].branch)
      BY <1>1, <2>1, <2>3, Zenon DEF CommitsOf
  <2> QED
      BY <1>3, <2>4, Zenon DEF IsBefore
<1> QED
    BY <1>2, <1>3, Zenon DEF IsBefore

-----------------------------------------------------------------------------
(* What a step has to show. *)

LEMMA RunTyped ==
    ASSUME Inv, NEW t \in DOMAIN run
    PROVE  run[t] \in RunState /\ t[1] \in Commits /\ RunOk(t, run[t])
<1>1. DOMAIN run \subseteq Commits \X Copies
    BY Zenon DEF Inv, TypeOK
<1>2. t[1] \in Commits
    BY <1>1, Zenon
<1> QED
    BY <1>2, Zenon DEF Inv, TypeOK, RunsOk

LEMMA RunOkKept ==
    ASSUME TypeOK, Grows, NEW t, t[1] \in Commits, NEW x, RunOk(t, x)
    PROVE  RunOk(t, x)'
<1>1. commits'[t[1]] = commits[t[1]]
    BY Zenon DEF Grows
<1>2. \A n \in 0 .. Len(rfds) : n \in 0 .. Len(rfds')
  <2>1. Len(rfds) \in Nat /\ Len(rfds') \in Nat /\ Len(rfds) <= Len(rfds')
      BY CommitTyped DEF Grows
  <2> QED
      BY <2>1, SMT
<1>3. InRepository(t[1], x.doc) => InRepository(t[1], x.doc)'
    BY RepositoryKept
<1> QED
    BY <1>1, <1>2, <1>3, Zenon DEF RunOk

LEMMA RevsTyped ==
    ASSUME TypeOK, Grows, UNCHANGED revs
    PROVE  /\ DOMAIN revs' \subseteq (DOMAIN rfds') \X Commits'
           /\ \A k \in DOMAIN revs' : revs'[k] \in Doc
<1>1. DOMAIN rfds \subseteq DOMAIN rfds'
  <2>1. Len(rfds) \in Nat /\ Len(rfds') \in Nat /\ Len(rfds) <= Len(rfds')
      BY CommitTyped DEF Grows
  <2>2. DOMAIN rfds = 1 .. Len(rfds) /\ DOMAIN rfds' = 1 .. Len(rfds')
      BY CommitTyped DEF Grows
  <2> QED
      BY <2>1, <2>2, SMT
<1> QED
    BY <1>1, Zenon DEF TypeOK, Grows

LEMMA RevsKept ==
    ASSUME Inv, Grows, UNCHANGED revs
    PROVE  RevsOk'
<1>1. \A k \in DOMAIN revs : k[2] \in Commits
    BY Zenon DEF Inv, TypeOK
<1> QED
    BY <1>1, RepositoryKept, Zenon DEF Inv, RevsOk

LEMMA EditsKept ==
    ASSUME Inv, UNCHANGED commits
    PROVE  EditsOk'
BY Zenon DEF Inv, EditsOk, IsBefore, CommitsOf, Commits

\* The parts of the next state together.
LEMMA Together ==
    ASSUME Inv, Grows, pulls' \in Seq(BOOLEAN),
           DOMAIN run' \subseteq Commits' \X Copies, RunsOk',
           UNCHANGED commits \/ EditsOk',
           \/ UNCHANGED revs
           \/ /\ DOMAIN revs' \subseteq (DOMAIN rfds') \X Commits'
              /\ \A k \in DOMAIN revs' : revs'[k] \in Doc
              /\ RevsOk'
    PROVE  Inv'
<1>1. TypeOK
    BY DEF Inv
<1>2. /\ DOMAIN revs' \subseteq (DOMAIN rfds') \X Commits'
      /\ \A k \in DOMAIN revs' : revs'[k] \in Doc
    BY <1>1, RevsTyped
<1>3. \A t \in DOMAIN run' : run'[t] \in RunState
    BY Zenon DEF RunsOk, RunOk
<1>4. TypeOK'
    BY <1>2, <1>3, Zenon DEF TypeOK, Grows, CommitType
<1>5. RevsOk' /\ EditsOk'
    BY RevsKept, EditsKept
<1>6. OwnBranch'
    BY Zenon DEF Inv, OwnBranch, Grows
<1> QED
    BY <1>4, <1>5, <1>6 DEF Inv

\* A step of run t, which makes it x.
RunTo(t, x) == run' = [run EXCEPT ![t] = x] /\ x \in RunState

LEMMA RunKeeps ==
    ASSUME Inv, Grows, NEW t \in DOMAIN run, NEW x, RunTo(t, x), RunOk(t, x)',
           pulls' \in Seq(BOOLEAN),
           UNCHANGED commits \/ EditsOk',
           \/ UNCHANGED revs
           \/ /\ DOMAIN revs' \subseteq (DOMAIN rfds') \X Commits'
              /\ \A k \in DOMAIN revs' : revs'[k] \in Doc
              /\ RevsOk'
    PROVE  Inv'
<1>1. DOMAIN run' = DOMAIN run /\ run'[t] = x
    BY Zenon DEF RunTo
<1>2. ASSUME NEW u \in DOMAIN run', u # t PROVE RunOk(u, run[u])' /\ run'[u] = run[u]
  <2>1. u \in DOMAIN run /\ run'[u] = run[u]
      BY <1>1, <1>2, Zenon DEF RunTo
  <2>2. u[1] \in Commits /\ RunOk(u, run[u]) /\ TypeOK
      BY <2>1, RunTyped DEF Inv
  <2>3. PICK r : r = run[u]
      OBVIOUS
  <2>4. RunOk(u, r)'
      BY <2>2, <2>3, RunOkKept
  <2> QED
      BY <2>1, <2>3, <2>4
<1>3. RunsOk'
  <2> SUFFICES ASSUME NEW u \in DOMAIN run', NEW r, r = run'[u]
               PROVE  RunOk(u, r)'
      BY Zenon DEF RunsOk
  <2>1. CASE u = t
      BY <1>1, <2>1
  <2>2. CASE u # t
      BY <1>2, <2>2
  <2> QED
      BY <2>1, <2>2
<1>4. DOMAIN run' \subseteq Commits' \X Copies
  <2>1. DOMAIN run' \subseteq Commits \X Copies
      BY <1>1, Zenon DEF Inv, TypeOK
  <2>2. Commits \subseteq Commits'
      BY Zenon DEF Grows
  <2> QED
      BY <2>1, <2>2
<1> QED
    BY <1>3, <1>4, Together

\* Nothing is added to the repository or the tables.
LEMMA NothingAdded ==
    ASSUME Inv, UNCHANGED <<commits, rfds>>
    PROVE  Grows
<1>1. TypeOK
    BY DEF Inv
<1>2. /\ commits \in Seq(CommitType) /\ rfds \in Seq(Visibility)
      /\ Len(rfds) <= Len(rfds)
    BY <1>1, CommitTyped
<1> QED
    BY <1>2, Zenon DEF Grows, Commits

-----------------------------------------------------------------------------
(* The steps of a run. *)

\* What a run keeps when it goes on.
Same(x, r) ==
    /\ x.prev = r.prev /\ x.row = r.row /\ x.vis = r.vis /\ x.doc = r.doc
    /\ x.requires_source_commit = r.requires_source_commit

LEMMA GotoRun ==
    ASSUME Inv, NEW t \in DOMAIN run, NEW pc \in PC, Goto(t, pc)
    PROVE  \E x \in RunState : RunTo(t, x) /\ x.pc = pc /\ Same(x, run[t])
<1> DEFINE x == [run[t] EXCEPT !.pc = pc]
<1>1. run' = [run EXCEPT ![t] = x]
    BY Zenon DEF Goto
<1>2. run[t] \in RunState
    BY RunTyped
<1>3. x \in RunState /\ x.pc = pc /\ Same(x, run[t])
    BY <1>2, Zenon DEF RunState, Same
<1> HIDE DEF x
<1> QED
    BY <1>1, <1>3, Zenon DEF RunTo

\* The run keeps its document.
LEMMA QuietRun ==
    ASSUME Inv, UNCHANGED commits, NEW t \in DOMAIN run,
           NEW x \in RunState,
           x.doc = run[t].doc,
           x.row \in 0 .. Len(rfds'),
           x.pc \in Late => x.row # 0,
           x.pc \in Early => run[t].pc \in Early,
           x.pc # "actions", x.pc \notin Storing \/ run[t].pc \in Storing
    PROVE  RunOk(t, x)'
<1>1. RunOk(t, run[t]) /\ t[1] \in Commits
    BY RunTyped
<1>2. commits'[t[1]] = commits[t[1]]
    OBVIOUS
<1>3. InRepository(t[1], run[t].doc) => InRepository(t[1], x.doc)'
    BY <1>1, Zenon DEF InRepository, Commits
<1> QED
    BY <1>1, <1>2, <1>3, Zenon DEF RunOk

\* And nothing is written but rows.
LEMMA QuietStep ==
    ASSUME Inv, Grows, UNCHANGED <<commits, pulls, revs>>, NEW t \in DOMAIN run,
           NEW x \in RunState, RunTo(t, x),
           x.doc = run[t].doc,
           x.row \in 0 .. Len(rfds'),
           x.pc \in Late => x.row # 0,
           x.pc \in Early => run[t].pc \in Early,
           x.pc # "actions", x.pc \notin Storing \/ run[t].pc \in Storing
    PROVE  Inv'
<1>1. RunOk(t, x)'
    BY QuietRun
<1>2. pulls' \in Seq(BOOLEAN)
    BY Zenon DEF Inv, TypeOK
<1> QED
    BY <1>1, <1>2, RunKeeps

LEMMA RowTyped ==
    ASSUME Inv, NEW t \in DOMAIN run
    PROVE  /\ run[t].row \in 0 .. Len(rfds)
           /\ Len(rfds) \in Nat
           /\ run[t].pc \in Late => run[t].row \in DOMAIN rfds
<1>1. TypeOK /\ RunOk(t, run[t])
    BY RunTyped DEF Inv
<1>2. run[t].row \in 0 .. Len(rfds) /\ (run[t].pc \in Late => run[t].row # 0)
    BY <1>1, Zenon DEF RunOk
<1>3. Len(rfds) \in Nat /\ DOMAIN rfds = 1 .. Len(rfds)
    BY <1>1, CommitTyped
<1> QED
    BY <1>2, <1>3, SMT

LEMMA LoadKeeps ==
    ASSUME Inv, NEW t \in DOMAIN run, Load(t) \/ Lookup(t)
    PROVE  Inv'
<1>1. run[t] \in RunState
    BY RunTyped
<1>2. UNCHANGED <<commits, pulls, rfds, revs>>
    BY Zenon DEF Load, Lookup, repo, tables
<1>3. Grows
    BY <1>2, NothingAdded
<1>4. run[t].row \in 0 .. Len(rfds) /\ Len(rfds) \in Nat
    BY RowTyped
<1>5. DOMAIN rfds = 1 .. Len(rfds) /\ \A r \in DOMAIN rfds : rfds[r] \in Visibility
  <2>1. TypeOK
      BY DEF Inv
  <2>2. rfds \in Seq(Visibility)
      BY <2>1, CommitTyped
  <2> QED
      BY <2>2
<1>6. \A r \in DOMAIN rfds : r \in Nat /\ r \in 0 .. Len(rfds)
    BY <1>4, <1>5, SMT
<1>7. CASE Load(t)
  <2>1. PICK prev \in {IF HasRevision(r) THEN r ELSE 0 : r \in DOMAIN rfds}
                         \cup (IF rfds = <<>> THEN {0} ELSE {}) :
            run' = [run EXCEPT ![t].pc = "lookup", ![t].prev = prev]
      BY <1>7 DEF Load
  <2>2. prev \in Nat
    <3>1. (\E r \in DOMAIN rfds : prev = r) \/ prev = 0
        BY <2>1, Zenon
    <3> QED
        BY <1>6, <3>1
  <2> DEFINE x == [run[t] EXCEPT !.pc = "lookup", !.prev = prev]
  <2>3. run' = [run EXCEPT ![t] = x]
      BY <2>1, Zenon
  <2>4. "lookup" \in PC
      BY DEF PC
  <2>5. x \in RunState /\ x.pc = "lookup" /\ x.doc = run[t].doc /\ x.row = run[t].row
      BY <1>1, <2>2, <2>4, Zenon DEF RunState
  <2> HIDE DEF x
  <2>6. run[t].pc = "load" /\ RunTo(t, x)
      BY <1>7, <2>3, <2>5, Zenon DEF Load, RunTo
  <2>7. /\ x.pc \in Early /\ x.pc \notin Late /\ x.pc \notin Storing /\ x.pc # "actions"
        /\ run[t].pc \in Early
      BY <2>5, <2>6 DEF Early, Late, Storing
  <2> QED
      BY <1>2, <1>3, <1>4, <2>5, <2>6, <2>7, QuietStep
<1>8. CASE Lookup(t)
  <2>1. PICK row \in 0 .. Len(rfds), vis \in Visibility :
            run' = [run EXCEPT ![t].pc = "rfd", ![t].row = row, ![t].vis = vis]
    <3>1. CASE rfds = <<>>
      <4>1. run' = [run EXCEPT ![t].pc = "rfd"]
          BY <1>8, <3>1 DEF Lookup, Goto
      <4>2. [run EXCEPT ![t].pc = "rfd"]
                = [run EXCEPT ![t].pc = "rfd", ![t].row = run[t].row, ![t].vis = run[t].vis]
        <5>1. [run[t] EXCEPT !.pc = "rfd"]
                  = [run[t] EXCEPT !.pc = "rfd", !.row = run[t].row, !.vis = run[t].vis]
            BY <1>1, Zenon DEF RunState
        <5> QED
            BY <5>1, Zenon
      <4>3. run[t].vis \in Visibility
          BY <1>1, Zenon DEF RunState
      <4> QED
          BY <1>4, <4>1, <4>2, <4>3
    <3>2. CASE rfds # <<>>
      <4>1. PICK r \in DOMAIN rfds :
                run' = [run EXCEPT ![t].pc = "rfd", ![t].row = r, ![t].vis = rfds[r]]
          BY <1>8, <3>2, Zenon DEF Lookup
      <4> QED
          BY <1>5, <1>6, <4>1, Zenon
    <3> QED
        BY <3>1, <3>2
  <2> DEFINE x == [run[t] EXCEPT !.pc = "rfd", !.row = row, !.vis = vis]
  <2>2. run' = [run EXCEPT ![t] = x]
      BY <2>1, Zenon
  <2>3. "rfd" \in PC /\ row \in Nat
    <3>1. row \in Nat
        BY <1>4, <2>1, SMT
    <3> QED
        BY <3>1 DEF PC
  <2>4. x \in RunState /\ x.pc = "rfd" /\ x.doc = run[t].doc /\ x.row = row
      BY <1>1, <2>1, <2>3, Zenon DEF RunState
  <2> HIDE DEF x
  <2>5. run[t].pc = "lookup" /\ RunTo(t, x)
      BY <1>8, <2>2, <2>4, Zenon DEF Lookup, RunTo
  <2>6. /\ x.pc \in Early /\ x.pc \notin Late /\ x.pc \notin Storing /\ x.pc # "actions"
        /\ run[t].pc \in Early
      BY <2>4, <2>5 DEF Early, Late, Storing
  <2> QED
      BY <1>2, <1>3, <2>1, <2>4, <2>5, <2>6, QuietStep
<1> QED
    BY <1>7, <1>8

LEMMA RowsTyped ==
    ASSUME NEW S, NEW rows \in Seq(S), NEW v \in S
    PROVE  /\ Append(rows, v) \in Seq(S)
           /\ Len(Append(rows, v)) = Len(rows) + 1
           /\ \A r \in 1 .. Len(rows) :
                 /\ [rows EXCEPT ![r] = v] \in Seq(S)
                 /\ Len([rows EXCEPT ![r] = v]) = Len(rows)
BY SMT

\* Rows are added, or get another visibility.
LEMMA RowsGrow ==
    ASSUME Inv, UNCHANGED commits, rfds' \in Seq(Visibility), Len(rfds') >= Len(rfds)
    PROVE  Grows
<1>1. TypeOK
    BY DEF Inv
<1>2. commits \in Seq(CommitType) /\ Len(rfds) \in Nat /\ Len(rfds') \in Nat
    BY <1>1, CommitTyped
<1>3. Len(rfds) <= Len(rfds')
    BY <1>2, SMT
<1> QED
    BY <1>2, <1>3, Zenon DEF Grows, Commits

LEMMA RowAdded ==
    ASSUME Inv, UNCHANGED commits, rfds' = Append(rfds, "private")
    PROVE  Grows /\ Len(rfds) \in Nat /\ Len(rfds') = Len(rfds) + 1
<1>1. TypeOK
    BY DEF Inv
<1>2. rfds \in Seq(Visibility) /\ Len(rfds) \in Nat
    BY <1>1, CommitTyped
<1>3. "private" \in Visibility
    BY DEF Visibility
<1>4. Append(rfds, "private") \in Seq(Visibility) /\ Len(Append(rfds, "private")) = Len(rfds) + 1
    BY <1>2, <1>3, RowsTyped, Zenon
<1>5. rfds' \in Seq(Visibility) /\ Len(rfds') = Len(rfds) + 1
    BY <1>4, Zenon
<1>6. Len(rfds') >= Len(rfds)
    BY <1>2, <1>5, SMT
<1> QED
    BY <1>2, <1>5, <1>6, RowsGrow

LEMMA RowSet ==
    ASSUME Inv, UNCHANGED commits, NEW r \in DOMAIN rfds, NEW v \in Visibility,
           rfds' = [rfds EXCEPT ![r] = v]
    PROVE  Grows /\ Len(rfds') = Len(rfds)
<1>1. TypeOK
    BY DEF Inv
<1>2. rfds \in Seq(Visibility) /\ Len(rfds) \in Nat /\ DOMAIN rfds = 1 .. Len(rfds)
    BY <1>1, CommitTyped
<1>3. [rfds EXCEPT ![r] = v] \in Seq(Visibility) /\ Len([rfds EXCEPT ![r] = v]) = Len(rfds)
  <2>1. \A n \in 1 .. Len(rfds) : /\ [rfds EXCEPT ![n] = v] \in Seq(Visibility)
                                  /\ Len([rfds EXCEPT ![n] = v]) = Len(rfds)
      BY <1>2, RowsTyped, Zenon
  <2>2. r \in 1 .. Len(rfds)
      BY <1>2
  <2> QED
      BY <2>1, <2>2, Zenon
<1>4. rfds' \in Seq(Visibility) /\ Len(rfds') = Len(rfds)
    BY <1>3, Zenon
<1>5. Len(rfds') >= Len(rfds)
    BY <1>2, <1>4, SMT
<1> QED
    BY <1>4, <1>5, RowsGrow

LEMMA UpsertRfdKeeps ==
    ASSUME Inv, NEW t \in DOMAIN run, UpsertRfd(t)
    PROVE  Inv'
<1>1. run[t] \in RunState
    BY RunTyped
<1>2. run[t].pc = "rfd" /\ UNCHANGED <<commits, pulls, revs>>
    BY Zenon DEF UpsertRfd, repo
<1>3. run[t].pc \in Early
    BY <1>2 DEF Early
<1>4. "revision" \in PC
    BY DEF PC
<1>5. CASE run[t].row = 0
  <2>1. rfds' = Append(rfds, "private")
      BY <1>5, Zenon DEF UpsertRfd
  <2>2. Grows /\ Len(rfds) \in Nat /\ Len(rfds') = Len(rfds) + 1
      BY <1>2, <2>1, RowAdded
  <2> DEFINE n == Len(rfds) + 1
             x == [run[t] EXCEPT !.pc = "revision", !.row = n]
  <2>3. run' = [run EXCEPT ![t] = x]
      BY <1>5, Zenon DEF UpsertRfd
  <2>4. n \in Nat /\ n # 0 /\ n \in 0 .. Len(rfds')
      BY <2>2, SMT
  <2> HIDE DEF n
  <2>5. x \in RunState /\ x.pc = "revision" /\ x.doc = run[t].doc /\ x.row = n
      BY <1>1, <1>4, <2>4, Zenon DEF RunState
  <2> HIDE DEF x
  <2>6. RunTo(t, x)
      BY <2>3, <2>5, Zenon DEF RunTo
  <2>7. x.pc \in Early /\ x.pc \notin Storing /\ x.pc # "actions"
      BY <2>5 DEF Early, Storing
  <2> QED
      BY <1>2, <1>3, <2>2, <2>4, <2>5, <2>6, <2>7, QuietStep
<1>6. CASE run[t].row # 0
  <2>1. rfds' = [rfds EXCEPT ![run[t].row] = run[t].vis] /\ Goto(t, "revision")
      BY <1>6, Zenon DEF UpsertRfd
  <2>2. run[t].row \in 0 .. Len(rfds) /\ Len(rfds) \in Nat
      BY RowTyped
  <2>3. DOMAIN rfds = 1 .. Len(rfds)
      BY CommitTyped DEF Inv
  <2>4. run[t].row \in DOMAIN rfds
      BY <1>6, <2>2, <2>3, SMT
  <2>5. run[t].vis \in Visibility
      BY <1>1, Zenon DEF RunState
  <2>6. Grows /\ Len(rfds') = Len(rfds)
      BY <1>2, <2>1, <2>4, <2>5, RowSet
  <2>7. PICK x \in RunState : RunTo(t, x) /\ x.pc = "revision" /\ Same(x, run[t])
      BY <1>4, <2>1, GotoRun
  <2>8. x.doc = run[t].doc /\ x.row = run[t].row
      BY <2>7, Zenon DEF Same
  <2>9. x.pc \in Early /\ x.pc \notin Storing /\ x.pc # "actions"
      BY <2>7 DEF Early, Storing
  <2>10. x.row \in 0 .. Len(rfds')
      BY <2>2, <2>6, <2>8
  <2> QED
      BY <1>2, <1>3, <1>6, <2>6, <2>7, <2>8, <2>9, <2>10, QuietStep
<1> QED
    BY <1>5, <1>6

\* A row is stored again before the revision.
LEMMA StoreRfdKeeps ==
    ASSUME Inv, NEW t \in DOMAIN run, StoreRfd(t)
    PROVE  Inv'
<1>1. run[t] \in RunState
    BY RunTyped
<1>2. /\ run[t].pc = "store_rfd" /\ UNCHANGED <<commits, pulls, revs>>
      /\ rfds' = [rfds EXCEPT ![run[t].row] = run[t].vis]
      /\ Goto(t, "store_revision")
    BY Zenon DEF StoreRfd, repo
<1>3. run[t].pc \in Late /\ run[t].pc \in Storing
    BY <1>2 DEF Late, Storing
<1>4. run[t].row \in DOMAIN rfds /\ run[t].row \in 0 .. Len(rfds)
    BY <1>3, RowTyped
<1>5. run[t].row # 0
    BY <1>3, RunTyped, Zenon DEF RunOk
<1>6. run[t].vis \in Visibility
    BY <1>1, Zenon DEF RunState
<1>7. Grows /\ Len(rfds') = Len(rfds)
    BY <1>2, <1>4, <1>6, RowSet
<1>8. "store_revision" \in PC
    BY DEF PC
<1>9. PICK x \in RunState : RunTo(t, x) /\ x.pc = "store_revision" /\ Same(x, run[t])
    BY <1>2, <1>8, GotoRun
<1>10. x.doc = run[t].doc /\ x.row = run[t].row
    BY <1>9, Zenon DEF Same
<1>11. x.pc \notin Early /\ x.pc # "actions"
    BY <1>9 DEF Early
<1>12. x.row \in 0 .. Len(rfds')
    BY <1>4, <1>7, <1>10
<1> QED
    BY <1>2, <1>3, <1>5, <1>7, <1>9, <1>10, <1>11, <1>12, QuietStep

\* A run that ends.
LEMMA EndKeeps ==
    ASSUME Inv, NEW t \in DOMAIN run, Goto(t, "ended"),
           UNCHANGED <<commits, pulls, rfds, revs>>
    PROVE  Inv'
<1>1. "ended" \in PC
    BY DEF PC
<1>2. PICK x \in RunState : RunTo(t, x) /\ x.pc = "ended" /\ Same(x, run[t])
    BY <1>1, GotoRun
<1>3. x.doc = run[t].doc /\ x.row = run[t].row
    BY <1>2, Zenon DEF Same
<1>4. x.row \in 0 .. Len(rfds')
    BY <1>3, RowTyped
<1>5. x.pc \notin Early /\ x.pc # "actions" /\ x.pc \notin Late /\ x.pc \notin Storing
    BY <1>2 DEF Early, Late, Storing
<1>6. Grows
    BY NothingAdded
<1> QED
    BY <1>2, <1>3, <1>4, <1>5, <1>6, QuietStep

\* Storing document d under row r and commit c.
LEMMA RevsStored ==
    ASSUME Inv, UNCHANGED <<commits, rfds>>,
           NEW r \in DOMAIN rfds, NEW c \in Commits, NEW d \in Doc,
           Mode = "write" => InRepository(c, d),
           \/ revs' = With(revs, <<r, c>>, d)
           \/ revs' = [revs EXCEPT ![<<r, c>>] = d]
    PROVE  /\ DOMAIN revs' \subseteq (DOMAIN rfds') \X Commits'
           /\ \A k \in DOMAIN revs' : revs'[k] \in Doc
           /\ RevsOk'
<1> DEFINE key == <<r, c>>
<1>1. key \in (DOMAIN rfds) \X Commits /\ key[2] = c
    OBVIOUS
<1>2. /\ DOMAIN revs' \subseteq DOMAIN revs \cup {key}
      /\ \A k \in DOMAIN revs' : \/ k = key /\ revs'[k] = d
                                 \/ k \in DOMAIN revs /\ revs'[k] = revs[k]
  <2> HIDE DEF key
  <2>1. CASE revs' = With(revs, key, d)
      BY <2>1, Zenon DEF With
  <2>2. CASE revs' = [revs EXCEPT ![key] = d]
      BY <2>2, Zenon
  <2> QED
      BY <2>1, <2>2 DEF key
<1> HIDE DEF key
<1>3. /\ DOMAIN revs \subseteq (DOMAIN rfds) \X Commits
      /\ \A k \in DOMAIN revs : revs[k] \in Doc
    BY Zenon DEF Inv, TypeOK
<1>4. Commits' = Commits
    BY Zenon DEF Commits
<1>5. DOMAIN revs' \subseteq (DOMAIN rfds') \X Commits'
    BY <1>1, <1>2, <1>3, <1>4, Zenon
<1>6. \A k \in DOMAIN revs' : revs'[k] \in Doc
    BY <1>2, <1>3, Zenon
<1>7. RevsOk'
  <2> SUFFICES ASSUME Mode = "write", NEW k \in DOMAIN revs', NEW b, b = k[2],
                      NEW e, e = revs'[k]
               PROVE  InRepository(b, e)'
      BY Zenon DEF RevsOk
  <2>1. InRepository(b, e)
    <3>1. CASE k = key /\ revs'[k] = d
        BY <1>1, <3>1
    <3>2. CASE k \in DOMAIN revs /\ revs'[k] = revs[k]
        BY <3>2 DEF Inv, RevsOk
    <3> QED
        BY <1>2, <3>1, <3>2
  <2> QED
      BY <1>4, <2>1, Zenon DEF InRepository
<1> QED
    BY <1>5, <1>6, <1>7

LEMMA DocTyped ==
    ASSUME TypeOK, NEW c \in Commits
    PROVE  /\ commits[c].branch \in {Main, Own}
           /\ commits[c].doc \in Doc
           /\ commits[c].base \in Nat
           /\ c \in Nat
<1>1. commits[c] \in CommitType /\ c \in 1 .. Len(commits)
    BY CommitTyped
<1>2. Len(commits) \in Nat
    BY CommitTyped
<1>3. c \in Nat
    BY <1>1, <1>2
<1> QED
    BY <1>1, <1>3, Zenon DEF CommitType

LEMMA UpsertRevisionKeeps ==
    ASSUME Inv, NEW t \in DOMAIN run, UpsertRevision(t)
    PROVE  Inv'
<1>1. run[t] \in RunState /\ t[1] \in Commits /\ RunOk(t, run[t]) /\ TypeOK
    BY RunTyped DEF Inv
<1>2. run[t].pc = "revision" /\ UNCHANGED <<commits, pulls, rfds>>
    BY Zenon DEF UpsertRevision, repo
<1>3. run[t].pc \in Early /\ run[t].pc \in Late
    BY <1>2 DEF Early, Late
<1>4. Grows
    BY <1>2, NothingAdded
<1>5. /\ run[t].row \in DOMAIN rfds /\ run[t].row \in 0 .. Len(rfds') /\ run[t].row # 0
      /\ run[t].doc = commits[t[1]].doc
    BY <1>1, <1>2, <1>3, RowTyped, Zenon DEF RunOk
<1>6. CASE Goto(t, "ended") /\ UNCHANGED revs
    BY <1>2, <1>6, EndKeeps
<1>7. CASE /\ revs' = With(revs, <<run[t].row, t[1]>>, run[t].doc)
           /\ Goto(t, IF run[t].prev \in {0, run[t].row} THEN "pulls" ELSE "ended")
  <2>1. PICK pc \in {"pulls", "ended"} : Goto(t, pc)
      BY <1>7
  <2>2. pc \in PC
      BY <2>1 DEF PC
  <2>3. PICK x \in RunState : RunTo(t, x) /\ x.pc = pc /\ Same(x, run[t])
      BY <2>1, <2>2, GotoRun
  <2>4. x.doc = run[t].doc /\ x.row = run[t].row
      BY <2>3, Zenon DEF Same
  <2>5. x.pc \notin Storing /\ x.pc # "actions"
      BY <2>1, <2>3 DEF Storing
  <2>6. RunOk(t, x)'
      BY <1>2, <1>3, <1>5, <2>3, <2>4, <2>5, QuietRun
  <2>7. run[t].doc \in Doc /\ InRepository(t[1], run[t].doc)
      BY <1>1, <1>5, DocTyped, Zenon DEF InRepository
  <2>8. /\ DOMAIN revs' \subseteq (DOMAIN rfds') \X Commits'
        /\ \A k \in DOMAIN revs' : revs'[k] \in Doc
        /\ RevsOk'
      BY <1>1, <1>2, <1>5, <1>7, <2>7, RevsStored
  <2>9. pulls' \in Seq(BOOLEAN) /\ UNCHANGED commits
      BY <1>2, Zenon DEF Inv, TypeOK
  <2> QED
      BY <1>4, <2>3, <2>6, <2>8, <2>9, RunKeeps
<1> QED
    BY <1>6, <1>7, Zenon DEF UpsertRevision

LEMMA StoreRevisionKeeps ==
    ASSUME Inv, NEW t \in DOMAIN run, StoreRevision(t)
    PROVE  Inv'
<1>1. run[t] \in RunState /\ t[1] \in Commits /\ RunOk(t, run[t])
    BY RunTyped
<1>2. /\ run[t].pc = "store_revision" /\ UNCHANGED <<commits, pulls, rfds>>
      /\ revs' = [revs EXCEPT ![<<run[t].row, t[1]>>] = run[t].doc]
      /\ Goto(t, "ended")
    BY Zenon DEF StoreRevision, repo
<1>3. run[t].pc \in Storing /\ run[t].pc \in Late
    BY <1>2 DEF Storing, Late
<1>4. Grows
    BY <1>2, NothingAdded
<1>5. run[t].row \in DOMAIN rfds /\ run[t].row \in 0 .. Len(rfds')
    BY <1>2, <1>3, RowTyped
<1>6. "ended" \in PC
    BY DEF PC
<1>7. PICK x \in RunState : RunTo(t, x) /\ x.pc = "ended" /\ Same(x, run[t])
    BY <1>2, <1>6, GotoRun
<1>8. x.doc = run[t].doc /\ x.row = run[t].row
    BY <1>7, Zenon DEF Same
<1>9. x.pc \notin Early /\ x.pc # "actions" /\ x.pc \notin Late /\ x.pc \notin Storing
    BY <1>7 DEF Early, Late, Storing
<1>10. RunOk(t, x)'
    BY <1>2, <1>5, <1>7, <1>8, <1>9, QuietRun
<1>11. run[t].doc \in Doc /\ (Mode = "write" => InRepository(t[1], run[t].doc))
  <2>1. run[t].doc \in Doc
      BY <1>1, Zenon DEF RunState
  <2> QED
      BY <1>1, <1>3, <2>1, Zenon DEF RunOk
<1>12. /\ DOMAIN revs' \subseteq (DOMAIN rfds') \X Commits'
       /\ \A k \in DOMAIN revs' : revs'[k] \in Doc
       /\ RevsOk'
    BY <1>1, <1>2, <1>5, <1>11, RevsStored
<1>13. pulls' \in Seq(BOOLEAN) /\ UNCHANGED commits
    BY <1>2, Zenon DEF Inv, TypeOK
<1> QED
    BY <1>4, <1>7, <1>10, <1>12, <1>13, RunKeeps

-----------------------------------------------------------------------------
(* The actions: a run stays among them, with a document that follows that of its *)
(* commit and is wanted committed when it is another.                            *)

LEMMA ActionKeeps ==
    ASSUME Inv, UNCHANGED <<commits, rfds, revs>>, pulls' \in Seq(BOOLEAN),
           NEW t \in DOMAIN run, NEW x \in RunState, RunTo(t, x),
           x.pc = "actions", x.row = run[t].row, run[t].pc \in Late,
           Follows(x.doc, commits[t[1]].doc),
           x.doc = commits[t[1]].doc \/ x.requires_source_commit
    PROVE  Inv'
<1>1. RunOk(t, run[t]) /\ t[1] \in Commits
    BY RunTyped
<1>2. Grows
    BY NothingAdded
<1>3. x.pc \notin Early /\ x.pc \notin Storing
    BY DEF Early, Storing
<1>4. RunOk(t, x)'
    BY <1>1, <1>3, Zenon DEF RunOk
<1> QED
    BY <1>2, <1>4, RunKeeps

LEMMA FindPullRequestsKeeps ==
    ASSUME Inv, NEW t \in DOMAIN run, FindPullRequests(t)
    PROVE  Inv'
<1>1. run[t] \in RunState /\ t[1] \in Commits /\ RunOk(t, run[t])
    BY RunTyped
<1>2. pulls \in Seq(BOOLEAN)
    BY Zenon DEF Inv, TypeOK
<1> DEFINE seen == IF commits[t[1]].branch = Main THEN <<>> ELSE pulls
           x == [run[t] EXCEPT !.pc = "actions", !.pulls = seen]
<1>3. /\ run[t].pc = "pulls" /\ UNCHANGED <<commits, pulls, rfds, revs>>
      /\ run' = [run EXCEPT ![t] = x]
    BY Zenon DEF FindPullRequests, repo, tables
<1>4. seen \in Seq(BOOLEAN)
  <2>1. <<>> \in Seq(BOOLEAN)
      OBVIOUS
  <2> QED
      BY <1>2, <2>1, Zenon
<1> HIDE DEF seen
<1>5. "actions" \in PC
    BY DEF PC
<1>6. x \in RunState /\ x.pc = "actions" /\ x.row = run[t].row /\ x.doc = run[t].doc
    BY <1>1, <1>4, <1>5, Zenon DEF RunState
<1> HIDE DEF x
<1>7. run[t].pc \in Early /\ run[t].pc \in Late
    BY <1>3 DEF Early, Late
<1>8. x.doc = commits[t[1]].doc
    BY <1>1, <1>6, <1>7, Zenon DEF RunOk
<1>9. Follows(x.doc, commits[t[1]].doc)
    BY <1>8, Zenon DEF Follows
<1>10. RunTo(t, x)
    BY <1>3, <1>6, Zenon DEF RunTo
<1> QED
    BY <1>2, <1>3, <1>6, <1>7, <1>8, <1>9, <1>10, ActionKeeps

LEMMA NextTyped ==
    ASSUME Inv, NEW t \in DOMAIN run
    PROVE  run[t].next + 1 \in Nat \ {0}
<1>1. run[t].next \in Nat \ {0}
    BY RunTyped, Zenon DEF RunState
<1> QED
    BY <1>1, SMT

\* A run among the actions.
LEMMA AtActions ==
    ASSUME Inv, NEW t \in DOMAIN run, run[t].pc = "actions"
    PROVE  /\ run[t] \in RunState /\ t[1] \in Commits
           /\ run[t].pc \in Late
           /\ Follows(run[t].doc, commits[t[1]].doc)
           /\ run[t].doc = commits[t[1]].doc \/ run[t].requires_source_commit
<1>1. run[t] \in RunState /\ t[1] \in Commits /\ RunOk(t, run[t])
    BY RunTyped
<1>2. run[t].pc \in Late
    BY DEF Late
<1> QED
    BY <1>1, <1>2, Zenon DEF RunOk

LEMMA SkippedKeeps ==
    ASSUME Inv, NEW t \in DOMAIN run, run[t].pc = "actions",
           UNCHANGED <<commits, rfds, revs>>, pulls' \in Seq(BOOLEAN),
           \/ run' = Skipped(t)
           \/ run' = [Skipped(t) EXCEPT ![t].pulls = pulls']
    PROVE  Inv'
<1> DEFINE n == run[t].next + 1
<1>1. run[t] \in RunState /\ n \in Nat \ {0} /\ run[t].pulls \in Seq(BOOLEAN)
    BY AtActions, NextTyped, Zenon DEF RunState
<1>2. PICK seen \in Seq(BOOLEAN) : run' = [run EXCEPT ![t].next = n, ![t].pulls = seen]
  <2>1. CASE run' = Skipped(t)
    <3>1. [run[t] EXCEPT !.next = n] = [run[t] EXCEPT !.next = n, !.pulls = run[t].pulls]
        BY <1>1, Zenon DEF RunState
    <3>2. run' = [run EXCEPT ![t].next = n, ![t].pulls = run[t].pulls]
        BY <2>1, <3>1, Zenon DEF Skipped
    <3> QED
        BY <1>1, <3>2
  <2>2. CASE run' = [Skipped(t) EXCEPT ![t].pulls = pulls']
    <3>1. run' = [run EXCEPT ![t].next = n, ![t].pulls = pulls']
        BY <2>2, Zenon DEF Skipped
    <3>2. PICK seen \in Seq(BOOLEAN) : seen = pulls'
        OBVIOUS
    <3> QED
        BY <3>1, <3>2, Zenon
  <2> QED
      BY <2>1, <2>2
<1> HIDE DEF n
<1> DEFINE x == [run[t] EXCEPT !.next = n, !.pulls = seen]
<1>3. run' = [run EXCEPT ![t] = x]
    BY <1>2, Zenon
<1>4. /\ x \in RunState /\ x.pc = "actions" /\ x.row = run[t].row /\ x.doc = run[t].doc
      /\ x.requires_source_commit = run[t].requires_source_commit
    BY <1>1, <1>2, Zenon DEF RunState
<1> HIDE DEF x
<1>5. RunTo(t, x)
    BY <1>3, <1>4, Zenon DEF RunTo
<1>6. /\ run[t].pc \in Late
      /\ Follows(x.doc, commits[t[1]].doc)
      /\ x.doc = commits[t[1]].doc \/ x.requires_source_commit
    BY <1>4, AtActions, Zenon
<1> QED
    BY <1>4, <1>5, <1>6, ActionKeeps

LEMMA ModifiedKeeps ==
    ASSUME Inv, NEW t \in DOMAIN run, run[t].pc = "actions",
           UNCHANGED <<commits, pulls, rfds, revs>>,
           NEW d \in Doc, Follows(d, commits[t[1]].doc),
           run' = Modified(t, d)
    PROVE  Inv'
<1> DEFINE n == run[t].next + 1
<1>1. run[t] \in RunState /\ n \in Nat \ {0}
    BY AtActions, NextTyped
<1> DEFINE x == [run[t] EXCEPT !.next = n, !.doc = d, !.needs_update = TRUE,
                               !.requires_source_commit = TRUE]
<1>2. run' = [run EXCEPT ![t] = x]
    BY Zenon DEF Modified
<1> HIDE DEF n
<1>3. /\ x \in RunState /\ x.pc = "actions" /\ x.row = run[t].row /\ x.doc = d
      /\ x.requires_source_commit
    BY <1>1, Zenon DEF RunState
<1> HIDE DEF x
<1>4. RunTo(t, x)
    BY <1>2, <1>3, Zenon DEF RunTo
<1>5. run[t].pc \in Late /\ pulls' \in Seq(BOOLEAN)
    BY AtActions, Zenon DEF Inv, TypeOK
<1> QED
    BY <1>3, <1>4, <1>5, ActionKeeps

\* Documents that follow: the link, and a state that goes with a pull request.
LEMMA UrlFollows ==
    ASSUME NEW old \in Doc, NEW doc \in Doc, Follows(doc, old), NEW p \in Nat
    PROVE  [doc EXCEPT !.url = p] \in Doc /\ Follows([doc EXCEPT !.url = p], old)
<1> DEFINE d == [doc EXCEPT !.url = p]
<1>1. d \in Doc /\ d.text = doc.text /\ d.state = doc.state
    BY Zenon DEF Doc
<1> HIDE DEF d
<1>2. Follows(d, old)
    BY <1>1, Zenon DEF Follows
<1> QED
    BY <1>1, <1>2 DEF d

LEMMA StateFollows ==
    ASSUME NEW old \in Doc, NEW doc \in Doc, Follows(doc, old), doc.state = "prediscussion"
    PROVE  /\ [doc EXCEPT !.state = "discussion"] \in Doc
           /\ Follows([doc EXCEPT !.state = "discussion"], old)
<1> DEFINE d == [doc EXCEPT !.state = "discussion"]
<1>1. "discussion" \in State
    BY DEF State
<1>2. d \in Doc /\ d.text = doc.text
    BY <1>1, Zenon DEF Doc
<1> HIDE DEF d
<1>3. Follows(d, old)
    BY <1>2, Zenon DEF Follows
<1> QED
    BY <1>2, <1>3 DEF d

LEMMA PullsTyped ==
    ASSUME pulls \in Seq(BOOLEAN)
    PROVE  Append(pulls, TRUE) \in Seq(BOOLEAN) /\ [p \in DOMAIN pulls |-> FALSE] \in Seq(BOOLEAN)
<1>1. FALSE \in BOOLEAN /\ TRUE \in BOOLEAN
    OBVIOUS
<1>2. DOMAIN pulls = 1 .. Len(pulls) /\ Len(pulls) \in Nat
    OBVIOUS
<1>3. [p \in 1 .. Len(pulls) |-> FALSE] \in Seq(BOOLEAN)
    BY <1>2
<1>4. Append(pulls, TRUE) \in Seq(BOOLEAN)
    BY <1>1, RowsTyped, Zenon
<1> QED
    BY <1>2, <1>3, <1>4

LEMMA ActionsKeep ==
    ASSUME Inv, NEW t \in DOMAIN run,
           \/ CreatePullRequest(t) \/ UpdateDiscussionUrl(t)
           \/ EnsureRfdWithPullRequestIsInValidState(t)
    PROVE  Inv'
<1>1. run[t].pc = "actions" /\ UNCHANGED <<commits, rfds, revs>>
    BY Zenon DEF CreatePullRequest, UpdateDiscussionUrl,
                 EnsureRfdWithPullRequestIsInValidState, IsNext, repo, tables
<1>2. /\ run[t] \in RunState /\ t[1] \in Commits /\ TypeOK
      /\ Follows(run[t].doc, commits[t[1]].doc)
    BY <1>1, AtActions DEF Inv
<1>3. run[t].doc \in Doc /\ commits[t[1]].doc \in Doc /\ run[t].pulls \in Seq(BOOLEAN)
    BY <1>2, DocTyped, Zenon DEF RunState
<1>4. pulls \in Seq(BOOLEAN)
    BY <1>2, Zenon DEF TypeOK
<1>5. CASE CreatePullRequest(t)
  <2>1. /\ pulls' = pulls \/ pulls' = Append(pulls, TRUE)
        /\ run' = Skipped(t) \/ run' = [Skipped(t) EXCEPT ![t].pulls = pulls']
      BY <1>5, Zenon DEF CreatePullRequest, PullOpens
  <2>2. pulls' \in Seq(BOOLEAN)
      BY <1>4, <2>1, PullsTyped, Zenon
  <2> QED
      BY <1>1, <2>1, <2>2, SkippedKeeps
<1>6. CASE UpdateDiscussionUrl(t)
  <2>1. UNCHANGED pulls /\ pulls' \in Seq(BOOLEAN)
      BY <1>4, <1>6, Zenon DEF UpdateDiscussionUrl, repo
  <2>2. CASE run' = Skipped(t)
      BY <1>1, <2>1, <2>2, SkippedKeeps
  <2>3. CASE \E p \in OpenIn(run[t].pulls) : run' = Modified(t, [run[t].doc EXCEPT !.url = p])
    <3>1. PICK p \in OpenIn(run[t].pulls) : run' = Modified(t, [run[t].doc EXCEPT !.url = p])
        BY <2>3
    <3>2. p \in Nat
      <4>1. p \in DOMAIN run[t].pulls
          BY <3>1, Zenon DEF OpenIn
      <4>2. DOMAIN run[t].pulls = 1 .. Len(run[t].pulls)
          BY <1>3
      <4> QED
          BY <4>1, <4>2
    <3>3. PICK d \in Doc : d = [run[t].doc EXCEPT !.url = p] /\ Follows(d, commits[t[1]].doc)
        BY <1>2, <1>3, <3>2, UrlFollows
    <3> QED
        BY <1>1, <2>1, <3>1, <3>3, ModifiedKeeps
  <2> QED
      BY <1>6, <2>2, <2>3, Zenon DEF UpdateDiscussionUrl
<1>7. CASE EnsureRfdWithPullRequestIsInValidState(t)
  <2>1. UNCHANGED pulls /\ pulls' \in Seq(BOOLEAN)
      BY <1>4, <1>7, Zenon DEF EnsureRfdWithPullRequestIsInValidState, repo
  <2>2. CASE run' = Skipped(t)
      BY <1>1, <2>1, <2>2, SkippedKeeps
  <2>3. CASE /\ run[t].doc.state = "prediscussion"
             /\ run' = Modified(t, [run[t].doc EXCEPT !.state = "discussion"])
    <3>1. PICK d \in Doc : /\ d = [run[t].doc EXCEPT !.state = "discussion"]
                           /\ Follows(d, commits[t[1]].doc)
        BY <1>2, <1>3, <2>3, StateFollows
    <3> QED
        BY <1>1, <2>1, <2>3, <3>1, ModifiedKeeps
  <2> QED
      BY <1>7, <2>2, <2>3, Zenon DEF EnsureRfdWithPullRequestIsInValidState
<1> QED
    BY <1>5, <1>6, <1>7

-----------------------------------------------------------------------------
(* Commits of users and of runs. *)

\* A commit that is added is a user's, or follows the head of its branch.
LEMMA EditsCommitted ==
    ASSUME Inv, UNCHANGED rfds,
           NEW b \in {Main, Own}, NEW d \in Doc, NEW base \in Nat, Commit(b, d, base),
           \/ base = 0
           \/ \E m \in CommitsOf(b) : /\ \A k \in CommitsOf(b) : k <= m
                                      /\ Follows(d, commits[m].doc)
    PROVE  Grows /\ EditsOk'
<1> DEFINE new == Len(commits) + 1
<1>1. TypeOK
    BY DEF Inv
<1>2. /\ commits' \in Seq(CommitType)
      /\ Commits' = Commits \cup {new}
      /\ new \notin Commits
      /\ \A c \in Commits : commits'[c] = commits[c]
      /\ commits'[new] = [branch |-> b, doc |-> d, base |-> base]
    BY <1>1, CommitAppended
<1>3. /\ Len(commits) \in Nat /\ Commits = 1 .. Len(commits)
      /\ rfds \in Seq(Visibility) /\ Len(rfds) \in Nat
    BY <1>1, CommitTyped
<1>4. Len(rfds) <= Len(rfds')
    BY <1>3, SMT
<1>5. \A k \in Commits : k < new
    BY <1>3, SMT
<1> HIDE DEF new
<1>6. Grows
    BY <1>2, <1>3, <1>4, Zenon DEF Grows
<1>7. /\ commits'[new].branch = b /\ commits'[new].doc = d /\ commits'[new].base = base
  <2>1. commits'[new] = [branch |-> b, doc |-> d, base |-> base]
      BY <1>2
  <2> QED
      BY <2>1
<1>8. EditsOk'
  <2> SUFFICES ASSUME NEW n \in Commits', commits'[n].base # 0
               PROVE  \E m \in Commits' :
                          IsBefore(m, n)' /\ Follows(commits'[n].doc, commits'[m].doc)
      BY Zenon DEF EditsOk
  <2>1. CASE n \in Commits
    <3>1. commits'[n] = commits[n]
        BY <1>2, <2>1
    <3>2. PICK m \in Commits : IsBefore(m, n) /\ Follows(commits[n].doc, commits[m].doc)
        BY <2>1, <3>1, Zenon DEF Inv, EditsOk
    <3>3. \A k \in Commits' : k \in Commits \/ k > n
        BY <1>2, <1>3, <1>5, <2>1
    <3>4. IsBefore(m, n)'
        BY <1>1, <1>6, <2>1, <3>2, <3>3, BeforeKept
    <3>5. m \in Commits' /\ commits'[m] = commits[m]
        BY <1>2, <3>2, Zenon
    <3> QED
        BY <3>1, <3>2, <3>4, <3>5, Zenon
  <2>2. CASE n = new
    <3>1. PICK m \in CommitsOf(b) : /\ \A k \in CommitsOf(b) : k <= m
                                    /\ Follows(d, commits[m].doc)
        BY <1>7, <2>2
    <3>2. m \in Commits /\ commits[m].branch = b
        BY <3>1, Zenon DEF CommitsOf
    <3>3. m \in Commits' /\ commits'[m] = commits[m] /\ m < n
        BY <1>2, <1>5, <2>2, <3>2, Zenon
    <3>4. m \in CommitsOf(commits[n].branch)'
        BY <1>7, <2>2, <3>2, <3>3, Zenon DEF CommitsOf
    <3>5. ASSUME NEW k \in CommitsOf(commits[n].branch)', k < n
          PROVE  k <= m
      <4>1. k \in Commits' /\ commits'[k].branch = b
          BY <1>7, <2>2, Zenon DEF CommitsOf
      <4>2. k # new
        <5>1. new \in Nat
            BY <1>3 DEF new
        <5> QED
            BY <2>2, <3>5, <5>1, SMT
      <4>3. k \in CommitsOf(b)
          BY <1>2, <4>1, <4>2, Zenon DEF CommitsOf
      <4> QED
          BY <3>1, <4>3
    <3>6. IsBefore(m, n)'
        BY <3>3, <3>4, <3>5, Zenon DEF IsBefore
    <3> QED
        BY <1>7, <2>2, <3>1, <3>3, <3>6, Zenon
  <2> QED
      BY <1>2, <2>1, <2>2
<1> QED
    BY <1>6, <1>8

\* The run is about to store its copy, or ends.
LEMMA AfterSource ==
    ASSUME Inv, Grows, NEW t \in DOMAIN run, NEW pc \in {"store_rfd", "ended"}, Goto(t, pc),
           run[t].pc = "actions", UNCHANGED <<pulls, rfds, revs>>,
           UNCHANGED commits \/ EditsOk',
           NEW d, d = run[t].doc,
           pc = "store_rfd" /\ Mode = "write" => InRepository(t[1], d)'
    PROVE  Inv'
<1>1. pc \in PC
    BY DEF PC
<1>2. PICK x \in RunState : RunTo(t, x) /\ x.pc = pc /\ Same(x, run[t])
    BY <1>1, GotoRun
<1>3. x.doc = d /\ x.row = run[t].row
    BY <1>2, Zenon DEF Same
<1>4. run[t].pc \in Late /\ RunOk(t, run[t])
    BY RunTyped DEF Late
<1>5. x.row \in 0 .. Len(rfds') /\ x.row # 0
    BY <1>3, <1>4, Zenon DEF RunOk
<1>6. x.pc \notin Early /\ x.pc # "actions" /\ (x.pc \in Storing => pc = "store_rfd")
    BY <1>2 DEF Early, Storing
<1>7. RunOk(t, x)'
    BY <1>3, <1>5, <1>6, Zenon DEF RunOk
<1>8. pulls' \in Seq(BOOLEAN)
    BY Zenon DEF Inv, TypeOK
<1> QED
    BY <1>2, <1>7, <1>8, RunKeeps

LEMMA CommitSourceKeeps ==
    ASSUME Inv, NEW t \in DOMAIN run, CommitSource(t)
    PROVE  Inv'
<1> DEFINE c == commits[t[1]]
           writes == run[t].requires_source_commit /\ Mode = "write" /\ run[t].doc # c.doc
           accepted == commits[HeadOf(c.branch)].doc = c.doc
           pc == IF run[t].needs_update /\ (writes => accepted) THEN "store_rfd" ELSE "ended"
<1>1. /\ run[t].pc = "actions"
      /\ IF writes /\ accepted THEN Commit(c.branch, run[t].doc, t[1]) ELSE UNCHANGED commits
      /\ Goto(t, pc)
      /\ UNCHANGED <<pulls, rfds, revs>>
    BY Zenon DEF CommitSource, tables
<1>2. /\ run[t] \in RunState /\ t[1] \in Commits /\ TypeOK
      /\ Follows(run[t].doc, c.doc)
      /\ run[t].doc = c.doc \/ run[t].requires_source_commit
    BY <1>1, AtActions DEF Inv
<1>3. PICK next \in {"store_rfd", "ended"} : Goto(t, next) /\ next = pc
    BY <1>1
<1>4. run[t].doc \in Doc /\ c.branch \in {Main, Own} /\ t[1] \in Nat
    BY <1>2, DocTyped, Zenon DEF RunState
<1>5. PICK d \in Doc : d = run[t].doc
    BY <1>4
<1>6. CASE writes /\ accepted
  <2>1. Commit(c.branch, d, t[1])
      BY <1>1, <1>5, <1>6, Zenon
  <2>2. \E m \in CommitsOf(c.branch) : /\ \A k \in CommitsOf(c.branch) : k <= m
                                       /\ Follows(d, commits[m].doc)
    <3>1. PICK h : h = HeadOf(c.branch)
        OBVIOUS
    <3>2. h \in CommitsOf(c.branch) /\ \A k \in CommitsOf(c.branch) : k <= h
        BY <1>2, <3>1, HeadIsLast, Zenon
    <3>3. commits[h].doc = c.doc
        BY <1>6, <3>1, Zenon
    <3> QED
        BY <1>2, <1>5, <3>2, <3>3, Zenon
  <2>3. PICK b \in {Main, Own}, base \in Commits :
            b = c.branch /\ base = t[1] /\ base \in Nat
      BY <1>2, <1>4
  <2>4. Commit(b, d, base) /\ UNCHANGED rfds
      BY <1>1, <2>1, <2>3, Zenon
  <2>5. Grows /\ EditsOk'
    <3>1. \E m \in CommitsOf(b) : /\ \A k \in CommitsOf(b) : k <= m
                                  /\ Follows(d, commits[m].doc)
        BY <2>2, <2>3, Zenon
    <3> QED
        BY <2>3, <2>4, <3>1, EditsCommitted
  <2>6. InRepository(t[1], d)'
    <3>1. /\ Commits' = Commits \cup {Len(commits) + 1}
          /\ commits'[Len(commits) + 1] = [branch |-> b, doc |-> d, base |-> base]
        BY <1>2, <2>3, <2>4, CommitAppended
    <3>2. PICK n \in Commits' : commits'[n] = [branch |-> b, doc |-> d, base |-> base]
        BY <3>1
    <3>3. commits'[n].base = base /\ commits'[n].doc = d
        BY <3>2
    <3> QED
        BY <2>3, <3>2, <3>3, Zenon DEF InRepository
  <2> QED
      BY <1>1, <1>3, <1>5, <2>5, <2>6, AfterSource
<1>7. CASE ~(writes /\ accepted)
  <2>1. UNCHANGED commits
      BY <1>1, <1>7, Zenon
  <2>2. Grows
      BY <1>1, <2>1, NothingAdded
  <2>3. next = "store_rfd" /\ Mode = "write" => InRepository(t[1], d)'
    <3> SUFFICES ASSUME next = "store_rfd", Mode = "write" PROVE InRepository(t[1], d)'
        OBVIOUS
    <3>1. pc # "ended"
        BY <1>3
    <3>2. writes => accepted
        BY <3>1, Zenon
    <3>3. ~writes
        BY <1>7, <3>2, Zenon
    <3>4. run[t].doc = c.doc
        BY <1>2, <3>3, Zenon
    <3> QED
        BY <1>5, <2>1, <3>4, Zenon DEF InRepository
  <2> QED
      BY <1>1, <1>3, <1>5, <2>1, <2>2, <2>3, AfterSource
<1> QED
    BY <1>6, <1>7

LEMMA RunStepKeeps ==
    ASSUME Inv, NEW t \in Running, RunStep(t) \/ Fail(t)
    PROVE  Inv'
<1>1. t \in DOMAIN run
    BY DEF Running
<1>2. ASSUME Fail(t) PROVE Goto(t, "ended") /\ UNCHANGED <<commits, pulls, rfds, revs>>
    BY <1>2, Zenon DEF Fail, repo, tables
<1> QED
    BY <1>1, <1>2, LoadKeeps, UpsertRfdKeeps, UpsertRevisionKeeps, FindPullRequestsKeeps,
       ActionsKeep, CommitSourceKeeps, StoreRfdKeeps, StoreRevisionKeeps, EndKeeps, Zenon
    DEF RunStep

-----------------------------------------------------------------------------
(* Steps of users, and runs that start. *)

\* Steps that change no run.
LEMMA RunsStay ==
    ASSUME Inv, Grows, UNCHANGED <<revs, run>>, pulls' \in Seq(BOOLEAN),
           UNCHANGED commits \/ EditsOk'
    PROVE  Inv'
<1>1. RunsOk'
  <2> SUFFICES ASSUME NEW t \in DOMAIN run, NEW x, x = run[t] PROVE RunOk(t, x)'
      BY Zenon DEF RunsOk
  <2>1. t[1] \in Commits /\ RunOk(t, x) /\ TypeOK
      BY RunTyped DEF Inv
  <2> QED
      BY <2>1, RunOkKept
<1>2. DOMAIN run' \subseteq Commits' \X Copies
  <2>1. DOMAIN run' \subseteq Commits \X Copies
      BY Zenon DEF Inv, TypeOK
  <2>2. Commits \subseteq Commits'
      BY Zenon DEF Grows
  <2> QED
      BY <2>1, <2>2
<1> QED
    BY <1>1, <1>2, Together

LEMMA MergedDoc ==
    ASSUME Inv
    PROVE  commits[HeadOf(Own)].doc \in Doc
<1>1. TypeOK
    BY DEF Inv
<1>2. PICK c \in Commits : commits[c].branch = Own
    BY DEF Inv, OwnBranch
<1>3. HeadOf(Own) \in CommitsOf(Own)
    BY <1>1, <1>2, HeadIsLast, Zenon
<1>4. HeadOf(Own) \in Commits
    BY <1>3, Zenon DEF CommitsOf
<1> QED
    BY <1>1, <1>4, DocTyped

LEMMA UserStepKeeps ==
    ASSUME Inv, UserStep
    PROVE  Inv'
<1>1. TypeOK /\ pulls \in Seq(BOOLEAN)
    BY Zenon DEF Inv, TypeOK
<1>2. /\ Append(pulls, TRUE) \in Seq(BOOLEAN)
      /\ [p \in DOMAIN pulls |-> FALSE] \in Seq(BOOLEAN)
    BY <1>1, PullsTyped
<1>3. Main \in {Main, Own} /\ Own \in {Main, Own} /\ 0 \in Nat
    OBVIOUS
<1>4. CASE \E d \in Docs : Push(d)
  <2>1. PICK d \in Docs : Push(d)
      BY <1>4
  <2>2. d \in Doc
      BY UpdateAssumption, Zenon DEF UpdateAssumption
  <2>3. Commit(Own, d, 0) /\ UNCHANGED <<pulls, rfds, revs, run>>
      BY <2>1, Zenon DEF Push, tables
  <2>4. Grows /\ EditsOk'
      BY <1>3, <2>2, <2>3, EditsCommitted
  <2>5. pulls' \in Seq(BOOLEAN)
      BY <1>1, <2>3, Zenon
  <2> QED
      BY <2>3, <2>4, <2>5, RunsStay
<1>5. CASE Merge
  <2>1. /\ Commit(Main, commits[HeadOf(Own)].doc, 0) /\ UNCHANGED <<rfds, revs, run>>
        /\ pulls' \in Seq(BOOLEAN)
      BY <1>2, <1>5, Zenon DEF Merge, tables
  <2>2. PICK d \in Doc : d = commits[HeadOf(Own)].doc
      BY <1>5, MergedDoc
  <2>3. Commit(Main, d, 0)
      BY <2>1, <2>2, Zenon
  <2>4. Grows /\ EditsOk'
      BY <1>3, <2>1, <2>3, EditsCommitted
  <2> QED
      BY <2>1, <2>4, RunsStay
<1>6. CASE OpenPull \/ ClosePull
  <2>1. UNCHANGED <<commits, rfds, revs, run>> /\ pulls' \in Seq(BOOLEAN)
      BY <1>2, <1>6, Zenon DEF OpenPull, ClosePull, PullOpens, tables
  <2>2. Grows
      BY <2>1, NothingAdded
  <2> QED
      BY <2>1, <2>2, RunsStay
<1>7. CASE \E v \in Visibilities : update_rfd_visibility(v)
  <2>1. PICK v \in Visibilities : update_rfd_visibility(v)
      BY <1>7
  <2>2. v \in Visibility
      BY UpdateAssumption, Zenon DEF UpdateAssumption
  <2>3. /\ UNCHANGED <<commits, pulls, revs, run>>
        /\ \E r \in DOMAIN rfds : rfds' = [rfds EXCEPT ![r] = v]
      BY <2>1, Zenon DEF update_rfd_visibility, repo
  <2>4. Grows
      BY <2>2, <2>3, RowSet
  <2>5. pulls' \in Seq(BOOLEAN)
      BY <1>1, <2>3, Zenon
  <2> QED
      BY <2>3, <2>4, <2>5, RunsStay
<1> QED
    BY <1>4, <1>5, <1>6, <1>7 DEF UserStep

LEMMA StartKeeps ==
    ASSUME Inv, NEW c \in Commits, NEW copy \in Copies, Start(c, copy)
    PROVE  Inv'
<1> DEFINE key == <<c, copy>>
           x == NewRun(c)
<1>1. /\ run' = With(run, key, x)
      /\ UNCHANGED <<commits, pulls, rfds, revs>>
    BY Zenon DEF Start, repo, tables
<1>2. TypeOK /\ Grows
    BY <1>1, NothingAdded DEF Inv
<1>3. x \in RunState /\ x.pc = "load" /\ x.row = 0 /\ x.doc = commits[c].doc
  <2>1. commits[c].doc \in Doc
      BY <1>2, DocTyped
  <2>2. "load" \in PC /\ "private" \in Visibility
      BY DEF PC, Visibility
  <2>3. 0 \in Nat /\ 1 \in Nat \ {0} /\ FALSE \in BOOLEAN
      BY SMT
  <2>4. <<>> \in Seq(BOOLEAN)
      OBVIOUS
  <2> QED
      BY <2>1, <2>2, <2>3, <2>4, Zenon DEF NewRun, RunState
<1> HIDE DEF x
<1>4. key[1] = c /\ key \in Commits \X Copies
    OBVIOUS
<1> HIDE DEF key
<1>5. /\ DOMAIN run' = DOMAIN run \cup {key}
      /\ \A u \in DOMAIN run' : run'[u] = IF u = key THEN x ELSE run[u]
    BY <1>1, Zenon DEF With
<1>6. RunOk(key, x)
  <2>1. x.pc \in Early /\ x.pc \notin Late /\ x.pc \notin Storing /\ x.pc # "actions"
      BY <1>3 DEF Early, Late, Storing
  <2>2. x.row \in 0 .. Len(rfds)
    <3>1. Len(rfds) \in Nat
        BY <1>2, CommitTyped
    <3> QED
        BY <1>3, <3>1, SMT
  <2> QED
      BY <1>3, <1>4, <2>1, <2>2, Zenon DEF RunOk
<1>7. RunsOk'
  <2> SUFFICES ASSUME NEW u \in DOMAIN run', NEW r, r = run'[u]
               PROVE  RunOk(u, r)'
      BY Zenon DEF RunsOk
  <2>1. u[1] \in Commits /\ RunOk(u, r)
    <3>1. CASE u = key
        BY <1>4, <1>5, <1>6, <3>1
    <3>2. CASE u # key
      <4>1. u \in DOMAIN run /\ r = run[u]
          BY <1>5, <3>2, Zenon
      <4> QED
          BY <4>1, RunTyped
    <3> QED
        BY <3>1, <3>2
  <2> QED
      BY <1>2, <2>1, RunOkKept
<1>8. DOMAIN run' \subseteq Commits' \X Copies
  <2>1. DOMAIN run' \subseteq Commits \X Copies
      BY <1>2, <1>4, <1>5, Zenon DEF TypeOK
  <2>2. Commits \subseteq Commits'
      BY <1>2, Zenon DEF Grows
  <2> QED
      BY <2>1, <2>2
<1>9. pulls' \in Seq(BOOLEAN)
    BY <1>1, <1>2, Zenon DEF TypeOK
<1> QED
    BY <1>1, <1>2, <1>7, <1>8, <1>9, Together

LEMMA StepKeeps ==
    ASSUME Inv, [Next]_vars
    PROVE  Inv'
<1>1. CASE UserStep
    BY <1>1, UserStepKeeps
<1>2. CASE \E c \in Commits, copy \in Copies : Start(c, copy)
    BY <1>2, StartKeeps
<1>3. CASE \E t \in Running : RunStep(t) \/ Fail(t)
    BY <1>3, RunStepKeeps
<1>4. CASE UNCHANGED vars
  <2>1. UNCHANGED <<commits, pulls, rfds, revs, run>>
      BY <1>4, Zenon DEF vars
  <2>2. Grows /\ pulls' \in Seq(BOOLEAN)
      BY <2>1, NothingAdded, Zenon DEF Inv, TypeOK
  <2> QED
      BY <2>1, <2>2, RunsStay
<1> QED
    BY <1>1, <1>2, <1>3, <1>4 DEF Next

LEMMA InitInv == Init => Inv
<1> SUFFICES ASSUME Init PROVE Inv
    OBVIOUS
<1>1. PICK d \in Docs : commits = <<First(d)>>
    BY DEF Init
<1>2. d \in Doc
    BY UpdateAssumption, Zenon DEF UpdateAssumption
<1> DEFINE e == First(d)
<1>3. e \in CommitType /\ e.branch = Own /\ e.doc = d /\ e.base = 0
  <2>1. 0 \in Nat
      OBVIOUS
  <2> QED
      BY <1>2, <2>1, Zenon DEF First, CommitType
<1>4. commits = <<e>>
    BY <1>1
<1> HIDE DEF e
<1>5. /\ commits \in Seq(CommitType) /\ Len(commits) = 1 /\ commits[1] = e
      /\ Commits = {1}
  <2> HIDE DEF CommitType
  <2>1. commits \in Seq(CommitType) /\ Len(commits) = 1 /\ commits[1] = e
      BY <1>3, <1>4
  <2>2. DOMAIN commits = 1 .. 1
      BY <1>4
  <2>3. 1 .. 1 = {1}
      BY SMT
  <2> QED
      BY <2>1, <2>2, <2>3, Zenon DEF Commits
<1>6. pulls = <<>> /\ pulls \in Seq(BOOLEAN)
    BY DEF Init
<1>7. EditsOk
    BY <1>3, <1>5, Zenon DEF EditsOk
<1>8. OwnBranch
    BY <1>3, <1>5, Zenon DEF OwnBranch
<1>9. CASE Known
  <2> DEFINE x == [NewRun(1) EXCEPT !.pc = "ended"]
             key == <<1, 1>>
  <2>1. /\ rfds = <<"private">>
        /\ revs = [k \in {key} |-> commits[1].doc]
        /\ run = [t \in {1} \X Copies |-> x]
      BY <1>9, Zenon DEF Init
  <2>2. NewRun(1) \in RunState /\ NewRun(1).row = 0
    <3>1. commits[1].doc \in Doc
        BY <1>2, <1>3, <1>5
    <3>2. "load" \in PC /\ "private" \in Visibility
        BY DEF PC, Visibility
    <3>3. 0 \in Nat /\ 1 \in Nat \ {0} /\ FALSE \in BOOLEAN
        BY SMT
    <3>4. <<>> \in Seq(BOOLEAN)
        OBVIOUS
    <3> QED
        BY <3>1, <3>2, <3>3, <3>4, Zenon DEF NewRun, RunState
  <2>3. "ended" \in PC
      BY DEF PC
  <2>4. x \in RunState /\ x.pc = "ended" /\ x.row = 0
      BY <2>2, <2>3, Zenon DEF RunState
  <2> HIDE DEF x
  <2>5. rfds \in Seq(Visibility) /\ DOMAIN rfds = {1} /\ Len(rfds) = 1
    <3>1. "private" \in Visibility
        BY DEF Visibility
    <3>2. rfds \in Seq(Visibility) /\ Len(rfds) = 1 /\ DOMAIN rfds = 1 .. 1
        BY <2>1, <3>1
    <3>3. 1 .. 1 = {1}
        BY SMT
    <3> QED
        BY <3>2, <3>3, Zenon
  <2>6. key \in (DOMAIN rfds) \X Commits /\ key[2] = 1
      BY <1>5, <2>5
  <2> HIDE DEF key
  <2>7. /\ DOMAIN revs = {key} /\ revs[key] = commits[1].doc
        /\ revs[key] \in Doc
      BY <1>2, <1>3, <1>5, <2>1, Zenon
  <2>8. /\ DOMAIN run = {1} \X Copies
        /\ \A t \in DOMAIN run : run[t] = x
      BY <2>1, Zenon
  <2>9. TypeOK
    <3>1. DOMAIN run \subseteq Commits \X Copies
        BY <1>5, <2>8, Zenon
    <3>2. \A t \in DOMAIN run : run[t] \in RunState
        BY <2>4, <2>8, Zenon
    <3>3. /\ DOMAIN revs \subseteq (DOMAIN rfds) \X Commits
          /\ \A k \in DOMAIN revs : revs[k] \in Doc
        BY <2>6, <2>7, Zenon
    <3> QED
        BY <1>5, <1>6, <2>5, <3>1, <3>2, <3>3, Zenon DEF TypeOK, CommitType
  <2>10. RunsOk
    <3>1. x.pc \notin Early /\ x.pc \notin Late /\ x.pc \notin Storing /\ x.pc # "actions"
        BY <2>4 DEF Early, Late, Storing
    <3>2. x.row \in 0 .. Len(rfds)
        BY <2>4, <2>5
    <3>3. \A t \in DOMAIN run : RunOk(t, x)
        BY <2>4, <3>1, <3>2, Zenon DEF RunOk
    <3> QED
        BY <2>8, <3>3, Zenon DEF RunsOk
  <2>11. RevsOk
      BY <2>6, <2>7, Zenon DEF RevsOk, InRepository
  <2> QED
      BY <1>7, <1>8, <2>9, <2>10, <2>11 DEF Inv
<1>10. CASE ~Known
  <2>1. rfds = <<>> /\ revs = <<>> /\ run = <<>>
      BY <1>10, Zenon DEF Init
  <2>2. rfds \in Seq(Visibility) /\ DOMAIN revs = {} /\ DOMAIN run = {}
      BY <2>1
  <2>3. TypeOK
      BY <1>5, <1>6, <2>2, Zenon DEF TypeOK, CommitType
  <2>4. RunsOk /\ RevsOk
      BY <2>2, Zenon DEF RunsOk, RevsOk
  <2> QED
      BY <1>7, <1>8, <2>3, <2>4 DEF Inv
<1> QED
    BY <1>9, <1>10

-----------------------------------------------------------------------------
(* The theorems. *)

\* Every value keeps its type: in particular every stored revision belongs to a
\* row that exists and to a commit (RfdUpdater stores the RFD before its revision).
THEOREM UpdateTypes == Spec => []TypeOK
<1>1. Inv => TypeOK
    BY DEF Inv
<1> QED
    BY InitInv, StepKeeps, <1>1, PTL DEF Spec

\* However old the job is that makes a commit, and however runs, pushes and merges
\* interleave, the commit takes nothing back of the one it is put on (GitHub takes a
\* file of GitHubRfdLocation::upsert only in place of the one that the run read, and
\* the actions change nothing but the link and a state that does not go with a pull
\* request).
THEOREM NoEditsLost == Spec => []NoEditIsLost
<1>1. Inv => NoEditIsLost
  <2> SUFFICES ASSUME Inv, NEW n \in Commits, commits[n].base # 0
               PROVE  Follows(commits[n].doc, commits[Before(n)].doc)
      BY Zenon DEF NoEditIsLost, Follows
  <2>1. PICK m \in Commits : IsBefore(m, n) /\ Follows(commits[n].doc, commits[m].doc)
      BY DEF Inv, EditsOk
  <2> DEFINE S == CommitsOf(commits[n].branch)
             IsHead(k) == k < n /\ \A j \in S : j < n => j <= k
  <2>2. m \in S /\ IsHead(m)
      BY <2>1, Zenon DEF IsBefore
  <2>3. Before(n) \in S /\ IsHead(Before(n))
      BY <2>2, Zenon DEF Before
  <2>4. PICK h \in S : h = Before(n) /\ IsHead(h)
      BY <2>3
  <2>5. m \in Nat /\ h \in Nat
      BY <2>2, <2>4, DocTyped DEF CommitsOf, Inv
  <2>6. h = m
    <3>1. m <= h /\ h <= m
        BY <2>2, <2>4
    <3> QED
        BY <2>5, <3>1, SMT
  <2> QED
      BY <2>1, <2>4, <2>6
<1> QED
    BY InitInv, StepKeeps, <1>1, PTL DEF Spec

\* A processor that may write to the repository stores nothing that the repository
\* does not have, whatever GitHub rejects and whenever runs fail (the copy is
\* committed before it is stored a second time, and a rejected commit ends the run).
THEOREM StoredIsInRepository ==
    ASSUME Mode = "write"
    PROVE  Spec => []RevisionIsInRepository
<1>1. Inv => RevisionIsInRepository
    BY Zenon DEF Inv, RevsOk, RevisionIsInRepository, InRepository
<1> QED
    BY InitInv, StepKeeps, <1>1, PTL DEF Spec

-----------------------------------------------------------------------------
(* One row. *)

\* When at most one run goes on at a time, any two that do are the same.
Solo == MaxRunning = 1 => \A t, u \in Running : t = u

\* There is at most one row, and nobody makes up an id when there is one.
OneRow ==
    /\ Len(rfds) <= 1
    /\ Known => Len(rfds) = 1
    /\ \A t \in Running : run[t].pc = "rfd" /\ run[t].row = 0 => Len(rfds) = 0

\* Runs that end and runs that start.
LEMMA SoloKept ==
    ASSUME Solo, Running' \subseteq Running
    PROVE  Solo'
BY Zenon DEF Solo

LEMMA StartSolo ==
    ASSUME Solo, NEW c \in Commits, NEW copy \in Copies, Start(c, copy)
    PROVE  Solo'
<1> SUFFICES ASSUME MaxRunning = 1 PROVE \A t, u \in Running' : t = u
    BY Zenon DEF Solo
<1>1. Running = {}
  <2> SUFFICES ASSUME NEW t \in Running PROVE FALSE
      OBVIOUS
  <2>1. Running = {t}
      BY DEF Solo
  <2>2. Cardinality(Running) = 1
      BY <2>1, FS_Singleton
  <2>3. Cardinality(Running) < MaxRunning
      BY DEF Start
  <2> QED
      BY <2>2, <2>3, SMT
<1>2. \A u \in DOMAIN run' : u = <<c, copy>> \/ (u \in DOMAIN run /\ run'[u] = run[u])
    BY Zenon DEF Start, With
<1>3. Running' \subseteq Running \cup {<<c, copy>>}
    BY <1>2, Zenon DEF Running
<1> QED
    BY <1>1, <1>3, Zenon

LEMMA RunStepSolo ==
    ASSUME Inv, Solo, NEW t \in Running, NEW x, run' = [run EXCEPT ![t] = x]
    PROVE  Solo'
<1>1. \A u \in DOMAIN run' : u \in DOMAIN run /\ (u # t => run'[u] = run[u])
    BY Zenon DEF Running
<1>2. Running' \subseteq Running
    BY <1>1, Zenon DEF Running
<1> QED
    BY <1>2, SoloKept

\* A step of run t that does not lead to the write of a row.
Moves(t) == \E x : run' = [run EXCEPT ![t] = x] /\ x.pc # "rfd"

LEMMA GotoMoves ==
    ASSUME Inv, NEW t \in DOMAIN run, NEW pc \in PC, pc # "rfd", Goto(t, pc)
    PROVE  Moves(t)
<1>1. PICK x \in RunState : RunTo(t, x) /\ x.pc = pc
    BY GotoRun
<1> QED
    BY <1>1, Zenon DEF Moves, RunTo

LEMMA ActionsMove ==
    ASSUME Inv, NEW t \in DOMAIN run,
           \/ CreatePullRequest(t) \/ UpdateDiscussionUrl(t)
           \/ EnsureRfdWithPullRequestIsInValidState(t)
    PROVE  Moves(t) /\ UNCHANGED rfds
<1>1. run[t].pc = "actions" /\ UNCHANGED rfds
    BY Zenon DEF CreatePullRequest, UpdateDiscussionUrl,
                 EnsureRfdWithPullRequestIsInValidState, IsNext, tables
<1>2. run[t] \in RunState /\ run[t].pc # "rfd"
    BY <1>1, RunTyped
<1>3. ASSUME run' = Skipped(t) PROVE Moves(t)
  <2> DEFINE x == [run[t] EXCEPT !.next = @ + 1]
  <2>1. run' = [run EXCEPT ![t] = x]
      BY <1>3, Zenon DEF Skipped
  <2>2. x.pc = run[t].pc
      BY <1>2, Zenon DEF RunState
  <2> HIDE DEF x
  <2> QED
      BY <1>2, <2>1, <2>2, Zenon DEF Moves
<1>4. ASSUME run' = [Skipped(t) EXCEPT ![t].pulls = pulls'] PROVE Moves(t)
  <2> DEFINE x == [run[t] EXCEPT !.next = @ + 1, !.pulls = pulls']
  <2>1. run' = [run EXCEPT ![t] = x]
      BY <1>4, Zenon DEF Skipped
  <2>2. x.pc = run[t].pc
      BY <1>2, Zenon DEF RunState
  <2> HIDE DEF x
  <2> QED
      BY <1>2, <2>1, <2>2, Zenon DEF Moves
<1>5. ASSUME NEW d, run' = Modified(t, d) PROVE Moves(t)
  <2> DEFINE x == [run[t] EXCEPT !.next = @ + 1, !.doc = d, !.needs_update = TRUE,
                                 !.requires_source_commit = TRUE]
  <2>1. run' = [run EXCEPT ![t] = x]
      BY <1>5, Zenon DEF Modified
  <2>2. x.pc = run[t].pc
      BY <1>2, Zenon DEF RunState
  <2> HIDE DEF x
  <2> QED
      BY <1>2, <2>1, <2>2, Zenon DEF Moves
<1>6. \/ run' = Skipped(t)
      \/ run' = [Skipped(t) EXCEPT ![t].pulls = pulls']
      \/ \E d : run' = Modified(t, d)
    BY Zenon DEF CreatePullRequest, UpdateDiscussionUrl,
                 EnsureRfdWithPullRequestIsInValidState
<1> QED
    BY <1>1, <1>3, <1>4, <1>5, <1>6

\* What the steps of a run do to the rows.
LEMMA RowsOfStep ==
    ASSUME Inv, NEW t \in Running, RunStep(t) \/ Fail(t)
    PROVE  /\ Lookup(t) \/ Moves(t)
           /\ \/ Len(rfds') = Len(rfds)
              \/ run[t].pc = "rfd" /\ run[t].row = 0 /\ Len(rfds') = Len(rfds) + 1
<1>1. /\ t \in DOMAIN run /\ run[t] \in RunState /\ Len(rfds) \in Nat
      /\ DOMAIN rfds = 1 .. Len(rfds) /\ run[t].row \in 0 .. Len(rfds)
  <2>1. t \in DOMAIN run
      BY DEF Running
  <2> QED
      BY <2>1, RunTyped, RowTyped, CommitTyped DEF Inv
<1>2. /\ "pulls" \in PC /\ "ended" \in PC /\ "store_rfd" \in PC /\ "store_revision" \in PC
      /\ "revision" \in PC
    BY DEF PC
<1>3. /\ "pulls" # "rfd" /\ "ended" # "rfd" /\ "store_rfd" # "rfd"
      /\ "store_revision" # "rfd" /\ "revision" # "rfd"
    OBVIOUS
<1>4. CASE Load(t)
  <2>1. PICK prev : run' = [run EXCEPT ![t].pc = "lookup", ![t].prev = prev]
      BY <1>4, Zenon DEF Load
  <2> DEFINE x == [run[t] EXCEPT !.pc = "lookup", !.prev = prev]
  <2>2. run' = [run EXCEPT ![t] = x]
      BY <2>1, Zenon
  <2>3. x.pc = "lookup"
      BY <1>1, Zenon DEF RunState
  <2> HIDE DEF x
  <2>4. x.pc # "rfd"
      BY <2>3
  <2> QED
      BY <1>4, <2>2, <2>4, Zenon DEF Moves, Load, tables
<1>5. CASE Lookup(t)
    BY <1>5, Zenon DEF Lookup, tables
<1>6. CASE UpsertRfd(t)
  <2>1. UNCHANGED commits
      BY <1>6, Zenon DEF UpsertRfd, repo
  <2>2. CASE run[t].row = 0
    <3> DEFINE x == [run[t] EXCEPT !.pc = "revision", !.row = Len(rfds) + 1]
    <3>1. run[t].pc = "rfd" /\ rfds' = Append(rfds, "private") /\ run' = [run EXCEPT ![t] = x]
        BY <1>6, <2>2, Zenon DEF UpsertRfd
    <3>2. x.pc = "revision"
        BY <1>1, Zenon DEF RunState
    <3> HIDE DEF x
    <3>3. x.pc # "rfd"
        BY <3>2
    <3>4. Len(rfds') = Len(rfds) + 1
        BY <2>1, <3>1, RowAdded
    <3> QED
        BY <2>2, <3>1, <3>3, <3>4, Zenon DEF Moves
  <2>3. CASE run[t].row # 0
    <3>1. rfds' = [rfds EXCEPT ![run[t].row] = run[t].vis] /\ Goto(t, "revision")
        BY <1>6, <2>3, Zenon DEF UpsertRfd
    <3>2. run[t].row \in DOMAIN rfds
        BY <1>1, <2>3, SMT
    <3>3. run[t].vis \in Visibility
        BY <1>1, Zenon DEF RunState
    <3>4. Len(rfds') = Len(rfds)
        BY <2>1, <3>1, <3>2, <3>3, RowSet
    <3> QED
        BY <1>1, <1>2, <1>3, <3>1, <3>4, GotoMoves
  <2> QED
      BY <2>2, <2>3
<1>7. CASE UpsertRevision(t)
  <2>1. (Goto(t, "ended") \/ Goto(t, "pulls")) /\ UNCHANGED rfds
      BY <1>7, Zenon DEF UpsertRevision
  <2> QED
      BY <1>1, <1>2, <1>3, <2>1, GotoMoves
<1>8. CASE FindPullRequests(t)
  <2>1. UNCHANGED rfds
      BY <1>8, Zenon DEF FindPullRequests, tables
  <2>2. PICK seen : run' = [run EXCEPT ![t].pc = "actions", ![t].pulls = seen]
      BY <1>8, Zenon DEF FindPullRequests
  <2> DEFINE x == [run[t] EXCEPT !.pc = "actions", !.pulls = seen]
  <2>3. run' = [run EXCEPT ![t] = x]
      BY <2>2, Zenon
  <2>4. x.pc = "actions"
      BY <1>1, Zenon DEF RunState
  <2> HIDE DEF x
  <2>5. x.pc # "rfd"
      BY <2>4
  <2> QED
      BY <2>1, <2>3, <2>5, Zenon DEF Moves
<1>9. CASE \/ CreatePullRequest(t) \/ UpdateDiscussionUrl(t)
           \/ EnsureRfdWithPullRequestIsInValidState(t)
    BY <1>1, <1>9, ActionsMove
<1>10. CASE CommitSource(t)
  <2>1. (Goto(t, "store_rfd") \/ Goto(t, "ended")) /\ UNCHANGED rfds
      BY <1>10, Zenon DEF CommitSource, tables
  <2> QED
      BY <1>1, <1>2, <1>3, <2>1, GotoMoves
<1>11. CASE StoreRfd(t)
  <2>1. /\ run[t].pc = "store_rfd" /\ UNCHANGED commits
        /\ rfds' = [rfds EXCEPT ![run[t].row] = run[t].vis]
        /\ Goto(t, "store_revision")
      BY <1>11, Zenon DEF StoreRfd, repo
  <2>2. run[t].pc \in Late
      BY <2>1 DEF Late
  <2>3. run[t].row \in DOMAIN rfds /\ run[t].vis \in Visibility
      BY <1>1, <2>2, RowTyped, Zenon DEF RunState
  <2>4. Len(rfds') = Len(rfds)
      BY <2>1, <2>3, RowSet
  <2> QED
      BY <1>1, <1>2, <1>3, <2>1, <2>4, GotoMoves
<1>12. CASE StoreRevision(t) \/ Fail(t)
  <2>1. Goto(t, "ended") /\ UNCHANGED rfds
      BY <1>12, Zenon DEF StoreRevision, Fail, tables
  <2> QED
      BY <1>1, <1>2, <1>3, <2>1, GotoMoves
<1> QED
    BY <1>4, <1>5, <1>6, <1>7, <1>8, <1>9, <1>10, <1>11, <1>12, Zenon DEF RunStep

LEMMA RunStepOneRow ==
    ASSUME Inv, Solo, OneRow, Known \/ MaxRunning = 1,
           NEW t \in Running, RunStep(t) \/ Fail(t)
    PROVE  Solo' /\ OneRow'
<1>1. t \in DOMAIN run /\ Len(rfds) \in Nat
  <2>1. t \in DOMAIN run
      BY DEF Running
  <2> QED
      BY <2>1, CommitTyped DEF Inv
<1>2. ASSUME NEW x, run' = [run EXCEPT ![t] = x]
      PROVE  \A u \in Running' : u = t \/ (u \in Running /\ run'[u] = run[u])
  <2>1. \A u \in DOMAIN run' : u = t \/ (u \in DOMAIN run /\ run'[u] = run[u])
      BY <1>2, Zenon
  <2> QED
      BY <2>1, Zenon DEF Running
<1>3. CASE Moves(t)
  <2>1. PICK x : run' = [run EXCEPT ![t] = x] /\ x.pc # "rfd"
      BY <1>3, Zenon DEF Moves
  <2>2. Solo'
      BY <2>1, RunStepSolo
  <2>3. run'[t].pc # "rfd"
      BY <1>1, <2>1, Zenon
  <2>4. \A u \in Running' : run'[u].pc = "rfd" /\ run'[u].row = 0 =>
              u # t /\ u \in Running /\ Len(rfds) = 0
      BY <1>2, <2>1, <2>3, Zenon DEF OneRow
  <2>5. CASE Len(rfds') = Len(rfds)
      BY <2>2, <2>4, <2>5 DEF OneRow
  <2>6. CASE run[t].pc = "rfd" /\ run[t].row = 0 /\ Len(rfds') = Len(rfds) + 1
    <3>1. Len(rfds) = 0
        BY <2>6 DEF OneRow
    <3>2. MaxRunning = 1
        BY <3>1 DEF OneRow
    <3>3. \A u \in Running : u = t
        BY <3>2, Zenon DEF Solo
    <3>4. \A u \in Running' : ~(run'[u].pc = "rfd" /\ run'[u].row = 0)
        BY <2>4, <3>3, Zenon
    <3>5. Len(rfds') = 1
        BY <2>6, <3>1, SMT
    <3> QED
        BY <2>2, <3>4, <3>5 DEF OneRow
  <2> QED
      BY <2>5, <2>6, RowsOfStep
<1>4. CASE Lookup(t)
  <2>1. UNCHANGED rfds
      BY <1>4, Zenon DEF Lookup, tables
  <2>2. CASE rfds = <<>>
    <3>1. Len(rfds) = 0
        BY <2>2
    <3>2. Goto(t, "rfd")
        BY <1>4, <2>2, Zenon DEF Lookup
    <3>3. "rfd" \in PC
        BY DEF PC
    <3>4. PICK x \in RunState : RunTo(t, x)
        BY <1>1, <3>2, <3>3, GotoRun
    <3>5. Solo'
        BY <3>4, RunStepSolo DEF RunTo
    <3> QED
        BY <2>1, <3>1, <3>5 DEF OneRow
  <2>3. CASE rfds # <<>>
    <3>1. PICK r \in DOMAIN rfds :
              run' = [run EXCEPT ![t].pc = "rfd", ![t].row = r, ![t].vis = rfds[r]]
        BY <1>4, <2>3, Zenon DEF Lookup
    <3> DEFINE x == [run[t] EXCEPT !.pc = "rfd", !.row = r, !.vis = rfds[r]]
    <3>2. run' = [run EXCEPT ![t] = x]
        BY <3>1, Zenon
    <3>3. x.row = r
        BY <1>1, RunTyped, Zenon DEF RunState
    <3> HIDE DEF x
    <3>4. r # 0
      <4>1. DOMAIN rfds = 1 .. Len(rfds)
          BY CommitTyped DEF Inv
      <4> QED
          BY <1>1, <4>1, SMT
    <3>5. Solo'
        BY <3>2, RunStepSolo
    <3>6. run'[t].row # 0
        BY <1>1, <3>2, <3>3, <3>4, Zenon
    <3>7. \A u \in Running' : run'[u].pc = "rfd" /\ run'[u].row = 0 => Len(rfds) = 0
        BY <1>2, <3>2, <3>6, Zenon DEF OneRow
    <3> QED
        BY <2>1, <3>5, <3>7 DEF OneRow
  <2> QED
      BY <2>2, <2>3
<1> QED
    BY <1>3, <1>4, RowsOfStep

LEMMA OneRowStep ==
    ASSUME Inv, Solo, OneRow, Known \/ MaxRunning = 1, [Next]_vars
    PROVE  Solo' /\ OneRow'
<1>1. CASE UserStep
  <2>1. UNCHANGED run
      BY <1>1, Zenon DEF UserStep, Push, Merge, OpenPull, ClosePull, update_rfd_visibility
  <2>2. Len(rfds') = Len(rfds)
    <3>1. CASE \E v \in Visibilities : update_rfd_visibility(v)
      <4>1. PICK v \in Visibilities : update_rfd_visibility(v)
          BY <3>1
      <4>2. v \in Visibility
          BY UpdateAssumption, Zenon DEF UpdateAssumption
      <4>3. UNCHANGED commits /\ \E r \in DOMAIN rfds : rfds' = [rfds EXCEPT ![r] = v]
          BY <4>1, Zenon DEF update_rfd_visibility, repo
      <4> QED
          BY <4>2, <4>3, RowSet
    <3>2. CASE (\E d \in Docs : Push(d)) \/ Merge \/ OpenPull \/ ClosePull
        BY <3>2, Zenon DEF Push, Merge, OpenPull, ClosePull, tables
    <3> QED
        BY <1>1, <3>1, <3>2 DEF UserStep
  <2> QED
      BY <2>1, <2>2 DEF Solo, OneRow, Running
<1>2. CASE \E c \in Commits, copy \in Copies : Start(c, copy)
  <2>1. PICK c \in Commits, copy \in Copies : Start(c, copy)
      BY <1>2
  <2>2. Solo'
      BY <2>1, StartSolo
  <2>3. run' = With(run, <<c, copy>>, NewRun(c)) /\ UNCHANGED rfds
      BY <2>1, Zenon DEF Start, tables
  <2>4. NewRun(c).pc # "rfd"
    <3>1. NewRun(c).pc = "load"
        BY Zenon DEF NewRun
    <3> QED
        BY <3>1
  <2> DEFINE x == NewRun(c)
  <2> HIDE DEF x
  <2>5. \A u \in DOMAIN run' : run'[u] = x \/ (u \in DOMAIN run /\ run'[u] = run[u])
      BY <2>3, Zenon DEF With, x
  <2>6. \A u \in Running' : run'[u] = x \/ (u \in Running /\ run'[u] = run[u])
      BY <2>5, Zenon DEF Running
  <2>7. \A u \in Running' : run'[u].pc = "rfd" /\ run'[u].row = 0 => Len(rfds) = 0
      BY <2>4, <2>6, Zenon DEF OneRow, x
  <2> QED
      BY <2>2, <2>3, <2>7 DEF OneRow
<1>3. CASE \E t \in Running : RunStep(t) \/ Fail(t)
    BY <1>3, RunStepOneRow
<1>4. CASE UNCHANGED vars
    BY <1>4, Zenon DEF vars, tables, Solo, OneRow, Running
<1> QED
    BY <1>1, <1>2, <1>3, <1>4 DEF Next

\* All revisions are of one row when the RFD was known from the start, or when runs
\* come one at a time, whatever fails (mod.rs asserts that the RFD just stored is the
\* one that was loaded before).
THEOREM OneRfd ==
    ASSUME Known \/ MaxRunning = 1
    PROVE  Spec => []RevisionsShareRfd
<1>1. Init => Solo /\ OneRow
  <2> SUFFICES ASSUME Init PROVE Solo /\ OneRow
      OBVIOUS
  <2>1. CASE Known
    <3>1. rfds = <<"private">> /\ run = [t \in {1} \X Copies |-> [NewRun(1) EXCEPT !.pc = "ended"]]
        BY <2>1, Zenon DEF Init
    <3>2. [NewRun(1) EXCEPT !.pc = "ended"].pc = "ended"
        BY Zenon DEF NewRun
    <3>3. Running = {}
        BY <3>1, <3>2, Zenon DEF Running
    <3>4. Len(rfds) = 1
        BY <3>1
    <3> QED
        BY <3>3, <3>4 DEF Solo, OneRow
  <2>2. CASE ~Known
    <3>1. rfds = <<>> /\ run = <<>>
        BY <2>2, Zenon DEF Init
    <3>2. Len(rfds) = 0 /\ Running = {}
        BY <3>1 DEF Running
    <3> QED
        BY <2>2, <3>2 DEF Solo, OneRow
  <2> QED
      BY <2>1, <2>2
<1>2. Inv /\ Solo /\ OneRow /\ [Next]_vars => (Inv /\ Solo /\ OneRow)'
    BY StepKeeps, OneRowStep
<1>3. Inv /\ OneRow => RevisionsShareRfd
  <2> SUFFICES ASSUME Inv, OneRow, NEW k \in DOMAIN revs, NEW l \in DOMAIN revs
               PROVE  k[1] = l[1]
      BY Zenon DEF RevisionsShareRfd
  <2>1. k[1] \in DOMAIN rfds /\ l[1] \in DOMAIN rfds
      BY Zenon DEF Inv, TypeOK
  <2>2. DOMAIN rfds = 1 .. Len(rfds) /\ Len(rfds) \in Nat
      BY CommitTyped DEF Inv
  <2>3. Len(rfds) <= 1
      BY DEF OneRow
  <2> QED
      BY <2>1, <2>2, <2>3, SMT
<1> QED
    BY InitInv, <1>1, <1>2, <1>3, PTL DEF Spec

=============================================================================
