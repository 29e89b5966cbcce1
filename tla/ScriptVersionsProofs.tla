------------------------ MODULE ScriptVersionsProofs ------------------------
(***************************************************************************)
(* Theorems about ScriptVersions, for any number of episodes, workers and  *)
(* operators, any surroundings and any bounds.                             *)
(***************************************************************************)
EXTENDS ScriptVersions, FiniteSetTheorems, SequenceTheorems, WellFoundedInduction, TLAPS

-----------------------------------------------------------------------------
(* The inductive invariant.                                                *)

\* Where an operator may be, and where a worker has a script.
OperatorPc == {"idle", "queue", "number", "insert", "activate", "commit"}
ScriptPc == {"reset", "write", "save", "activate", "commit", "finish", "failing", "sync"}
UnreadPc == {"idle", "queue", "begin", "find", "reset", "number", "insert", "write", "finish"}

\* What a call keeps about its script, the transaction it is in, and the
\* versions it has cleared.
CallFits(p) ==
  LET c == call[p] IN
  /\ p \in Operators => c.pc \in OperatorPc /\ c.script = 0 /\ ~c.early
  /\ p \in Workers => c.pc # "queue"
  /\ (p \in Workers /\ c.pc \in ScriptPc) =>
       c.script \in DOMAIN script /\ script[c.script].episode = c.episode
  /\ c.pc \notin ScriptPc => c.script = 0
  /\ c.pc # "commit" => c.cleared = {} /\ ~c.late
  /\ c.cleared \subseteq ScriptsOf(c.episode)
  /\ (c.pc = "commit" /\ ~c.late) => c.cleared = Active(c.episode)
  /\ c.early => c.pc \in {"save", "activate", "commit"}
  /\ (p \in Workers /\ c.pc \in {"save", "activate", "commit"}) => c.seen # "unread"
  /\ (p \in Operators \/ c.pc \in UnreadPc) => c.seen = "unread"
CallsFit == \A p \in Processes : CallFits(p)

\* A job is run by one worker at a time, which works on the script the job
\* has; the script of a job is one of its episode.
JobFits(j) ==
  /\ job[j].script # 0 =>
       /\ job[j].script \in DOMAIN script
       /\ script[job[j].script].episode = job[j].episode
  /\ job[j].waiting => job[j].status \in {"queued", "cancelled"}
  /\ job[j].status = "succeeded" =>
       /\ job[j].script # 0
       /\ ~script[job[j].script].shared => script[job[j].script].status = "ready"
RunFits(w) ==
  LET c == call[w] IN
  AtWork(w) =>
    /\ c.job \in DOMAIN job
    /\ ~job[c.job].waiting /\ job[c.job].status \in {"running", "cancelled"}
    /\ job[c.job].episode = c.episode
    /\ c.pc \in ScriptPc => job[c.job].script = c.script
JobsFit ==
  /\ \A j \in DOMAIN job : JobFits(j)
  /\ \A w \in Workers : RunFits(w)
  /\ \A w, x \in Workers : (w # x /\ AtWork(w) /\ AtWork(x)) => call[w].job # call[x].job

\* A script that two generations have not worked on at the same time is
\* worked on by one of them, and is ready when that one has finished.
WritingPc == {"reset", "write", "save", "activate", "commit", "failing"}
ScriptKept(s) ==
  ~script[s].shared =>
    /\ script[s].active => script[s].status = "ready"
    /\ \A w \in Workers :
         /\ (call[w].script = s /\ call[w].pc \in WritingPc) => script[s].status # "ready"
         /\ (call[w].script = s /\ call[w].pc = "finish") => script[s].status = "ready"
         /\ (call[w].pc \in {"number", "insert"} /\ job[call[w].job].script = s) =>
              script[s].status = "ready"
    /\ \A w, x \in Workers :
         (call[w].script = s /\ call[x].script = s) => w = x
ScriptsKept == \A s \in DOMAIN script : ScriptKept(s)

\* An episode that is GENERATING_SCRIPT has somebody at work who will make it
\* DRAFT again, unless a fault has left it so.
Minds(p, e) ==
  /\ call[p].episode = e
  /\ \/ p \in Operators /\ call[p].pc \in {"activate", "commit"}
     \/ /\ p \in Workers /\ call[p].pc \in WriterPc \ {"begin", "finish"}
        /\ call[p].seen \in {"unread", "generating_script"}
        /\ ~(call[p].pc = "insert" /\ Taken(p))
Minded ==
  \A e \in Episodes \ deserted :
    status[e] = "generating_script" => \E p \in Processes : Minds(p, e)

\* The row of an episode is locked by one transaction, which sees it as it is.
RowsLocked ==
  /\ \A p, q \in Processes, e \in Episodes : HoldsEpisode(p, e) /\ HoldsEpisode(q, e) => p = q
  /\ \A w \in Workers : call[w].early => call[w].seen = status[call[w].episode]

VersionsInv ==
  /\ TypeOK /\ CallsFit /\ JobsFit /\ ScriptsKept /\ ReadyIsWhole /\ OneActive
  /\ RowsLocked /\ Minded

-----------------------------------------------------------------------------
(* Steps that change a call only.                                          *)

\* A step of a process leaves the other calls alone.
LEMMA CallAt ==
  ASSUME VersionsInv, NEW p \in Processes, NEW c \in Call,
         call' = [call EXCEPT ![p] = c]
  PROVE  /\ call' \in [Processes -> Call] /\ call'[p] = c
         /\ \A q \in Processes : q # p => call'[q] = call[q]
BY DEF VersionsInv, TypeOK

\* Who is who, and what a call is.
LEMMA Who ==
  ASSUME VersionsInv
  PROVE  /\ Workers \subseteq Processes /\ Operators \subseteq Processes
         /\ Workers \cap Operators = {} /\ Processes = Workers \cup Operators
         /\ \A p \in Processes : call[p] \in Call /\ CallFits(p)
BY ScriptAssumption DEF Processes, VersionsInv, TypeOK, CallsFit

LEMMA NoCallTyped == NoCall \in Call
<1>1. 1 \in Episodes BY ScriptAssumption DEF Episodes
<1>2. QED BY <1>1 DEF NoCall, Call, CallPc, EpisodeStatus

\* The rows of the tables.
LEMMA Rows ==
  ASSUME VersionsInv
  PROVE  /\ \A s \in DOMAIN script : script[s] \in Script /\ s \in Nat /\ s # 0
         /\ \A j \in DOMAIN job : job[j] \in Job /\ j \in Nat /\ j # 0
BY DEF VersionsInv, TypeOK

\* What is bounded happens once more.
LEMMA SpentOnce ==
  ASSUME VersionsInv, NEW kind \in {"faults", "retries", "manuals"}, Spend(kind)
  PROVE  spent' \in [{"faults", "retries", "manuals"} -> Nat]
<1>1. spent \in [{"faults", "retries", "manuals"} -> Nat] BY DEF VersionsInv, TypeOK
<1>2. spent' = [spent EXCEPT ![kind] = spent[kind] + 1] BY DEF Spend
<1>3. QED BY <1>1, <1>2

\* What a transaction can see of an episode stays as long as the scripts do.
LEMMA SameScripts ==
  ASSUME script' = script
  PROVE  \A e \in Episodes :
           /\ ScriptsOf(e)' = ScriptsOf(e) /\ Active(e)' = Active(e)
           /\ Active(e) \subseteq ScriptsOf(e)
           /\ Versions(e)' = Versions(e)
BY DEF ScriptsOf, Active, Versions

-----------------------------------------------------------------------------
(* Numbers.                                                                *)

\* A set of numbers has a least one.
LEMMA LeastNumber ==
  ASSUME NEW S \in SUBSET Nat, S # {}
  PROVE  \E x \in S : \A y \in S : x <= y
<1> DEFINE R == {p \in Nat \X Nat : p[1] < p[2]}
<1>1. IsWellFoundedOn(R, Nat) BY NatLessThanWellFounded DEF OpToRel
<1>2. PICK x \in S : \A y \in S : ~ (<<y, x>> \in R)
  <2> HIDE DEF R
  <2>1. QED BY <1>1, WFMin, Zenon
<1>3. ASSUME NEW y \in S PROVE x <= y
  <2>1. x \in Nat /\ y \in Nat /\ <<y, x>> \notin R BY <1>2
  <2>2. ~ (y < x) BY <2>1
  <2>3. QED BY <2>1, <2>2
<1>4. QED BY <1>3

\* The greatest of some numbers that have a bound is one of them.
LEMMA GreatestNumber ==
  ASSUME NEW S \in SUBSET Nat, S # {}, NEW b \in Nat, \A y \in S : y <= b
  PROVE  Max(S) \in S /\ \A y \in S : Max(S) >= y
<1> DEFINE U == {b - y : y \in S}
<1>1. U \in SUBSET Nat /\ U # {}
  <2>1. PICK y \in S : TRUE
    OBVIOUS
  <2>2. b - y \in U
    OBVIOUS
  <2>3. \A x \in U : x \in Nat
    OBVIOUS
  <2>4. QED BY <2>2, <2>3
<1>2. PICK x \in U : \A y \in U : x <= y
  <2> HIDE DEF U
  <2>1. QED BY <1>1, LeastNumber
<1>3. PICK s \in S : x = b - s
  OBVIOUS
<1>4. ASSUME NEW y \in S PROVE s >= y
  <2>1. b - y \in U
    OBVIOUS
  <2>2. b - s <= b - y BY <1>2, <1>3, <2>1
  <2>3. s \in Nat /\ y \in Nat
    OBVIOUS
  <2>4. QED BY <2>2, <2>3
<1>5. QED BY <1>4 DEF Max

\* A finite row of numbers has a bound.
LEMMA RowBounded ==
  ASSUME NEW n \in Nat, NEW f \in [1..n -> Nat]
  PROVE  \E b \in Nat : \A i \in 1..n : f[i] <= b
<1> DEFINE Unbounded == {k \in 0..n : \A b \in Nat : \E i \in 1..k : ~(f[i] <= b)}
<1>1. Unbounded = {}
  <2>1. SUFFICES ASSUME Unbounded # {} PROVE FALSE
    OBVIOUS
  <2>2. PICK k \in Unbounded : \A x \in Unbounded : k <= x
    <3>1. Unbounded \in SUBSET Nat
      OBVIOUS
    <3>2. QED BY <2>1, <3>1, LeastNumber
  <2>3. k \in Nat /\ k <= n /\ k # 0
    <3>1. 0 \notin Unbounded
      <4>1. 1..0 = {}
        OBVIOUS
      <4>2. QED BY <4>1
    <3>2. QED BY <3>1, <2>2
  <2>4. k - 1 \notin Unbounded /\ k - 1 \in 0..n
    <3> HIDE DEF Unbounded
    <3>1. QED BY <2>2, <2>3
  <2>5. PICK b \in Nat : \A i \in 1..(k - 1) : f[i] <= b BY <2>4
  <2>6. PICK v \in Nat : v = f[k] BY <2>3
  <2>7. ASSUME NEW i \in 1..k PROVE f[i] <= b + v
    <3>1. PICK u \in Nat : u = f[i] BY <2>3
    <3>2. u <= b \/ u = v BY <2>3, <2>5, <2>6, <3>1
    <3>3. QED BY <3>1, <3>2
  <2>8. b + v \in Nat
    OBVIOUS
  <2>9. QED BY <2>2, <2>7, <2>8
<1>2. n \notin Unbounded /\ n \in 0..n
  <2> HIDE DEF Unbounded
  <2>1. QED BY <1>1
<1>3. QED BY <1>2

\* The versions of an episode have a bound.
LEMMA VersionsBounded ==
  ASSUME VersionsInv, NEW e \in Episodes
  PROVE  Versions(e) \in SUBSET Nat /\ \E b \in Nat : \A v \in Versions(e) : v <= b
<1>1. PICK n \in Nat : DOMAIN script = 1..n BY DEF VersionsInv, TypeOK
<1>2. \A s \in 1..n : script[s].version \in Nat BY <1>1, Rows DEF Script
<1> DEFINE f == [s \in 1..n |-> script[s].version]
<1>3. f \in [1..n -> Nat] BY <1>2
<1>4. PICK b \in Nat : \A i \in 1..n : f[i] <= b
  <2> HIDE DEF f
  <2>1. QED BY <1>3, RowBounded
<1>5. QED BY <1>1, <1>2, <1>4 DEF Versions, ScriptsOf

\* The next version is one that no script of the episode has.
LEMMA NextIsFree ==
  ASSUME VersionsInv, NEW e \in Episodes
  PROVE  NextVersion(e) \in Nat /\ NextVersion(e) \notin Versions(e)
<1> DEFINE S == Versions(e) \cup {0}
<1>1. PICK b \in Nat : \A v \in Versions(e) : v <= b BY VersionsBounded
<1>2. S \in SUBSET Nat /\ S # {} /\ \A v \in S : v <= b BY <1>1, VersionsBounded
<1>3. Max(S) \in S /\ \A v \in S : Max(S) >= v
  <2> HIDE DEF S
  <2>1. QED BY <1>2, GreatestNumber
<1>4. PICK m \in Nat : m = Max(S) /\ \A v \in S : m >= v BY <1>2, <1>3
<1>5. NextVersion(e) = m + 1 BY <1>4 DEF NextVersion
<1>6. \A v \in S : v \in Nat /\ v # m + 1 BY <1>2, <1>4
<1>7. QED BY <1>5, <1>6

-----------------------------------------------------------------------------
(* Steps of jobs.                                                          *)

\* A job that changes.
LEMMA JobChanged ==
  ASSUME VersionsInv, NEW i \in DOMAIN job, NEW r \in Job, job' = [job EXCEPT ![i] = r]
  PROVE  /\ job' \in Seq(Job) /\ DOMAIN job' = DOMAIN job /\ job'[i] = r
         /\ \A j \in DOMAIN job : j # i => job'[j] = job[j]
BY DEF VersionsInv, TypeOK

\* A job that is new.
LEMMA JobAdded ==
  ASSUME VersionsInv, NEW r \in Job, job' = Append(job, r)
  PROVE  \E i \in Nat :
           /\ job' \in Seq(Job) /\ DOMAIN job' = DOMAIN job \cup {i}
           /\ i \notin DOMAIN job
           /\ job'[i] = r /\ \A j \in DOMAIN job : job'[j] = job[j]
<1>1. job \in Seq(Job) BY DEF VersionsInv, TypeOK
<1>2. PICK n \in Nat : n = Len(job) /\ DOMAIN job = 1..n BY <1>1
<1>3. /\ job' \in Seq(Job) /\ Len(job') = n + 1 /\ job'[n + 1] = r
      /\ \A j \in 1..n : job'[j] = job[j]
  BY <1>1, <1>2
<1>4. DOMAIN job' = 1..(n + 1) BY <1>3
<1>5. 1..(n + 1) = 1..n \cup {n + 1} /\ n + 1 \notin 1..n
  OBVIOUS
<1>6. QED BY <1>2, <1>3, <1>4, <1>5

\* A change of jobs that keeps what the calls rely on.
JobsGoOn ==
  /\ job' \in Seq(Job) /\ DOMAIN job \subseteq DOMAIN job'
  /\ \A j \in DOMAIN job' : JobFits(j)'
  /\ \A j \in DOMAIN job :
       /\ job'[j].script = job[j].script /\ job'[j].episode = job[j].episode
       /\ job[j].status \in {"running", "cancelled"} /\ ~job[j].waiting =>
            job'[j].status \in {"running", "cancelled"} /\ ~job'[j].waiting

LEMMA JobsGoOnKeeps ==
  ASSUME VersionsInv, JobsGoOn, UNCHANGED <<site, status, summarised, script, call, torn, deserted>>,
         spent' \in [{"faults", "retries", "manuals"} -> Nat]
  PROVE  VersionsInv'
<1>1. \A w \in Workers : call[w].pc \in WriterPc => call[w].job \in DOMAIN job
  BY DEF VersionsInv, JobsFit, RunFits, AtWork
<1>2. TypeOK' BY DEF VersionsInv, TypeOK, JobsGoOn
<1>3. CallsFit' BY SameScripts DEF VersionsInv, CallsFit, CallFits, ScriptsOf, Active
<1>4. JobsFit'
  <2>1. \A w \in Workers : RunFits(w)' BY <1>1 DEF VersionsInv, JobsFit, RunFits, JobsGoOn, AtWork
  <2>2. QED BY <2>1 DEF VersionsInv, JobsFit, JobsGoOn, AtWork
<1>5. ScriptsKept' BY <1>1 DEF VersionsInv, ScriptsKept, ScriptKept, JobsGoOn, WriterPc
<1>6. ReadyIsWhole' /\ OneActive' BY DEF VersionsInv, ReadyIsWhole, OneActive, Active, ScriptsOf
<1>7. RowsLocked' BY DEF VersionsInv, RowsLocked, HoldsEpisode, AtWork
<1>8. Minded' BY DEF VersionsInv, Minded, Minds, Taken, Versions, ScriptsOf
<1>9. QED BY <1>2, <1>3, <1>4, <1>5, <1>6, <1>7, <1>8 DEF VersionsInv

\* A script is asked for.
LEMMA AskKeeps ==
  ASSUME VersionsInv, Ask
  PROVE  VersionsInv'
<1>1. PICK e \in Episodes, s \in Nat :
        Dispatch(e, s) /\ (s # 0 => s \in DOMAIN script /\ script[s].episode = e)
  <2>1. CASE \E e \in Existing : Dispatch(e, 0) BY <2>1 DEF Existing
  <2>2. CASE \E s \in DOMAIN script : Dispatch(script[s].episode, s) BY <2>2, Rows DEF Script
  <2>3. QED BY <2>1, <2>2 DEF Ask
<1> DEFINE r == [status |-> "queued", episode |-> e, script |-> s, waiting |-> TRUE]
<1>2. r \in Job /\ job' = Append(job, r) BY <1>1 DEF Job, JobStatus, Dispatch
<1>3. PICK i \in Nat :
        /\ job' \in Seq(Job) /\ DOMAIN job' = DOMAIN job \cup {i}
        /\ i \notin DOMAIN job
        /\ job'[i] = r /\ \A j \in DOMAIN job : job'[j] = job[j]
  <2> HIDE DEF r
  <2>1. QED BY <1>2, JobAdded
<1>4. UNCHANGED <<site, status, summarised, script, call, torn, deserted, spent>> BY DEF Ask
<1>5. \A j \in DOMAIN job' : JobFits(j)' BY <1>1, <1>3, <1>4 DEF VersionsInv, JobsFit, JobFits
<1>6. JobsGoOn BY <1>3, <1>5 DEF JobsGoOn
<1>7. QED BY <1>4, <1>6, JobsGoOnKeeps DEF VersionsInv, TypeOK

\* A failed job is tried again.
LEMMA RetryKeeps ==
  ASSUME VersionsInv, RetryJob
  PROVE  VersionsInv'
<1>1. PICK i \in DOMAIN job :
        job[i].status = "failed" /\ job' = [job EXCEPT ![i].status = "queued", ![i].waiting = TRUE]
  BY DEF RetryJob
<1>2. PICK r \in Job : r = [job[i] EXCEPT !.status = "queued", !.waiting = TRUE]
  BY Rows DEF Job, JobStatus
<1>3. job' = [job EXCEPT ![i] = r] /\ r.status = "queued" /\ r.waiting /\ r.script = job[i].script /\ r.episode = job[i].episode
  BY <1>1, <1>2, Rows DEF Job
<1>4. /\ job' \in Seq(Job) /\ DOMAIN job' = DOMAIN job /\ job'[i] = r
      /\ \A j \in DOMAIN job : j # i => job'[j] = job[j]
  BY <1>3, JobChanged
<1>5. UNCHANGED <<site, status, summarised, script, call, torn, deserted>> BY DEF RetryJob
<1>6. \A j \in DOMAIN job' : JobFits(j)' BY <1>3, <1>4, <1>5 DEF VersionsInv, JobsFit, JobFits
<1>7. JobsGoOn BY <1>1, <1>3, <1>4, <1>6 DEF JobsGoOn
<1>8. QED BY <1>5, <1>7, JobsGoOnKeeps, SpentOnce DEF RetryJob

\* An active job is cancelled.
LEMMA AbortKeeps ==
  ASSUME VersionsInv, Abort
  PROVE  VersionsInv'
<1> DEFINE S == {j \in DOMAIN job : job[j].status \in ActiveJobStatuses}
<1>1. PICK n \in Nat : n = Len(job) /\ DOMAIN job = 1..n BY DEF VersionsInv, TypeOK
<1>2. S \in SUBSET Nat /\ S # {} /\ \A y \in S : y <= n BY <1>1 DEF Abort
<1>3. Max(S) \in S
  <2> HIDE DEF S
  <2>1. QED BY <1>2, GreatestNumber
<1>4. PICK i \in DOMAIN job : i = Max(S) /\ job[i].status \in ActiveJobStatuses BY <1>3
<1>5. job' = [job EXCEPT ![i].status = "cancelled"] BY <1>4 DEF Abort
<1>6. PICK r \in Job : r = [job[i] EXCEPT !.status = "cancelled"] BY Rows DEF Job, JobStatus
<1>7. job' = [job EXCEPT ![i] = r] /\ r.status = "cancelled" /\ r.waiting = job[i].waiting /\ r.script = job[i].script /\ r.episode = job[i].episode
  BY <1>5, <1>6, Rows DEF Job
<1>8. /\ job' \in Seq(Job) /\ DOMAIN job' = DOMAIN job /\ job'[i] = r
      /\ \A j \in DOMAIN job : j # i => job'[j] = job[j]
  BY <1>7, JobChanged
<1>9. UNCHANGED <<site, status, summarised, script, call, torn, deserted, spent>> BY DEF Abort
<1>10. \A j \in DOMAIN job' : JobFits(j)' BY <1>7, <1>8, <1>9 DEF VersionsInv, JobsFit, JobFits
<1>11. JobsGoOn BY <1>7, <1>8, <1>10 DEF JobsGoOn
<1>12. QED BY <1>9, <1>11, JobsGoOnKeeps DEF VersionsInv, TypeOK

\* The writing fails.
LEMMA WritingFailsKeeps ==
  ASSUME VersionsInv, NEW w \in Workers, WritingFails(w)
  PROVE  VersionsInv'
<1> DEFINE c == [call[w] EXCEPT !.pc = "failing"]
<1>0. w \in Processes /\ call[w] \in Call /\ CallFits(w) BY Who
<1>1. /\ call[w].pc = "write" /\ call' = [call EXCEPT ![w] = c]
      /\ UNCHANGED <<site, status, summarised, script, job, torn, deserted, spent>>
  BY DEF WritingFails, Goto
<1>2. c \in Call BY <1>0, <1>1, NoCallTyped DEF Call, CallPc, WriterPc
<1>3. /\ call' \in [Processes -> Call] /\ call'[w] = c
      /\ \A q \in Processes : q # w => call'[q] = call[q]
  <2> HIDE DEF c
  <2>1. QED BY <1>0, <1>1, <1>2, CallAt
<1>4. TypeOK' BY <1>0, <1>1, <1>3, Who DEF VersionsInv, TypeOK, NoCall
<1>5. CallsFit'
  BY <1>0, <1>1, <1>3, Who DEF CallsFit, CallFits, ScriptsOf, Active, OperatorPc, ScriptPc,
     UnreadPc, Call, NoCall
<1>6. JobsFit'
  BY <1>0, <1>1, <1>3, Who DEF VersionsInv, JobsFit, JobFits, RunFits, AtWork, WriterPc, ScriptPc,
     Call, NoCall
<1>7. ScriptsKept'
  BY <1>0, <1>1, <1>3, Who, Rows DEF VersionsInv, ScriptsKept, ScriptKept, WritingPc, Call, NoCall
<1>8. ReadyIsWhole' /\ OneActive'
  BY <1>0, <1>1, <1>3, Who DEF VersionsInv, ReadyIsWhole, OneActive, Active, ScriptsOf
<1>9. RowsLocked'
  BY <1>0, <1>1, <1>3, Who DEF VersionsInv, RowsLocked, HoldsEpisode, AtWork, WriterPc, Call,
     NoCall, CallFits, OperatorPc
<1>10. Minded'
  BY <1>0, <1>1, <1>3, Who DEF VersionsInv, Minded, Minds, Taken, Versions, ScriptsOf, WriterPc,
     Call, NoCall
<1>11. QED BY <1>4, <1>5, <1>6, <1>7, <1>8, <1>9, <1>10 DEF VersionsInv

\* The script is saved.
LEMMA SaveScriptKeeps ==
  ASSUME VersionsInv, NEW w \in Workers, SaveScript(w)
  PROVE  VersionsInv'
<1> DEFINE c == [call[w] EXCEPT !.pc = "activate"]
<1>0. w \in Processes /\ call[w] \in Call /\ CallFits(w) BY Who
<1>1. /\ call[w].pc = "save" /\ call' = [call EXCEPT ![w] = c]
      /\ UNCHANGED <<site, status, summarised, script, job, torn, deserted, spent>>
  BY DEF SaveScript, Goto
<1>2. c \in Call BY <1>0, <1>1, NoCallTyped DEF Call, CallPc, WriterPc
<1>3. /\ call' \in [Processes -> Call] /\ call'[w] = c
      /\ \A q \in Processes : q # w => call'[q] = call[q]
  <2> HIDE DEF c
  <2>1. QED BY <1>0, <1>1, <1>2, CallAt
<1>4. TypeOK' BY <1>0, <1>1, <1>3, Who DEF VersionsInv, TypeOK, NoCall
<1>5. CallsFit'
  BY <1>0, <1>1, <1>3, Who DEF CallsFit, CallFits, ScriptsOf, Active, OperatorPc, ScriptPc,
     UnreadPc, Call, NoCall
<1>6. JobsFit'
  BY <1>0, <1>1, <1>3, Who DEF VersionsInv, JobsFit, JobFits, RunFits, AtWork, WriterPc, ScriptPc,
     Call, NoCall
<1>7. ScriptsKept'
  BY <1>0, <1>1, <1>3, Who, Rows DEF VersionsInv, ScriptsKept, ScriptKept, WritingPc, Call, NoCall
<1>8. ReadyIsWhole' /\ OneActive'
  BY <1>0, <1>1, <1>3, Who DEF VersionsInv, ReadyIsWhole, OneActive, Active, ScriptsOf
<1>9. RowsLocked'
  BY <1>0, <1>1, <1>3, Who DEF VersionsInv, RowsLocked, HoldsEpisode, AtWork, WriterPc, Call,
     NoCall, CallFits, OperatorPc
<1>10. Minded'
  BY <1>0, <1>1, <1>3, Who DEF VersionsInv, Minded, Minds, Taken, Versions, ScriptsOf, WriterPc,
     Call, NoCall
<1>11. QED BY <1>4, <1>5, <1>6, <1>7, <1>8, <1>9, <1>10 DEF VersionsInv

\* A script is asked for.
LEMMA QueueScriptKeeps ==
  ASSUME VersionsInv, NEW o \in Operators, QueueScript(o)
  PROVE  VersionsInv'
<1> DEFINE c == [NoCall EXCEPT !.pc = "queue"]
<1>0. o \in Processes /\ call[o] \in Call /\ CallFits(o) BY Who
<1>1. /\ call[o].pc = "idle" /\ call' = [call EXCEPT ![o] = c]
      /\ UNCHANGED <<site, status, summarised, script, job, torn, deserted, spent>>
  BY DEF QueueScript, Goto
<1>2. c \in Call BY <1>0, <1>1, NoCallTyped DEF Call, CallPc, WriterPc
<1>3. /\ call' \in [Processes -> Call] /\ call'[o] = c
      /\ \A q \in Processes : q # o => call'[q] = call[q]
  <2> HIDE DEF c
  <2>1. QED BY <1>0, <1>1, <1>2, CallAt
<1>4. TypeOK' BY <1>0, <1>1, <1>3, Who DEF VersionsInv, TypeOK, NoCall
<1>5. CallsFit'
  BY <1>0, <1>1, <1>3, Who DEF CallsFit, CallFits, ScriptsOf, Active, OperatorPc, ScriptPc,
     UnreadPc, Call, NoCall
<1>6. JobsFit'
  BY <1>0, <1>1, <1>3, Who DEF VersionsInv, JobsFit, JobFits, RunFits, AtWork, WriterPc, ScriptPc,
     Call, NoCall
<1>7. ScriptsKept'
  BY <1>0, <1>1, <1>3, Who, Rows DEF VersionsInv, ScriptsKept, ScriptKept, WritingPc, Call, NoCall
<1>8. ReadyIsWhole' /\ OneActive'
  BY <1>0, <1>1, <1>3, Who DEF VersionsInv, ReadyIsWhole, OneActive, Active, ScriptsOf
<1>9. RowsLocked'
  BY <1>0, <1>1, <1>3, Who DEF VersionsInv, RowsLocked, HoldsEpisode, AtWork, WriterPc, Call,
     NoCall, CallFits, OperatorPc
<1>10. Minded'
  BY <1>0, <1>1, <1>3, Who DEF VersionsInv, Minded, Minds, Taken, Versions, ScriptsOf, WriterPc,
     Call, NoCall
<1>11. QED BY <1>4, <1>5, <1>6, <1>7, <1>8, <1>9, <1>10 DEF VersionsInv

\* The active versions are cleared.
LEMMA ClearActiveKeeps ==
  ASSUME VersionsInv, NEW p \in Processes, ClearActive(p)
  PROVE  VersionsInv'
<1> DEFINE c == [call[p] EXCEPT !.pc = "commit", !.cleared = Active(call[p].episode)]
<1>0. p \in Processes /\ call[p] \in Call /\ CallFits(p) BY Who
<1>1. /\ call[p].pc = "activate" /\ call' = [call EXCEPT ![p] = c]
      /\ UNCHANGED <<site, status, summarised, script, job, torn, deserted, spent>>
  BY DEF ClearActive, Goto
<1>2. c \in Call BY <1>0, <1>1, Rows DEF Call, CallPc, WriterPc, Active, ScriptsOf
<1>3. /\ call' \in [Processes -> Call] /\ call'[p] = c
      /\ \A q \in Processes : q # p => call'[q] = call[q]
  <2> HIDE DEF c
  <2>1. QED BY <1>0, <1>1, <1>2, CallAt
<1>4. TypeOK' BY <1>0, <1>1, <1>3, Who DEF VersionsInv, TypeOK, NoCall
<1>5. CallsFit'
  BY <1>0, <1>1, <1>3, Who, SameScripts DEF CallsFit, CallFits, OperatorPc, ScriptPc, UnreadPc, Call
<1>6. JobsFit'
  BY <1>0, <1>1, <1>3, Who DEF VersionsInv, JobsFit, JobFits, RunFits, AtWork, WriterPc, ScriptPc,
     Call, NoCall
<1>7. ScriptsKept'
  BY <1>0, <1>1, <1>3, Who, Rows DEF VersionsInv, ScriptsKept, ScriptKept, WritingPc, Call, NoCall
<1>8. ReadyIsWhole' /\ OneActive'
  BY <1>0, <1>1, <1>3, Who DEF VersionsInv, ReadyIsWhole, OneActive, Active, ScriptsOf
<1>9. RowsLocked'
  BY <1>0, <1>1, <1>3, Who DEF VersionsInv, RowsLocked, HoldsEpisode, AtWork, WriterPc, Call,
     NoCall, CallFits, OperatorPc
<1>10. Minded'
  BY <1>0, <1>1, <1>3, Who DEF VersionsInv, Minded, Minds, Taken, Versions, ScriptsOf, WriterPc,
     Call, NoCall
<1>11. QED BY <1>4, <1>5, <1>6, <1>7, <1>8, <1>9, <1>10 DEF VersionsInv

\* A number is read, which nobody has.
LEMMA NumberKeeps ==
  ASSUME VersionsInv, NEW p \in Processes, Number(p)
  PROVE  VersionsInv'
<1> DEFINE c == [call[p] EXCEPT !.pc = "insert", !.version = NextVersion(call[p].episode)]
<1>0. p \in Processes /\ call[p] \in Call /\ CallFits(p) BY Who
<1>1. /\ call[p].pc = "number" /\ call' = [call EXCEPT ![p] = c]
      /\ UNCHANGED <<site, status, summarised, script, job, torn, deserted, spent>>
      /\ NextVersion(call[p].episode) \in Nat
      /\ NextVersion(call[p].episode) \notin Versions(call[p].episode)
  BY Who, NextIsFree DEF Number, Goto, Call
<1>2. c \in Call BY <1>0, <1>1, NoCallTyped DEF Call, CallPc, WriterPc
<1>3. /\ call' \in [Processes -> Call] /\ call'[p] = c
      /\ \A q \in Processes : q # p => call'[q] = call[q]
  <2> HIDE DEF c
  <2>1. QED BY <1>0, <1>1, <1>2, CallAt
<1>4. TypeOK' BY <1>0, <1>1, <1>3, Who DEF VersionsInv, TypeOK, NoCall
<1>5. CallsFit'
  BY <1>0, <1>1, <1>3, Who DEF CallsFit, CallFits, ScriptsOf, Active, OperatorPc, ScriptPc,
     UnreadPc, Call, NoCall
<1>6. JobsFit'
  BY <1>0, <1>1, <1>3, Who DEF VersionsInv, JobsFit, JobFits, RunFits, AtWork, WriterPc, ScriptPc,
     Call, NoCall
<1>7. ScriptsKept'
  BY <1>0, <1>1, <1>3, Who, Rows DEF VersionsInv, ScriptsKept, ScriptKept, WritingPc, Call, NoCall
<1>8. ReadyIsWhole' /\ OneActive'
  BY <1>0, <1>1, <1>3, Who DEF VersionsInv, ReadyIsWhole, OneActive, Active, ScriptsOf
<1>9. RowsLocked'
  BY <1>0, <1>1, <1>3, Who DEF VersionsInv, RowsLocked, HoldsEpisode, AtWork, WriterPc, Call,
     NoCall, CallFits, OperatorPc
<1>10. Minded'
  BY <1>0, <1>1, <1>3, Who DEF VersionsInv, Minded, Minds, Taken, Versions, ScriptsOf, WriterPc,
     Call, NoCall
<1>11. QED BY <1>4, <1>5, <1>6, <1>7, <1>8, <1>9, <1>10 DEF VersionsInv

\* A manual script is inserted, or its number is taken.
LEMMA InsertManualKeeps ==
  ASSUME VersionsInv, NEW o \in Operators, InsertManualScript(o)
  PROVE  VersionsInv'
<1> DEFINE c == IF Taken(o) THEN NoCall ELSE [call[o] EXCEPT !.pc = "activate"]
<1>0. o \in Processes /\ call[o] \in Call /\ CallFits(o) BY Who
<1>1. /\ call[o].pc = "insert" /\ call' = [call EXCEPT ![o] = c]
      /\ UNCHANGED <<site, status, summarised, script, job, torn, deserted, spent>>
  BY DEF InsertManualScript, Goto, Leave
<1>2. c \in Call BY <1>0, <1>1, NoCallTyped DEF Call, CallPc, WriterPc
<1>3. /\ call' \in [Processes -> Call] /\ call'[o] = c
      /\ \A q \in Processes : q # o => call'[q] = call[q]
  <2> HIDE DEF c
  <2>1. QED BY <1>0, <1>1, <1>2, CallAt
<1>4. TypeOK' BY <1>0, <1>1, <1>3, Who DEF VersionsInv, TypeOK, NoCall
<1>5. CallsFit'
  BY <1>0, <1>1, <1>3, Who DEF CallsFit, CallFits, ScriptsOf, Active, OperatorPc, ScriptPc,
     UnreadPc, Call, NoCall
<1>6. JobsFit'
  BY <1>0, <1>1, <1>3, Who DEF VersionsInv, JobsFit, JobFits, RunFits, AtWork, WriterPc, ScriptPc,
     Call, NoCall
<1>7. ScriptsKept'
  BY <1>0, <1>1, <1>3, Who, Rows DEF VersionsInv, ScriptsKept, ScriptKept, WritingPc, Call, NoCall
<1>8. ReadyIsWhole' /\ OneActive'
  BY <1>0, <1>1, <1>3, Who DEF VersionsInv, ReadyIsWhole, OneActive, Active, ScriptsOf
<1>9. RowsLocked'
  BY <1>0, <1>1, <1>3, Who DEF VersionsInv, RowsLocked, HoldsEpisode, AtWork, WriterPc, Call,
     NoCall, CallFits, OperatorPc
<1>10. Minded'
  BY <1>0, <1>1, <1>3, Who DEF VersionsInv, Minded, Minds, Taken, Versions, ScriptsOf, WriterPc,
     Call, NoCall
<1>11. QED BY <1>4, <1>5, <1>6, <1>7, <1>8, <1>9, <1>10 DEF VersionsInv

\* A manual script is pasted.
LEMMA NewManualKeeps ==
  ASSUME VersionsInv, NEW o \in Operators, NewManualScript(o)
  PROVE  VersionsInv'
<1>a. PICK e \in Episodes : EpisodeFree(o, e) /\ Goto(o, [NoCall EXCEPT !.pc = "number", !.episode = e])
  BY DEF NewManualScript
<1> DEFINE c == [NoCall EXCEPT !.pc = "number", !.episode = e]
<1>0. o \in Processes /\ call[o] \in Call /\ CallFits(o) BY Who
<1>1. /\ call[o].pc = "idle" /\ call' = [call EXCEPT ![o] = c]
      /\ EpisodeFree(o, e)
      /\ UNCHANGED <<site, status, summarised, script, job, torn, deserted>>
      /\ spent' \in [{"faults", "retries", "manuals"} -> Nat]
  BY <1>a, SpentOnce DEF NewManualScript, Goto
<1>2. c \in Call BY <1>0, <1>1, NoCallTyped DEF Call, CallPc, WriterPc
<1>3. /\ call' \in [Processes -> Call] /\ call'[o] = c
      /\ \A q \in Processes : q # o => call'[q] = call[q]
  <2> HIDE DEF c
  <2>1. QED BY <1>0, <1>1, <1>2, CallAt
<1>4. TypeOK' BY <1>0, <1>1, <1>3, Who DEF VersionsInv, TypeOK, NoCall
<1>5. CallsFit'
  BY <1>0, <1>1, <1>3, Who DEF CallsFit, CallFits, ScriptsOf, Active, OperatorPc, ScriptPc,
     UnreadPc, Call, NoCall
<1>6. JobsFit'
  BY <1>0, <1>1, <1>3, Who DEF VersionsInv, JobsFit, JobFits, RunFits, AtWork, WriterPc, ScriptPc,
     Call, NoCall
<1>7. ScriptsKept'
  BY <1>0, <1>1, <1>3, Who, Rows DEF VersionsInv, ScriptsKept, ScriptKept, WritingPc, Call, NoCall
<1>8. ReadyIsWhole' /\ OneActive'
  BY <1>0, <1>1, <1>3, Who DEF VersionsInv, ReadyIsWhole, OneActive, Active, ScriptsOf
<1>9. RowsLocked'
  BY <1>0, <1>1, <1>3, Who DEF VersionsInv, RowsLocked, HoldsEpisode, EpisodeFree, AtWork, WriterPc,
     Call, NoCall, CallFits, OperatorPc
<1>10. Minded'
  BY <1>0, <1>1, <1>3, Who DEF VersionsInv, Minded, Minds, Taken, Versions, ScriptsOf, WriterPc,
     Call, NoCall
<1>11. QED BY <1>4, <1>5, <1>6, <1>7, <1>8, <1>9, <1>10 DEF VersionsInv

\* The episode is loaded.
LEMMA LoadEpisodeKeeps ==
  ASSUME VersionsInv, NEW w \in Workers, LoadEpisode(w)
  PROVE  VersionsInv'
<1>a. PICK early \in BOOLEAN :
        /\ call' = [call EXCEPT ![w] = [call[w] EXCEPT !.pc = "save", !.seen = status[call[w].episode], !.early = early]]
        /\ early => EpisodeFree(w, call[w].episode)
  <2>1. call[w] \in Call /\ CallFits(w) /\ call[w].pc = "write" BY Who DEF LoadEpisode
  <2>2. ~call[w].early BY <2>1 DEF CallFits
  <2>3. [call[w] EXCEPT !.pc = "save", !.seen = status[call[w].episode], !.early = FALSE] = [call[w] EXCEPT !.pc = "save", !.seen = status[call[w].episode]]
    BY <2>1, <2>2 DEF Call
  <2>4. QED BY <2>3 DEF LoadEpisode, Goto
<1> DEFINE c == [call[w] EXCEPT !.pc = "save", !.seen = status[call[w].episode], !.early = early]
<1>0. w \in Processes /\ call[w] \in Call /\ CallFits(w) BY Who
<1>1. /\ call[w].pc = "write" /\ call' = [call EXCEPT ![w] = c]
      /\ early => EpisodeFree(w, call[w].episode)
      /\ status[call[w].episode] \in EpisodeStatus
      /\ UNCHANGED <<site, status, summarised, script, job, torn, deserted, spent>>
  BY <1>a, <1>0 DEF LoadEpisode, Call, VersionsInv, TypeOK
<1>2. c \in Call BY <1>0, <1>1, NoCallTyped DEF Call, CallPc, WriterPc
<1>3. /\ call' \in [Processes -> Call] /\ call'[w] = c
      /\ \A q \in Processes : q # w => call'[q] = call[q]
  <2> HIDE DEF c
  <2>1. QED BY <1>0, <1>1, <1>2, CallAt
<1>4. TypeOK' BY <1>0, <1>1, <1>3, Who DEF VersionsInv, TypeOK, NoCall
<1>5. CallsFit'
  BY <1>0, <1>1, <1>3, Who, SameScripts DEF CallsFit, CallFits, OperatorPc, ScriptPc, UnreadPc,
     Call, EpisodeStatus
<1>6. JobsFit'
  BY <1>0, <1>1, <1>3, Who DEF VersionsInv, JobsFit, JobFits, RunFits, AtWork, WriterPc, ScriptPc,
     Call, NoCall
<1>7. ScriptsKept'
  BY <1>0, <1>1, <1>3, Who, Rows DEF VersionsInv, ScriptsKept, ScriptKept, WritingPc, Call, NoCall
<1>8. ReadyIsWhole' /\ OneActive'
  BY <1>0, <1>1, <1>3, Who DEF VersionsInv, ReadyIsWhole, OneActive, Active, ScriptsOf
<1>9. RowsLocked'
  BY <1>0, <1>1, <1>3, Who DEF VersionsInv, RowsLocked, HoldsEpisode, EpisodeFree, AtWork, WriterPc,
     Call, CallFits, OperatorPc
<1>10. Minded'
  BY <1>0, <1>1, <1>3, Who DEF VersionsInv, Minded, Minds, Taken, Versions, ScriptsOf, WriterPc,
     Call, NoCall
<1>11. QED BY <1>4, <1>5, <1>6, <1>7, <1>8, <1>9, <1>10 DEF VersionsInv

\* A worker dies.
LEMMA CrashKeeps ==
  ASSUME VersionsInv, NEW w \in Workers, Crash(w)
  PROVE  VersionsInv'
<1> DEFINE c == NoCall
<1>0. w \in Processes /\ call[w] \in Call /\ CallFits(w) BY Who
<1>1. /\ AtWork(w) /\ call' = [call EXCEPT ![w] = c]
      /\ deserted' = deserted \cup {call[w].episode}
      /\ UNCHANGED <<site, status, summarised, script, job, torn>>
      /\ spent' \in [{"faults", "retries", "manuals"} -> Nat]
  BY SpentOnce DEF Crash, Leave, Goto, Fault
<1>2. c \in Call BY <1>0, <1>1, NoCallTyped DEF Call, CallPc, WriterPc
<1>3. /\ call' \in [Processes -> Call] /\ call'[w] = c
      /\ \A q \in Processes : q # w => call'[q] = call[q]
  <2> HIDE DEF c
  <2>1. QED BY <1>0, <1>1, <1>2, CallAt
<1>4. TypeOK' BY <1>0, <1>1, <1>3, Who DEF VersionsInv, TypeOK, NoCall, Call
<1>5. CallsFit'
  BY <1>0, <1>1, <1>3, Who DEF CallsFit, CallFits, ScriptsOf, Active, OperatorPc, ScriptPc,
     UnreadPc, Call, NoCall
<1>6. JobsFit'
  BY <1>0, <1>1, <1>3, Who DEF VersionsInv, JobsFit, JobFits, RunFits, AtWork, WriterPc, ScriptPc,
     Call, NoCall
<1>7. ScriptsKept'
  BY <1>0, <1>1, <1>3, Who, Rows DEF VersionsInv, ScriptsKept, ScriptKept, WritingPc, Call, NoCall
<1>8. ReadyIsWhole' /\ OneActive'
  BY <1>0, <1>1, <1>3, Who DEF VersionsInv, ReadyIsWhole, OneActive, Active, ScriptsOf
<1>9. RowsLocked'
  BY <1>0, <1>1, <1>3, Who DEF VersionsInv, RowsLocked, HoldsEpisode, AtWork, WriterPc, Call,
     NoCall, CallFits, OperatorPc
<1>10. Minded'
  BY <1>0, <1>1, <1>3, Who DEF VersionsInv, Minded, Minds, Taken, Versions, ScriptsOf, WriterPc,
     Call, NoCall
<1>11. QED BY <1>4, <1>5, <1>6, <1>7, <1>8, <1>9, <1>10 DEF VersionsInv

-----------------------------------------------------------------------------
(* Transactions that are rolled back.                                      *)

\* Whoever waits for somebody is at a statement that changes rows.
LEMMA BlockedPc ==
  ASSUME VersionsInv, NEW p \in Processes, NEW q \in Processes, BlockedBy(p, q)
  PROVE  /\ call[p].pc \in {"save", "activate", "commit"}
         /\ p \in Operators => call[p].pc = "activate"
         /\ call[p].pc = "commit" => SavesEpisode(p) /\ HoldsEpisode(q, call[p].episode)
         /\ (q \in Operators /\ call[q].pc = "activate") =>
              SavesEpisode(p) /\ HoldsEpisode(q, call[p].episode)
<1>1. CallFits(p) /\ CallFits(q) /\ Workers \cap Operators = {} BY Who
<1>2. Wants(p) # {} => call[p].pc \in {"save", "activate"} BY DEF Wants
<1>3. SavesEpisode(p) => call[p].pc = "commit" /\ p \in Workers BY DEF SavesEpisode
<1>4. (q \in Operators /\ call[q].pc = "activate") => Held(q) = {} BY <1>1 DEF Held, CallFits
<1>5. QED BY <1>1, <1>2, <1>3, <1>4 DEF BlockedBy, CallFits, OperatorPc

\* A deadlock: what the victim waits for, and who waits for it.
LEMMA DeadlockPc ==
  ASSUME VersionsInv, NEW p \in Processes, Deadlocked(p)
  PROVE  /\ call[p].pc \in {"save", "activate", "commit"}
         /\ p \in Operators => call[p].pc = "activate"
         /\ call[p].pc = "commit" =>
              \E q \in Processes :
                /\ q # p /\ HoldsEpisode(q, call[p].episode)
                /\ q \in Operators => call[q].pc = "activate"
         /\ p \in Operators =>
              \E r \in Workers : SavesEpisode(r) /\ call[r].episode = call[p].episode
<1>1. PICK S \in SUBSET Processes :
        /\ p \in S
        /\ \A q \in S : (\E r \in S : BlockedBy(q, r)) /\ (\E r \in S : BlockedBy(r, q))
  BY DEF Deadlocked
<1>2. PICK q \in S : BlockedBy(p, q) BY <1>1
<1>3. PICK r \in S : BlockedBy(r, p) BY <1>1
<1>4. PICK t \in S : BlockedBy(q, t) BY <1>1
<1>5. p # q BY <1>2 DEF BlockedBy
<1>6. /\ call[p].pc \in {"save", "activate", "commit"}
      /\ p \in Operators => call[p].pc = "activate"
      /\ call[p].pc = "commit" => HoldsEpisode(q, call[p].episode)
  BY <1>2, BlockedPc
<1>7. q \in Operators => call[q].pc = "activate" BY <1>4, BlockedPc
<1>8. p \in Operators => SavesEpisode(r) /\ HoldsEpisode(p, call[r].episode)
  BY <1>3, <1>6, BlockedPc
<1>9. p \in Operators => r \in Workers /\ call[r].episode = call[p].episode
  BY <1>8 DEF SavesEpisode, HoldsEpisode
<1>10. QED BY <1>5, <1>6, <1>7, <1>8, <1>9

\* A request is the victim of a deadlock.
LEMMA VictimRequestKeeps ==
  ASSUME VersionsInv, NEW o \in Operators, Victim(o)
  PROVE  VersionsInv'
<1>a. PICK r \in Workers : SavesEpisode(r) /\ call[r].episode = call[o].episode
  BY Who, DeadlockPc DEF Victim
<1> DEFINE c == NoCall
<1>0. o \in Processes /\ call[o] \in Call /\ CallFits(o) BY Who
<1>1. /\ call[o].pc = "activate" /\ call' = [call EXCEPT ![o] = c]
      /\ UNCHANGED <<site, status, summarised, script, job, torn, deserted, spent>>
  BY Who, DeadlockPc DEF Victim, RollBack, Leave, Goto
<1>2. c \in Call BY <1>0, <1>1, NoCallTyped DEF Call, CallPc, WriterPc
<1>3. /\ call' \in [Processes -> Call] /\ call'[o] = c
      /\ \A q \in Processes : q # o => call'[q] = call[q]
  <2> HIDE DEF c
  <2>1. QED BY <1>0, <1>1, <1>2, CallAt
<1>4. TypeOK' BY <1>0, <1>1, <1>3, Who DEF VersionsInv, TypeOK, NoCall
<1>5. CallsFit'
  BY <1>0, <1>1, <1>3, Who DEF CallsFit, CallFits, ScriptsOf, Active, OperatorPc, ScriptPc,
     UnreadPc, Call, NoCall
<1>6. JobsFit'
  BY <1>0, <1>1, <1>3, Who DEF VersionsInv, JobsFit, JobFits, RunFits, AtWork, WriterPc, ScriptPc,
     Call, NoCall
<1>7. ScriptsKept'
  BY <1>0, <1>1, <1>3, Who, Rows DEF VersionsInv, ScriptsKept, ScriptKept, WritingPc, Call, NoCall
<1>8. ReadyIsWhole' /\ OneActive'
  BY <1>0, <1>1, <1>3, Who DEF VersionsInv, ReadyIsWhole, OneActive, Active, ScriptsOf
<1>9. RowsLocked'
  BY <1>0, <1>1, <1>3, Who DEF VersionsInv, RowsLocked, HoldsEpisode, AtWork, WriterPc, Call,
     NoCall, CallFits, OperatorPc
<1>10. Minded'
  <2>1. PICK e \in Episodes : e = call[o].episode BY <1>0 DEF Call
  <2>2. r \in Processes /\ Minds(r, e)'
    BY <2>1, <1>a, <1>1, <1>3, Who DEF SavesEpisode, Minds, WriterPc
  <2>3. \A p \in Processes, d \in Episodes : p # o /\ Minds(p, d) => Minds(p, d)'
    BY <1>1, <1>3 DEF Minds, Taken, Versions, ScriptsOf
  <2>4. \A d \in Episodes : Minds(o, d) => d = e BY <2>1 DEF Minds
  <2>5. status' = status /\ deserted' = deserted BY <1>1
  <2>6. QED BY <2>2, <2>3, <2>4, <2>5 DEF VersionsInv, Minded
<1>11. QED BY <1>4, <1>5, <1>6, <1>7, <1>8, <1>9, <1>10 DEF VersionsInv

\* A generation is the victim of a deadlock.
LEMMA VictimWorkerKeeps ==
  ASSUME VersionsInv, NEW w \in Workers, Victim(w)
  PROVE  VersionsInv'
<1> DEFINE c == [call[w] EXCEPT !.pc = "failing", !.cleared = {}, !.early = FALSE, !.late = FALSE,
                          !.seen = IF SavesEpisode(w) THEN "draft" ELSE call[w].seen]
<1>0. w \in Processes /\ call[w] \in Call /\ CallFits(w) BY Who
<1>1. /\ call[w].pc \in {"save", "activate", "commit"}
      /\ call' = [call EXCEPT ![w] = c]
      /\ UNCHANGED <<site, status, summarised, script, job, torn, deserted, spent>>
  BY Who, DeadlockPc DEF Victim, RollBack, Goto
<1>2. c \in Call BY <1>0, <1>1 DEF Call, CallPc, WriterPc, EpisodeStatus
<1>3. /\ call' \in [Processes -> Call] /\ call'[w] = c
      /\ \A q \in Processes : q # w => call'[q] = call[q]
  <2> HIDE DEF c
  <2>1. QED BY <1>0, <1>1, <1>2, CallAt
<1>4. TypeOK' BY <1>0, <1>1, <1>3, Who DEF VersionsInv, TypeOK, NoCall
<1>5. CallsFit'
  BY <1>0, <1>1, <1>3, Who, SameScripts DEF CallsFit, CallFits, OperatorPc, ScriptPc, UnreadPc,
     Call, NoCall, EpisodeStatus
<1>6. JobsFit'
  BY <1>0, <1>1, <1>3, Who DEF VersionsInv, JobsFit, JobFits, RunFits, AtWork, WriterPc, ScriptPc,
     Call, NoCall
<1>7. ScriptsKept'
  BY <1>0, <1>1, <1>3, Who, Rows DEF VersionsInv, ScriptsKept, ScriptKept, WritingPc, Call, NoCall
<1>8. ReadyIsWhole' /\ OneActive'
  BY <1>0, <1>1, <1>3, Who DEF VersionsInv, ReadyIsWhole, OneActive, Active, ScriptsOf
<1>9. RowsLocked'
  BY <1>0, <1>1, <1>3, Who DEF VersionsInv, RowsLocked, HoldsEpisode, AtWork, WriterPc, Call,
     NoCall, CallFits, OperatorPc
<1>10. Minded'
  <2>1. CASE SavesEpisode(w)
    <3>1. PICK q \in Processes :
            /\ q # w /\ HoldsEpisode(q, call[w].episode)
            /\ q \in Operators => call[q].pc = "activate"
      BY <2>1, <1>0, DeadlockPc DEF Victim, SavesEpisode
    <3>2. CallFits(q) /\ call[q] \in Call /\ call'[q] = call[q] BY <3>1, <1>3, Who
    <3>3. status[call[w].episode] = "generating_script" => Minds(q, call[w].episode)
      BY <3>1, <3>2, Who DEF VersionsInv, RowsLocked, HoldsEpisode, Minds, CallFits, WriterPc
    <3>4. \A p \in Processes, e \in Episodes :
            p # w /\ Minds(p, e) => Minds(p, e)'
      BY <1>1, <1>3 DEF Minds, Taken, Versions, ScriptsOf
    <3>5. \A e \in Episodes : Minds(w, e) => e = call[w].episode BY DEF Minds
    <3>6. status' = status /\ deserted' = deserted BY <1>1
    <3>7. QED BY <3>1, <3>3, <3>4, <3>5, <3>6 DEF VersionsInv, Minded
  <2>2. CASE ~SavesEpisode(w)
    BY <2>2, <1>0, <1>1, <1>3, Who DEF VersionsInv, Minded, Minds, Taken, Versions, ScriptsOf,
       WriterPc, Call
  <2>3. QED BY <2>1, <2>2
<1>11. QED BY <1>4, <1>5, <1>6, <1>7, <1>8, <1>9, <1>10 DEF VersionsInv

\* A commit fails.
LEMMA CommitFailsKeeps ==
  ASSUME VersionsInv, NEW w \in Workers, CommitFails(w)
  PROVE  VersionsInv'
<1> DEFINE c == [call[w] EXCEPT !.pc = "failing", !.cleared = {}, !.early = FALSE, !.late = FALSE,
                          !.seen = IF SavesEpisode(w) THEN "draft" ELSE call[w].seen]
<1>0. w \in Processes /\ call[w] \in Call /\ CallFits(w) BY Who
<1>1. /\ call[w].pc = "commit" /\ call' = [call EXCEPT ![w] = c]
      /\ deserted' = deserted \cup {call[w].episode}
      /\ UNCHANGED <<site, status, summarised, script, job, torn>>
      /\ spent' \in [{"faults", "retries", "manuals"} -> Nat]
  BY Who, SpentOnce DEF CommitFails, RollBack, Goto, Fault
<1>2. c \in Call BY <1>0, <1>1 DEF Call, CallPc, WriterPc, EpisodeStatus
<1>3. /\ call' \in [Processes -> Call] /\ call'[w] = c
      /\ \A q \in Processes : q # w => call'[q] = call[q]
  <2> HIDE DEF c
  <2>1. QED BY <1>0, <1>1, <1>2, CallAt
<1>4. TypeOK' BY <1>0, <1>1, <1>3, Who DEF VersionsInv, TypeOK, NoCall, Call
<1>5. CallsFit'
  BY <1>0, <1>1, <1>3, Who, SameScripts DEF CallsFit, CallFits, OperatorPc, ScriptPc, UnreadPc,
     Call, NoCall, EpisodeStatus
<1>6. JobsFit'
  BY <1>0, <1>1, <1>3, Who DEF VersionsInv, JobsFit, JobFits, RunFits, AtWork, WriterPc, ScriptPc,
     Call, NoCall
<1>7. ScriptsKept'
  BY <1>0, <1>1, <1>3, Who, Rows DEF VersionsInv, ScriptsKept, ScriptKept, WritingPc, Call, NoCall
<1>8. ReadyIsWhole' /\ OneActive'
  BY <1>0, <1>1, <1>3, Who DEF VersionsInv, ReadyIsWhole, OneActive, Active, ScriptsOf
<1>9. RowsLocked'
  BY <1>0, <1>1, <1>3, Who DEF VersionsInv, RowsLocked, HoldsEpisode, AtWork, WriterPc, Call,
     NoCall, CallFits, OperatorPc
<1>10. Minded'
  BY <1>0, <1>1, <1>3, Who DEF VersionsInv, Minded, Minds, Taken, Versions, ScriptsOf, WriterPc,
     Call, NoCall
<1>11. QED BY <1>4, <1>5, <1>6, <1>7, <1>8, <1>9, <1>10 DEF VersionsInv

\* There are no articles.
LEMMA NoArticlesKeeps ==
  ASSUME VersionsInv, NEW w \in Workers, NoArticles(w)
  PROVE  VersionsInv'
<1>0. w \in Processes /\ call[w] \in Call /\ CallFits(w) /\ call[w].pc = "begin" /\ AtWork(w)
  BY Who DEF NoArticles, AtWork, WriterPc
<1>1. /\ call' = [call EXCEPT ![w] = NoCall]
      /\ job' = [job EXCEPT ![call[w].job].status = "failed"]
      /\ UNCHANGED <<site, summarised, script, torn, deserted, spent>>
  BY DEF NoArticles, Leave, Goto, SetJob
<1>2. /\ call' \in [Processes -> Call] /\ call'[w] = NoCall
      /\ \A q \in Processes : q # w => call'[q] = call[q]
  BY <1>0, <1>1, NoCallTyped, CallAt
<1>3. PICK i \in DOMAIN job : i = call[w].job /\ RunFits(w)
  BY <1>0 DEF VersionsInv, JobsFit, RunFits
<1>4. PICK r \in Job : r = [job[i] EXCEPT !.status = "failed"] BY Rows DEF Job, JobStatus
<1>5. /\ job' = [job EXCEPT ![i] = r] /\ r.status = "failed"
      /\ r.script = job[i].script
      /\ r.episode = job[i].episode /\ r.waiting = job[i].waiting
  BY <1>1, <1>3, <1>4, Rows DEF Job
<1>6. /\ job' \in Seq(Job) /\ DOMAIN job' = DOMAIN job /\ job'[i] = r
      /\ \A j \in DOMAIN job : j # i => job'[j] = job[j]
  BY <1>5, JobChanged
<1>7. \A x \in Workers : (x # w /\ AtWork(x)) => call[x].job \in DOMAIN job /\ call[x].job # i
  BY <1>0, <1>3 DEF VersionsInv, JobsFit, RunFits
<1>8. /\ status' \in [Episodes -> EpisodeStatus]
      /\ \A e \in Episodes : status'[e] \in {status[e], "draft"}
      /\ \A e \in Episodes : (status'[e] = "generating_script" /\ Minds(w, e)) => FALSE
  BY <1>0, Who DEF NoArticles, VersionsInv, TypeOK, Minds
<1>9. TypeOK' BY <1>1, <1>2, <1>6, <1>8, Who DEF VersionsInv, TypeOK, NoCall
<1>10. CallsFit'
  BY <1>1, <1>2, Who, SameScripts DEF CallsFit, CallFits, OperatorPc, ScriptPc, UnreadPc, Call,
     NoCall
<1>11. JobsFit'
  BY <1>0, <1>1, <1>2, <1>3, <1>5, <1>6, <1>7, Who, Rows DEF VersionsInv, JobsFit, JobFits, RunFits,
     AtWork, WriterPc, ScriptPc, NoCall
<1>12. ScriptsKept'
  BY <1>0, <1>1, <1>2, <1>3, <1>5, <1>6, <1>7, Who, Rows DEF VersionsInv, ScriptsKept, ScriptKept,
     WritingPc, NoCall, AtWork, WriterPc
<1>13. ReadyIsWhole' /\ OneActive'
  BY <1>1 DEF VersionsInv, ReadyIsWhole, OneActive, Active, ScriptsOf
<1>14. RowsLocked'
  BY <1>0, <1>1, <1>2, <1>8, Who DEF VersionsInv, RowsLocked, HoldsEpisode, AtWork, WriterPc,
     NoCall, NoArticles
<1>15. Minded'
  <2>1. \A q \in Processes, e \in Episodes : q # w /\ Minds(q, e) => Minds(q, e)'
    BY <1>1, <1>2 DEF Minds, Taken, Versions, ScriptsOf
  <2>2. \A e \in Episodes : status'[e] = "generating_script" => status[e] = "generating_script"
    BY <1>8
  <2>3. QED BY <2>1, <2>2, <1>1, <1>8 DEF VersionsInv, Minded
<1>16. QED BY <1>9, <1>10, <1>11, <1>12, <1>13, <1>14, <1>15 DEF VersionsInv

\* A number has been used.
LEMMA VersionConflictKeeps ==
  ASSUME VersionsInv, NEW w \in Workers, VersionConflict(w)
  PROVE  VersionsInv'
<1>0. w \in Processes /\ call[w] \in Call /\ CallFits(w) /\ call[w].pc = "insert" /\ AtWork(w)
  BY Who DEF VersionConflict, AtWork, WriterPc
<1>1. /\ call' = [call EXCEPT ![w] = NoCall]
      /\ job' = [job EXCEPT ![call[w].job].status = "failed"]
      /\ UNCHANGED <<site, summarised, script, torn, deserted, spent>>
  BY DEF VersionConflict, Leave, Goto, SetJob
<1>2. /\ call' \in [Processes -> Call] /\ call'[w] = NoCall
      /\ \A q \in Processes : q # w => call'[q] = call[q]
  BY <1>0, <1>1, NoCallTyped, CallAt
<1>3. PICK i \in DOMAIN job : i = call[w].job /\ RunFits(w)
  BY <1>0 DEF VersionsInv, JobsFit, RunFits
<1>4. PICK r \in Job : r = [job[i] EXCEPT !.status = "failed"] BY Rows DEF Job, JobStatus
<1>5. /\ job' = [job EXCEPT ![i] = r] /\ r.status = "failed"
      /\ r.script = job[i].script
      /\ r.episode = job[i].episode /\ r.waiting = job[i].waiting
  BY <1>1, <1>3, <1>4, Rows DEF Job
<1>6. /\ job' \in Seq(Job) /\ DOMAIN job' = DOMAIN job /\ job'[i] = r
      /\ \A j \in DOMAIN job : j # i => job'[j] = job[j]
  BY <1>5, JobChanged
<1>7. \A x \in Workers : (x # w /\ AtWork(x)) => call[x].job \in DOMAIN job /\ call[x].job # i
  BY <1>0, <1>3 DEF VersionsInv, JobsFit, RunFits
<1>8. /\ status' \in [Episodes -> EpisodeStatus]
      /\ \A e \in Episodes : status'[e] \in {status[e], "draft"}
      /\ \A e \in Episodes : (status'[e] = "generating_script" /\ Minds(w, e)) => FALSE
  BY <1>0, Who DEF VersionConflict, VersionsInv, TypeOK, Minds
<1>9. TypeOK' BY <1>1, <1>2, <1>6, <1>8, Who DEF VersionsInv, TypeOK, NoCall
<1>10. CallsFit'
  BY <1>1, <1>2, Who, SameScripts DEF CallsFit, CallFits, OperatorPc, ScriptPc, UnreadPc, Call,
     NoCall
<1>11. JobsFit'
  BY <1>0, <1>1, <1>2, <1>3, <1>5, <1>6, <1>7, Who, Rows DEF VersionsInv, JobsFit, JobFits, RunFits,
     AtWork, WriterPc, ScriptPc, NoCall
<1>12. ScriptsKept'
  BY <1>0, <1>1, <1>2, <1>3, <1>5, <1>6, <1>7, Who, Rows DEF VersionsInv, ScriptsKept, ScriptKept,
     WritingPc, NoCall, AtWork, WriterPc
<1>13. ReadyIsWhole' /\ OneActive'
  BY <1>1 DEF VersionsInv, ReadyIsWhole, OneActive, Active, ScriptsOf
<1>14. RowsLocked'
  BY <1>0, <1>1, <1>2, <1>8, Who DEF VersionsInv, RowsLocked, HoldsEpisode, AtWork, WriterPc,
     NoCall, VersionConflict
<1>15. Minded'
  <2>1. \A q \in Processes, e \in Episodes : q # w /\ Minds(q, e) => Minds(q, e)'
    BY <1>1, <1>2 DEF Minds, Taken, Versions, ScriptsOf
  <2>2. \A e \in Episodes : status'[e] = "generating_script" => status[e] = "generating_script"
    BY <1>8
  <2>3. QED BY <2>1, <2>2, <1>1, <1>8 DEF VersionsInv, Minded
<1>16. QED BY <1>9, <1>10, <1>11, <1>12, <1>13, <1>14, <1>15 DEF VersionsInv

\* A generation is finished.
LEMMA FinishKeeps ==
  ASSUME VersionsInv, NEW w \in Workers, Finish(w)
  PROVE  VersionsInv'
<1>0. w \in Processes /\ call[w] \in Call /\ CallFits(w) /\ call[w].pc = "finish" /\ AtWork(w)
  BY Who DEF Finish, AtWork, WriterPc
<1>1. /\ call' = [call EXCEPT ![w] = NoCall]
      /\ job' = [job EXCEPT ![call[w].job].status = "succeeded"]
      /\ UNCHANGED <<site, summarised, script, torn, deserted, spent>>
  BY DEF Finish, Leave, Goto, SetJob
<1>2. /\ call' \in [Processes -> Call] /\ call'[w] = NoCall
      /\ \A q \in Processes : q # w => call'[q] = call[q]
  BY <1>0, <1>1, NoCallTyped, CallAt
<1>3. PICK i \in DOMAIN job : i = call[w].job /\ RunFits(w)
  BY <1>0 DEF VersionsInv, JobsFit, RunFits
<1>4. PICK r \in Job : r = [job[i] EXCEPT !.status = "succeeded"] BY Rows DEF Job, JobStatus
<1>5. /\ job' = [job EXCEPT ![i] = r] /\ r.status = "succeeded"
      /\ r.script = job[i].script
      /\ r.episode = job[i].episode /\ r.waiting = job[i].waiting
  BY <1>1, <1>3, <1>4, Rows DEF Job
<1>6. /\ job' \in Seq(Job) /\ DOMAIN job' = DOMAIN job /\ job'[i] = r
      /\ \A j \in DOMAIN job : j # i => job'[j] = job[j]
  BY <1>5, JobChanged
<1>7. \A x \in Workers : (x # w /\ AtWork(x)) => call[x].job \in DOMAIN job /\ call[x].job # i
  BY <1>0, <1>3 DEF VersionsInv, JobsFit, RunFits
<1>8. /\ status' \in [Episodes -> EpisodeStatus]
      /\ \A e \in Episodes : status'[e] \in {status[e], "draft"}
      /\ \A e \in Episodes : (status'[e] = "generating_script" /\ Minds(w, e)) => FALSE
  BY <1>0, Who DEF Finish, VersionsInv, TypeOK, Minds
<1>9. TypeOK' BY <1>1, <1>2, <1>6, <1>8, Who DEF VersionsInv, TypeOK, NoCall
<1>10. CallsFit'
  BY <1>1, <1>2, Who, SameScripts DEF CallsFit, CallFits, OperatorPc, ScriptPc, UnreadPc, Call,
     NoCall
<1>11. JobsFit'
  BY <1>0, <1>1, <1>2, <1>3, <1>5, <1>6, <1>7, Who, Rows DEF VersionsInv, JobsFit, JobFits, RunFits,
     AtWork, WriterPc, ScriptPc, NoCall, ScriptsKept, ScriptKept, CallFits
<1>12. ScriptsKept'
  BY <1>0, <1>1, <1>2, <1>3, <1>5, <1>6, <1>7, Who, Rows DEF VersionsInv, ScriptsKept, ScriptKept,
     WritingPc, NoCall, AtWork, WriterPc
<1>13. ReadyIsWhole' /\ OneActive'
  BY <1>1 DEF VersionsInv, ReadyIsWhole, OneActive, Active, ScriptsOf
<1>14. RowsLocked'
  BY <1>0, <1>1, <1>2, <1>8, Who DEF VersionsInv, RowsLocked, HoldsEpisode, AtWork, WriterPc,
     NoCall, Finish
<1>15. Minded'
  <2>1. \A q \in Processes, e \in Episodes : q # w /\ Minds(q, e) => Minds(q, e)'
    BY <1>1, <1>2 DEF Minds, Taken, Versions, ScriptsOf
  <2>2. \A e \in Episodes : status'[e] = "generating_script" => status[e] = "generating_script"
    BY <1>8
  <2>3. QED BY <2>1, <2>2, <1>1, <1>8 DEF VersionsInv, Minded
<1>16. QED BY <1>9, <1>10, <1>11, <1>12, <1>13, <1>14, <1>15 DEF VersionsInv

\* A generation that failed leaves its episode.
LEMMA SyncIdleKeeps ==
  ASSUME VersionsInv, NEW w \in Workers, SyncIdle(w)
  PROVE  VersionsInv'
<1>0. w \in Processes /\ call[w] \in Call /\ CallFits(w) /\ call[w].pc = "sync" /\ AtWork(w)
  BY Who DEF SyncIdle, AtWork, WriterPc
<1>1. /\ call' = [call EXCEPT ![w] = NoCall]
      /\ job' = [job EXCEPT ![call[w].job].status = "failed"]
      /\ UNCHANGED <<site, summarised, script, torn, spent>>
  BY DEF SyncIdle, Leave, Goto, SetJob
<1>2. /\ call' \in [Processes -> Call] /\ call'[w] = NoCall
      /\ \A q \in Processes : q # w => call'[q] = call[q]
  BY <1>0, <1>1, NoCallTyped, CallAt
<1>3. PICK i \in DOMAIN job : i = call[w].job /\ RunFits(w)
  BY <1>0 DEF VersionsInv, JobsFit, RunFits
<1>4. PICK r \in Job : r = [job[i] EXCEPT !.status = "failed"] BY Rows DEF Job, JobStatus
<1>5. /\ job' = [job EXCEPT ![i] = r] /\ r.status = "failed"
      /\ r.script = job[i].script
      /\ r.episode = job[i].episode /\ r.waiting = job[i].waiting
  BY <1>1, <1>3, <1>4, Rows DEF Job
<1>6. /\ job' \in Seq(Job) /\ DOMAIN job' = DOMAIN job /\ job'[i] = r
      /\ \A j \in DOMAIN job : j # i => job'[j] = job[j]
  BY <1>5, JobChanged
<1>7. \A x \in Workers : (x # w /\ AtWork(x)) => call[x].job \in DOMAIN job /\ call[x].job # i
  BY <1>0, <1>3 DEF VersionsInv, JobsFit, RunFits
<1>8. /\ status' \in [Episodes -> EpisodeStatus]
      /\ \A e \in Episodes : status'[e] \in {status[e], "draft"}
      /\ \A e \in Episodes : (status'[e] = "generating_script" /\ Minds(w, e)) => FALSE
      /\ deserted' \subseteq Episodes
      /\ \A e \in Episodes \ deserted' : status'[e] = "generating_script" => e \notin deserted
  <2>1. PICK e \in Episodes : e = call[w].episode BY <1>0 DEF Call
  <2>2. status \in [Episodes -> EpisodeStatus] /\ deserted \subseteq Episodes BY DEF VersionsInv, TypeOK
  <2>3. \/ status' = status /\ deserted' = deserted /\ Seen(w) # "generating_script"
        \/ status' = [status EXCEPT ![e] = "draft"] /\ deserted' = deserted \ {e}
    BY <2>1 DEF SyncIdle
  <2>4. Seen(w) # "generating_script" => call[w].seen # "generating_script" /\ (call[w].seen = "unread" => status[e] # "generating_script")
    BY <2>1 DEF Seen
  <2>5. \A d \in Episodes : Minds(w, d) => d = e /\ call[w].seen \in {"unread", "generating_script"}
    BY <2>1, Who DEF Minds
  <2>6. QED BY <2>2, <2>3, <2>4, <2>5 DEF EpisodeStatus
<1>9. TypeOK' BY <1>1, <1>2, <1>6, <1>8, Who DEF VersionsInv, TypeOK, NoCall
<1>10. CallsFit'
  BY <1>1, <1>2, Who, SameScripts DEF CallsFit, CallFits, OperatorPc, ScriptPc, UnreadPc, Call,
     NoCall
<1>11. JobsFit'
  BY <1>0, <1>1, <1>2, <1>3, <1>5, <1>6, <1>7, Who, Rows DEF VersionsInv, JobsFit, JobFits, RunFits,
     AtWork, WriterPc, ScriptPc, NoCall
<1>12. ScriptsKept'
  BY <1>0, <1>1, <1>2, <1>3, <1>5, <1>6, <1>7, Who, Rows DEF VersionsInv, ScriptsKept, ScriptKept,
     WritingPc, NoCall, AtWork, WriterPc
<1>13. ReadyIsWhole' /\ OneActive'
  BY <1>1 DEF VersionsInv, ReadyIsWhole, OneActive, Active, ScriptsOf
<1>14. RowsLocked'
  <2>1. \A x \in Workers : (x # w /\ call[x].early) => status'[call[x].episode] = status[call[x].episode]
    BY Who DEF SyncIdle, EpisodeFree, HoldsEpisode, VersionsInv, TypeOK, Call
  <2>2. QED BY <1>0, <1>1, <1>2, <2>1, Who DEF VersionsInv, RowsLocked, HoldsEpisode, AtWork,
      WriterPc, NoCall
<1>15. Minded'
  <2>1. \A q \in Processes, e \in Episodes : q # w /\ Minds(q, e) => Minds(q, e)'
    BY <1>1, <1>2 DEF Minds, Taken, Versions, ScriptsOf
  <2>2. \A e \in Episodes : status'[e] = "generating_script" => status[e] = "generating_script"
    BY <1>8
  <2>3. QED BY <2>1, <2>2, <1>1, <1>8 DEF VersionsInv, Minded
<1>16. QED BY <1>9, <1>10, <1>11, <1>12, <1>13, <1>14, <1>15 DEF VersionsInv

-----------------------------------------------------------------------------
(* A generation begins.                                                    *)

\* A worker takes a job; a job that was cancelled is put aside.
LEMMA TakeKeeps ==
  ASSUME VersionsInv, NEW w \in Workers, Take(w)
  PROVE  VersionsInv'
<1>1. PICK i \in DOMAIN job :
        /\ job[i].waiting
        /\ \/ /\ job[i].status = "cancelled"
              /\ job' = [job EXCEPT ![i].waiting = FALSE]
              /\ UNCHANGED call
           \/ /\ job[i].status # "cancelled"
              /\ job' = [job EXCEPT ![i].waiting = FALSE, ![i].status = "running"]
              /\ Goto(w, [NoCall EXCEPT !.pc = "begin", !.job = i, !.episode = job[i].episode])
  BY DEF Take
<1>2. job[i] \in Job /\ i \in Nat /\ JobFits(i) BY Rows DEF VersionsInv, JobsFit
<1>3. UNCHANGED <<site, status, summarised, script, torn, deserted, spent>> /\ call[w].pc = "idle" BY DEF Take
<1>4. CASE job[i].status = "cancelled"
  <2>1. PICK r \in Job : r = [job[i] EXCEPT !.waiting = FALSE] BY <1>2 DEF Job
  <2>2. /\ job' = [job EXCEPT ![i] = r] /\ r.status = "cancelled" /\ ~r.waiting
        /\ r.script = job[i].script /\ r.episode = job[i].episode
    BY <1>1, <1>2, <1>4, <2>1 DEF Job
  <2>3. /\ job' \in Seq(Job) /\ DOMAIN job' = DOMAIN job /\ job'[i] = r
        /\ \A j \in DOMAIN job : j # i => job'[j] = job[j]
    BY <2>2, JobChanged
  <2>4. \A j \in DOMAIN job' : JobFits(j)' BY <1>3, <2>2, <2>3 DEF VersionsInv, JobsFit, JobFits
  <2>5. JobsGoOn BY <1>4, <2>2, <2>3, <2>4 DEF JobsGoOn
  <2>6. QED BY <1>1, <1>3, <1>4, <2>5, JobsGoOnKeeps DEF VersionsInv, TypeOK
<1>5. CASE job[i].status # "cancelled"
  <2> DEFINE c == [NoCall EXCEPT !.pc = "begin", !.job = i, !.episode = job[i].episode]
  <2>1. PICK r \in Job : r = [job[i] EXCEPT !.waiting = FALSE, !.status = "running"]
    BY <1>2 DEF Job, JobStatus
  <2>2. /\ job' = [job EXCEPT ![i] = r] /\ r.status = "running" /\ ~r.waiting
        /\ r.script = job[i].script /\ r.episode = job[i].episode
    BY <1>1, <1>2, <1>5, <2>1 DEF Job
  <2>3. /\ job' \in Seq(Job) /\ DOMAIN job' = DOMAIN job /\ job'[i] = r
        /\ \A j \in DOMAIN job : j # i => job'[j] = job[j]
    BY <2>2, JobChanged
  <2>4. c \in Call BY <1>2, NoCallTyped DEF Call, CallPc, WriterPc, Job
  <2>5. call' = [call EXCEPT ![w] = c] /\ w \in Processes BY <1>1, <1>5, Who DEF Goto
  <2>6. /\ call' \in [Processes -> Call] /\ call'[w] = c
        /\ \A q \in Processes : q # w => call'[q] = call[q]
    <3> HIDE DEF c
    <3>1. QED BY <2>4, <2>5, CallAt
  <2>7. \A x \in Workers : AtWork(x) => call[x].job \in DOMAIN job /\ call[x].job # i
    BY <1>1 DEF VersionsInv, JobsFit, RunFits
  <2>8. TypeOK' BY <1>3, <2>3, <2>6, Who DEF VersionsInv, TypeOK, NoCall
  <2>9. CallsFit'
    BY <1>3, <2>5, <2>6, Who, SameScripts DEF CallsFit, CallFits, OperatorPc, ScriptPc, UnreadPc,
       Call, NoCall
  <2>10. JobsFit'
    BY <1>2, <1>3, <1>5, <2>2, <2>3, <2>5, <2>6, <2>7, Who, Rows DEF VersionsInv, JobsFit, JobFits,
       RunFits, AtWork, WriterPc, ScriptPc, NoCall
  <2>11. ScriptsKept'
    BY <1>3, <2>2, <2>3, <2>5, <2>6, <2>7, Who, Rows DEF VersionsInv, ScriptsKept, ScriptKept,
       WritingPc, NoCall, AtWork, WriterPc
  <2>12. ReadyIsWhole' /\ OneActive'
    BY <1>3 DEF VersionsInv, ReadyIsWhole, OneActive, Active, ScriptsOf
  <2>13. RowsLocked'
    BY <1>3, <2>5, <2>6, Who DEF VersionsInv, RowsLocked, HoldsEpisode, AtWork, WriterPc, NoCall
  <2>14. Minded'
    BY <1>3, <2>5, <2>6, Who DEF VersionsInv, Minded, Minds, Taken, Versions, ScriptsOf, WriterPc,
       NoCall
  <2>15. QED BY <2>8, <2>9, <2>10, <2>11, <2>12, <2>13, <2>14 DEF VersionsInv
<1>6. QED BY <1>4, <1>5

\* The episode becomes GENERATING_SCRIPT.
LEMMA BeginKeeps ==
  ASSUME VersionsInv, NEW w \in Workers, Begin(w)
  PROVE  VersionsInv'
<1> DEFINE c == [call[w] EXCEPT !.pc = "find"]
<1>0. /\ w \in Processes /\ call[w] \in Call /\ CallFits(w)
      /\ call[w].pc = "begin"
      /\ EpisodeFree(w, call[w].episode)
  BY Who DEF Begin
<1>1. PICK e \in Episodes : e = call[w].episode BY <1>0 DEF Call
<1>2. /\ call' = [call EXCEPT ![w] = c]
      /\ status' = [status EXCEPT ![e] = "generating_script"]
      /\ deserted' = deserted \ {e}
      /\ UNCHANGED <<site, summarised, script, job, torn, spent>>
  BY <1>1 DEF Begin, Goto
<1>3. c \in Call BY <1>0 DEF Call, CallPc, WriterPc
<1>4. /\ call' \in [Processes -> Call] /\ call'[w] = c
      /\ \A q \in Processes : q # w => call'[q] = call[q]
  <2> HIDE DEF c
  <2>1. QED BY <1>0, <1>2, <1>3, CallAt
<1>5. /\ status' \in [Episodes -> EpisodeStatus]
      /\ status'[e] = "generating_script"
      /\ \A d \in Episodes : d # e => status'[d] = status[d]
  BY <1>2 DEF VersionsInv, TypeOK, EpisodeStatus
<1>6. TypeOK' BY <1>2, <1>4, <1>5, Who DEF VersionsInv, TypeOK
<1>7. CallsFit'
  BY <1>0, <1>2, <1>4, Who, SameScripts DEF CallsFit, CallFits, OperatorPc, ScriptPc, UnreadPc, Call
<1>8. JobsFit'
  BY <1>0, <1>2, <1>4, Who DEF VersionsInv, JobsFit, JobFits, RunFits, AtWork, WriterPc, ScriptPc,
     Call
<1>9. ScriptsKept'
  BY <1>0, <1>2, <1>4, Who, Rows DEF VersionsInv, ScriptsKept, ScriptKept, WritingPc, Call
<1>10. ReadyIsWhole' /\ OneActive'
  BY <1>2 DEF VersionsInv, ReadyIsWhole, OneActive, Active, ScriptsOf
<1>11. RowsLocked'
  <2>1. \A x \in Workers : (x # w /\ call[x].early) => call[x].episode \in Episodes /\ call[x].episode # e
    BY <1>0, <1>1, Who DEF EpisodeFree, HoldsEpisode, Call
  <2>2. ~call[w].early BY <1>0 DEF CallFits
  <2>3. QED BY <1>0, <1>2, <1>4, <1>5, <2>1, <2>2, Who DEF VersionsInv, RowsLocked, HoldsEpisode,
      AtWork, WriterPc, Call
<1>12. Minded'
  <2>1. \A q \in Processes, d \in Episodes : q # w /\ Minds(q, d) => Minds(q, d)'
    BY <1>2, <1>4 DEF Minds, Taken, Versions, ScriptsOf
  <2>2. Minds(w, e)' BY <1>0, <1>1, <1>2, <1>4, Who DEF Minds, WriterPc, Call, CallFits, UnreadPc
  <2>3. \A d \in Episodes : ~Minds(w, d) BY <1>0, Who DEF Minds
  <2>4. QED BY <1>0, <1>2, <1>5, <2>1, <2>2, <2>3 DEF VersionsInv, Minded
<1>13. QED BY <1>6, <1>7, <1>8, <1>9, <1>10, <1>11, <1>12 DEF VersionsInv

\* An episode is made, and a job for it.
LEMMA QueueNewKeeps ==
  ASSUME VersionsInv, NEW o \in Operators, QueueNewEpisode(o)
  PROVE  VersionsInv'
<1>0. /\ o \in Processes /\ call[o] \in Call /\ CallFits(o)
      /\ call[o].pc = "queue"
  BY Who DEF QueueNewEpisode
<1>1. PICK e \in NewEpisodes :
        status' = [status EXCEPT ![e] = "draft"] /\ Dispatch(e, 0)
  <2>1. Episodes \in SUBSET Nat BY ScriptAssumption DEF Episodes
  <2>2. NewEpisodes \in SUBSET Nat /\ NewEpisodes # {} BY <2>1 DEF NewEpisodes, QueueNewEpisode
  <2>3. \E x \in NewEpisodes : \A y \in NewEpisodes : x <= y BY <2>2, LeastNumber
  <2>4. Min(NewEpisodes) \in NewEpisodes BY <2>3 DEF Min
  <2>5. QED BY <2>4 DEF QueueNewEpisode
<1>2. /\ e \in Episodes /\ \A p \in Processes : AtWork(p) => call[p].episode # e BY DEF NewEpisodes
<1>3. call' = [call EXCEPT ![o] = NoCall] /\ UNCHANGED <<site, summarised, script, torn, deserted, spent>>
  BY DEF QueueNewEpisode, Leave, Goto
<1>4. /\ call' \in [Processes -> Call] /\ call'[o] = NoCall
      /\ \A q \in Processes : q # o => call'[q] = call[q]
  BY <1>0, <1>3, NoCallTyped, CallAt
<1> DEFINE r == [status |-> "queued", episode |-> e, script |-> 0, waiting |-> TRUE]
<1>5. r \in Job /\ job' = Append(job, r) BY <1>1, <1>2 DEF Job, JobStatus, Dispatch
<1>6. PICK i \in Nat :
        /\ job' \in Seq(Job) /\ DOMAIN job' = DOMAIN job \cup {i}
        /\ i \notin DOMAIN job
        /\ job'[i] = r /\ \A j \in DOMAIN job : job'[j] = job[j]
  <2> HIDE DEF r
  <2>1. QED BY <1>5, JobAdded
<1>7. /\ status' \in [Episodes -> EpisodeStatus] /\ status'[e] = "draft"
      /\ \A d \in Episodes : d # e => status'[d] = status[d]
  BY <1>1, <1>2 DEF VersionsInv, TypeOK, EpisodeStatus
<1>8. TypeOK' BY <1>3, <1>4, <1>6, <1>7, Who DEF VersionsInv, TypeOK, NoCall
<1>9. CallsFit'
  BY <1>0, <1>3, <1>4, Who, SameScripts DEF CallsFit, CallFits, OperatorPc, ScriptPc, UnreadPc,
     Call, NoCall
<1>10. JobsFit' BY <1>0, <1>3, <1>4, <1>6, Who DEF VersionsInv, JobsFit, JobFits, RunFits, AtWork
<1>11. ScriptsKept'
  BY <1>0, <1>3, <1>4, <1>6, Who, Rows DEF VersionsInv, ScriptsKept, ScriptKept, WritingPc,
     WriterPc, NoCall, JobsFit, RunFits, AtWork
<1>12. ReadyIsWhole' /\ OneActive'
  BY <1>3 DEF VersionsInv, ReadyIsWhole, OneActive, Active, ScriptsOf
<1>13. RowsLocked'
  <2>1. \A x \in Workers : call[x].early => call[x].episode \in Episodes /\ call[x].episode # e
    BY <1>2, Who DEF Call, CallFits, AtWork, WriterPc
  <2>2. QED BY <1>0, <1>3, <1>4, <1>7, <2>1, Who DEF VersionsInv, RowsLocked, HoldsEpisode, AtWork,
      WriterPc, NoCall
<1>14. Minded'
  <2>1. \A q \in Processes, d \in Episodes : q # o /\ Minds(q, d) => Minds(q, d)'
    BY <1>3, <1>4 DEF Minds, Taken, Versions, ScriptsOf
  <2>2. \A d \in Episodes : ~Minds(o, d) BY <1>0, Who DEF Minds
  <2>3. QED BY <1>3, <1>7, <2>1, <2>2 DEF VersionsInv, Minded
<1>15. QED BY <1>8, <1>9, <1>10, <1>11, <1>12, <1>13, <1>14 DEF VersionsInv

-----------------------------------------------------------------------------
(* Scripts that change.                                                    *)

\* A script that stays the version it is.
LEMMA ScriptChanged ==
  ASSUME VersionsInv, NEW s \in DOMAIN script, NEW r \in Script, script' = [script EXCEPT ![s] = r],
         r.episode = script[s].episode, r.version = script[s].version, r.active = script[s].active
  PROVE  /\ script' \in Seq(Script) /\ DOMAIN script' = DOMAIN script /\ script'[s] = r
         /\ \A t \in DOMAIN script : t # s => script'[t] = script[t]
         /\ \A e \in Episodes :
              /\ ScriptsOf(e)' = ScriptsOf(e) /\ Active(e)' = Active(e)
              /\ Active(e) \subseteq ScriptsOf(e)
              /\ Versions(e)' = Versions(e)
<1>1. /\ script' \in Seq(Script) /\ DOMAIN script' = DOMAIN script
      /\ script'[s] = r
      /\ \A t \in DOMAIN script : t # s => script'[t] = script[t]
  BY DEF VersionsInv, TypeOK
<1>2. \A t \in DOMAIN script :
        /\ script'[t].episode = script[t].episode
        /\ script'[t].version = script[t].version
        /\ script'[t].active = script[t].active
  BY <1>1
<1>3. \A e \in Episodes : ScriptsOf(e)' = ScriptsOf(e) BY <1>1, <1>2 DEF ScriptsOf
<1>4. \A e \in Episodes : Active(e)' = Active(e) /\ Active(e) \subseteq ScriptsOf(e)
  BY <1>1, <1>2, <1>3 DEF Active, ScriptsOf
<1>5. \A e \in Episodes : Versions(e)' = Versions(e) BY <1>1, <1>2, <1>3 DEF Versions, ScriptsOf
<1>6. QED BY <1>1, <1>3, <1>4, <1>5

\* A generation that loses what was written: its script is not ready, and
\* not active, unless it is shared.
LEMMA ScriptLost ==
  ASSUME VersionsInv, NEW w \in Workers, NEW c \in Call, NEW s \in DOMAIN script, NEW r \in Script,
         s = call[w].script, call[w].pc \in {"reset", "failing"},
         c.script = s, c.episode = call[w].episode, c.job = call[w].job, c.seen = call[w].seen,
         c.cleared = call[w].cleared, c.late = call[w].late, c.early = call[w].early,
         call[w].pc = "reset" => c.pc = "write", call[w].pc = "failing" => c.pc = "sync",
         call' = [call EXCEPT ![w] = c], script' = [script EXCEPT ![s] = r],
         r.episode = script[s].episode, r.version = script[s].version, r.active = script[s].active,
         r.shared = script[s].shared, r.status \in {"failed", "generating"},
         r.status = "generating" => r.copies = 0,
         UNCHANGED <<site, status, summarised, job, torn, deserted, spent>>
  PROVE  VersionsInv'
<1>0. w \in Processes /\ call[w] \in Call /\ CallFits(w) BY Who
<1>1. /\ call' \in [Processes -> Call] /\ call'[w] = c
      /\ \A q \in Processes : q # w => call'[q] = call[q]
  BY <1>0, CallAt
<1>2. /\ script' \in Seq(Script) /\ DOMAIN script' = DOMAIN script
      /\ script'[s] = r
      /\ \A t \in DOMAIN script : t # s => script'[t] = script[t]
      /\ \A e \in Episodes :
           /\ ScriptsOf(e)' = ScriptsOf(e) /\ Active(e)' = Active(e)
           /\ Active(e) \subseteq ScriptsOf(e)
           /\ Versions(e)' = Versions(e)
  BY ScriptChanged
<1>3. ~script[s].shared => script[s].status # "ready" /\ ~script[s].active
  BY Who DEF VersionsInv, ScriptsKept, ScriptKept, WritingPc
<1>4. TypeOK' BY <1>0, <1>1, <1>2, Who DEF VersionsInv, TypeOK
<1>5. CallsFit'
  <2>1. \A t \in DOMAIN script : script'[t].episode = script[t].episode BY <1>2
  <2>2. QED BY <1>0, <1>1, <1>2, <2>1, Who DEF CallsFit, CallFits, OperatorPc, ScriptPc, UnreadPc,
      Call
<1>6. JobsFit'
  BY <1>0, <1>1, <1>2, <1>3, Who DEF VersionsInv, JobsFit, JobFits, RunFits, AtWork, WriterPc,
     ScriptPc
<1>7. ScriptsKept'
  BY <1>0, <1>1, <1>2, <1>3, Who DEF VersionsInv, ScriptsKept, ScriptKept, WritingPc
<1>8. ReadyIsWhole' BY <1>2 DEF VersionsInv, ReadyIsWhole
<1>9. OneActive'
  <2>1. \A t \in DOMAIN script : script'[t].status = "ready" => script[t].status = "ready" BY <1>2
  <2>2. \A e \in Episodes : ScriptsOf(e) \subseteq DOMAIN script BY DEF ScriptsOf
  <2>3. QED BY <1>2, <2>1, <2>2 DEF VersionsInv, OneActive
<1>10. RowsLocked' BY <1>0, <1>1, Who DEF VersionsInv, RowsLocked, HoldsEpisode, AtWork, WriterPc
<1>11. Minded' BY <1>0, <1>1, <1>2, Who DEF VersionsInv, Minded, Minds, Taken, WriterPc, Call
<1>12. QED BY <1>4, <1>5, <1>6, <1>7, <1>8, <1>9, <1>10, <1>11 DEF VersionsInv

\* A script is reset before it is written again.
LEMMA ResetKeeps ==
  ASSUME VersionsInv, NEW w \in Workers, Reset(w)
  PROVE  VersionsInv'
<1>0. w \in Processes /\ call[w] \in Call /\ CallFits(w) /\ call[w].pc = "reset" BY Who DEF Reset
<1>1. PICK s \in DOMAIN script : s = call[w].script BY <1>0 DEF CallFits, ScriptPc
<1>2. PICK c \in Call : c = [call[w] EXCEPT !.pc = "write"] BY <1>0 DEF Call, CallPc, WriterPc
<1>3. PICK r \in Script : r = [script[s] EXCEPT !.status = "generating", !.copies = 0]
  BY Rows DEF Script, ScriptStatus
<1>4. script' = [script EXCEPT ![s] = r] BY <1>1, <1>3 DEF Reset
<1>5. call' = [call EXCEPT ![w] = c] BY <1>2 DEF Reset, Goto
<1>6. /\ c.script = s /\ c.episode = call[w].episode /\ c.job = call[w].job
      /\ c.seen = call[w].seen
      /\ c.cleared = call[w].cleared /\ c.late = call[w].late
      /\ c.early = call[w].early /\ c.pc = "write"
  BY <1>0, <1>1, <1>2 DEF Call
<1>7. /\ r.episode = script[s].episode /\ r.version = script[s].version
      /\ r.active = script[s].active
      /\ r.shared = script[s].shared /\ r.status = "generating" /\ r.copies = 0
  BY <1>3, Rows DEF Script
<1>8. UNCHANGED <<site, status, summarised, job, torn, deserted, spent>> BY DEF Reset
<1>9. QED BY <1>0, <1>1, <1>4, <1>5, <1>6, <1>7, <1>8, ScriptLost

\* A script is marked as failed.
LEMMA MarkFailedKeeps ==
  ASSUME VersionsInv, NEW w \in Workers, MarkFailed(w)
  PROVE  VersionsInv'
<1>0. w \in Processes /\ call[w] \in Call /\ CallFits(w) /\ call[w].pc = "failing"
  BY Who DEF MarkFailed
<1>1. PICK s \in DOMAIN script : s = call[w].script BY <1>0 DEF CallFits, ScriptPc
<1>2. PICK c \in Call : c = [call[w] EXCEPT !.pc = "sync"] BY <1>0 DEF Call, CallPc, WriterPc
<1>3. PICK r \in Script : r = [script[s] EXCEPT !.status = "failed"]
  BY Rows DEF Script, ScriptStatus
<1>4. script' = [script EXCEPT ![s] = r] BY <1>1, <1>3 DEF MarkFailed
<1>5. call' = [call EXCEPT ![w] = c] BY <1>2 DEF MarkFailed, Goto
<1>6. /\ c.script = s /\ c.episode = call[w].episode /\ c.job = call[w].job
      /\ c.seen = call[w].seen
      /\ c.cleared = call[w].cleared /\ c.late = call[w].late
      /\ c.early = call[w].early /\ c.pc = "sync"
  BY <1>0, <1>1, <1>2 DEF Call
<1>7. /\ r.episode = script[s].episode /\ r.version = script[s].version
      /\ r.active = script[s].active
      /\ r.shared = script[s].shared /\ r.status = "failed"
  BY <1>3, Rows DEF Script
<1>8. UNCHANGED <<site, status, summarised, job, torn, deserted, spent>> BY DEF MarkFailed
<1>9. QED BY <1>0, <1>1, <1>4, <1>5, <1>6, <1>7, <1>8, ScriptLost

\* The script a job goes on with is one of its episode.
LEMMA NamedIs ==
  ASSUME VersionsInv, NEW j \in DOMAIN job
  PROVE  /\ NamedScript(j, job[j].episode) \in Nat
         /\ NamedScript(j, job[j].episode) # 0 =>
              NamedScript(j, job[j].episode) \in ScriptsOf(job[j].episode)
         /\ NamedScript(j, job[j].episode) # 0 /\ job[j].script # NamedScript(j, job[j].episode) =>
              script[NamedScript(j, job[j].episode)].status \in Reusable
<1> DEFINE e == job[j].episode
           unfinished == {s \in ScriptsOf(e) : script[s].status \in Reusable /\ script[s].born >= j}
           first == CHOOSE s \in unfinished : \A t \in unfinished : script[s].version <= script[t].version
<1>1. job[j] \in Job /\ JobFits(j) BY Rows DEF VersionsInv, JobsFit
<1>2. \A s \in ScriptsOf(e) : s \in DOMAIN script /\ script[s] \in Script /\ s \in Nat
  BY Rows DEF ScriptsOf
<1>3. unfinished # {} => first \in unfinished
  <2>1. SUFFICES ASSUME unfinished # {} PROVE first \in unfinished
    OBVIOUS
  <2> DEFINE V == {script[s].version : s \in unfinished}
  <2>2. V \in SUBSET Nat /\ V # {} BY <1>2, <2>1 DEF Script
  <2>3. PICK v \in V : \A u \in V : v <= u
    <3> HIDE DEF V
    <3>1. QED BY <2>2, LeastNumber
  <2>4. \E s \in unfinished : \A t \in unfinished : script[s].version <= script[t].version BY <2>3
  <2>5. QED BY <2>4
<1>4. Legacy(j, e) = IF unfinished # {} /\ script[first].copies = 0 THEN first ELSE 0 BY DEF Legacy
<1>5. /\ Legacy(j, e) \in Nat
      /\ Legacy(j, e) # 0 => Legacy(j, e) \in ScriptsOf(e) /\ script[Legacy(j, e)].status \in Reusable
  <2> HIDE DEF first
  <2>1. QED BY <1>2, <1>3, <1>4
<1>6. QED BY <1>1, <1>5 DEF NamedScript, JobFits, Job, ScriptsOf

\* A script is found for a job.
LEMMA FindScriptKeeps ==
  ASSUME VersionsInv, NEW w \in Workers, FindScript(w)
  PROVE  VersionsInv'
<1>0. w \in Processes /\ call[w] \in Call /\ CallFits(w) /\ call[w].pc = "find" /\ AtWork(w)
  BY Who DEF FindScript, AtWork, WriterPc
<1>1. PICK i \in DOMAIN job : i = call[w].job /\ RunFits(w) /\ job[i].episode = call[w].episode
  BY <1>0 DEF VersionsInv, JobsFit, RunFits
<1>2. PICK named \in Nat : named = NamedScript(i, call[w].episode) BY <1>1, NamedIs
<1>3. /\ named # 0 => named \in ScriptsOf(call[w].episode)
      /\ named # 0 => named \in DOMAIN script /\ script[named].episode = call[w].episode
  BY <1>1, <1>2, NamedIs DEF ScriptsOf
<1> DEFINE usable == named \in ScriptsOf(call[w].episode) /\ script[named].status \in Reusable
           met == \E x \in Workers \ {w} : AtWork(x) /\ call[x].script = named
<1>4. PICK jr \in Job : jr = [job[i] EXCEPT !.script = named] BY Rows DEF Job
<1>5. /\ job' = [job EXCEPT ![i] = jr] /\ jr.script = named
      /\ jr.status = job[i].status
      /\ jr.episode = job[i].episode /\ jr.waiting = job[i].waiting
  <2>1. job' = [job EXCEPT ![i].script = named] BY <1>1, <1>2 DEF FindScript
  <2>2. QED BY <1>4, <2>1, Rows DEF Job
<1>6. /\ job' \in Seq(Job) /\ DOMAIN job' = DOMAIN job /\ job'[i] = jr
      /\ \A j \in DOMAIN job : j # i => job'[j] = job[j]
  BY <1>5, JobChanged
<1>7. \A x \in Workers : (x # w /\ AtWork(x)) => call[x].job \in DOMAIN job /\ call[x].job # i
  BY <1>0, <1>1 DEF VersionsInv, JobsFit, RunFits
<1>8. UNCHANGED <<site, status, summarised, torn, deserted, spent>> BY DEF FindScript
<1>9. job[i].status \in {"running", "cancelled"} /\ ~job[i].waiting BY <1>0, <1>1 DEF RunFits
<1>10. CASE usable
  <2>1. named \in DOMAIN script /\ script[named] \in Script /\ named # 0
    BY <1>10, Rows DEF ScriptsOf
  <2>2. PICK c \in Call : c = [call[w] EXCEPT !.pc = "reset", !.script = named]
    BY <1>0 DEF Call, CallPc, WriterPc
  <2>3. /\ c.script = named /\ c.episode = call[w].episode /\ c.job = i
        /\ c.seen = call[w].seen
        /\ c.cleared = call[w].cleared /\ c.late = call[w].late
        /\ c.early = call[w].early /\ c.pc = "reset"
    BY <1>0, <1>1, <2>2 DEF Call
  <2>4. PICK r \in Script : r = [script[named] EXCEPT !.shared = script[named].shared \/ met]
    BY <2>1 DEF Script
  <2>5. /\ r.episode = script[named].episode /\ r.version = script[named].version
        /\ r.active = script[named].active /\ r.status = script[named].status
        /\ r.copies = script[named].copies /\ (~r.shared => ~script[named].shared /\ ~met)
    BY <2>1, <2>4 DEF Script
  <2>6. call' = [call EXCEPT ![w] = c] /\ script' = [script EXCEPT ![named] = r]
    <3>1. /\ Goto(w, [call[w] EXCEPT !.pc = "reset", !.script = named])
          /\ script' = [script EXCEPT ![named].shared = @ \/ met]
      BY <1>1, <1>2, <1>10 DEF FindScript
    <3>2. QED BY <2>1, <2>2, <2>4, <3>1 DEF Goto
  <2>7. /\ call' \in [Processes -> Call] /\ call'[w] = c
        /\ \A q \in Processes : q # w => call'[q] = call[q]
    BY <1>0, <2>6, CallAt
  <2>8. /\ script' \in Seq(Script) /\ DOMAIN script' = DOMAIN script
        /\ script'[named] = r
        /\ \A t \in DOMAIN script : t # named => script'[t] = script[t]
        /\ \A e \in Episodes :
             /\ ScriptsOf(e)' = ScriptsOf(e) /\ Active(e)' = Active(e)
             /\ Active(e) \subseteq ScriptsOf(e)
             /\ Versions(e)' = Versions(e)
    BY <2>1, <2>5, <2>6, ScriptChanged
  <2>9. \A t \in DOMAIN script : script'[t].episode = script[t].episode /\ script'[t].status = script[t].status
    BY <2>5, <2>8
  <2>10. \A x \in Workers : (x # w /\ call[x].script = named) => met
    BY <2>1, Who DEF CallFits, ScriptPc, AtWork, WriterPc
  <2>11. script[named].status # "ready" BY <1>10 DEF Reusable
  <2>12. TypeOK' BY <1>0, <1>6, <1>8, <2>1, <2>3, <2>7, <2>8, Who DEF VersionsInv, TypeOK
  <2>13. CallsFit'
    <3>1. CallFits(w)'
      BY <1>0, <1>3, <2>1, <2>3, <2>7, <2>8, <2>9, Who DEF CallFits, OperatorPc, ScriptPc, UnreadPc,
         Call
    <3>2. ASSUME NEW q \in Processes, q # w PROVE CallFits(q)'
      <4>1. CallFits(q) /\ call[q] \in Call /\ call'[q] = call[q] BY <2>7, <3>2, Who
      <4>2. QED BY <2>8, <2>9, <4>1 DEF CallFits, Call
    <3>3. QED BY <3>1, <3>2 DEF CallsFit
  <2>14. JobsFit'
    <3>1. \A j \in DOMAIN job : JobFits(j)'
      <4> HIDE DEF met, usable
      <4>1. \A t \in DOMAIN script : ~script'[t].shared => ~script[t].shared BY <2>5, <2>8
      <4>2. \A j \in DOMAIN job : j # i => JobFits(j)'
        BY <1>6, <2>8, <2>9, <4>1 DEF VersionsInv, JobsFit, JobFits
      <4>3. JobFits(i)'
        BY <1>1, <1>3, <1>5, <1>6, <1>9, <2>1, <2>8, <2>9 DEF VersionsInv, JobsFit, JobFits
      <4>4. QED BY <4>2, <4>3
    <3>2. \A x \in Workers : RunFits(x)'
      BY <1>0, <1>1, <1>5, <1>6, <1>7, <1>9, <2>3, <2>7, Who DEF VersionsInv, JobsFit, RunFits,
         AtWork, WriterPc, ScriptPc
    <3>3. QED BY <1>0, <1>1, <1>6, <1>7, <2>3, <2>7, <3>1, <3>2, Who DEF VersionsInv, JobsFit,
        AtWork, WriterPc
  <2>15. ScriptsKept'
    <3>1. ASSUME NEW t \in DOMAIN script PROVE ScriptKept(t)'
      <4>1. CASE t = named
        <5> HIDE DEF met
        <5>1. QED BY <1>0, <1>1, <1>5, <1>6, <1>7, <2>1, <2>3, <2>5, <2>7, <2>8, <2>10,
             <2>11, <4>1, Who
             DEF VersionsInv, ScriptsKept, ScriptKept, WritingPc, AtWork,
                    WriterPc
      <4>2. CASE t # named
        <5>1. script'[t] = script[t] /\ call'[w].script # t /\ call'[w].pc = "reset"
          BY <2>3, <2>7, <2>8, <4>2
        <5>2. \A x \in Workers : x # w /\ call[x].pc \in {"number", "insert"} =>
                job'[call'[x].job].script = job[call[x].job].script
          BY <1>6, <1>7, <2>7, Who DEF AtWork, WriterPc
        <5>3. ScriptKept(t) BY DEF VersionsInv, ScriptsKept
        <5>4. QED BY <2>7, <5>1, <5>2, <5>3, Who DEF ScriptKept, WritingPc
      <4>3. QED BY <4>1, <4>2
    <3>2. QED BY <2>8, <3>1 DEF ScriptsKept
  <2>16. ReadyIsWhole' /\ OneActive'
    <3>1. ReadyIsWhole' BY <2>5, <2>8 DEF VersionsInv, ReadyIsWhole
    <3>2. \A e \in Episodes : ScriptsOf(e) \subseteq DOMAIN script BY DEF ScriptsOf
    <3>3. QED BY <1>8, <2>8, <2>9, <3>1, <3>2 DEF VersionsInv, OneActive
  <2>17. RowsLocked'
    BY <1>0, <1>8, <2>3, <2>7, Who DEF VersionsInv, RowsLocked, HoldsEpisode, AtWork, WriterPc
  <2>18. Minded'
    <3>1. \A q \in Processes, e \in Episodes : q # w /\ Minds(q, e) => Minds(q, e)'
      BY <2>7, <2>8 DEF Minds, Taken
    <3>2. \A e \in Episodes : Minds(w, e) => Minds(w, e)'
      BY <1>0, <2>3, <2>7, Who DEF Minds, WriterPc
    <3>3. QED BY <1>8, <3>1, <3>2 DEF VersionsInv, Minded
  <2>19. QED BY <2>12, <2>13, <2>14, <2>15, <2>16, <2>17, <2>18 DEF VersionsInv
<1>11. CASE ~usable
  <2>1. named # 0 => script[named].status = "ready"
    <3>1. script[named].status \in Reusable => named \notin ScriptsOf(call[w].episode) BY <1>11
    <3>2. named \in DOMAIN script => script[named].status \in ScriptStatus BY Rows DEF Script
    <3>3. QED BY <1>3, <3>1, <3>2 DEF Reusable, ScriptStatus
  <2>2. PICK c \in Call : c = [call[w] EXCEPT !.pc = "number"] BY <1>0 DEF Call, CallPc, WriterPc
  <2>3. /\ c.script = call[w].script /\ c.episode = call[w].episode
        /\ c.job = i /\ c.seen = call[w].seen
        /\ c.cleared = call[w].cleared /\ c.late = call[w].late
        /\ c.early = call[w].early /\ c.pc = "number"
    BY <1>0, <1>1, <2>2 DEF Call
  <2>4. call' = [call EXCEPT ![w] = c] /\ script' = script
    BY <1>1, <1>2, <1>11, <2>2 DEF FindScript, Goto
  <2>5. /\ call' \in [Processes -> Call] /\ call'[w] = c
        /\ \A q \in Processes : q # w => call'[q] = call[q]
    BY <1>0, <2>4, CallAt
  <2>6. TypeOK' BY <1>0, <1>6, <1>8, <2>3, <2>4, <2>5, Who DEF VersionsInv, TypeOK
  <2>7. CallsFit'
    BY <1>0, <2>3, <2>4, <2>5, Who, SameScripts DEF CallsFit, CallFits, OperatorPc, ScriptPc,
       UnreadPc, Call
  <2>8. JobsFit'
    <3>1. \A j \in DOMAIN job : JobFits(j)'
      BY <1>1, <1>3, <1>5, <1>6, <1>9, <2>4 DEF VersionsInv, JobsFit, JobFits
    <3>2. \A x \in Workers : RunFits(x)'
      BY <1>0, <1>1, <1>5, <1>6, <1>7, <1>9, <2>3, <2>5, Who DEF VersionsInv, JobsFit, RunFits,
         AtWork, WriterPc, ScriptPc
    <3>3. QED BY <1>0, <1>1, <1>6, <1>7, <2>3, <2>5, <3>1, <3>2, Who DEF VersionsInv, JobsFit,
        AtWork, WriterPc
  <2>9. ScriptsKept'
    BY <1>0, <1>1, <1>3, <1>5, <1>6, <1>7, <2>1, <2>3, <2>4, <2>5, Who, Rows DEF VersionsInv,
       ScriptsKept, ScriptKept, WritingPc, AtWork, WriterPc
  <2>10. ReadyIsWhole' /\ OneActive'
    BY <1>8, <2>4 DEF VersionsInv, ReadyIsWhole, OneActive, Active, ScriptsOf
  <2>11. RowsLocked'
    BY <1>0, <1>8, <2>3, <2>5, Who DEF VersionsInv, RowsLocked, HoldsEpisode, AtWork, WriterPc
  <2>12. Minded'
    BY <1>0, <1>8, <2>3, <2>4, <2>5, Who DEF VersionsInv, Minded, Minds, Taken, Versions, ScriptsOf,
       WriterPc, Call
  <2>13. QED BY <2>6, <2>7, <2>8, <2>9, <2>10, <2>11, <2>12 DEF VersionsInv
<1>12. QED BY <1>10, <1>11

-----------------------------------------------------------------------------
(* Scripts that are new.                                                   *)

\* A script that is inserted.
LEMMA ScriptAdded ==
  ASSUME VersionsInv, NEW r \in Script, script' = Append(script, r)
  PROVE  \E n \in Nat :
           /\ script' \in Seq(Script) /\ n = Len(script) + 1
           /\ n = Len(script') /\ n # 0
           /\ DOMAIN script' = DOMAIN script \cup {n} /\ n \notin DOMAIN script
           /\ script'[n] = r /\ \A s \in DOMAIN script : script'[s] = script[s]
           /\ \A e \in Episodes :
                /\ ScriptsOf(e)' = IF e = r.episode THEN ScriptsOf(e) \cup {n} ELSE ScriptsOf(e)
                /\ Versions(e)' = IF e = r.episode THEN Versions(e) \cup {r.version} ELSE Versions(e)
<1>1. PICK m \in Nat : m = Len(script) /\ DOMAIN script = 1..m /\ script \in Seq(Script)
  BY DEF VersionsInv, TypeOK
<1>2. /\ script' \in Seq(Script) /\ Len(script') = m + 1 /\ script'[m + 1] = r
      /\ \A s \in 1..m : script'[s] = script[s]
  BY <1>1
<1>3. PICK n \in Nat : n = m + 1 /\ n # 0 BY <1>1
<1>4. DOMAIN script' = 1..n /\ 1..n = 1..m \cup {n} /\ n \notin 1..m BY <1>2, <1>3
<1>5. /\ DOMAIN script' = DOMAIN script \cup {n} /\ n \notin DOMAIN script
      /\ script'[n] = r /\ \A s \in DOMAIN script : script'[s] = script[s]
  BY <1>1, <1>2, <1>3, <1>4
<1>6. \A e \in Episodes : ScriptsOf(e)' = IF e = r.episode THEN ScriptsOf(e) \cup {n} ELSE ScriptsOf(e)
  BY <1>5 DEF ScriptsOf
<1>7. \A e \in Episodes : ScriptsOf(e) \subseteq DOMAIN script BY DEF ScriptsOf
<1>8. \A e \in Episodes : Versions(e)' = IF e = r.episode THEN Versions(e) \cup {r.version} ELSE Versions(e)
  BY <1>5, <1>6, <1>7 DEF Versions
<1>9. QED BY <1>1, <1>2, <1>3, <1>5, <1>6, <1>8

\* A new script is nobody's dialogue yet.
LEMMA NewScriptTyped ==
  ASSUME VersionsInv, NEW p \in Processes
  PROVE  /\ NewScript(call[p]) \in Script
         /\ NewScript(call[p]).episode = call[p].episode
         /\ NewScript(call[p]).version = call[p].version
         /\ NewScript(call[p]).status = "generating"
         /\ NewScript(call[p]).copies = 0
         /\ ~NewScript(call[p]).active /\ ~NewScript(call[p]).shared
<1>1. Len(job) \in Nat BY DEF VersionsInv, TypeOK
<1>2. call[p].episode \in Episodes /\ call[p].version \in Nat BY Who DEF Call
<1>3. QED BY <1>1, <1>2 DEF NewScript, Script, ScriptStatus

\* A placeholder is created.
LEMMA PlaceholderKeeps ==
  ASSUME VersionsInv, NEW w \in Workers, CreatePlaceholder(w)
  PROVE  VersionsInv'
<1>0. w \in Processes /\ call[w] \in Call /\ CallFits(w) /\ call[w].pc = "insert" /\ AtWork(w)
  BY Who DEF CreatePlaceholder, AtWork, WriterPc
<1>1. PICK i \in DOMAIN job : i = call[w].job /\ RunFits(w) /\ job[i].episode = call[w].episode
  BY <1>0 DEF VersionsInv, JobsFit, RunFits
<1>2. PICK r \in Script :
        /\ r = NewScript(call[w]) /\ r.episode = call[w].episode
        /\ r.version = call[w].version
        /\ r.status = "generating" /\ r.copies = 0 /\ ~r.active /\ ~r.shared
  BY <1>0, NewScriptTyped
<1>3. script' = Append(script, r) BY <1>2 DEF CreatePlaceholder
<1>4. PICK n \in Nat :
        /\ script' \in Seq(Script) /\ n = Len(script) + 1 /\ n = Len(script')
        /\ n # 0
        /\ DOMAIN script' = DOMAIN script \cup {n} /\ n \notin DOMAIN script
        /\ script'[n] = r /\ \A s \in DOMAIN script : script'[s] = script[s]
        /\ \A e \in Episodes :
             /\ ScriptsOf(e)' = IF e = r.episode THEN ScriptsOf(e) \cup {n} ELSE ScriptsOf(e)
             /\ Versions(e)' = IF e = r.episode THEN Versions(e) \cup {r.version} ELSE Versions(e)
  BY <1>3, ScriptAdded
<1>5. \A e \in Episodes : Active(e)' = Active(e) /\ Active(e) \subseteq ScriptsOf(e) /\ ScriptsOf(e) \subseteq DOMAIN script
  BY <1>2, <1>4 DEF Active, ScriptsOf
<1>6. PICK jr \in Job : jr = [job[i] EXCEPT !.script = n] BY Rows DEF Job
<1>7. /\ job' = [job EXCEPT ![i] = jr] /\ jr.script = n
      /\ jr.status = job[i].status
      /\ jr.episode = job[i].episode /\ jr.waiting = job[i].waiting
  <2>1. job' = [job EXCEPT ![i].script = n] BY <1>1, <1>4 DEF CreatePlaceholder
  <2>2. QED BY <1>6, <2>1, Rows DEF Job
<1>8. /\ job' \in Seq(Job) /\ DOMAIN job' = DOMAIN job /\ job'[i] = jr
      /\ \A j \in DOMAIN job : j # i => job'[j] = job[j]
  BY <1>7, JobChanged
<1>9. \A x \in Workers : (x # w /\ AtWork(x)) => call[x].job \in DOMAIN job /\ call[x].job # i
  BY <1>0, <1>1 DEF VersionsInv, JobsFit, RunFits
<1>10. job[i].status \in {"running", "cancelled"} /\ ~job[i].waiting BY <1>0, <1>1 DEF RunFits
<1>11. PICK c \in Call : c = [call[w] EXCEPT !.pc = "write", !.script = n]
  BY <1>0 DEF Call, CallPc, WriterPc
<1>12. /\ c.script = n /\ c.episode = call[w].episode /\ c.job = i
       /\ c.seen = call[w].seen
       /\ c.cleared = call[w].cleared /\ c.late = call[w].late
       /\ c.early = call[w].early /\ c.pc = "write"
  BY <1>0, <1>1, <1>11 DEF Call
<1>13. call' = [call EXCEPT ![w] = c] /\ UNCHANGED <<site, status, summarised, torn, deserted, spent>>
  BY <1>4, <1>11 DEF CreatePlaceholder, Goto
<1>14. /\ call' \in [Processes -> Call] /\ call'[w] = c
       /\ \A q \in Processes : q # w => call'[q] = call[q]
  BY <1>0, <1>13, CallAt
<1>15. TypeOK' BY <1>0, <1>4, <1>8, <1>12, <1>13, <1>14, Who DEF VersionsInv, TypeOK
<1>16. CallsFit'
  <2>1. CallFits(w)'
    BY <1>0, <1>2, <1>4, <1>5, <1>12, <1>14, Who DEF CallFits, ScriptPc, UnreadPc, Call
  <2>2. ASSUME NEW q \in Processes, q # w PROVE CallFits(q)'
    <3>1. CallFits(q) /\ call[q] \in Call /\ call'[q] = call[q] BY <1>14, <2>2, Who
    <3>2. QED BY <1>4, <1>5, <3>1 DEF CallFits, Call
  <2>3. QED BY <2>1, <2>2 DEF CallsFit
<1>17. JobsFit'
  <2>1. \A j \in DOMAIN job : j # i => JobFits(j)' BY <1>4, <1>8 DEF VersionsInv, JobsFit, JobFits
  <2>2. JobFits(i)' BY <1>1, <1>2, <1>4, <1>7, <1>8, <1>10 DEF JobFits
  <2>3. \A x \in Workers : RunFits(x)'
    BY <1>0, <1>1, <1>7, <1>8, <1>9, <1>10, <1>12, <1>14, Who DEF VersionsInv, JobsFit, RunFits,
       AtWork, WriterPc, ScriptPc
  <2>4. QED BY <1>0, <1>1, <1>8, <1>9, <1>12, <1>14, <2>1, <2>2, <2>3, Who DEF VersionsInv, JobsFit,
      AtWork, WriterPc
<1>18. ScriptsKept'
  <2>1. \A x \in Workers : x # w /\ call[x].pc \in {"number", "insert"} =>
          job'[call'[x].job].script = job[call[x].job].script /\ JobFits(call[x].job) /\ call[x].job \in DOMAIN job
    BY <1>8, <1>9, <1>14, Who DEF AtWork, WriterPc, VersionsInv, JobsFit
  <2>2. ASSUME NEW t \in DOMAIN script PROVE ScriptKept(t)'
    <3>1. script'[t] = script[t] /\ call'[w].script # t /\ call'[w].pc = "write" /\ ScriptKept(t)
      BY <1>4, <1>12, <1>14 DEF VersionsInv, ScriptsKept
    <3>2. QED BY <1>14, <2>1, <3>1, Who DEF ScriptKept, WritingPc
  <2>3. ScriptKept(n)'
    <3>1. \A x \in Workers : x # w => call[x].script # n BY <1>4, Who DEF CallFits
    <3>2. \A x \in Workers : x # w /\ call[x].pc \in {"number", "insert"} => job'[call'[x].job].script # n
      BY <1>4, <2>1 DEF JobFits
    <3>3. QED BY <1>2, <1>4, <1>12, <1>14, <3>1, <3>2, Who DEF ScriptKept, WritingPc
  <2>4. QED BY <1>4, <2>2, <2>3 DEF ScriptsKept
<1>19. ReadyIsWhole' BY <1>2, <1>4 DEF VersionsInv, ReadyIsWhole
<1>20. OneActive' BY <1>2, <1>4, <1>5, <1>13 DEF VersionsInv, OneActive
<1>21. RowsLocked'
  BY <1>0, <1>12, <1>13, <1>14, Who DEF VersionsInv, RowsLocked, HoldsEpisode, AtWork, WriterPc
<1>22. Minded'
  <2>1. PICK e \in Episodes : e = call[w].episode BY <1>0 DEF Call
  <2>2. Minds(w, e)' BY <1>0, <1>12, <1>14, <2>1, Who DEF Minds, WriterPc, CallFits, UnreadPc
  <2>3. \A q \in Processes, d \in Episodes : (d # e /\ Minds(q, d)) => q # w /\ Minds(q, d)'
    <3>1. \A d \in Episodes : d # e => Versions(d)' = Versions(d) BY <1>2, <1>4, <2>1
    <3>2. QED BY <1>14, <2>1, <3>1 DEF Minds, Taken
  <2>4. QED BY <1>0, <1>13, <2>2, <2>3 DEF VersionsInv, Minded
<1>23. QED BY <1>15, <1>16, <1>17, <1>18, <1>19, <1>20, <1>21, <1>22 DEF VersionsInv

-----------------------------------------------------------------------------
(* Activation.                                                             *)

\* What a commit does to the calls.
LEMMA CommittedCalls ==
  ASSUME VersionsInv, NEW p \in Processes, NEW c \in Call, Committed(p, c)
  PROVE  /\ call' \in [Processes -> Call] /\ call'[p] = c
         /\ \A q \in Processes : q # p =>
              /\ call'[q].pc = call[q].pc /\ call'[q].job = call[q].job
              /\ call'[q].episode = call[q].episode
              /\ call'[q].script = call[q].script
              /\ call'[q].version = call[q].version
              /\ call'[q].cleared = call[q].cleared
              /\ call'[q].early = call[q].early /\ call'[q].seen = call[q].seen
              /\ call'[q].late <=>
                   call[q].late \/ (call[q].pc = "commit" /\ call[q].episode = call[p].episode)
<1>1. \A q \in Processes : call[q] \in Call BY Who
<1>2. call' = [q \in Processes |->
        IF q = p THEN c
        ELSE [call[q] EXCEPT !.late = @ \/ (/\ call[q].pc = "commit"
                                            /\ call[q].episode = call[p].episode)]]
  BY DEF Committed
<1>3. ASSUME NEW q \in Processes, q # p
      PROVE  /\ call'[q] \in Call
             /\ call'[q].pc = call[q].pc /\ call'[q].job = call[q].job
             /\ call'[q].episode = call[q].episode
             /\ call'[q].script = call[q].script
             /\ call'[q].version = call[q].version
             /\ call'[q].cleared = call[q].cleared
             /\ call'[q].early = call[q].early /\ call'[q].seen = call[q].seen
             /\ call'[q].late <=>
                  call[q].late \/ (call[q].pc = "commit" /\ call[q].episode = call[p].episode)
  <2>1. call'[q] = [call[q] EXCEPT !.late = call[q].late \/ (/\ call[q].pc = "commit"
                                                             /\ call[q].episode = call[p].episode)]
    BY <1>2, <1>3
  <2>2. call[q] \in Call BY <1>1
  <2>3. QED BY <2>1, <2>2 DEF Call
<1>4. call'[p] = c BY <1>2
<1>5. call' \in [Processes -> Call] BY <1>2, <1>3, <1>4
<1>6. QED BY <1>3, <1>4, <1>5

\* What is asked of the rows after a commit: script s of episode e is ready
\* and active, what was cleared no longer is, and the other rows are as before.
Activates(e, s, cleared) ==
  /\ script' \in Seq(Script) /\ s \in DOMAIN script'
  /\ DOMAIN script' = DOMAIN script \cup {s}
  /\ script'[s].episode = e /\ script'[s].status = "ready"
  /\ script'[s].copies = 1
  /\ script'[s].active
  /\ s \in DOMAIN script =>
       /\ script[s].episode = e /\ script'[s].version = script[s].version
       /\ script'[s].shared = script[s].shared
  /\ \A t \in DOMAIN script : t # s =>
       /\ script'[t].episode = script[t].episode
       /\ script'[t].version = script[t].version
       /\ script'[t].status = script[t].status
       /\ script'[t].copies = script[t].copies
       /\ script'[t].shared = script[t].shared
       /\ script'[t].active <=> script[t].active /\ t \notin cleared

\* A table with one script activated.
LEMMA ActivatedRows ==
  ASSUME NEW table \in Seq(Script), NEW s \in DOMAIN table, NEW cleared
  PROVE  /\ Activated(table, s, cleared) \in Seq(Script)
         /\ DOMAIN Activated(table, s, cleared) = DOMAIN table
         /\ \A t \in DOMAIN table :
              /\ Activated(table, s, cleared)[t].episode = table[t].episode
              /\ Activated(table, s, cleared)[t].version = table[t].version
              /\ Activated(table, s, cleared)[t].status = table[t].status
              /\ Activated(table, s, cleared)[t].copies = table[t].copies
              /\ Activated(table, s, cleared)[t].shared = table[t].shared
              /\ Activated(table, s, cleared)[t].active <=> t = s \/ (table[t].active /\ t \notin cleared)
<1> DEFINE A == Activated(table, s, cleared)
<1>1. A = [t \in DOMAIN table |->
             [table[t] EXCEPT !.active = t = s \/ (@ /\ t \notin cleared)]]
  BY DEF Activated
<1>2. ASSUME NEW t \in DOMAIN table
      PROVE  /\ A[t] \in Script
             /\ A[t].episode = table[t].episode /\ A[t].version = table[t].version
             /\ A[t].status = table[t].status /\ A[t].copies = table[t].copies
             /\ A[t].shared = table[t].shared
             /\ A[t].active <=> t = s \/ (table[t].active /\ t \notin cleared)
  <2>1. A[t] = [table[t] EXCEPT !.active = (t = s \/ (table[t].active /\ t \notin cleared))] BY <1>1
  <2>2. table[t] \in Script
    OBVIOUS
  <2>3. QED BY <2>1, <2>2 DEF Script
<1>3. PICK n \in Nat : DOMAIN table = 1..n
  OBVIOUS
<1>4. A \in [1..n -> Script] BY <1>1, <1>2, <1>3
<1>5. A \in Seq(Script) BY <1>4, IsASeq
<1>6. DOMAIN A = DOMAIN table BY <1>1
<1>7. QED BY <1>2, <1>5, <1>6

\* What follows for the scripts of an episode.
LEMMA ActivatesOne ==
  ASSUME VersionsInv, NEW e \in Episodes, NEW s, NEW cleared, cleared \subseteq ScriptsOf(e),
         Activates(e, s, cleared)
  PROVE  /\ ScriptsOf(e)' = ScriptsOf(e) \cup {s} /\ Active(e)' = {s} \cup (Active(e) \ cleared)
         /\ \A d \in Episodes : Active(d) \subseteq ScriptsOf(d) /\ ScriptsOf(d) \subseteq DOMAIN script
         /\ \A d \in Episodes : d # e =>
              /\ ScriptsOf(d)' = ScriptsOf(d) /\ Active(d)' = Active(d)
              /\ Versions(d)' = Versions(d)
              /\ \A t \in ScriptsOf(d) : script'[t].status = script[t].status
         /\ s \in DOMAIN script => Versions(e)' = Versions(e)
<1> USE DEF Activates
<1>1. \A d \in Episodes : d # e => ScriptsOf(d)' = ScriptsOf(d) /\ s \notin ScriptsOf(d)
  BY DEF ScriptsOf
<1>2. ScriptsOf(e)' = ScriptsOf(e) \cup {s} BY DEF ScriptsOf
<1>3. \A d \in Episodes : Active(d) \subseteq ScriptsOf(d) /\ ScriptsOf(d) \subseteq DOMAIN script
  BY DEF Active, ScriptsOf
<1>4. Active(e)' = {s} \cup (Active(e) \ cleared) BY <1>2, <1>3 DEF Active
<1>5. \A d \in Episodes : d # e => ScriptsOf(d) \cap cleared = {} BY DEF ScriptsOf
<1>6. \A d \in Episodes : d # e => Active(d)' = Active(d) BY <1>1, <1>3, <1>5 DEF Active
<1>7. \A d \in Episodes : d # e => Versions(d)' = Versions(d) BY <1>1, <1>3 DEF Versions
<1>8. s \in DOMAIN script => Versions(e)' = Versions(e) BY <1>2, <1>3 DEF Versions, ScriptsOf
<1>9. QED BY <1>1, <1>2, <1>3, <1>4, <1>6, <1>7, <1>8

\* One version of an episode is active after a commit, unless another
\* activation came between.
LEMMA OneIsActivated ==
  ASSUME VersionsInv, NEW p \in Processes, NEW c \in Call, Committed(p, c), NEW s,
         call[p].pc = "commit", Activates(call[p].episode, s, call[p].cleared)
  PROVE  /\ OneActive' /\ ReadyIsWhole' /\ torn' \subseteq Episodes
         /\ \A q \in Processes : q # p => CallFits(q)'
<1>1. PICK e \in Episodes : e = call[p].episode BY Who DEF Call
<1>2. CallFits(p) /\ call[p].cleared \subseteq ScriptsOf(e) BY <1>1, Who DEF CallFits
<1>3. /\ ScriptsOf(e)' = ScriptsOf(e) \cup {s}
      /\ Active(e)' = {s} \cup (Active(e) \ call[p].cleared)
      /\ \A d \in Episodes : Active(d) \subseteq ScriptsOf(d) /\ ScriptsOf(d) \subseteq DOMAIN script
      /\ \A d \in Episodes : d # e =>
           /\ ScriptsOf(d)' = ScriptsOf(d) /\ Active(d)' = Active(d)
           /\ Versions(d)' = Versions(d)
           /\ \A t \in ScriptsOf(d) : script'[t].status = script[t].status
  BY <1>1, <1>2, ActivatesOne
<1>4. torn' = IF call[p].late THEN torn \cup {e} ELSE torn \ {e} BY <1>1 DEF Committed
<1>5. ~call[p].late => Active(e)' = {s} BY <1>1, <1>2, <1>3 DEF CallFits
<1>6. OneActive'
  <2>1. ASSUME NEW d \in Episodes \ torn'
        PROVE  /\ Cardinality(Active(d)') <= 1
               /\ (\E t \in ScriptsOf(d)' : script'[t].status = "ready") => Active(d)' # {}
    <3>1. CASE d = e
      <4>1. Active(d)' = {s} BY <1>4, <1>5, <2>1, <3>1
      <4>2. Cardinality({s}) = 1 BY FS_Singleton
      <4>3. QED BY <4>1, <4>2
    <3>2. CASE d # e BY <1>3, <1>4, <2>1, <3>2 DEF VersionsInv, OneActive
    <3>3. QED BY <3>1, <3>2
  <2>2. QED BY <2>1 DEF OneActive
<1>7. ReadyIsWhole' BY DEF VersionsInv, ReadyIsWhole, Activates
<1>8. torn' \subseteq Episodes BY <1>4 DEF VersionsInv, TypeOK
<1>9. ASSUME NEW q \in Processes, q # p PROVE CallFits(q)'
  <2>1. CallFits(q) /\ call[q] \in Call BY Who
  <2>2. /\ call'[q].pc = call[q].pc /\ call'[q].job = call[q].job
        /\ call'[q].episode = call[q].episode /\ call'[q].script = call[q].script
        /\ call'[q].version = call[q].version
        /\ call'[q].cleared = call[q].cleared
        /\ call'[q].early = call[q].early /\ call'[q].seen = call[q].seen
        /\ call'[q].late <=>
             call[q].late \/ (call[q].pc = "commit" /\ call[q].episode = call[p].episode)
    BY <1>9, CommittedCalls
  <2>3. PICK d \in Episodes : d = call[q].episode BY <2>1 DEF Call
  <2>4. ScriptsOf(d) \subseteq ScriptsOf(d)' /\ (d # e => Active(d)' = Active(d)) BY <1>3
  <2>5. \A t \in DOMAIN script : t \in DOMAIN script' /\ script'[t].episode = script[t].episode
    BY DEF Activates
  <2>6. QED BY <1>1, <2>1, <2>2, <2>3, <2>4, <2>5 DEF CallFits
<1>10. QED BY <1>6, <1>7, <1>8, <1>9

\* A generation commits its script.
LEMMA CommitScriptKeeps ==
  ASSUME VersionsInv, NEW w \in Workers, CommitScript(w)
  PROVE  VersionsInv'
<1>0. w \in Processes /\ call[w] \in Call /\ CallFits(w) /\ call[w].pc = "commit" /\ AtWork(w)
  BY Who DEF CommitScript, AtWork, WriterPc
<1>1. PICK e \in Episodes : e = call[w].episode BY <1>0 DEF Call
<1>2. PICK s \in DOMAIN script : s = call[w].script /\ script[s].episode = e
  BY <1>0, <1>1, Who DEF CallFits, ScriptPc
<1>3. Activates(e, s, call[w].cleared)
  <2> DEFINE table == [script EXCEPT ![s].status = "ready", ![s].copies = 1]
  <2>1. PICK r \in Script : r = [script[s] EXCEPT !.status = "ready", !.copies = 1]
    BY Rows DEF Script, ScriptStatus
  <2>2. /\ r.status = "ready" /\ r.copies = 1 /\ r.episode = script[s].episode
        /\ r.version = script[s].version /\ r.shared = script[s].shared
    BY <2>1, Rows DEF Script
  <2>3. table = [script EXCEPT ![s] = r] BY <2>1
  <2>5. script' = Activated(table, s, call[w].cleared) BY <1>2 DEF CommitScript, Written
  <2> HIDE DEF table
  <2>4. /\ table \in Seq(Script) /\ DOMAIN table = DOMAIN script /\ table[s] = r
        /\ \A t \in DOMAIN script : t # s => table[t] = script[t]
    BY <2>3 DEF VersionsInv, TypeOK
  <2>6. PICK cleared : cleared = call[w].cleared
    OBVIOUS
  <2>7. /\ Activated(table, s, cleared) \in Seq(Script)
        /\ DOMAIN Activated(table, s, cleared) = DOMAIN table
        /\ \A t \in DOMAIN table :
             /\ Activated(table, s, cleared)[t].episode = table[t].episode
             /\ Activated(table, s, cleared)[t].version = table[t].version
             /\ Activated(table, s, cleared)[t].status = table[t].status
             /\ Activated(table, s, cleared)[t].copies = table[t].copies
             /\ Activated(table, s, cleared)[t].shared = table[t].shared
             /\ Activated(table, s, cleared)[t].active <=> t = s \/ (table[t].active /\ t \notin cleared)
    BY <2>4, ActivatedRows
  <2>8. /\ script' \in Seq(Script) /\ DOMAIN script' = DOMAIN script
        /\ \A t \in DOMAIN script :
             /\ script'[t].episode = table[t].episode
             /\ script'[t].version = table[t].version
             /\ script'[t].status = table[t].status
             /\ script'[t].copies = table[t].copies
             /\ script'[t].shared = table[t].shared
             /\ script'[t].active <=> t = s \/ (table[t].active /\ t \notin cleared)
    BY <2>4, <2>5, <2>6, <2>7
  <2>9. Activates(e, s, cleared) BY <1>2, <2>2, <2>4, <2>8 DEF Activates
  <2>10. QED BY <2>6, <2>9
<1>4. PICK c \in Call :
        /\ c = [NoCall EXCEPT !.pc = "finish", !.job = call[w].job,
                              !.episode = call[w].episode, !.script = call[w].script]
  <2>1. [NoCall EXCEPT !.pc = "finish", !.job = call[w].job,
                       !.episode = call[w].episode, !.script = call[w].script] \in Call
    BY <1>0, NoCallTyped DEF Call, CallPc, WriterPc
  <2>2. QED BY <2>1
<1>5. Committed(w, c) BY <1>4 DEF CommitScript
<1>6. /\ call' \in [Processes -> Call]
      /\ call'[w].pc = "finish" /\ call'[w].job = call[w].job
      /\ call'[w].episode = e /\ call'[w].script = s
      /\ call'[w].cleared = {} /\ ~call'[w].late /\ ~call'[w].early
      /\ call'[w].seen = "unread"
      /\ \A q \in Processes : q # w =>
           /\ call'[q].pc = call[q].pc /\ call'[q].job = call[q].job
           /\ call'[q].episode = call[q].episode
           /\ call'[q].script = call[q].script
           /\ call'[q].version = call[q].version
           /\ call'[q].cleared = call[q].cleared
           /\ call'[q].early = call[q].early /\ call'[q].seen = call[q].seen
           /\ call'[q].late <=>
                call[q].late \/ (call[q].pc = "commit" /\ call[q].episode = call[w].episode)
  <2>1. c.pc = "finish" /\ c.job = call[w].job /\ c.episode = e /\ c.script = s
        /\ c.cleared = {} /\ ~c.late /\ ~c.early /\ c.seen = "unread"
    BY <1>1, <1>2, <1>4 DEF NoCall
  <2>2. /\ call' \in [Processes -> Call] /\ call'[w] = c
        /\ \A q \in Processes : q # w =>
             /\ call'[q].pc = call[q].pc /\ call'[q].job = call[q].job
             /\ call'[q].episode = call[q].episode
             /\ call'[q].script = call[q].script
             /\ call'[q].version = call[q].version
             /\ call'[q].cleared = call[q].cleared
             /\ call'[q].early = call[q].early /\ call'[q].seen = call[q].seen
             /\ call'[q].late <=>
                  call[q].late \/ (call[q].pc = "commit" /\ call[q].episode = call[w].episode)
    BY <1>0, <1>5, CommittedCalls
  <2>3. QED BY <2>1, <2>2
<1>7. /\ OneActive' /\ ReadyIsWhole' /\ torn' \subseteq Episodes
      /\ \A q \in Processes : q # w => CallFits(q)'
  BY <1>0, <1>1, <1>3, <1>5, OneIsActivated
<1>8. /\ UNCHANGED <<site, job, spent>>
      /\ SavesEpisode(w) => EpisodeFree(w, e)
      /\ status' = IF SavesEpisode(w) THEN [status EXCEPT ![e] = "draft"] ELSE status
      /\ deserted' = IF SavesEpisode(w) THEN deserted \ {e} ELSE deserted
      /\ summarised' = IF call[w].early THEN summarised \cup {e} ELSE summarised
  BY <1>1 DEF CommitScript
<1>9. /\ status' \in [Episodes -> EpisodeStatus] /\ (SavesEpisode(w) => status'[e] = "draft")
      /\ \A d \in Episodes : d # e => status'[d] = status[d]
      /\ ~SavesEpisode(w) => status' = status
  BY <1>8 DEF VersionsInv, TypeOK, EpisodeStatus
<1>10. /\ script' \in Seq(Script) /\ DOMAIN script' = DOMAIN script
       /\ script'[s].episode = e /\ script'[s].status = "ready"
       /\ script'[s].shared = script[s].shared
       /\ \A t \in DOMAIN script : t # s =>
            /\ script'[t].episode = script[t].episode
            /\ script'[t].status = script[t].status
            /\ script'[t].shared = script[t].shared /\ (script'[t].active => script[t].active)
  BY <1>2, <1>3 DEF Activates
<1>11. \A d \in Episodes : Versions(d)' = Versions(d)
  <2>1. PICK cleared : cleared = call[w].cleared /\ cleared \subseteq ScriptsOf(e) /\ Activates(e, s, cleared)
    BY <1>0, <1>1, <1>3 DEF CallFits
  <2>2. \A d \in Episodes : d # e => Versions(d)' = Versions(d) BY <2>1, ActivatesOne
  <2>3. s \in DOMAIN script => Versions(e)' = Versions(e) BY <2>1, ActivatesOne
  <2>4. QED BY <2>2, <2>3
<1>12. TypeOK'
  <2>1. summarised' \subseteq Episodes /\ deserted' \subseteq Episodes BY <1>8 DEF VersionsInv, TypeOK
  <2>2. \A x \in Workers :
          call'[x].pc \in {"reset", "write", "save", "activate", "commit", "finish", "failing", "sync"} =>
            call'[x].script \in DOMAIN script'
    BY <1>6, <1>10, Who DEF VersionsInv, TypeOK
  <2>3. QED BY <1>6, <1>7, <1>8, <1>9, <1>10, <2>1, <2>2 DEF VersionsInv, TypeOK
<1>13. CallsFit'
  <2>1. CallFits(w)' BY <1>0, <1>2, <1>6, <1>10, Who DEF CallFits, ScriptPc, UnreadPc, OperatorPc
  <2>2. QED BY <1>7, <2>1 DEF CallsFit
<1>14. JobsFit'
  <2>1. \A j \in DOMAIN job : JobFits(j)' BY <1>8, <1>10, <1>2 DEF VersionsInv, JobsFit, JobFits
  <2>2. RunFits(w)' BY <1>0, <1>1, <1>2, <1>6, <1>8 DEF VersionsInv, JobsFit, RunFits, ScriptPc
  <2>3. \A x \in Workers : x # w => RunFits(x)'
    BY <1>6, <1>8, Who DEF VersionsInv, JobsFit, RunFits, AtWork
  <2>4. \A x, y \in Workers : x # y /\ (AtWork(x) /\ AtWork(y))' => call'[x].job # call'[y].job
    BY <1>0, <1>6, Who DEF VersionsInv, JobsFit, AtWork
  <2>5. QED BY <1>8, <2>1, <2>2, <2>3, <2>4 DEF JobsFit
<1>15. ScriptsKept'
  <2>1. \A x \in Workers : /\ call'[x].script = call[x].script /\ call'[x].job = call[x].job
                           /\ x # w => call'[x].pc = call[x].pc
    BY <1>2, <1>6, Who
  <2>2. ASSUME NEW t \in DOMAIN script PROVE ScriptKept(t)'
    <3>1. ScriptKept(t) BY DEF VersionsInv, ScriptsKept
    <3>2. CASE t = s BY <1>0, <1>2, <1>6, <1>8, <1>10, <2>1, <3>1, <3>2 DEF ScriptKept, WritingPc
    <3>3. CASE t # s BY <1>0, <1>2, <1>6, <1>8, <1>10, <2>1, <3>1, <3>3 DEF ScriptKept, WritingPc
    <3>4. QED BY <3>2, <3>3
  <2>3. QED BY <1>10, <2>2 DEF ScriptsKept
<1>16. RowsLocked'
  <2>1. \A q \in Processes, d \in Episodes : HoldsEpisode(q, d)' => HoldsEpisode(q, d)
    BY <1>0, <1>6, Who DEF HoldsEpisode, AtWork
  <2>2. \A x \in Workers : (x # w /\ call[x].early) => status'[call[x].episode] = status[call[x].episode]
    BY <1>8, <1>9, Who DEF EpisodeFree, HoldsEpisode, Call
  <2>3. \A x \in Workers : call'[x].early => call'[x].seen = status'[call'[x].episode]
    BY <1>6, <2>2, Who DEF VersionsInv, RowsLocked
  <2>4. QED BY <2>1, <2>3 DEF VersionsInv, RowsLocked
<1>17. Minded'
  <2>1. \A q \in Processes, d \in Episodes : q # w /\ Minds(q, d) => Minds(q, d)'
    BY <1>6, <1>11 DEF Minds, Taken
  <2>2. \A d \in Episodes : Minds(w, d) => d = e /\ SavesEpisode(w)
    BY <1>0, <1>1, Who DEF Minds, SavesEpisode, CallFits
  <2>3. \A d \in Episodes : status'[d] = "generating_script" =>
           status[d] = "generating_script" /\ ~Minds(w, d)
    BY <1>9, <2>2
  <2>4. \A d \in Episodes \ deserted' : status'[d] = "generating_script" => d \notin deserted BY <1>8, <1>9
  <2>5. QED BY <2>1, <2>3, <2>4 DEF VersionsInv, Minded
<1>18. QED BY <1>7, <1>12, <1>13, <1>14, <1>15, <1>16, <1>17 DEF VersionsInv

\* A request commits its script.
LEMMA CommitManualKeeps ==
  ASSUME VersionsInv, NEW o \in Operators, CommitManualScript(o)
  PROVE  VersionsInv'
<1>0. o \in Processes /\ call[o] \in Call /\ CallFits(o) /\ call[o].pc = "commit" /\ AtWork(o)
  BY Who DEF CommitManualScript, AtWork, WriterPc
<1>1. PICK e \in Episodes : e = call[o].episode BY <1>0 DEF Call
<1>2. PICK r \in Script :
        /\ r = [NewScript(call[o]) EXCEPT !.status = "ready", !.copies = 1]
        /\ r.episode = e /\ r.status = "ready" /\ r.copies = 1 /\ ~r.shared
  <2>1. PICK n \in Script : /\ n = NewScript(call[o]) /\ n.episode = e /\ ~n.shared
    BY <1>0, <1>1, NewScriptTyped
  <2>2. [n EXCEPT !.status = "ready", !.copies = 1] \in Script BY <2>1 DEF Script, ScriptStatus
  <2>3. QED BY <2>1, <2>2 DEF Script
<1> DEFINE table == Append(script, r)
<1>3. PICK s \in Nat :
        /\ table \in Seq(Script) /\ s = Len(table) /\ s # 0
        /\ DOMAIN table = DOMAIN script \cup {s} /\ s \notin DOMAIN script
        /\ table[s] = r /\ \A t \in DOMAIN script : table[t] = script[t]
  <2>1. PICK m \in Nat : m = Len(script) /\ DOMAIN script = 1..m /\ script \in Seq(Script)
    BY DEF VersionsInv, TypeOK
  <2>2. /\ table \in Seq(Script) /\ Len(table) = m + 1 /\ table[m + 1] = r
        /\ \A t \in 1..m : table[t] = script[t]
    BY <2>1
  <2>3. PICK n \in Nat : n = m + 1 /\ n # 0 BY <2>1
  <2>4. DOMAIN table = 1..n /\ 1..n = 1..m \cup {n} /\ n \notin 1..m BY <2>2, <2>3
  <2>5. QED BY <2>1, <2>2, <2>3, <2>4
<1>4. script' = Activated(table, s, call[o].cleared) BY <1>2, <1>3 DEF CommitManualScript
<1>5. Activates(e, s, call[o].cleared) /\ script'[s].shared = FALSE
  <2> HIDE DEF table
  <2>0. table \in Seq(Script) /\ s \in DOMAIN table BY <1>3
  <2>1. PICK cleared : cleared = call[o].cleared
    OBVIOUS
  <2>2. /\ Activated(table, s, cleared) \in Seq(Script)
        /\ DOMAIN Activated(table, s, cleared) = DOMAIN table
        /\ \A t \in DOMAIN table :
             /\ Activated(table, s, cleared)[t].episode = table[t].episode
             /\ Activated(table, s, cleared)[t].version = table[t].version
             /\ Activated(table, s, cleared)[t].status = table[t].status
             /\ Activated(table, s, cleared)[t].copies = table[t].copies
             /\ Activated(table, s, cleared)[t].shared = table[t].shared
             /\ Activated(table, s, cleared)[t].active <=> t = s \/ (table[t].active /\ t \notin cleared)
    BY <2>0, ActivatedRows
  <2>3. /\ script' \in Seq(Script) /\ DOMAIN script' = DOMAIN table
        /\ \A t \in DOMAIN table :
             /\ script'[t].episode = table[t].episode
             /\ script'[t].version = table[t].version
             /\ script'[t].status = table[t].status
             /\ script'[t].copies = table[t].copies
             /\ script'[t].shared = table[t].shared
             /\ script'[t].active <=> t = s \/ (table[t].active /\ t \notin cleared)
    BY <1>4, <2>1, <2>2
  <2>4. Activates(e, s, cleared) /\ script'[s].shared = r.shared BY <1>2, <1>3, <2>3 DEF Activates
  <2>5. r.shared = FALSE BY <1>2 DEF Script
  <2>6. QED BY <2>1, <2>4, <2>5
<1>7. Committed(o, NoCall) BY DEF CommitManualScript
<1>8. /\ call' \in [Processes -> Call] /\ call'[o] = NoCall
      /\ \A q \in Processes : q # o =>
           /\ call'[q].pc = call[q].pc /\ call'[q].job = call[q].job
           /\ call'[q].episode = call[q].episode
           /\ call'[q].script = call[q].script
           /\ call'[q].version = call[q].version
           /\ call'[q].cleared = call[q].cleared
           /\ call'[q].early = call[q].early /\ call'[q].seen = call[q].seen
           /\ call'[q].late <=>
                call[q].late \/ (call[q].pc = "commit" /\ call[q].episode = call[o].episode)
  BY <1>0, <1>7, NoCallTyped, CommittedCalls
<1>9. /\ OneActive' /\ ReadyIsWhole' /\ torn' \subseteq Episodes
      /\ \A q \in Processes : q # o => CallFits(q)'
  BY <1>0, <1>1, <1>5, <1>7, NoCallTyped, OneIsActivated
<1>10. /\ UNCHANGED <<site, summarised, job, spent>>
       /\ status' = [status EXCEPT ![e] = "draft"] /\ deserted' = deserted \ {e}
  BY <1>1 DEF CommitManualScript
<1>11. /\ status' \in [Episodes -> EpisodeStatus] /\ status'[e] = "draft"
       /\ \A d \in Episodes : d # e => status'[d] = status[d]
  BY <1>10 DEF VersionsInv, TypeOK, EpisodeStatus
<1>12. /\ script' \in Seq(Script) /\ DOMAIN script' = DOMAIN script \cup {s}
       /\ script'[s].episode = e /\ script'[s].status = "ready"
       /\ \A t \in DOMAIN script :
            /\ script'[t].episode = script[t].episode
            /\ script'[t].status = script[t].status
            /\ script'[t].shared = script[t].shared /\ (script'[t].active => script[t].active)
  BY <1>3, <1>5 DEF Activates
<1>13. TypeOK'
  <2>1. \A x \in Workers :
          call'[x].pc \in {"reset", "write", "save", "activate", "commit", "finish", "failing", "sync"} =>
            call'[x].script \in DOMAIN script'
    BY <1>8, <1>12, Who DEF VersionsInv, TypeOK
  <2>2. QED BY <1>8, <1>9, <1>10, <1>11, <1>12, <2>1 DEF VersionsInv, TypeOK
<1>14. CallsFit'
  <2>1. CallFits(o)' BY <1>0, <1>8, Who DEF CallFits, ScriptPc, UnreadPc, OperatorPc, NoCall
  <2>2. QED BY <1>9, <2>1 DEF CallsFit
<1>15. JobsFit'
  <2>1. \A j \in DOMAIN job : JobFits(j)' BY <1>10, <1>12 DEF VersionsInv, JobsFit, JobFits
  <2>2. \A x \in Workers : x # o /\ call'[x].pc = call[x].pc /\ call'[x].job = call[x].job
                           /\ call'[x].script = call[x].script
                           /\ call'[x].episode = call[x].episode
    BY <1>8, Who
  <2>3. \A x \in Workers : RunFits(x)' BY <1>10, <2>2 DEF VersionsInv, JobsFit, RunFits, AtWork
  <2>4. QED BY <1>10, <2>1, <2>2, <2>3 DEF VersionsInv, JobsFit, AtWork
<1>16. ScriptsKept'
  <2>1. \A x \in Workers : x # o /\ call'[x].pc = call[x].pc /\ call'[x].job = call[x].job
                           /\ call'[x].script = call[x].script
    BY <1>8, Who
  <2>2. ASSUME NEW t \in DOMAIN script PROVE ScriptKept(t)'
    <3>1. ScriptKept(t) BY DEF VersionsInv, ScriptsKept
    <3>2. QED BY <1>10, <1>12, <2>1, <3>1 DEF ScriptKept
  <2>3. ScriptKept(s)'
    <3>1. \A x \in Workers : call[x].script # s BY <1>3, Who DEF CallFits
    <3>2. QED BY <1>5, <1>12, <2>1, <3>1 DEF ScriptKept
  <2>4. QED BY <1>12, <2>2, <2>3 DEF ScriptsKept
<1>17. RowsLocked'
  <2>1. \A q \in Processes, d \in Episodes : HoldsEpisode(q, d)' => HoldsEpisode(q, d)
    BY <1>0, <1>8, Who DEF HoldsEpisode, AtWork, NoCall, WriterPc
  <2>2. \A x \in Workers : call[x].early => status'[call[x].episode] = status[call[x].episode]
    BY <1>0, <1>1, <1>11, Who DEF VersionsInv, RowsLocked, HoldsEpisode, Call
  <2>3. \A x \in Workers : call'[x].early => call'[x].seen = status'[call'[x].episode]
    BY <1>8, <2>2, Who DEF VersionsInv, RowsLocked
  <2>4. QED BY <2>1, <2>3 DEF VersionsInv, RowsLocked
<1>18. Minded'
  <2>1. \A d \in Episodes : d # e => Versions(d)' = Versions(d)
    <3>1. PICK cleared : cleared = call[o].cleared /\ cleared \subseteq ScriptsOf(e) /\ Activates(e, s, cleared)
      BY <1>0, <1>1, <1>5 DEF CallFits
    <3>2. QED BY <3>1, ActivatesOne
  <2>2. \A q \in Processes, d \in Episodes : (d # e /\ Minds(q, d)) => Minds(q, d)'
    BY <1>1, <1>8, <2>1 DEF Minds, Taken
  <2>3. QED BY <1>10, <1>11, <2>2 DEF VersionsInv, Minded
<1>19. QED BY <1>9, <1>13, <1>14, <1>15, <1>16, <1>17, <1>18 DEF VersionsInv

-----------------------------------------------------------------------------
(* The theorems.                                                           *)

\* At the start there is at most one script, which is ready and active.
LEMMA VersionsStart == Init => VersionsInv
<1> SUFFICES ASSUME Init PROVE VersionsInv
  OBVIOUS
<1> DEFINE first == [episode |-> 1, version |-> 1, status |-> "ready",
                     copies |-> 1, active |-> TRUE, born |-> 0, shared |-> FALSE]
<1>1. /\ site \in Sites /\ site.episodes \subseteq Episodes
      /\ 1 \in site.episodes /\ 1 \in Episodes
      /\ status = [e \in Episodes |-> IF e \in site.episodes THEN "draft" ELSE "none"]
      /\ summarised \subseteq Episodes /\ job = <<>> /\ torn = {} /\ deserted = {}
      /\ spent = [faults |-> 0, retries |-> 0, manuals |-> 0]
  BY ScriptAssumption DEF Init
<1>2. /\ script \in Seq(Script)
      /\ \A s \in DOMAIN script :
           /\ s = 1 /\ script[s].episode = 1 /\ script[s].status = "ready"
           /\ script[s].copies = 1
           /\ script[s].active
  <2>1. first \in Script BY <1>1 DEF Script, ScriptStatus
  <2>2. CASE script = <<>> BY <2>2
  <2>3. CASE script = <<first>> BY <2>1, <2>3
  <2>4. QED BY <2>2, <2>3 DEF Init
<1>3. /\ call \in [Processes -> Call]
      /\ \A p \in Processes :
           /\ call[p].pc = "idle" /\ call[p].script = 0
           /\ call[p].cleared = {} /\ ~call[p].late
           /\ ~call[p].early /\ call[p].seen = "unread"
  BY NoCallTyped DEF Init, NoCall
<1>4. Workers \subseteq Processes /\ Operators \subseteq Processes BY DEF Processes
<1>5. TypeOK BY <1>1, <1>2, <1>3, <1>4 DEF TypeOK, EpisodeStatus
<1>6. CallsFit BY <1>3 DEF CallsFit, CallFits, OperatorPc, ScriptPc, UnreadPc, ScriptsOf
<1>7. JobsFit BY <1>1, <1>3, <1>4 DEF JobsFit, JobFits, RunFits, AtWork, WriterPc
<1>8. ScriptsKept BY <1>2, <1>3, <1>4 DEF ScriptsKept, ScriptKept, WritingPc
<1>9. ReadyIsWhole BY <1>2 DEF ReadyIsWhole
<1>10. OneActive
  <2>1. ASSUME NEW e \in Episodes
        PROVE  /\ Active(e) \in {{}, {1}}
               /\ (\E s \in ScriptsOf(e) : script[s].status = "ready") => Active(e) # {}
    BY <1>2 DEF Active, ScriptsOf
  <2>2. Cardinality({}) = 0 /\ Cardinality({1}) = 1 BY FS_EmptySet, FS_Singleton
  <2>3. QED BY <2>1, <2>2 DEF OneActive
<1>11. RowsLocked BY <1>3, <1>4 DEF RowsLocked, HoldsEpisode, AtWork, WriterPc
<1>12. Minded BY <1>1 DEF Minded
<1>13. QED BY <1>5, <1>6, <1>7, <1>8, <1>9, <1>10, <1>11, <1>12 DEF VersionsInv

\* Every step keeps the invariant.
LEMMA VersionsStep == VersionsInv /\ [Next]_vars => VersionsInv'
<1> SUFFICES ASSUME VersionsInv, [Next]_vars PROVE VersionsInv'
  OBVIOUS
<1>1. CASE Ask BY <1>1, AskKeeps
<1>2. CASE RetryJob BY <1>2, RetryKeeps
<1>3. CASE Abort BY <1>3, AbortKeeps
<1>4. ASSUME NEW w \in Workers, Take(w) \/ Generate(w) \/ CommitFails(w) \/ Crash(w)
      PROVE  VersionsInv'
  <2>1. CASE Take(w) BY <2>1, TakeKeeps
  <2>2. CASE NoArticles(w) BY <2>2, NoArticlesKeeps
  <2>3. CASE Begin(w) BY <2>3, BeginKeeps
  <2>4. CASE FindScript(w) BY <2>4, FindScriptKeeps
  <2>5. CASE Reset(w) BY <2>5, ResetKeeps
  <2>6. CASE Number(w) BY <2>6, NumberKeeps, Who
  <2>7. CASE CreatePlaceholder(w) BY <2>7, PlaceholderKeeps
  <2>8. CASE VersionConflict(w) BY <2>8, VersionConflictKeeps
  <2>9. CASE WritingFails(w) BY <2>9, WritingFailsKeeps
  <2>10. CASE LoadEpisode(w) BY <2>10, LoadEpisodeKeeps
  <2>11. CASE SaveScript(w) BY <2>11, SaveScriptKeeps
  <2>12. CASE ClearActive(w) BY <2>12, ClearActiveKeeps, Who
  <2>13. CASE CommitScript(w) BY <2>13, CommitScriptKeeps
  <2>14. CASE Finish(w) BY <2>14, FinishKeeps
  <2>15. CASE Victim(w) BY <2>15, VictimWorkerKeeps
  <2>16. CASE MarkFailed(w) BY <2>16, MarkFailedKeeps
  <2>17. CASE SyncIdle(w) BY <2>17, SyncIdleKeeps
  <2>18. CASE CommitFails(w) BY <2>18, CommitFailsKeeps
  <2>19. CASE Crash(w) BY <2>19, CrashKeeps
  <2>20. QED BY <1>4, <2>1, <2>2, <2>3, <2>4, <2>5, <2>6, <2>7, <2>8, <2>9, <2>10,
       <2>11, <2>12, <2>13, <2>14,
       <2>15, <2>16, <2>17, <2>18, <2>19 DEF Generate
<1>5. ASSUME NEW o \in Operators, QueueScript(o) \/ QueueNewEpisode(o) \/ NewManualScript(o) \/ Paste(o)
      PROVE  VersionsInv'
  <2>1. CASE QueueScript(o) BY <2>1, QueueScriptKeeps
  <2>2. CASE QueueNewEpisode(o) BY <2>2, QueueNewKeeps
  <2>3. CASE NewManualScript(o) BY <2>3, NewManualKeeps
  <2>4. CASE Number(o) BY <2>4, NumberKeeps, Who
  <2>5. CASE InsertManualScript(o) BY <2>5, InsertManualKeeps
  <2>6. CASE ClearActive(o) BY <2>6, ClearActiveKeeps, Who
  <2>7. CASE CommitManualScript(o) BY <2>7, CommitManualKeeps
  <2>8. CASE Victim(o) BY <2>8, VictimRequestKeeps
  <2>9. QED BY <1>5, <2>1, <2>2, <2>3, <2>4, <2>5, <2>6, <2>7, <2>8 DEF Paste
<1>6. CASE UNCHANGED vars
  <2>1. UNCHANGED <<site, status, summarised, script, call, job, torn, deserted, spent>> BY <1>6 DEF vars
  <2>2. JobsGoOn BY <2>1 DEF JobsGoOn, VersionsInv, TypeOK, JobsFit, JobFits
  <2>3. QED BY <2>1, <2>2, JobsGoOnKeeps DEF VersionsInv, TypeOK
<1>7. QED BY <1>1, <1>2, <1>3, <1>4, <1>5, <1>6 DEF Next

\* The invariant says what the run checks.
LEMMA VersionsAreRight == VersionsInv => VersionsAgree
<1> SUFFICES ASSUME VersionsInv PROVE VersionsAgree
  OBVIOUS
<1>1. ReadyIsKept BY Who DEF VersionsInv, JobsFit, JobFits, ScriptsKept, ScriptKept, ReadyIsKept
<1>2. IdleIsDraft
  <2>1. \A p \in Processes, e \in Episodes : Minds(p, e) => AtWork(p) /\ call[p].episode = e
    BY DEF Minds, AtWork, WriterPc
  <2>2. QED BY <2>1 DEF VersionsInv, Minded, IdleIsDraft
<1>3. QED BY <1>1, <1>2 DEF VersionsInv, VersionsAgree

\* The rows of scripts, versions and episodes agree: what is ready is whole,
\* one version is active, what a generation has finished stays usable, and no
\* episode is left GENERATING_SCRIPT (services/scripts, ManualScriptService).
THEOREM ScriptsAgree == Spec => []VersionsAgree
BY VersionsStart, VersionsStep, VersionsAreRight, PTL DEF Spec

\* A placeholder that is made for a job which has a script already finds that
\* script ready, or shared by two generations (_resolve_or_create_script).
LEMMA PlaceholderIsNeeded ==
  ASSUME VersionsInv, NEW w \in Workers, call[w].pc = "insert", job[call[w].job].script # 0
  PROVE  \/ script[job[call[w].job].script].status = "ready"
         \/ script[job[call[w].job].script].shared
<1>1. call[w].job \in DOMAIN job /\ JobFits(call[w].job)
  BY DEF VersionsInv, JobsFit, RunFits, AtWork, WriterPc
<1>2. job[call[w].job].script \in DOMAIN script BY <1>1 DEF JobFits
<1>3. QED BY <1>2 DEF VersionsInv, ScriptsKept, ScriptKept

\* A job that is run again goes on with its version.
THEOREM JobsKeepVersion == Spec => RetriesKeepVersion
<1>1. VersionsInv /\ [Next]_vars =>
        [\A w \in Workers :
           Len(script') > Len(script) /\ call[w].pc = "insert" /\ call'[w].pc = "write" =>
             LET s == job[call[w].job].script
             IN s # 0 => script[s].status = "ready" \/ script[s].shared]_vars
  BY PlaceholderIsNeeded
<1>2. QED BY <1>1, VersionsStart, VersionsStep, PTL DEF Spec, RetriesKeepVersion

=============================================================================
