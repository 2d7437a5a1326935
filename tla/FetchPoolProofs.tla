--------------------------- MODULE FetchPoolProofs --------------------------
(***************************************************************************)
(* The safety of the metric pool, for every number of jobs, batches and    *)
(* reads, every answer of the service and every limit.                     *)
(*                                                                         *)
(* The properties of FetchPool speak of the values on the graph; what      *)
(* makes them true sits in the jobs: a job holds exactly what the reads    *)
(* behind it answered, it is past a batch only if that batch was written,  *)
(* and it reports an error only from inside a batch.  IInv says so for     *)
(* every place a job can be in.                                            *)
(***************************************************************************)
EXTENDS FetchPool, FiniteSetTheorems, TLAPS

\* What the first n reads of a batch answered for a slot, and what a job keeps of it.
Answered(j, b, n, s) == {x \in Answering(j, b, s) : x[3] <= n}
Kept(j, b, n, s) ==
  IF plan.firstWins
  THEN {x \in Answered(j, b, n, s) : \A y \in Answered(j, b, n, s) : x[3] <= y[3]}
  ELSE Answered(j, b, n, s)

InBatch(j) == batch[j] <= Len(Jobs[j])
Over == {"count", "report", "release", "gone"}
Counted == {j \in Job : at[j] \in {"report", "release", "gone"}}

\* The loop has started the jobs before next and no others.
StartedBy(j) == at[j] = "new" <=> j >= next

\* The batch and the read of a job exist, as long as it is going to read.
PositionOf(j) ==
  /\ batch[j] \in 1..(Len(Jobs[j]) + 1)
  /\ at[j] = "new" => batch[j] = 1 /\ read[j] = 1
  /\ at[j] \in {"new", "fetch"} =>
       IF InBatch(j) THEN read[j] \in 1..Len(Jobs[j][batch[j]]) ELSE read[j] = 1
  /\ at[j] \in {"write", "failed"} => InBatch(j)

\* A job that reads holds what was answered so far, one that writes the whole answer.
HoldingOf(j) ==
  \A s \in Slot :
    /\ at[j] \in {"new", "fetch"} =>
         IF InBatch(j)
         THEN /\ series[j][s] = Kept(j, batch[j], read[j] - 1, s)
              /\ series[j][s] = {} => Answered(j, batch[j], read[j] - 1, s) = {}
         ELSE series[j][s] = {}
    /\ at[j] = "write" =>
         /\ series[j][s] = Expected(j, batch[j], s)
         /\ series[j][s] = {} => Answering(j, batch[j], s) = {}

\* An error is reported from inside a batch, success from behind the last.
VerdictOf(j) ==
  /\ j \in errs => at[j] \in Over /\ InBatch(j)
  /\ j \notin errs /\ at[j] \in Over => ~InBatch(j)

JobInv(j) == StartedBy(j) /\ PositionOf(j) /\ HoldingOf(j) /\ VerdictOf(j)

\* Every value on the graph is the answer of a batch that was written, and no batch
\* that was written is without its values.
Written ==
  \A s \in Slot :
    /\ metrics[s] # {} =>
         \E j \in Job : \E b \in 1..(batch[j] - 1) : metrics[s] = Expected(j, b, s)
    /\ \A j \in Job : \A b \in 1..(batch[j] - 1) : Expected(j, b, s) # {} => metrics[s] # {}

\* Nobody is left when the pool returns.
Joined == pool # "spawn" => \A j \in Job : at[j] = "gone"

IInv == /\ TypeOK
        /\ \A j \in Job : JobInv(j)
        /\ Written /\ Joined
        /\ completed = Cardinality(Counted)

-----------------------------------------------------------------------------
(* The plan and the answers *)

\* A plan is a sequence of jobs of batches of reads, none of the batches empty.
LEMMA PlanShape ==
  ASSUME plan \in Plans
  PROVE  /\ Len(Jobs) \in Nat /\ Job = 1..Len(Jobs)
         /\ plan.firstWins \in BOOLEAN
         /\ \A j \in Job :
              /\ Len(Jobs[j]) \in Nat /\ DOMAIN Jobs[j] = 1..Len(Jobs[j])
              /\ \A b \in DOMAIN Jobs[j] :
                   /\ Len(Jobs[j][b]) \in Nat \ {0}
                   /\ DOMAIN Jobs[j][b] = 1..Len(Jobs[j][b])
<1>1. /\ Jobs \in Seq(Seq(Seq(SUBSET Slot))) /\ plan.firstWins \in BOOLEAN
      /\ \A j \in Job : \A b \in DOMAIN Jobs[j] : Jobs[j][b] # <<>>
  BY PoolAssumption DEF Jobs, Job
<1>2. Len(Jobs) \in Nat /\ Job = 1..Len(Jobs)
  BY <1>1 DEF Job
<1>3. ASSUME NEW j \in Job
      PROVE  Jobs[j] \in Seq(Seq(SUBSET Slot))
  BY <1>1, <1>2
<1>4. ASSUME NEW j \in Job, NEW b \in DOMAIN Jobs[j]
      PROVE  Len(Jobs[j][b]) \in Nat \ {0} /\ DOMAIN Jobs[j][b] = 1..Len(Jobs[j][b])
  <2>1. Jobs[j] \in Seq(Seq(SUBSET Slot)) /\ Jobs[j][b] # <<>>
    BY <1>1, <1>3
  <2>2. Jobs[j][b] \in Seq(SUBSET Slot)
    BY <2>1
  <2> QED
    BY <2>1, <2>2
<1>5. ASSUME NEW j \in Job
      PROVE  Len(Jobs[j]) \in Nat /\ DOMAIN Jobs[j] = 1..Len(Jobs[j])
  BY <1>3
<1> QED
  BY <1>1, <1>2, <1>4, <1>5

\* Nothing is answered before the first read.
LEMMA NoneAnswered ==
  ASSUME plan \in Plans, NEW j \in Job, NEW b \in DOMAIN Jobs[j], NEW s \in Slot
  PROVE  Answered(j, b, 0, s) = {} /\ Kept(j, b, 0, s) = {}
<1>1. \A r \in DOMAIN Jobs[j][b] : r \in Nat \ {0}
  BY PlanShape
<1>2. Answered(j, b, 0, s) = {}
  BY <1>1 DEF Answered, Answering
<1> QED
  BY <1>2 DEF Kept

\* One more read adds its own answer: to all answers, and to what is kept unless an
\* earlier one has won.
LEMMA NextAnswered ==
  ASSUME plan \in Plans, NEW j \in Job, NEW b \in DOMAIN Jobs[j], NEW s \in Slot,
         NEW r \in DOMAIN Jobs[j][b],
         Kept(j, b, r - 1, s) = {} => Answered(j, b, r - 1, s) = {}
  PROVE  LET old == Kept(j, b, r - 1, s)
             new == IF s \in Jobs[j][b][r] /\ ~(plan.firstWins /\ old # {})
                    THEN old \cup {<<j, b, r>>} ELSE old
         IN Kept(j, b, r, s) = new /\ (new = {} => Answered(j, b, r, s) = {})
<1> DEFINE before == Answered(j, b, r - 1, s)
           now == Answered(j, b, r, s)
           x == <<j, b, r>>
<1>1. DOMAIN Jobs[j][b] \subseteq Nat \ {0}
  BY PlanShape
<1>2. now = IF s \in Jobs[j][b][r] THEN before \cup {x} ELSE before
  BY <1>1 DEF Answered, Answering
<1>3. \A y \in before : y[3] \in Nat /\ y[3] < r
  BY <1>1 DEF Answered, Answering
<1>4. x[3] = r /\ r \in Nat
  BY <1>1
<1>5. CASE ~plan.firstWins
  BY <1>2, <1>5 DEF Kept
<1>6. CASE plan.firstWins /\ before = {}
  <2>1. Kept(j, b, r - 1, s) = {}
    BY <1>6 DEF Kept
  <2>2. Kept(j, b, r, s) = now
    BY <1>2, <1>4, <1>6 DEF Kept
  <2> QED
    BY <1>2, <1>6, <2>1, <2>2
<1>7. CASE plan.firstWins /\ before # {}
  <2>1. Kept(j, b, r - 1, s) # {}
    BY <1>7
  <2>2. Kept(j, b, r - 1, s) = {y \in before : \A z \in before : y[3] <= z[3]}
    BY <1>7 DEF Kept
  <2>3. Kept(j, b, r, s) = {y \in now : \A z \in now : y[3] <= z[3]}
    BY <1>7 DEF Kept
  <2>4. {y \in now : \A z \in now : y[3] <= z[3]} = {y \in before : \A z \in before : y[3] <= z[3]}
    <3> HIDE DEF before, now, x
    <3>1. \A y \in before : y[3] < x[3] /\ y[3] <= x[3] /\ ~(x[3] <= y[3])
      BY <1>3, <1>4
    <3> QED
      BY <1>2, <1>7, <3>1
  <2> QED
    BY <1>7, <2>1, <2>2, <2>3, <2>4
<1> QED
  BY <1>5, <1>6, <1>7, PlanShape

\* After the last read the answer is whole.
LEMMA AllAnswered ==
  ASSUME plan \in Plans, NEW j \in Job, NEW b \in DOMAIN Jobs[j], NEW s \in Slot
  PROVE  LET n == Len(Jobs[j][b])
         IN /\ Answered(j, b, n, s) = Answering(j, b, s)
            /\ Kept(j, b, n, s) = Expected(j, b, s)
<1>1. DOMAIN Jobs[j][b] = 1..Len(Jobs[j][b]) /\ Len(Jobs[j][b]) \in Nat
  BY PlanShape
<1>2. Answered(j, b, Len(Jobs[j][b]), s) = Answering(j, b, s)
  BY <1>1 DEF Answered, Answering
<1> QED
  BY <1>2 DEF Kept, Expected

\* What is expected of a batch comes from its reads.
LEMMA ExpectedReads ==
  ASSUME NEW j, NEW b, NEW s, NEW x \in Expected(j, b, s)
  PROVE  x[1] = j /\ x[2] = b
BY DEF Expected, Answering

-----------------------------------------------------------------------------
(* Every step keeps the invariant *)

USE DEF Goto, call, progress

LEMMA JobsFinite ==
  ASSUME plan \in Plans
  PROVE  /\ IsFiniteSet(Job) /\ Cardinality(Job) = Len(Jobs)
         /\ IsFiniteSet(Holders) /\ IsFiniteSet(Counted)
         /\ Cardinality(Counted) \in 0..Len(Jobs)
<1>1. Len(Jobs) \in Nat /\ Job = 1..Len(Jobs)
  BY PlanShape
<1>2. IsFiniteSet(Job) /\ Cardinality(Job) = Len(Jobs)
  <2>1. \A n \in Nat : IsFiniteSet(1..n) /\ Cardinality(1..n) = n
    BY FS_Interval
  <2>2. QED
    BY <1>1, <2>1
<1>3. Holders \subseteq Job /\ Counted \subseteq Job
  BY DEF Holders, Counted
<1>4. /\ IsFiniteSet(Holders) /\ IsFiniteSet(Counted)
      /\ Cardinality(Counted) <= Cardinality(Job)
  BY <1>2, <1>3, FS_Subset
<1> QED
  BY <1>1, <1>2, <1>4, FS_CardinalityType

LEMMA InitInv == Init => IInv
<1> SUFFICES ASSUME Init PROVE IInv
    OBVIOUS
<1> USE DEF Init
<1>1. plan \in Plans
  OBVIOUS
<1>2. Holders = {} /\ Counted = {}
  BY DEF Holders, HoldingSlot, Fetching, Counted
<1>3. Len(Jobs) \in Nat
  BY <1>1, PlanShape
<1>4. TypeOK
  <2>1. NoSeries \in [Slot -> SUBSET ReadId]
    BY DEF NoSeries
  <2>2. Cardinality(Holders) <= Limit
    BY <1>2, FS_EmptySet, PoolAssumption
  <2>3. /\ series \in [Job -> [Slot -> SUBSET ReadId]]
        /\ metrics \in [Slot -> SUBSET ReadId]
    BY <2>1
  <2>4. /\ at \in [Job -> HoldingSlot \cup {"new", "gone"}]
        /\ batch \in [Job -> Nat \ {0}] /\ read \in [Job -> Nat \ {0}]
        /\ ticket \in [Job -> 0..Len(Jobs)]
    BY <1>3
  <2>5. /\ next \in 1..(Len(Jobs) + 1) /\ completed \in 0..Len(Jobs)
        /\ shown \in 0..Len(Jobs) /\ final \in 0..Len(Jobs)
    BY <1>3
  <2>6. cancelled \in BOOLEAN /\ pool \in {"spawn", "returned", "ended"} /\ errs \subseteq Job
    OBVIOUS
  <2> QED
    BY <1>1, <2>2, <2>3, <2>4, <2>5, <2>6 DEF TypeOK
<1>5. ASSUME NEW j \in Job
      PROVE  JobInv(j)
  <2>1. j >= 1 /\ Len(Jobs[j]) \in Nat
    BY <1>1, PlanShape
  <2>2. InBatch(j) => 1 \in DOMAIN Jobs[j] /\ Len(Jobs[j][1]) \in Nat \ {0}
    BY <1>1, <2>1, PlanShape DEF InBatch
  <2>3. StartedBy(j) /\ PositionOf(j) /\ VerdictOf(j)
    BY <2>1, <2>2 DEF StartedBy, PositionOf, VerdictOf, InBatch, Over
  <2>4. HoldingOf(j)
    <3>1. ASSUME NEW s \in Slot, InBatch(j)
          PROVE  Kept(j, 1, 0, s) = {} /\ Answered(j, 1, 0, s) = {}
      BY <1>1, <2>2, <3>1, NoneAnswered
    <3> QED
      BY <3>1 DEF HoldingOf, NoSeries
  <2> QED
    BY <2>3, <2>4 DEF JobInv
<1>6. Written /\ Joined
  BY DEF Written, Joined, NoSeries
<1>7. completed = Cardinality(Counted)
  BY <1>2, FS_EmptySet
<1> QED
  BY <1>4, <1>5, <1>6, <1>7 DEF IInv

\* A step that leaves what concerns a job leaves its part of the invariant.
LEMMA JobFrame ==
  ASSUME IInv, NEW k \in Job, UNCHANGED plan,
         at'[k] = at[k], batch'[k] = batch[k], read'[k] = read[k], series'[k] = series[k],
         k \in errs' <=> k \in errs,
         k >= next' <=> k >= next
  PROVE  JobInv(k)'
<1>1. JobInv(k)
  BY DEF IInv
<1>2. StartedBy(k)' /\ PositionOf(k)' /\ VerdictOf(k)'
  BY <1>1 DEF JobInv, StartedBy, PositionOf, VerdictOf, InBatch, Jobs
<1>3. HoldingOf(k)'
  <2>1. ASSUME NEW b, NEW s
        PROVE  /\ Answering(k, b, s)' = Answering(k, b, s)
               /\ Expected(k, b, s)' = Expected(k, b, s)
               /\ \A n : /\ Answered(k, b, n, s)' = Answered(k, b, n, s)
                        /\ Kept(k, b, n, s)' = Kept(k, b, n, s)
    BY DEF Answering, Answered, Expected, Kept, Jobs
  <2> QED
    BY <1>1, <2>1 DEF JobInv, HoldingOf, InBatch, Jobs
<1> QED
  BY <1>2, <1>3 DEF JobInv

\* As long as nothing is written and no job moves on, the graph stays as good as it was.
LEMMA WrittenFrame ==
  ASSUME IInv, UNCHANGED <<plan, metrics, batch>>
  PROVE  Written'
<1>1. ASSUME NEW j, NEW b, NEW s
      PROVE  Expected(j, b, s)' = Expected(j, b, s)
  BY DEF Answering, Expected, Jobs
<1> QED
  BY <1>1 DEF IInv, Written, Jobs, Job

\* The job that is started begins with nothing, within the limit.
LEMMA SpawnStep == IInv /\ Spawn => IInv'
<1> SUFFICES ASSUME IInv, Spawn PROVE IInv'
    OBVIOUS
<1> USE DEF Spawn
<1>1. plan \in Plans /\ next \in Nat /\ next \in Job /\ Job' = Job /\ Jobs' = Jobs
  BY DEF IInv, TypeOK, Job, Jobs
<1>2. /\ at[next] = "new" /\ JobInv(next)
      /\ at' = [at EXCEPT ![next] = "fetch"] /\ at'[next] = "fetch" /\ at \in [Job -> HoldingSlot \cup {"new", "gone"}]
  BY <1>1 DEF IInv, JobInv, StartedBy, TypeOK
<1>3. Holders' = Holders \cup {next} /\ next \notin Holders
  BY <1>1, <1>2 DEF Holders, HoldingSlot, Fetching
<1>4. Cardinality(Holders') <= Limit
  <2>1. IsFiniteSet(Holders) /\ Cardinality(Holders) \in Nat
    BY <1>1, JobsFinite, FS_CardinalityType
  <2>2. Cardinality(Holders \cup {next}) = Cardinality(Holders) + 1
    BY <1>3, <2>1, FS_AddElement
  <2> QED
    BY <1>3, <2>1, <2>2, PoolAssumption
<1>5. Counted' = Counted
  BY <1>1, <1>2 DEF Counted
<1>6. TypeOK'
  <2>1. at' \in [Job -> HoldingSlot \cup {"new", "gone"}]
    BY <1>2 DEF HoldingSlot, Fetching
  <2>2. next' \in 1..(Len(Jobs) + 1)
    BY <1>1, PlanShape
  <2> QED
    BY <1>1, <1>4, <2>1, <2>2 DEF IInv, TypeOK, ReadId
<1>7. ASSUME NEW k \in Job
      PROVE  JobInv(k)'
  <2>1. CASE k # next
    <3>1. at'[k] = at[k]
      BY <1>2, <2>1
    <3>2. k >= next' <=> k >= next
      <4>1. k \in Nat /\ next \in Nat
        BY <1>1, PlanShape
      <4> QED
        BY <2>1, <4>1
    <3> QED
      BY <1>1, <3>1, <3>2, JobFrame
  <2>2. CASE k = next
    <3>1. StartedBy(k)' /\ PositionOf(k)' /\ VerdictOf(k)'
      BY <1>1, <1>2, <2>2 DEF JobInv, StartedBy, PositionOf, VerdictOf, InBatch, Over
    <3>2. HoldingOf(k)'
      <4>1. ASSUME NEW b, NEW n, NEW s
            PROVE  Answered(k, b, n, s)' = Answered(k, b, n, s) /\ Kept(k, b, n, s)' = Kept(k, b, n, s)
        BY <1>1 DEF Answering, Answered, Kept
      <4> QED
        BY <1>1, <1>2, <2>2, <4>1 DEF JobInv, HoldingOf, InBatch
    <3> QED
      BY <3>1, <3>2 DEF JobInv
  <2> QED
    BY <2>1, <2>2
<1>8. Written' /\ Joined'
  BY WrittenFrame DEF IInv, Joined
<1> QED
  BY <1>1, <1>5, <1>6, <1>7, <1>8 DEF IInv

\* What the caller and the clock do touches no job.
LEMMA QuietStep ==
  ASSUME IInv, Return \/ EndPhase \/ Expire \/ UNCHANGED vars
  PROVE  IInv'
<1>1. UNCHANGED <<plan, next, at, batch, read, series, metrics, errs, completed, ticket, shown>>
  BY DEF Return, EndPhase, Expire, vars
<1>2. Holders' = Holders /\ Counted' = Counted /\ Jobs' = Jobs /\ Job' = Job /\ ReadId' = ReadId
  BY <1>1 DEF Holders, Counted, Jobs, Job, ReadId
<1>3. TypeOK'
  <2>1. cancelled' \in BOOLEAN /\ pool' \in {"spawn", "returned", "ended"} /\ final' \in 0..Len(Jobs)
    BY DEF IInv, TypeOK, Return, EndPhase, Expire, vars
  <2> QED
    BY <1>1, <1>2, <2>1 DEF IInv, TypeOK
<1>4. \A k \in Job : JobInv(k)'
  BY <1>1, JobFrame
<1>5. Written'
  BY <1>1, WrittenFrame
<1>6. Joined'
  BY <1>1, <1>2 DEF IInv, Joined, Return, EndPhase, Expire, vars
<1> QED
  BY <1>1, <1>2, <1>3, <1>4, <1>5, <1>6 DEF IInv

\* Where a job is about to read, its batch and its read exist.
LEMMA ReadExists ==
  ASSUME IInv, NEW j \in Job, at[j] = "fetch", InBatch(j)
  PROVE  /\ batch[j] \in DOMAIN Jobs[j] /\ read[j] \in DOMAIN Jobs[j][batch[j]]
         /\ batch[j] \in Nat /\ read[j] \in Nat /\ Len(Jobs[j][batch[j]]) \in Nat
<1>1. PositionOf(j) /\ plan \in Plans
  BY DEF IInv, JobInv, TypeOK
<1>2. Len(Jobs[j]) \in Nat /\ DOMAIN Jobs[j] = 1..Len(Jobs[j])
  BY <1>1, PlanShape
<1>3. batch[j] \in DOMAIN Jobs[j]
  BY <1>1, <1>2 DEF PositionOf, InBatch
<1>4. Len(Jobs[j][batch[j]]) \in Nat /\ DOMAIN Jobs[j][batch[j]] = 1..Len(Jobs[j][batch[j]])
  BY <1>1, <1>3, PlanShape
<1> QED
  BY <1>1, <1>2, <1>3, <1>4 DEF PositionOf

\* A step of a job leads from a place that holds a slot to another or to the end.
LEMMA PlaceStep ==
  ASSUME IInv, NEW j \in Job, JobStep(j)
  PROVE  /\ at[j] \in HoldingSlot /\ UNCHANGED <<plan, cancelled, pool, next, final>>
         /\ \E l \in HoldingSlot \cup {"gone"} : at' = [at EXCEPT ![j] = l]
         /\ at' \in [Job -> HoldingSlot \cup {"new", "gone"}]
<1>1. at \in [Job -> HoldingSlot \cup {"new", "gone"}]
  BY DEF IInv, TypeOK
<1>2. /\ at[j] \in HoldingSlot /\ UNCHANGED <<plan, cancelled, pool, next, final>>
      /\ \E l \in HoldingSlot \cup {"gone"} : at' = [at EXCEPT ![j] = l]
  <2> USE DEF HoldingSlot, Fetching
  <2>1. CASE Read(j)
    <3>1. CASE UNCHANGED at
      BY <1>1, <2>1, <3>1 DEF Read
    <3>2. CASE at' = [at EXCEPT ![j] = "write"]
      BY <2>1, <3>2 DEF Read
    <3> QED
      BY <2>1, <3>1, <3>2 DEF Read
  <2>2. CASE ReadFails(j)
    BY <2>2 DEF ReadFails
  <2>3. CASE Write(j)
    BY <2>3 DEF Write
  <2>4. CASE JobOk(j)
    BY <2>4 DEF JobOk
  <2>5. CASE Collect(j)
    BY <2>5 DEF Collect
  <2>6. CASE Count(j)
    BY <2>6 DEF Count
  <2>7. CASE Set(j)
    BY <2>7 DEF Set
  <2>8. CASE Release(j)
    BY <2>8 DEF Release
  <2> QED
    BY <2>1, <2>2, <2>3, <2>4, <2>5, <2>6, <2>7, <2>8 DEF JobStep
<1> QED
  BY <1>1, <1>2

\* The jobs are counted as they finish.
LEMMA CountedStep ==
  ASSUME IInv, NEW j \in Job, JobStep(j)
  PROVE  completed' = Cardinality(Counted')
<1>1. /\ at \in [Job -> HoldingSlot \cup {"new", "gone"}] /\ plan \in Plans
      /\ completed = Cardinality(Counted) /\ UNCHANGED plan /\ Job' = Job
  BY PlaceStep DEF IInv, TypeOK, Job, Jobs
<1>2. CASE Count(j)
  <2>1. Counted' = Counted \cup {j} /\ j \notin Counted
    BY <1>1, <1>2 DEF Counted, Count
  <2>2. IsFiniteSet(Counted)
    BY <1>1, JobsFinite
  <2>3. Cardinality(Counted \cup {j}) = Cardinality(Counted) + 1
    BY <2>1, <2>2, FS_AddElement
  <2> QED
    BY <1>1, <1>2, <2>1, <2>3 DEF Count
<1>3. CASE ~Count(j)
  <2>1. Read(j) \/ ReadFails(j) \/ Write(j) \/ JobOk(j) \/ Collect(j) \/ Set(j) \/ Release(j)
    BY <1>3 DEF JobStep
  <2>2. UNCHANGED completed
    BY <2>1 DEF Read, ReadFails, Write, JobOk, Collect, Set, Release
  <2>3. at[j] \in {"report", "release"} <=> at'[j] \in {"release", "gone"}
    BY <1>1, <2>1 DEF Read, ReadFails, Write, JobOk, Collect, Set, Release
  <2>4. at[j] # "gone" /\ at'[j] # "report" /\ \A k \in Job \ {j} : at'[k] = at[k]
    BY <1>1, <2>1 DEF Read, ReadFails, Write, JobOk, Collect, Set, Release
  <2>5. Counted' = Counted
    BY <1>1, <2>3, <2>4 DEF Counted
  <2> QED
    BY <1>1, <2>2, <2>5
<1> QED
  BY <1>2, <1>3

\* A step of a job keeps every variable in its type.
LEMMA JobTypeStep ==
  ASSUME IInv, NEW j \in Job, JobStep(j)
  PROVE  TypeOK'
<1>1. TypeOK /\ UNCHANGED <<plan, cancelled, pool, next, final>> /\ Job' = Job /\ Jobs' = Jobs /\ ReadId' = ReadId
  BY PlaceStep DEF IInv, Job, Jobs, ReadId
<1>2. Cardinality(Holders') <= Limit
  <2>1. Holders' \subseteq Holders
    BY <1>1, PlaceStep DEF Holders, TypeOK
  <2>2. IsFiniteSet(Holders) /\ Cardinality(Holders) \in Nat
    BY <1>1, JobsFinite, FS_CardinalityType DEF TypeOK
  <2>3. IsFiniteSet(Holders') /\ Cardinality(Holders') \in Nat /\ Cardinality(Holders') <= Cardinality(Holders)
    BY <2>1, <2>2, FS_Subset, FS_CardinalityType
  <2> QED
    BY <1>1, <2>2, <2>3, PoolAssumption DEF TypeOK
<1>3. completed' \in 0..Len(Jobs)
  <2>1. plan' \in Plans
    BY <1>1 DEF TypeOK
  <2>2. Cardinality(Counted') \in 0..Len(Jobs)
    <3>1. Counted' \subseteq Job /\ IsFiniteSet(Job) /\ Cardinality(Job) = Len(Jobs)
      BY <1>1, JobsFinite DEF Counted, TypeOK
    <3>2. IsFiniteSet(Counted') /\ Cardinality(Counted') <= Cardinality(Job)
      BY <3>1, FS_Subset
    <3> QED
      BY <3>1, <3>2, FS_CardinalityType
  <2> QED
    BY <2>2, CountedStep
<1>4. /\ batch' \in [Job -> Nat \ {0}] /\ read' \in [Job -> Nat \ {0}]
      /\ series' \in [Job -> [Slot -> SUBSET ReadId]] /\ metrics' \in [Slot -> SUBSET ReadId]
      /\ errs' \subseteq Job /\ ticket' \in [Job -> 0..Len(Jobs)] /\ shown' \in 0..Len(Jobs)
  <2>1. CASE Read(j)
    <3>1. <<j, batch[j], read[j]>> \in ReadId
      BY <2>1, ReadExists DEF Read, InBatch, ReadId
    <3>2. /\ batch' = batch /\ metrics' = metrics /\ errs' = errs /\ ticket' = ticket /\ shown' = shown
          /\ read' \in [Job -> Nat \ {0}]
      BY <1>1, <2>1 DEF Read, TypeOK
    <3>3. series' \in [Job -> [Slot -> SUBSET ReadId]]
      <4>1. series \in [Job -> [Slot -> SUBSET ReadId]] /\ series[j] \in [Slot -> SUBSET ReadId]
        BY <1>1 DEF TypeOK
      <4> DEFINE f == [s \in Slot |->
                        IF s \in Jobs[j][batch[j]][read[j]] /\ ~(plan.firstWins /\ series[j][s] # {})
                        THEN series[j][s] \cup {<<j, batch[j], read[j]>>} ELSE series[j][s]]
      <4>2. f \in [Slot -> SUBSET ReadId]
        BY <3>1, <4>1
      <4>3. series' = [series EXCEPT ![j] = f]
        BY <2>1 DEF Read
      <4> HIDE DEF f
      <4> QED
        BY <4>1, <4>2, <4>3
    <3> QED
      BY <1>1, <3>2, <3>3 DEF TypeOK
  <2>2. CASE Write(j)
    <3>1. NoSeries \in [Slot -> SUBSET ReadId]
      BY DEF NoSeries
    <3>2. series' \in [Job -> [Slot -> SUBSET ReadId]] /\ metrics' \in [Slot -> SUBSET ReadId]
      BY <1>1, <2>2, <3>1 DEF Write, TypeOK
    <3>3. batch' \in [Job -> Nat \ {0}] /\ read' \in [Job -> Nat \ {0}]
      BY <1>1, <2>2 DEF Write, TypeOK
    <3> QED
      BY <1>1, <2>2, <3>2, <3>3 DEF Write, TypeOK
  <2>3. CASE Count(j)
    BY <1>1, <1>3, <2>3 DEF Count, TypeOK
  <2>4. CASE Set(j)
    BY <1>1, <2>4 DEF Set, TypeOK
  <2>5. CASE ReadFails(j) \/ JobOk(j) \/ Collect(j) \/ Release(j)
    BY <1>1, <2>5 DEF ReadFails, JobOk, Collect, Release, TypeOK
  <2> QED
    BY <2>1, <2>2, <2>3, <2>4, <2>5 DEF JobStep
<1> QED
  BY <1>1, <1>2, <1>3, <1>4, PlaceStep DEF TypeOK

\* Reading keeps what the job holds in step with its position.
LEMMA ReadStep ==
  ASSUME IInv, NEW j \in Job, Read(j)
  PROVE  JobInv(j)'
<1> DEFINE b == batch[j]
           r == read[j]
<1>1. /\ plan \in Plans /\ UNCHANGED <<plan, next, batch, errs>> /\ Jobs' = Jobs /\ JobInv(j)
      /\ at[j] = "fetch" /\ InBatch(j) /\ InBatch(j)'
      /\ at \in [Job -> HoldingSlot \cup {"new", "gone"}] /\ read \in [Job -> Nat \ {0}]
      /\ series \in [Job -> [Slot -> SUBSET ReadId]]
  BY DEF IInv, TypeOK, Read, InBatch, Jobs
<1>2. /\ b \in DOMAIN Jobs[j] /\ r \in DOMAIN Jobs[j][b] /\ b \in Nat /\ r \in Nat
      /\ Len(Jobs[j][b]) \in Nat /\ DOMAIN Jobs[j][b] = 1..Len(Jobs[j][b])
  BY <1>1, ReadExists, PlanShape
<1>3. \/ r = Len(Jobs[j][b]) /\ at'[j] = "write" /\ read'[j] = r
      \/ r # Len(Jobs[j][b]) /\ at'[j] = "fetch" /\ read'[j] = r + 1
  BY <1>1 DEF Read
<1>4. StartedBy(j)' /\ VerdictOf(j)'
  BY <1>1, <1>3 DEF JobInv, StartedBy, VerdictOf, Over
<1>5. PositionOf(j)'
  BY <1>1, <1>2, <1>3 DEF JobInv, PositionOf, InBatch
<1>6. HoldingOf(j)'
  <2> SUFFICES ASSUME NEW s \in Slot
               PROVE  /\ at'[j] = "fetch" =>
                           /\ series'[j][s] = Kept(j, b, read'[j] - 1, s)
                           /\ series'[j][s] = {} => Answered(j, b, read'[j] - 1, s) = {}
                      /\ at'[j] = "write" =>
                           /\ series'[j][s] = Expected(j, b, s)
                           /\ series'[j][s] = {} => Answering(j, b, s) = {}
    <3>1. ASSUME NEW c, NEW n, NEW s
          PROVE  /\ Answering(j, c, s)' = Answering(j, c, s) /\ Answered(j, c, n, s)' = Answered(j, c, n, s)
                 /\ Expected(j, c, s)' = Expected(j, c, s) /\ Kept(j, c, n, s)' = Kept(j, c, n, s)
      BY <1>1 DEF Answering, Answered, Expected, Kept
    <3>2. at'[j] \in {"fetch", "write"} /\ batch'[j] = b
      BY <1>1, <1>3
    <3>3. ASSUME NEW t \in Slot
          PROVE  /\ at'[j] = "fetch" =>
                      /\ series'[j][t] = Kept(j, batch[j], read[j] - 1, t)'
                      /\ series'[j][t] = {} => Answered(j, batch[j], read[j] - 1, t)' = {}
                 /\ at'[j] = "write" =>
                      /\ series'[j][t] = Expected(j, batch[j], t)'
                      /\ series'[j][t] = {} => Answering(j, batch[j], t)' = {}
      BY <3>1, <3>2
    <3> QED
      BY <1>1, <3>2, <3>3 DEF HoldingOf
  <2>1. /\ series[j][s] = Kept(j, b, r - 1, s)
        /\ series[j][s] = {} => Answered(j, b, r - 1, s) = {}
    BY <1>1 DEF JobInv, HoldingOf
  <2>2. series'[j][s] = IF s \in Jobs[j][b][r] /\ ~(plan.firstWins /\ series[j][s] # {})
                        THEN series[j][s] \cup {<<j, b, r>>} ELSE series[j][s]
    BY <1>1 DEF Read
  <2>3. /\ series'[j][s] = Kept(j, b, r, s)
        /\ series'[j][s] = {} => Answered(j, b, r, s) = {}
    <3> HIDE DEF b, r
    <3>1. /\ LET old == Kept(j, b, r - 1, s)
                 new == IF s \in Jobs[j][b][r] /\ ~(plan.firstWins /\ old # {})
                        THEN old \cup {<<j, b, r>>} ELSE old
             IN Kept(j, b, r, s) = new /\ (new = {} => Answered(j, b, r, s) = {})
      BY <1>1, <1>2, <2>1, NextAnswered
    <3> QED
      BY <2>1, <2>2, <3>1
  <2>4. CASE at'[j] = "fetch"
    BY <1>2, <1>3, <2>3, <2>4
  <2>5. CASE at'[j] = "write"
    BY <1>1, <1>2, <1>3, <2>3, <2>5, AllAnswered
  <2> QED
    BY <2>4, <2>5
<1> QED
  BY <1>4, <1>5, <1>6 DEF JobInv

\* A written batch is left behind, and the next one begins with nothing.
LEMMA WriteStep ==
  ASSUME IInv, NEW j \in Job, Write(j)
  PROVE  JobInv(j)'
<1>1. /\ plan \in Plans /\ UNCHANGED <<plan, next, errs>> /\ Jobs' = Jobs /\ JobInv(j) /\ at[j] = "write"
      /\ at'[j] = "fetch" /\ batch'[j] = batch[j] + 1 /\ read'[j] = 1
      /\ \A s \in Slot : series'[j][s] = {}
  BY DEF IInv, TypeOK, Write, Jobs, NoSeries
<1>2. Len(Jobs[j]) \in Nat /\ DOMAIN Jobs[j] = 1..Len(Jobs[j]) /\ batch[j] \in 1..Len(Jobs[j])
  BY <1>1, PlanShape DEF JobInv, PositionOf, InBatch
<1>3. InBatch(j)' => batch'[j] \in DOMAIN Jobs[j] /\ Len(Jobs[j][batch'[j]]) \in Nat \ {0}
  BY <1>1, <1>2, PlanShape DEF InBatch
<1>4. StartedBy(j)' /\ VerdictOf(j)'
  BY <1>1 DEF JobInv, StartedBy, VerdictOf, Over
<1>5. PositionOf(j)'
  BY <1>1, <1>2, <1>3 DEF PositionOf, InBatch
<1>6. HoldingOf(j)'
  <2>1. ASSUME NEW c, NEW n, NEW s
        PROVE  Answered(j, c, n, s)' = Answered(j, c, n, s) /\ Kept(j, c, n, s)' = Kept(j, c, n, s)
    BY <1>1 DEF Answering, Answered, Kept
  <2>2. ASSUME InBatch(j)', NEW s \in Slot
        PROVE  Kept(j, batch'[j], 0, s) = {} /\ Answered(j, batch'[j], 0, s) = {}
    BY <1>1, <1>3, <2>2, NoneAnswered
  <2>3. at'[j] = "fetch" /\ read'[j] - 1 = 0 /\ \A s \in Slot : series'[j][s] = {}
    BY <1>1
  <2>4. ASSUME NEW s \in Slot, InBatch(j)'
        PROVE  Kept(j, batch[j], read[j] - 1, s)' = {} /\ Answered(j, batch[j], read[j] - 1, s)' = {}
    BY <2>1, <2>2, <2>3, <2>4
  <2> QED
    BY <2>3, <2>4, Slot' = Slot DEF HoldingOf
<1> QED
  BY <1>4, <1>5, <1>6 DEF JobInv

\* The other steps of a job read and write no samples.
LEMMA VerdictStep ==
  ASSUME IInv, NEW j \in Job,
         ReadFails(j) \/ JobOk(j) \/ Collect(j) \/ Count(j) \/ Set(j) \/ Release(j)
  PROVE  JobInv(j)'
<1>1. /\ UNCHANGED <<plan, next, batch, read>> /\ Jobs' = Jobs /\ JobInv(j) /\ (InBatch(j)' <=> InBatch(j))
      /\ at \in [Job -> HoldingSlot \cup {"new", "gone"}] /\ errs \subseteq Job
      /\ plan \in Plans
  BY DEF IInv, TypeOK, ReadFails, JobOk, Collect, Count, Set, Release, Jobs, InBatch
<1>2. /\ at[j] # "new" /\ at'[j] \notin {"new", "fetch", "write"} /\ (at'[j] = "failed" => InBatch(j))
  BY <1>1 DEF ReadFails, JobOk, Collect, Count, Set, Release, InBatch
<1>3. StartedBy(j)' /\ PositionOf(j)' /\ HoldingOf(j)'
  BY <1>1, <1>2 DEF JobInv, StartedBy, PositionOf, HoldingOf
<1>4. VerdictOf(j)'
  <2>1. CASE ReadFails(j)
    <3>1. at[j] = "fetch" /\ at'[j] = "failed" /\ UNCHANGED errs
      BY <1>1, <2>1 DEF ReadFails, Goto
    <3> QED
      BY <1>1, <3>1 DEF JobInv, VerdictOf, Over
  <2>4. CASE JobOk(j)
    <3>1. at[j] = "fetch" /\ at'[j] = "count" /\ UNCHANGED errs
      BY <1>1, <2>4 DEF JobOk, Goto
    <3>2. ~InBatch(j)
      <4>1. batch[j] \in Nat /\ Len(Jobs[j]) \in Nat
        BY <1>1, PlanShape DEF JobInv, PositionOf
      <4> QED
        BY <2>4, <4>1 DEF JobOk, InBatch
    <3> QED
      BY <1>1, <3>1, <3>2 DEF JobInv, VerdictOf, Over
  <2>2. CASE Collect(j)
    BY <1>1, <2>2 DEF Collect, JobInv, VerdictOf, PositionOf, Over
  <2>3. CASE Count(j) \/ Set(j) \/ Release(j)
    BY <1>1, <2>3 DEF Count, Set, Release, JobInv, VerdictOf, Over
  <2> QED
    BY <2>1, <2>2, <2>3, <2>4
<1> QED
  BY <1>3, <1>4 DEF JobInv

\* A write leaves the answer of the batch, and of nothing else, in its slots.
LEMMA WrittenStep ==
  ASSUME IInv, NEW j \in Job, JobStep(j)
  PROVE  Written'
<1>1. CASE Write(j)
  <2>1. /\ plan \in Plans /\ UNCHANGED plan /\ Jobs' = Jobs /\ Job' = Job /\ JobInv(j) /\ Written /\ at[j] = "write"
        /\ batch' = [batch EXCEPT ![j] = batch[j] + 1] /\ batch \in [Job -> Nat \ {0}]
        /\ metrics' = [s \in Slot |-> IF series[j][s] # {} THEN series[j][s] ELSE metrics[s]]
    BY <1>1 DEF IInv, TypeOK, Write, Jobs, Job
  <2>2. ASSUME NEW k, NEW c, NEW s
        PROVE  Expected(k, c, s)' = Expected(k, c, s)
    BY <2>1 DEF Answering, Expected
  <2> SUFFICES ASSUME NEW s \in Slot
               PROVE  /\ metrics'[s] # {} =>
                           \E k \in Job : \E c \in 1..(batch'[k] - 1) : metrics'[s] = Expected(k, c, s)
                      /\ \A k \in Job : \A c \in 1..(batch'[k] - 1) : Expected(k, c, s) # {} => metrics'[s] # {}
    BY <2>1, <2>2 DEF Written
  <2>3. /\ series[j][s] = Expected(j, batch[j], s)
        /\ metrics'[s] = IF series[j][s] # {} THEN series[j][s] ELSE metrics[s]
    BY <2>1 DEF JobInv, HoldingOf
  <2>4. \A k \in Job : batch[k] \in Nat \ {0} /\ batch'[k] = IF k = j THEN batch[k] + 1 ELSE batch[k]
    BY <2>1
  <2>5. metrics'[s] # {} => \E k \in Job : \E c \in 1..(batch'[k] - 1) : metrics'[s] = Expected(k, c, s)
    <3>1. CASE series[j][s] # {}
      <4>1. batch[j] \in 1..(batch'[j] - 1)
        BY <2>4
      <4> QED
        BY <2>3, <3>1, <4>1
    <3>2. CASE series[j][s] = {} /\ metrics[s] # {}
      <4>1. PICK k \in Job : \E c \in 1..(batch[k] - 1) : metrics[s] = Expected(k, c, s)
        BY <2>1, <3>2 DEF Written
      <4>2. PICK c \in 1..(batch[k] - 1) : metrics[s] = Expected(k, c, s)
        BY <4>1
      <4>3. c \in 1..(batch'[k] - 1)
        BY <2>4
      <4> QED
        BY <2>3, <3>2, <4>2, <4>3
    <3> QED
      BY <2>3, <3>1, <3>2
  <2>6. ASSUME NEW k \in Job, NEW c \in 1..(batch'[k] - 1), Expected(k, c, s) # {}
        PROVE  metrics'[s] # {}
    <3>1. CASE k = j /\ c = batch[j]
      BY <2>3, <2>6, <3>1
    <3>2. CASE ~(k = j /\ c = batch[j])
      <4>1. c \in 1..(batch[k] - 1)
        BY <2>4, <3>2
      <4>2. metrics[s] # {}
        BY <2>1, <2>6, <4>1 DEF Written
      <4> QED
        BY <2>3, <4>2
    <3> QED
      BY <3>1, <3>2
  <2> QED
    BY <2>5, <2>6
<1>2. CASE ~Write(j)
  <2>1. UNCHANGED <<plan, metrics, batch>>
    BY <1>2 DEF JobStep, Read, ReadFails, JobOk, Collect, Count, Set, Release
  <2> QED
    BY <2>1, WrittenFrame
<1> QED
  BY <1>1, <1>2

\* The step of one job leaves the others alone.
LEMMA OthersStep ==
  ASSUME IInv, NEW j \in Job, JobStep(j), NEW k \in Job, k # j
  PROVE  JobInv(k)'
<1>1. UNCHANGED <<plan, next>> /\ at'[k] = at[k]
  BY PlaceStep DEF IInv, TypeOK
<1>2. batch'[k] = batch[k] /\ read'[k] = read[k] /\ series'[k] = series[k]
  BY DEF IInv, TypeOK, JobStep, Read, ReadFails, Write, JobOk, Collect, Count, Set, Release
<1>3. k \in errs' <=> k \in errs
  BY DEF JobStep, Read, ReadFails, Write, JobOk, Collect, Count, Set, Release
<1> QED
  BY <1>1, <1>2, <1>3, JobFrame

LEMMA NextInv == IInv /\ [Next]_vars => IInv'
<1> SUFFICES ASSUME IInv, [Next]_vars PROVE IInv'
    OBVIOUS
<1>1. CASE Spawn
  BY <1>1, SpawnStep
<1>2. CASE Return \/ EndPhase \/ Expire \/ Terminated \/ UNCHANGED vars
  BY <1>2, QuietStep DEF Terminated
<1>3. ASSUME NEW j \in Job, JobStep(j)
      PROVE  IInv'
  <2>1. JobInv(j)'
    BY <1>3, ReadStep, WriteStep, VerdictStep DEF JobStep
  <2>2. Job' = Job
    BY <1>3, PlaceStep DEF Job, Jobs
  <2>3. \A k \in Job' : JobInv(k)'
    BY <1>3, <2>1, <2>2, OthersStep
  <2>4. Joined'
    BY <1>3, <2>2, PlaceStep DEF IInv, Joined, HoldingSlot, Fetching
  <2> QED
    BY <1>3, <2>3, <2>4, JobTypeStep, CountedStep, WrittenStep DEF IInv
<1> QED
  BY <1>1, <1>2, <1>3 DEF Next, Caller

\* IInv holds in every reachable state.
THEOREM Invariance == Spec => []IInv
  BY InitInv, NextInv, PTL DEF Spec

-----------------------------------------------------------------------------
(* What it means *)

\* Every variable stays in its type, and no more jobs hold a slot than the limit
\* allows (runFetchJobs), whatever the plan.
THEOREM TypeCorrect == Spec => []TypeOK
<1>1. IInv => TypeOK
  BY DEF IInv
<1> QED
  BY <1>1, Invariance, PTL

\* A value on the graph is the complete answer of one batch: never the pages before an
\* error, never a mix of metric types (fillOne).
THEOREM NeverPartial == Spec => []NoPartialSeries
<1>1. IInv => NoPartialSeries
  <2> SUFFICES ASSUME IInv, NEW s \in Slot, metrics[s] # {}
               PROVE  \E j \in Job : \E b \in DOMAIN Jobs[j] : metrics[s] = Expected(j, b, s)
    BY DEF NoPartialSeries
  <2>0. PICK j \in Job : \E b \in 1..(batch[j] - 1) : metrics[s] = Expected(j, b, s)
    BY DEF IInv, Written
  <2>1. PICK b \in 1..(batch[j] - 1) : metrics[s] = Expected(j, b, s)
    BY <2>0
  <2>2. Len(Jobs[j]) \in Nat /\ DOMAIN Jobs[j] = 1..Len(Jobs[j]) /\ batch[j] \in 1..(Len(Jobs[j]) + 1)
    BY PlanShape DEF IInv, TypeOK, JobInv, PositionOf
  <2>3. b \in DOMAIN Jobs[j]
    BY <2>2
  <2> QED
    BY <2>1, <2>3
<1> QED
  BY <1>1, Invariance, PTL

\* One failing job costs only its own slots, in the batch it failed in and behind it.
THEOREM FailuresIsolated == Spec => []FailureIsolated
<1>1. IInv => FailureIsolated
  <2> SUFFICES ASSUME IInv, pool # "spawn", NEW j \in Job
               PROVE  /\ j \notin errs => \A b \in DOMAIN Jobs[j] : \A s \in Slot :
                                             Expected(j, b, s) # {} => metrics[s] # {}
                      /\ j \in errs => /\ batch[j] \in DOMAIN Jobs[j]
                                       /\ \A s \in Slot : \A x \in metrics[s] : x[1] = j => x[2] < batch[j]
    BY DEF FailureIsolated
  <2>1. /\ at[j] = "gone" /\ JobInv(j) /\ Len(Jobs[j]) \in Nat /\ DOMAIN Jobs[j] = 1..Len(Jobs[j])
        /\ batch[j] \in 1..(Len(Jobs[j]) + 1)
    BY PlanShape DEF IInv, TypeOK, Joined, JobInv, PositionOf
  <2>2. CASE j \notin errs
    <3>1. batch[j] = Len(Jobs[j]) + 1
      BY <2>1, <2>2 DEF JobInv, VerdictOf, Over, InBatch
    <3> QED
      BY <2>1, <2>2, <3>1 DEF IInv, Written
  <2>3. CASE j \in errs
    <3>1. batch[j] \in DOMAIN Jobs[j]
      BY <2>1, <2>3 DEF JobInv, VerdictOf, InBatch
    <3>2. ASSUME NEW s \in Slot, NEW x \in metrics[s], x[1] = j
          PROVE  x[2] < batch[j]
      <4>1. PICK k \in Job : \E b \in 1..(batch[k] - 1) : metrics[s] = Expected(k, b, s)
        BY <3>2 DEF IInv, Written
      <4>2. PICK b \in 1..(batch[k] - 1) : metrics[s] = Expected(k, b, s)
        BY <4>1
      <4>3. x[1] = k /\ x[2] = b
        BY <4>2, ExpectedReads
      <4> QED
        BY <2>1, <3>2, <4>2, <4>3
    <3> QED
      BY <2>3, <3>1, <3>2
  <2> QED
    BY <2>2, <2>3
<1> QED
  BY <1>1, Invariance, PTL

=============================================================================
