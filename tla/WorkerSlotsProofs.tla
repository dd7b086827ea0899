------------------------- MODULE WorkerSlotsProofs -------------------------
(***************************************************************************)
(* The slots of WorkerQueue, for any number of jobs and any limits: what   *)
(* the records and the passes know (IInv) bounds the processes at work.    *)
(***************************************************************************)
EXTENDS WorkerQueueProofs, FiniteSetTheorems

\* The processes at work have different jobs, so they are no more than the
\* slots their jobs have.
LEMMA SlotsBound ==
    ASSUME JobsInv, NEW K \in SUBSET Kept
    PROVE  \A U \in SUBSET Jobs :
                (\A r \in BusyOn(K) : JobOf(r) \in U) =>
                    /\ IsFiniteSet(BusyOn(K)) /\ IsFiniteSet(U \cap K)
                    /\ Cardinality(BusyOn(K)) <= Cardinality(U \cap K)
<1> SUFFICES ASSUME NEW U \in SUBSET Jobs, \A r \in BusyOn(K) : JobOf(r) \in U
             PROVE  /\ IsFiniteSet(BusyOn(K)) /\ IsFiniteSet(U \cap K)
                    /\ Cardinality(BusyOn(K)) <= Cardinality(U \cap K)
  OBVIOUS
<1> DEFINE job == [r \in BusyOn(K) |-> JobOf(r)]
<1>1. IsFiniteSet(U \cap K)
  <2>1. IsFiniteSet(Jobs)
    BY JobsAssumption, FS_Interval DEF Jobs
  <2> QED BY <2>1, FS_Subset
<1>2. \A r \in BusyOn(K) : r \in Runners /\ run[r].place # "free" /\ JobOf(r) \in U \cap K
  BY DEF BusyOn, Busy
<1>3. \A r, q \in BusyOn(K) : JobOf(r) = JobOf(q) => r = q
  BY <1>2 DEF JobsInv, OneRunnerKept
<1>4. job \in Injection(BusyOn(K), U \cap K)
  BY <1>2, <1>3 DEF Injection, IsInjective
<1> QED BY <1>1, <1>4, FS_Injection

\* A step that starts no process on these jobs does not take a slot of theirs.
LEMMA NobodyStarts ==
    ASSUME JobsInv, [Next]_vars, NEW K \in SUBSET Kept,
           \A r \in Runners, j \in K : ~Starts(r, j)
    PROVE  /\ IsFiniteSet(BusyOn(K)) /\ IsFiniteSet(BusyOn(K)')
           /\ Cardinality(BusyOn(K)') <= Cardinality(BusyOn(K))
<1>1. IsFiniteSet(BusyOn(K))
  <2>1. \A r \in BusyOn(K) : JobOf(r) \in Jobs
    BY DEF BusyOn, Kept
  <2> QED BY <2>1, SlotsBound
<1>2. ASSUME NEW r \in BusyOn(K)' PROVE r \in BusyOn(K)
  <2>1. r \in Busy' /\ run'[r].job \in K /\ r \in Runners
    BY DEF BusyOn, Busy, JobOf
  <2>2. ASSUME NEW j \in Jobs, Starts(r, j) PROVE run'[r].job = j
    BY <2>1, <2>2 DEF Starts, Spawned, JobsInv, TypeOK
  <2>3. r \in Busy /\ run'[r].job = run[r].job
    BY <2>1, <2>2, WorkMoves DEF JobsInv
  <2> QED BY <2>1, <2>3 DEF BusyOn, JobOf
<1> QED BY <1>1, <1>2, FS_Subset

\* A step that starts a process starts one, of a job that has room among the
\* slots that are counted: those of every process at work on a kept job.
LEMMA OneStarts ==
    ASSUME IInv, NEW r \in Runners, NEW j \in Jobs, Starts(r, j)
    PROVE  \E U \in SUBSET Jobs :
                /\ HasRoom(j, U)
                /\ \A q \in BusyOn(Kept) : JobOf(q) \in U
                /\ Busy' \subseteq Busy \cup {r}
                /\ \A q \in Busy' : q # r => q \in Busy /\ run'[q].job = run[q].job
<1> USE DEF IInv, JobsInv
<1>1. \A q \in Busy' : q # r => q \in Busy /\ run'[q].job = run[q].job
  BY DEF Starts, Spawned, Busy, TypeOK
<1>2. CASE QueueTakes(j)
  <2>1. run' # run
    BY DEF Starts, Spawned, Fresh, TypeOK
  <2>2. HasRoom(j, Holders) /\ sched.runner = NoRunner
    BY <1>2, <2>1 DEF QueueTakes
  <2>3. \A q \in BusyOn(Kept) : JobOf(q) \in Holders
    BY <2>2, BusyHolds
  <2>4. Holders \in SUBSET Jobs
    BY DEF Holders
  <2> QED BY <1>1, <2>2, <2>3, <2>4
<1>3. CASE ResumeTakes(j)
  <2>1. HasRoom(j, sched.use) /\ sched.mode = "resume" /\ sched.use \in SUBSET Jobs
    BY <1>3 DEF ResumeTakes, ResumeAt, TypeOK, Passes
  <2>2. \A q \in BusyOn(Kept) : JobOf(q) \in sched.use
    BY <2>1 DEF PassCounts
  <2> QED BY <1>1, <2>1, <2>2
<1> QED BY <1>2, <1>3 DEF Starts

LEMMA OneMore ==
    ASSUME NEW S, NEW x, IsFiniteSet(S)
    PROVE  IsFiniteSet(S \cup {x}) /\ Cardinality(S \cup {x}) <= Cardinality(S) + 1
<1>1. Cardinality(S) \in Nat
  BY FS_CardinalityType
<1>2. /\ IsFiniteSet(S \cup {x})
      /\ Cardinality(S \cup {x}) = IF x \in S THEN Cardinality(S) ELSE Cardinality(S) + 1
  BY FS_AddElement
<1> QED BY <1>1, <1>2

\* A limit that HasRoom compares with is kept: N processes at once on the kept
\* jobs of a kind, when a job of that kind has room only below N.
LEMMA LimitKept ==
    ASSUME IInv, [Next]_vars, NEW kind \in SUBSET Jobs, NEW N \in Nat,
           \A j \in kind : \A U \in SUBSET Jobs : HasRoom(j, U) => Cardinality(U \cap kind) < N,
           Cardinality(BusyOn(Kept \cap kind)) <= N
    PROVE  Cardinality(BusyOn(Kept \cap kind)') <= N
<1>0. JobsInv /\ Kept' \subseteq Kept
  BY StrayStays DEF IInv, Kept
<1> PICK K \in SUBSET Jobs : K = Kept' \cap kind
  OBVIOUS
<1>1. K \in SUBSET Kept /\ BusyOn(Kept \cap kind)' = BusyOn(K)'
  BY <1>0 DEF BusyOn
<1>2. /\ IsFiniteSet(BusyOn(K)) /\ Cardinality(BusyOn(K)) <= N
      /\ Cardinality(BusyOn(K)) \in Nat
  <2>1. BusyOn(K) \subseteq BusyOn(Kept \cap kind)
    BY <1>1 DEF BusyOn
  <2>2. IsFiniteSet(BusyOn(Kept \cap kind))
    <3>1. Kept \cap kind \in SUBSET Kept /\ \A r \in BusyOn(Kept \cap kind) : JobOf(r) \in Jobs
      BY DEF BusyOn, Kept
    <3> QED BY <1>0, <3>1, SlotsBound
  <2>3. /\ IsFiniteSet(BusyOn(K))
        /\ Cardinality(BusyOn(K)) <= Cardinality(BusyOn(Kept \cap kind))
    BY <2>1, <2>2, FS_Subset
  <2>4. Cardinality(BusyOn(K)) \in Nat /\ Cardinality(BusyOn(Kept \cap kind)) \in Nat
    BY <2>2, <2>3, FS_CardinalityType
  <2> QED BY <2>3, <2>4
<1>3. CASE \A r \in Runners, j \in K : ~Starts(r, j)
  <2>1. /\ Cardinality(BusyOn(K)) \in Nat /\ Cardinality(BusyOn(K)') \in Nat
        /\ Cardinality(BusyOn(K)') <= Cardinality(BusyOn(K))
    BY <1>0, <1>1, <1>3, NobodyStarts, FS_CardinalityType
  <2> QED BY <1>1, <1>2, <2>1
<1>4. ASSUME NEW r \in Runners, NEW j \in K, Starts(r, j)
      PROVE  Cardinality(BusyOn(K)') <= N
  <2>1. PICK U \in SUBSET Jobs :
            /\ HasRoom(j, U)
            /\ \A q \in BusyOn(Kept) : JobOf(q) \in U
            /\ Busy' \subseteq Busy \cup {r}
            /\ \A q \in Busy' : q # r => q \in Busy /\ run'[q].job = run[q].job
    BY <1>4, OneStarts
  <2>2. /\ IsFiniteSet(U \cap K)
        /\ Cardinality(BusyOn(K)) <= Cardinality(U \cap K)
    <3>1. \A q \in BusyOn(K) : JobOf(q) \in U
      BY <1>1, <2>1 DEF BusyOn
    <3> QED BY <1>0, <1>1, <3>1, SlotsBound
  <2>3. Cardinality(U \cap K) < N
    <3>1. IsFiniteSet(Jobs) /\ U \cap K \subseteq U \cap kind /\ U \cap kind \subseteq Jobs
      BY JobsAssumption, FS_Interval DEF Jobs
    <3>2. IsFiniteSet(U \cap kind)
      BY <3>1, FS_Subset
    <3>3. /\ Cardinality(U \cap K) <= Cardinality(U \cap kind)
          /\ Cardinality(U \cap K) \in Nat /\ Cardinality(U \cap kind) \in Nat
      BY <2>2, <3>1, <3>2, FS_Subset, FS_CardinalityType
    <3>4. Cardinality(U \cap kind) < N
      BY <2>1
    <3> QED BY <3>3, <3>4
  <2>4. BusyOn(K)' \in SUBSET (BusyOn(K) \cup {r})
    BY <2>1 DEF BusyOn, JobOf
  <2>5. /\ IsFiniteSet(BusyOn(K) \cup {r})
        /\ Cardinality(BusyOn(K) \cup {r}) <= Cardinality(BusyOn(K)) + 1
    BY <1>2, OneMore
  <2>6. /\ Cardinality(BusyOn(K)') <= Cardinality(BusyOn(K) \cup {r})
        /\ IsFiniteSet(BusyOn(K)')
    BY <2>4, <2>5, FS_Subset
  <2>7. /\ Cardinality(U \cap K) \in Nat
        /\ Cardinality(BusyOn(K)') \in Nat /\ Cardinality(BusyOn(K) \cup {r}) \in Nat
    BY <2>2, <2>5, <2>6, FS_CardinalityType
  <2> QED BY <1>2, <2>2, <2>3, <2>5, <2>6, <2>7
<1> QED BY <1>1, <1>3, <1>4

\* What HasRoom compares, pool by pool.
LEMMA RoomIsBelow ==
    ASSUME NEW j \in Jobs, NEW U \in SUBSET Jobs, HasRoom(j, U)
    PROVE  /\ Cardinality(U \cap Jobs) < Ceiling
           /\ j \in Podcasts => Cardinality(U \cap Podcasts) < PodcastPool
           /\ j \notin Podcasts => Cardinality(U \cap (Jobs \ Podcasts)) < VideoPool
<1>1. U \cap Jobs = U
  OBVIOUS
<1>2. SameKind(j) = IF j \in Podcasts THEN Podcasts ELSE Jobs \ Podcasts
  BY JobsAssumption DEF SameKind
<1> QED BY <1>1, <1>2 DEF HasRoom, Pool

\* The slots are respected by the processes themselves: through restarts,
\* repairs and both kinds of passes, and beside strays, no more of them are at
\* work on kept jobs than the ceiling and the pool of their kind allow.
THEOREM SlotsAreRespected == Spec => []SlotsRespected
<1> DEFINE Videos == Jobs \ Podcasts
<1>1. Jobs \in SUBSET Jobs /\ Podcasts \in SUBSET Jobs /\ Videos \in SUBSET Jobs
  BY JobsAssumption
<1>2. Kept \cap Jobs = Kept /\ Kept \cap Videos = Kept \ Podcasts
  BY DEF Kept
<1>3. Kept' \cap Jobs = Kept' /\ Kept' \cap Videos = Kept' \ Podcasts
  BY DEF Kept
<1>4. Init => SlotsRespected
  <2> SUFFICES ASSUME Init PROVE SlotsRespected
    OBVIOUS
  <2>1. Busy = {}
    BY DEF Init, NoProcess, Busy
  <2>2. \A K : BusyOn(K) = {}
    BY <2>1 DEF BusyOn
  <2> QED BY <2>1, <2>2, FS_EmptySet, LimitsAssumption DEF SlotsRespected
<1>5. IInv /\ SlotsRespected /\ [Next]_vars => SlotsRespected'
  <2> SUFFICES ASSUME IInv, SlotsRespected, [Next]_vars
               PROVE  SlotsRespected'
    OBVIOUS
  <2>1. /\ Cardinality(BusyOn(Kept \cap Jobs)) <= Ceiling
        /\ Cardinality(BusyOn(Kept \cap Podcasts)) <= PodcastPool
        /\ Cardinality(BusyOn(Kept \cap Videos)) <= VideoPool
    BY <1>2 DEF SlotsRespected
  <2>2. \A j \in Jobs : \A U \in SUBSET Jobs : HasRoom(j, U) =>
            /\ Cardinality(U \cap Jobs) < Ceiling
            /\ j \in Podcasts => Cardinality(U \cap Podcasts) < PodcastPool
            /\ j \in Videos => Cardinality(U \cap Videos) < VideoPool
    BY RoomIsBelow
  <2> HIDE DEF Videos
  <2>3. Cardinality(BusyOn(Kept \cap Jobs)') <= Ceiling
    BY <1>1, <2>1, <2>2, LimitKept, LimitsAssumption
  <2>4. Cardinality(BusyOn(Kept \cap Podcasts)') <= PodcastPool
    BY <1>1, <2>1, <2>2, LimitKept, LimitsAssumption
  <2>5. Cardinality(BusyOn(Kept \cap Videos)') <= VideoPool
    BY <1>1, <2>1, <2>2, LimitKept, LimitsAssumption
  <2>6. /\ BusyOn(Kept \cap Jobs)' = BusyOn(Kept)'
        /\ BusyOn(Kept \cap Videos)' = BusyOn(Kept \ Podcasts)'
    BY <1>3 DEF BusyOn
  <2> QED BY <2>3, <2>4, <2>5, <2>6 DEF SlotsRespected
<1> QED BY <1>4, <1>5, Invariance, PTL DEF Spec

=============================================================================
