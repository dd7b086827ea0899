-------------------------- MODULE NodePauseProofs --------------------------
(***************************************************************************)
(* IInv is an invariant of NodePause: one lemma for each action.  From it  *)
(* follow the safety properties, for any number of nodes, moves, calls and *)
(* faults.                                                                 *)
(***************************************************************************)
EXTENDS NodePause, TLAPS

\* The module's vocabulary is expanded in every step below.
USE DEF operator, nodes, holds, history, Mine, MyJob, Saves, Goes, Live, Waiting, Encoding, Ended,
    Places,
        Call, Fault, Paused, HoldWanted, SetJob, Busy, NoRemoteJob

LEMMA InitEstablishes == Init => IInv
<1> SUFFICES ASSUME Init PROVE IInv
  OBVIOUS
<1> USE NodesAssumption, BoundsAssumption DEF Init, Fresh, Attempts
<1>1. TypeOK
  <2>1. RowOK
    BY DEF RowOK, Rows
  <2>2. job \in [Nodes -> [Attempts -> {"none"} \cup Live \cup Ended]]
    OBVIOUS
  <2>3. /\ drain \in BOOLEAN /\ pc \in Places /\ swept \in BOOLEAN
        /\ pause \in [Nodes -> {"no", "graceful", "immediate"}]
    OBVIOUS
  <2>4. calls \in 0..MaxCalls /\ faults \in 0..MaxFaults
    OBVIOUS
  <2>5. /\ submits = {} /\ cancels = {} /\ hold = {} /\ quiet = {}
        /\ lateSubmits = {} /\ lateCancels = {} /\ cleared = {}
    OBVIOUS
  <2> HIDE DEF Init, Places, operator, nodes, holds, history
  <2> QED BY <2>1, <2>2, <2>3, <2>4, <2>5 DEF TypeOK
<1>2. Place /\ Flags /\ Known /\ Unsent /\ CancelledFor /\ Quiet /\ Cleared /\ OneEncode
  BY DEF Place, Flags, Known, Sent, Unsent, CancelledFor, Quiet, Cleared, OneEncode
<1> QED BY <1>1, <1>2 DEF IInv

\* What is reported idle or ready is: what the row says counts every job that
\* is there.
LEMMA ClearIsQuiet ==
  ASSUME (TypeOK /\ Place /\ Flags /\ Known /\ Unsent /\ Quiet /\ OneEncode)',
         NEW n \in Nodes, Clear(n)'
  PROVE  ClearedAt(n)'
<1> USE NodesAssumption DEF RowOK, Rows, Attempts, OpenOnWorker
<1>1. HoldWanted(n)' /\ Settled(n)' /\ ~Counted(n)'
  BY DEF Clear, ReadyForDeploy, NodeIdle
<1>2. ASSUME row'.worker = n, row'.status = "active", row'.reconcile
      PROVE  FALSE
  BY <1>1, <1>2 DEF TypeOK, Flags, Counted, HeldBack
<1>3. ASSUME NEW a \in Attempts \ lateSubmits', job'[n][a] \in Encoding \cup Waiting
      PROVE  <<n, a>> = Mine' /\ (row'.status = "cancelled" \/ (job'[n][a] = "queued" /\ n \in
          hold'))
  <2>1. row'.named /\ <<n, a>> = Mine'
    BY <1>3 DEF OneEncode
  <2>2. row'.submitted \/ row'.reconcile
    BY <1>3, <2>1 DEF TypeOK, Unsent
  <2>3. row'.status \in {"active", "cancelled"}
    BY <1>3, <2>1, <2>2 DEF TypeOK, Flags
  <2>4. CASE row'.status = "active"
    <3>1. n \in quiet'
      BY <1>1, <2>1, <2>2, <2>4 DEF TypeOK, Flags, Counted, HeldBack
    <3> QED BY <3>1, <2>1, <1>3 DEF Quiet, TypeOK
  <2> QED BY <2>1, <2>3, <2>4
<1> QED BY <1>1, <1>2, <1>3 DEF ClearedAt, Settled, Place

LEMMA ClearedKept ==
  ASSUME (TypeOK /\ Place /\ Flags /\ Known /\ Unsent /\ Quiet /\ OneEncode)', Observes,
         \A n \in cleared : HoldWanted(n)' => ClearedAt(n)'
  PROVE  Cleared'
<1> SUFFICES ASSUME NEW n \in cleared'  PROVE ClearedAt(n)'
  BY DEF Cleared
<1> QED BY ClearIsQuiet DEF Observes

\* A step that leaves the nodes and the operator's rows alone keeps the types
\* if it keeps those of what it changes.
LEMMA TypesKept ==
  ASSUME TypeOK, RowOK', pc' \in Places, swept' \in BOOLEAN, cleared' \subseteq Nodes,
         lateSubmits' \subseteq Attempts, lateCancels' \subseteq Attempts, faults' \in 0..MaxFaults,
         UNCHANGED <<drain, pause, job, submits, cancels, hold, quiet, calls>>
  PROVE  TypeOK'
BY DEF TypeOK

-----------------------------------------------------------------------------
(* The reconciler's resume *)

LEMMA ResumeKeeps ==
  ASSUME IInv, Resume, Observes
  PROVE  IInv'
<1> USE NodesAssumption, BoundsAssumption DEF Resume, RowOK, Rows, Fresh, Attempts, Sent
<1>0. /\ TypeOK /\ Place /\ Flags /\ Known /\ Unsent /\ CancelledFor /\ Quiet /\ OneEncode
      /\ Cleared
  BY DEF IInv
<1>a. cleared' \subseteq Nodes
  BY DEF Observes
<1>1. TypeOK'
  <2>1. RowOK'
    <3> HIDE NodesAssumption, BoundsAssumption DEF Places, operator, nodes, holds, history
    <3>0. RowOK
      BY <1>0 DEF TypeOK
    <3>1. CASE row' = row
      BY <3>0, <3>1
    <3>2. CASE row' # row
      <4>1. row' = [row EXCEPT !.held = FALSE]
        BY <3>2
      <4> QED BY <3>0, <4>1
    <3> QED BY <3>1, <3>2
  <2> QED BY <1>0, <1>a, <2>1, TypesKept DEF TypeOK
<1>b. /\ row'.worker = row.worker /\ row'.attempt = row.attempt /\ row'.named = row.named
      /\ row'.submitted = row.submitted /\ row'.reconcile = row.reconcile
  BY <1>0 DEF TypeOK, Place, Flags
<1>2. Place'
  BY <1>0, <1>1, <1>b DEF TypeOK, Place
<1>3. Flags'
  BY <1>0, <1>1, <1>b DEF TypeOK, Flags
<1>4. Known'
  BY <1>0, <1>1, <1>b DEF TypeOK, Known
<1>5. Unsent'
  BY <1>0, <1>1, <1>b DEF TypeOK, Unsent
<1>6. CancelledFor'
  BY <1>0, <1>1, <1>b DEF TypeOK, CancelledFor
<1>7. OneEncode'
  BY <1>0, <1>1, <1>b DEF TypeOK, OneEncode
<1>8. Quiet'
  BY <1>0 DEF Quiet
<1>9. ASSUME NEW m \in cleared, HoldWanted(m)'
      PROVE  ClearedAt(m)'
  BY <1>0, <1>9, <1>1, <1>7, <1>b DEF TypeOK, Cleared, ClearedAt, OneEncode
<1> QED BY <1>1, <1>2, <1>3, <1>4, <1>5, <1>6, <1>7, <1>8, <1>9, ClearedKept DEF IInv

LEMMA AssignKeeps ==
  ASSUME IInv, Assign, Observes
  PROVE  IInv'
<1> USE NodesAssumption, BoundsAssumption DEF Assign, RowOK, Rows, Fresh, Attempts, Sent
<1>0. /\ TypeOK /\ Place /\ Flags /\ Known /\ Unsent /\ CancelledFor /\ Quiet /\ OneEncode
      /\ Cleared
  BY DEF IInv
<1>a. cleared' \subseteq Nodes
  BY DEF Observes
<1>1. TypeOK'
  BY <1>0, <1>a DEF TypeOK, Place, Flags
<1>b. row'.attempt = row.attempt /\ ~row.named /\ ~row'.named
  BY <1>0 DEF TypeOK, Place, Flags
<1>2. Place'
  BY <1>0, <1>1, <1>b DEF TypeOK, Place
<1>3. Flags'
  BY <1>0, <1>1, <1>b DEF TypeOK, Flags
<1>4. Known'
  BY <1>0, <1>1, <1>b DEF TypeOK, Known
<1>5. Unsent'
  BY <1>0, <1>1, <1>b DEF TypeOK, Unsent
<1>6. CancelledFor'
  BY <1>0, <1>1, <1>b DEF TypeOK, CancelledFor
<1>7. OneEncode'
  BY <1>0, <1>1, <1>b DEF TypeOK, OneEncode
<1>8. Quiet'
  BY <1>0 DEF Quiet
<1>9. ASSUME NEW m \in cleared, HoldWanted(m)'
      PROVE  ClearedAt(m)'
  BY <1>0, <1>9, <1>1, <1>7, <1>b DEF TypeOK, Cleared, ClearedAt, OneEncode
<1> QED BY <1>1, <1>2, <1>3, <1>4, <1>5, <1>6, <1>7, <1>8, <1>9, ClearedKept DEF IInv

LEMMA PollKeeps ==
  ASSUME IInv, Poll, Observes
  PROVE  IInv'
<1> USE NodesAssumption, BoundsAssumption DEF Poll, RowOK, Rows, Fresh, Attempts, Sent
<1>0. /\ TypeOK /\ Place /\ Flags /\ Known /\ Unsent /\ CancelledFor /\ Quiet /\ OneEncode
      /\ Cleared
  BY DEF IInv
<1>a. cleared' \subseteq Nodes
  BY DEF Observes
<1>1. TypeOK'
  <2>1. RowOK'
    <3> DEFINE waits == MyJob \in Waiting
               status == CASE MyJob \in Live -> "active"
                           [] MyJob = "completed" -> "completed"
                           [] OTHER -> "failed"
    <3>1. waits \in BOOLEAN /\ status \in {"active", "completed", "failed"}
      OBVIOUS
    <3>2. row' = [row EXCEPT !.queued = waits, !.status = status]
      OBVIOUS
    <3> HIDE DEF waits, status
    <3> QED BY <1>0, <3>1, <3>2 DEF TypeOK, Flags
  <2> QED BY <1>0, <1>a, <2>1, TypesKept DEF TypeOK
<1>2. Place'
  BY <1>0, <1>1 DEF TypeOK, Place
<1>3. Flags'
  BY <1>0, <1>1 DEF TypeOK, Place, Flags
<1>4. Known'
  BY <1>0, <1>1 DEF TypeOK, Known
<1>5. Unsent'
  BY <1>0, <1>1 DEF TypeOK, Unsent
<1>6. CancelledFor'
  BY <1>0, <1>1 DEF TypeOK, Place, CancelledFor
<1>7. OneEncode'
  BY <1>0, <1>1 DEF TypeOK, OneEncode
<1>8. Quiet'
  BY <1>0 DEF Quiet
<1>9. ASSUME NEW m \in cleared, HoldWanted(m)'
      PROVE  ClearedAt(m)'
  <2>0. ClearedAt(m)
    BY <1>0 DEF Cleared
  <2>1. row'.worker = row.worker /\ row'.attempt = row.attempt /\ row.status = "active"
    BY <1>0 DEF TypeOK, Place
  <2>2. row'.worker = m /\ row'.status = "active" => pc' \notin {"admit", "answer"} /\ ~row'.reconcile
    BY <1>0, <2>0, <2>1 DEF ClearedAt, TypeOK, Place, Flags
  <2>3. ASSUME NEW a \in Attempts \ lateSubmits', job'[m][a] \in Encoding \cup Waiting
        PROVE  <<m, a>> = Mine' /\ (row'.status = "cancelled" \/ (job'[m][a] = "queued" /\ m \in hold'))
    BY <1>0, <1>7, <2>0, <2>1, <2>3 DEF ClearedAt, TypeOK, Place, OneEncode
  <2> QED BY <1>9, <2>2, <2>3 DEF ClearedAt
<1> QED BY <1>1, <1>2, <1>3, <1>4, <1>5, <1>6, <1>7, <1>8, <1>9, ClearedKept DEF IInv

LEMMA ReconcileKeeps ==
  ASSUME IInv, Reconcile, Observes
  PROVE  IInv'
<1> USE NodesAssumption, BoundsAssumption DEF Reconcile, RowOK, Rows, Fresh, Attempts, Sent
<1>0. /\ TypeOK /\ Place /\ Flags /\ Known /\ Unsent /\ CancelledFor /\ Quiet /\ OneEncode
      /\ Cleared
  BY DEF IInv
<1>a. cleared' \subseteq Nodes
  BY DEF Observes
<1>1. TypeOK'
  <2>1. RowOK'
    <3> HIDE NodesAssumption, BoundsAssumption DEF Places, operator, nodes, holds, history
    <3>0. RowOK
      BY <1>0 DEF TypeOK
    <3>1. CASE MyJob = "none"
      BY <3>0, <3>1
    <3>2. CASE MyJob # "none"
      <4> DEFINE waits == MyJob \in Waiting
      <4>1. waits \in BOOLEAN
        OBVIOUS
      <4>2. row' = [row EXCEPT !.submitted = TRUE, !.reconcile = FALSE, !.queued = waits]
        BY <3>2
      <4> HIDE DEF waits
      <4> QED BY <1>0, <3>0, <4>1, <4>2
    <3> QED BY <3>1, <3>2
  <2>2. row.attempt \in Attempts
    BY <1>0 DEF TypeOK
  <2> QED BY <1>0, <1>a, <2>1, <2>2, TypesKept DEF TypeOK
<1>b. /\ row'.worker = row.worker /\ row'.attempt = row.attempt /\ row'.named = row.named
      /\ row'.moving = row.moving /\ row'.status = row.status /\ row'.rejected = row.rejected
      /\ row'.held = row.held
  BY <1>0 DEF TypeOK, Place, Flags
<1>2. Place'
  BY <1>0, <1>1, <1>b DEF TypeOK, Flags, Place
<1>3. Flags'
  <2>1. CASE MyJob = "none"
    BY <2>1, <1>0, <1>b DEF TypeOK, Flags
  <2>2. CASE MyJob # "none"
    BY <2>2, <1>0, <1>b DEF TypeOK, Flags
  <2> QED BY <2>1, <2>2
<1>4. Known'
  BY <1>0, <1>1, <1>b DEF TypeOK, Known
<1>5. Unsent'
  BY <1>0, <1>1, <1>b DEF TypeOK, Unsent
<1>6. CancelledFor'
  BY <1>0, <1>1, <1>b DEF TypeOK, CancelledFor
<1>7. OneEncode'
  BY <1>0, <1>1, <1>b DEF TypeOK, Place, Flags, Known, OneEncode
<1>8. Quiet'
  BY <1>0 DEF Quiet
<1>9. ASSUME NEW m \in cleared, HoldWanted(m)'
      PROVE  ClearedAt(m)'
  <2>0. ClearedAt(m)
    BY <1>0 DEF Cleared
  <2>1. row.worker # m /\ row'.worker # m
    BY <1>0, <1>b, <2>0 DEF ClearedAt, Place
  <2>2. ASSUME NEW b \in Attempts, job[m][b] \in Encoding \cup Waiting  PROVE b # row.attempt
    BY <1>0, <2>1, <2>2 DEF TypeOK, Known
  <2> QED BY <1>0, <1>9, <1>b, <2>0, <2>1, <2>2 DEF ClearedAt, TypeOK
<1> QED BY <1>1, <1>2, <1>3, <1>4, <1>5, <1>6, <1>7, <1>8, <1>9, ClearedKept DEF IInv

LEMMA AdmissionKeeps ==
  ASSUME IInv, Admission, Observes
  PROVE  IInv'
<1> USE NodesAssumption, BoundsAssumption DEF Admission, AtGate, RowOK, Rows, Fresh, Attempts,
    Sent
<1>0. /\ TypeOK /\ Place /\ Flags /\ Known /\ Unsent /\ CancelledFor /\ Quiet /\ OneEncode
      /\ Cleared
  BY DEF IInv
<1>a. cleared' \subseteq Nodes
  BY DEF Observes
<1>1. TypeOK'
  <2>1. RowOK'
    <3> HIDE NodesAssumption, BoundsAssumption DEF Places, operator, nodes, holds, history
    <3>0. RowOK
      BY <1>0 DEF TypeOK
    <3>1. CASE drain \/ Paused(row.worker)
      <4>1. row' = [row EXCEPT !.reconcile = FALSE, !.held = TRUE]
        BY <3>1
      <4> QED BY <3>0, <4>1
    <3>2. CASE ~(drain \/ Paused(row.worker))
      BY <3>0, <3>2
    <3> QED BY <3>1, <3>2
  <2> QED BY <1>0, <1>a, <2>1, TypesKept DEF TypeOK
<1>b. /\ row'.worker = row.worker /\ row'.attempt = row.attempt /\ row'.named = row.named
      /\ row'.submitted = row.submitted /\ row'.moving = row.moving /\ row'.status = row.status
  BY <1>0 DEF TypeOK, Place, Flags
<1>2. Place'
  BY <1>0, <1>1, <1>b DEF TypeOK, Place
<1>3. Flags'
  BY <1>0, <1>1, <1>b DEF TypeOK, Place, Flags
<1>4. Known'
  BY <1>0, <1>1, <1>b DEF TypeOK, Known
<1>5. Unsent'
  BY <1>0, <1>1, <1>b DEF TypeOK, Place, Unsent
<1>6. CancelledFor'
  BY <1>0, <1>1, <1>b DEF TypeOK, CancelledFor
<1>7. OneEncode'
  BY <1>0, <1>1, <1>b DEF TypeOK, OneEncode
<1>8. Quiet'
  BY <1>0 DEF Quiet
<1>9. ASSUME NEW m \in cleared, HoldWanted(m)'
      PROVE  ClearedAt(m)'
  <2>0. ClearedAt(m)
    BY <1>0 DEF Cleared
  <2>1. row'.worker = m => pc' = "idle" /\ ~row'.reconcile
    <3> SUFFICES ASSUME row'.worker = m PROVE pc' = "idle" /\ ~row'.reconcile
      OBVIOUS
    <3>1. drain \/ Paused(row.worker)
      BY <1>9, <1>b DEF HoldWanted, Paused, operator
    <3>2. pc' = "idle" /\ row' = [row EXCEPT !.reconcile = FALSE, !.held = TRUE]
      BY <3>1 DEF Saves
    <3>3. row \in Rows
      BY <1>0 DEF TypeOK
    <3> QED BY <3>2, <3>3
  <2>2. UNCHANGED <<job, hold, lateSubmits>> /\ Mine' = Mine
    BY <1>b DEF nodes, holds, history, Mine
  <2> HIDE DEF Admission, AtGate, RowOK, Rows, Fresh, Attempts, Sent
  <2> QED BY <1>9, <1>b, <2>0, <2>1, <2>2 DEF ClearedAt
<1> QED BY <1>1, <1>2, <1>3, <1>4, <1>5, <1>6, <1>7, <1>8, <1>9, ClearedKept DEF IInv

LEMMA SubmitKeeps ==
  ASSUME IInv, Submit, Observes
  PROVE  IInv'
<1> USE NodesAssumption, BoundsAssumption DEF Submit, RowOK, Rows, Fresh, Attempts, Sent
<1>0. /\ TypeOK /\ Place /\ Flags /\ Known /\ Unsent /\ CancelledFor /\ Quiet /\ OneEncode
      /\ Cleared
  BY DEF IInv
<1>a. cleared' \subseteq Nodes
  BY DEF Observes
<1>1. TypeOK'
  <2>1. RowOK'
    BY <1>0 DEF TypeOK, Place, Flags
  <2>2. job' \in [Nodes -> [Attempts -> {"none"} \cup Live \cup Ended]]
    BY <1>0 DEF TypeOK, Place, Flags
  <2>3. submits' \subseteq Nodes \X Attempts /\ cancels' \subseteq Nodes \X Attempts
    BY <1>0 DEF TypeOK, Place, Flags
  <2>4. calls' \in 0..MaxCalls /\ faults' \in 0..MaxFaults
    BY <1>0 DEF TypeOK, Place, Flags
  <2>5. /\ drain' \in BOOLEAN /\ pause' \in [Nodes -> {"no", "graceful", "immediate"}]
       /\ pc' \in Places /\ swept' \in BOOLEAN /\ hold' \subseteq Nodes /\ quiet' \subseteq
           Nodes
       /\ lateSubmits' \subseteq Attempts /\ lateCancels' \subseteq Attempts
    BY <1>0 DEF TypeOK, Place, Flags
  <2> QED BY <1>a, <2>1, <2>2, <2>3, <2>4, <2>5 DEF TypeOK
<1>2. Place'
  BY <1>0, <1>1 DEF TypeOK, Place
<1>3. Flags'
  BY <1>0, <1>1 DEF TypeOK, Place, Flags
<1>4. Known'
  BY <1>0, <1>1 DEF TypeOK, Known
<1>5. Unsent'
  BY <1>0, <1>1 DEF TypeOK, Unsent
<1>6. CancelledFor'
  BY <1>0, <1>1 DEF TypeOK, Place, Flags, Known, CancelledFor
<1>7. OneEncode'
  BY <1>0, <1>1 DEF TypeOK, OneEncode
<1>8. Quiet'
  BY <1>0 DEF Quiet
<1>9. ASSUME NEW m \in cleared, HoldWanted(m)'
      PROVE  ClearedAt(m)'
  BY <1>0, <1>9, <1>1, <1>7 DEF TypeOK, Cleared, ClearedAt, OneEncode
<1> QED BY <1>1, <1>2, <1>3, <1>4, <1>5, <1>6, <1>7, <1>8, <1>9, ClearedKept DEF IInv

LEMMA AcceptedKeeps ==
  ASSUME IInv, Accepted, Observes
  PROVE  IInv'
<1> USE NodesAssumption, BoundsAssumption DEF Accepted, RowOK, Rows, Fresh, Attempts, Sent
<1>0. /\ TypeOK /\ Place /\ Flags /\ Known /\ Unsent /\ CancelledFor /\ Quiet /\ OneEncode
      /\ Cleared
  BY DEF IInv
<1>a. cleared' \subseteq Nodes
  BY DEF Observes
<1>1. TypeOK'
  <2>1. RowOK'
    BY <1>0 DEF TypeOK, Place, Flags
  <2> QED BY <1>0, <1>a, <2>1, TypesKept DEF TypeOK
<1>2. Place'
  BY <1>0, <1>1 DEF TypeOK, Place
<1>3. Flags'
  BY <1>0, <1>1 DEF TypeOK, Place, Flags
<1>4. Known'
  BY <1>0, <1>1 DEF TypeOK, Known
<1>5. Unsent'
  BY <1>0, <1>1 DEF TypeOK, Unsent
<1>6. CancelledFor'
  BY <1>0, <1>1 DEF TypeOK, CancelledFor
<1>7. OneEncode'
  BY <1>0, <1>1 DEF TypeOK, Place, Flags, Known, OneEncode
<1>8. Quiet'
  BY <1>0 DEF Quiet
<1>9. ASSUME NEW m \in cleared, HoldWanted(m)'
      PROVE  ClearedAt(m)'
  <2>0. ClearedAt(m)
    BY <1>0 DEF Cleared
  <2>1. row'.worker = row.worker /\ row'.attempt = row.attempt /\ row.status = "active"
    BY <1>0 DEF TypeOK, Place
  <2>2. row'.worker = m /\ row'.status = "active" => pc' \notin {"admit", "answer"} /\ ~row'.reconcile
    BY <1>0, <2>0, <2>1 DEF ClearedAt, TypeOK, Place, Flags
  <2>3. ASSUME NEW a \in Attempts \ lateSubmits', job'[m][a] \in Encoding \cup Waiting
        PROVE  <<m, a>> = Mine' /\ (row'.status = "cancelled" \/ (job'[m][a] = "queued" /\ m \in hold'))
    BY <1>0, <1>7, <2>0, <2>1, <2>3 DEF ClearedAt, TypeOK, Place, OneEncode
  <2> QED BY <1>9, <2>2, <2>3 DEF ClearedAt
<1> QED BY <1>1, <1>2, <1>3, <1>4, <1>5, <1>6, <1>7, <1>8, <1>9, ClearedKept DEF IInv

LEMMA UnansweredKeeps ==
  ASSUME IInv, Unanswered, Observes
  PROVE  IInv'
<1> USE NodesAssumption, BoundsAssumption DEF Unanswered, RowOK, Rows, Fresh, Attempts, Sent
<1>0. /\ TypeOK /\ Place /\ Flags /\ Known /\ Unsent /\ CancelledFor /\ Quiet /\ OneEncode
      /\ Cleared
  BY DEF IInv
<1>a. cleared' \subseteq Nodes
  BY DEF Observes
<1>1. TypeOK'
  BY <1>0, <1>a DEF TypeOK, Place, Flags
<1>2. Place'
  BY <1>0, <1>1 DEF TypeOK, Place
<1>3. Known'
  BY <1>0, <1>1 DEF TypeOK, Known
<1>4. Unsent'
  BY <1>0, <1>1 DEF TypeOK, Unsent
<1>5. OneEncode'
  BY <1>0, <1>1 DEF TypeOK, OneEncode
<1>6. (Flags /\ CancelledFor /\ Quiet)'
  BY <1>0 DEF Flags, CancelledFor, Quiet
<1>7. ASSUME NEW m \in cleared, HoldWanted(m)'
      PROVE  ClearedAt(m)'
  BY <1>0, <1>7, <1>1, <1>5 DEF TypeOK, Cleared, ClearedAt, OneEncode
<1> QED BY <1>1, <1>2, <1>3, <1>4, <1>5, <1>6, <1>7, ClearedKept DEF IInv

LEMMA RefusedKeeps ==
  ASSUME IInv, Refused, Observes
  PROVE  IInv'
<1> USE NodesAssumption, BoundsAssumption DEF Refused, RowOK, Rows, Fresh, Attempts, Sent
<1>0. /\ TypeOK /\ Place /\ Flags /\ Known /\ Unsent /\ CancelledFor /\ Quiet /\ OneEncode
      /\ Cleared
  BY DEF IInv
<1>a. cleared' \subseteq Nodes
  BY DEF Observes
<1>1. TypeOK'
  <2>1. RowOK'
    BY <1>0 DEF TypeOK, Place, Flags
  <2>2. job' \in [Nodes -> [Attempts -> {"none"} \cup Live \cup Ended]]
    BY <1>0 DEF TypeOK, Place, Flags
  <2>3. submits' \subseteq Nodes \X Attempts /\ cancels' \subseteq Nodes \X Attempts
    BY <1>0 DEF TypeOK, Place, Flags
  <2>4. calls' \in 0..MaxCalls /\ faults' \in 0..MaxFaults
    BY <1>0 DEF TypeOK, Place, Flags
  <2>5. /\ drain' \in BOOLEAN /\ pause' \in [Nodes -> {"no", "graceful", "immediate"}]
       /\ pc' \in Places /\ swept' \in BOOLEAN /\ hold' \subseteq Nodes /\ quiet' \subseteq
           Nodes
       /\ lateSubmits' \subseteq Attempts /\ lateCancels' \subseteq Attempts
    BY <1>0 DEF TypeOK, Place, Flags
  <2> QED BY <1>a, <2>1, <2>2, <2>3, <2>4, <2>5 DEF TypeOK
<1>2. Place'
  BY <1>0, <1>1 DEF TypeOK, Place
<1>3. Flags'
  BY <1>0, <1>1 DEF TypeOK, Place, Flags
<1>4. Known'
  BY <1>0, <1>1 DEF TypeOK, Known
<1>5. Unsent'
  BY <1>0, <1>1 DEF TypeOK, Unsent
<1>6. CancelledFor'
  BY <1>0, <1>1 DEF TypeOK, Place, CancelledFor
<1>7. OneEncode'
  BY <1>0, <1>1 DEF TypeOK, OneEncode
<1>8. Quiet'
  BY <1>0 DEF Quiet
<1>9. ASSUME NEW m \in cleared, HoldWanted(m)'
      PROVE  ClearedAt(m)'
  BY <1>0, <1>9, <1>1, <1>7 DEF TypeOK, Cleared, ClearedAt, OneEncode
<1> QED BY <1>1, <1>2, <1>3, <1>4, <1>5, <1>6, <1>7, <1>8, <1>9, ClearedKept DEF IInv

LEMMA UnreachableKeeps ==
  ASSUME IInv, Unreachable, Observes
  PROVE  IInv'
<1> USE NodesAssumption, BoundsAssumption DEF Unreachable, RowOK, Rows, Fresh, Attempts, Sent
<1>0. /\ TypeOK /\ Place /\ Flags /\ Known /\ Unsent /\ CancelledFor /\ Quiet /\ OneEncode
      /\ Cleared
  BY DEF IInv
<1>a. cleared' \subseteq Nodes
  BY DEF Observes
<1>1. TypeOK'
  BY <1>0, <1>a DEF TypeOK, Place, Flags
<1>2. Place'
  BY <1>0, <1>1 DEF TypeOK, Place
<1>3. (Flags /\ Known /\ Unsent /\ CancelledFor /\ Quiet /\ OneEncode)'
  BY <1>0 DEF Flags, Known, Unsent, CancelledFor, Quiet, OneEncode
<1>4. ASSUME NEW m \in cleared, HoldWanted(m)'
      PROVE  ClearedAt(m)'
  BY <1>0, <1>4, <1>1, <1>3 DEF TypeOK, Cleared, ClearedAt, OneEncode
<1> QED BY <1>1, <1>2, <1>3, <1>4, ClearedKept DEF IInv

-----------------------------------------------------------------------------
(* The sweep and the completion of a move *)

LEMMA SweepListsKeeps ==
  ASSUME IInv, SweepLists, Observes
  PROVE  IInv'
<1> USE NodesAssumption, BoundsAssumption DEF SweepLists, RowOK, Rows, Fresh, Attempts, Sent
<1>0. /\ TypeOK /\ Place /\ Flags /\ Known /\ Unsent /\ CancelledFor /\ Quiet /\ OneEncode
      /\ Cleared
  BY DEF IInv
<1>a. cleared' \subseteq Nodes
  BY DEF Observes
<1>1. TypeOK'
  BY <1>0, <1>a DEF TypeOK, Place, Flags
<1>2. (Place /\ Flags /\ Known /\ Unsent /\ CancelledFor /\ Quiet /\ OneEncode)'
  BY <1>0 DEF Place, Flags, Known, Unsent, CancelledFor, Quiet, OneEncode
<1>3. ASSUME NEW m \in cleared, HoldWanted(m)'
      PROVE  ClearedAt(m)'
  BY <1>0, <1>3, <1>1, <1>2 DEF TypeOK, Cleared, ClearedAt, OneEncode
<1> QED BY <1>1, <1>2, <1>3, ClearedKept DEF IInv

LEMMA SweepClaimsKeeps ==
  ASSUME IInv, SweepClaims, Observes
  PROVE  IInv'
<1> USE NodesAssumption, BoundsAssumption DEF SweepClaims, RowOK, Rows, Fresh, Attempts, Sent
<1>0. /\ TypeOK /\ Place /\ Flags /\ Known /\ Unsent /\ CancelledFor /\ Quiet /\ OneEncode
      /\ Cleared
  BY DEF IInv
<1>a. cleared' \subseteq Nodes
  BY DEF Observes
<1>1. TypeOK'
  BY <1>0, <1>a DEF TypeOK, Place, Flags
<1>2. Place'
  BY <1>0, <1>1 DEF TypeOK, Place
<1>3. (Flags /\ Known /\ Unsent /\ CancelledFor /\ Quiet /\ OneEncode)'
  BY <1>0 DEF Flags, Known, Unsent, CancelledFor, Quiet, OneEncode
<1>4. ASSUME NEW m \in cleared, HoldWanted(m)'
      PROVE  ClearedAt(m)'
  BY <1>0, <1>4, <1>1, <1>3 DEF TypeOK, Cleared, ClearedAt, OneEncode
<1> QED BY <1>1, <1>2, <1>3, <1>4, ClearedKept DEF IInv

LEMMA ReleaseKeeps ==
  ASSUME IInv, Release, Observes
  PROVE  IInv'
<1> USE NodesAssumption, BoundsAssumption DEF Release, Gone, Denied, Reset, RowOK, Rows,
    Fresh, Attempts, Sent
<1>0. /\ TypeOK /\ Place /\ Flags /\ Known /\ Unsent /\ CancelledFor /\ Quiet /\ OneEncode
      /\ Cleared
  BY DEF IInv
<1>a. cleared' \subseteq Nodes
  BY DEF Observes
<1>1. TypeOK'
  <2>1. RowOK'
      <3>1. ASSUME NEW b \in Attempts, row' = Fresh(b)  PROVE RowOK'
        BY <3>1
      <3>2. CASE row' = row  BY <3>2, <1>0 DEF TypeOK
      <3>3. row' = row \/ \E b \in Attempts : row' = Fresh(b)
        BY <1>0 DEF TypeOK
      <3> QED BY <3>1, <3>2, <3>3
  <2>2. job' \in [Nodes -> [Attempts -> {"none"} \cup Live \cup Ended]]
    BY <1>0 DEF TypeOK, Place, Flags
  <2>3. submits' \subseteq Nodes \X Attempts /\ cancels' \subseteq Nodes \X Attempts
    BY <1>0 DEF TypeOK, Place, Flags
  <2>4. calls' \in 0..MaxCalls /\ faults' \in 0..MaxFaults
    BY <1>0 DEF TypeOK, Place, Flags
  <2>5. /\ drain' \in BOOLEAN /\ pause' \in [Nodes -> {"no", "graceful", "immediate"}]
       /\ pc' \in Places /\ swept' \in BOOLEAN /\ hold' \subseteq Nodes /\ quiet' \subseteq
           Nodes
       /\ lateSubmits' \subseteq Attempts /\ lateCancels' \subseteq Attempts
    BY <1>0 DEF TypeOK, Place, Flags
  <2> QED BY <1>a, <2>1, <2>2, <2>3, <2>4, <2>5 DEF TypeOK
<1>2. Place'
  BY <1>0, <1>1 DEF TypeOK, Place
<1>3. Flags'
  BY <1>0, <1>1 DEF TypeOK, Flags
<1>4. Known'
  BY <1>0, <1>1 DEF TypeOK, Known
<1>5. Unsent'
  BY <1>0, <1>1 DEF TypeOK, Unsent
<1>6. CancelledFor'
  BY <1>0, <1>1 DEF TypeOK, CancelledFor
<1>7. OneEncode'
  <2>1. ASSUME NEW n \in Nodes, NEW a \in Attempts \ lateSubmits,
               job[n][a] \in Live \/ (job[n][a] = "none" /\ <<n, a>> \in submits)
        PROVE FALSE
    BY <1>0, <2>1 DEF TypeOK, Place, Flags, Unsent, OneEncode
  <2> QED BY <2>1, <1>0 DEF OneEncode
<1>8. Quiet'
  BY <1>0 DEF Quiet
<1>9. ASSUME NEW m \in cleared, HoldWanted(m)'
      PROVE  ClearedAt(m)'
  BY <1>0, <1>9, <1>1, <1>7 DEF TypeOK, Cleared, ClearedAt, Flags, Known, Unsent, OneEncode
<1> QED BY <1>1, <1>2, <1>3, <1>4, <1>5, <1>6, <1>7, <1>8, <1>9, ClearedKept DEF IInv

LEMMA KeepKeeps ==
  ASSUME IInv, Keep, Observes
  PROVE  IInv'
<1> USE NodesAssumption, BoundsAssumption DEF Keep, Gone, Denied, ToCancel, Immediate, RowOK,
    Rows, Fresh, Attempts, Sent
<1>0. /\ TypeOK /\ Place /\ Flags /\ Known /\ Unsent /\ CancelledFor /\ Quiet /\ OneEncode
      /\ Cleared
  BY DEF IInv
<1>a. cleared' \subseteq Nodes
  BY DEF Observes
<1>1. TypeOK'
  BY <1>0, <1>a DEF TypeOK, Place, Flags
<1>2. Place'
  BY <1>0, <1>1 DEF TypeOK, Place
<1>3. Flags'
  BY <1>0, <1>1 DEF TypeOK, Flags
<1>4. Known'
  BY <1>0, <1>1 DEF TypeOK, Known
<1>5. Unsent'
  BY <1>0, <1>1 DEF TypeOK, Unsent
<1>6. CancelledFor'
  BY <1>0, <1>1 DEF TypeOK, CancelledFor
<1>7. OneEncode'
  BY <1>0, <1>1 DEF TypeOK, OneEncode
<1>8. Quiet'
  BY <1>0 DEF Quiet
<1>9. ASSUME NEW m \in cleared, HoldWanted(m)'
      PROVE  ClearedAt(m)'
  BY <1>0, <1>9, <1>1, <1>7 DEF TypeOK, Cleared, ClearedAt, OneEncode
<1> QED BY <1>1, <1>2, <1>3, <1>4, <1>5, <1>6, <1>7, <1>8, <1>9, ClearedKept DEF IInv

LEMMA MoveKeeps ==
  ASSUME IInv, Move, Observes
  PROVE  IInv'
<1> USE NodesAssumption, BoundsAssumption DEF Move, ToCancel, Immediate, RowOK, Rows, Fresh,
    Attempts, Sent
<1>0. /\ TypeOK /\ Place /\ Flags /\ Known /\ Unsent /\ CancelledFor /\ Quiet /\ OneEncode
      /\ Cleared
  BY DEF IInv
<1>a. cleared' \subseteq Nodes
  BY DEF Observes
<1>1. TypeOK'
  <2>1. RowOK'
    BY <1>0 DEF TypeOK, Place, Flags
  <2>2. job' \in [Nodes -> [Attempts -> {"none"} \cup Live \cup Ended]]
    BY <1>0 DEF TypeOK, Place, Flags
  <2>3. submits' \subseteq Nodes \X Attempts /\ cancels' \subseteq Nodes \X Attempts
    BY <1>0 DEF TypeOK, Place, Flags
  <2>4. calls' \in 0..MaxCalls /\ faults' \in 0..MaxFaults
    BY <1>0 DEF TypeOK, Place, Flags
  <2>5. /\ drain' \in BOOLEAN /\ pause' \in [Nodes -> {"no", "graceful", "immediate"}]
       /\ pc' \in Places /\ swept' \in BOOLEAN /\ hold' \subseteq Nodes /\ quiet' \subseteq
           Nodes
       /\ lateSubmits' \subseteq Attempts /\ lateCancels' \subseteq Attempts
    BY <1>0 DEF TypeOK, Place, Flags
  <2> QED BY <1>a, <2>1, <2>2, <2>3, <2>4, <2>5 DEF TypeOK
<1>2. Place'
  BY <1>0, <1>1 DEF TypeOK, Place
<1>3. Flags'
  BY <1>0, <1>1 DEF TypeOK, Place, Flags
<1>4. Known'
  BY <1>0, <1>1 DEF TypeOK, Known
<1>5. Unsent'
  BY <1>0, <1>1 DEF TypeOK, Unsent
<1>6. CancelledFor'
  BY <1>0, <1>1 DEF TypeOK, CancelledFor
<1>7. OneEncode'
  BY <1>0, <1>1 DEF TypeOK, OneEncode
<1>8. Quiet'
  BY <1>0 DEF Quiet
<1>9. ASSUME NEW m \in cleared, HoldWanted(m)'
      PROVE  ClearedAt(m)'
  BY <1>0, <1>9, <1>1, <1>7 DEF TypeOK, Cleared, ClearedAt, OneEncode
<1> QED BY <1>1, <1>2, <1>3, <1>4, <1>5, <1>6, <1>7, <1>8, <1>9, ClearedKept DEF IInv

LEMMA ConfirmedKeeps ==
  ASSUME IInv, Confirmed, Observes
  PROVE  IInv'
<1> USE NodesAssumption, BoundsAssumption DEF Confirmed, Reset, RowOK, Rows, Fresh, Attempts,
    Sent
<1>0. /\ TypeOK /\ Place /\ Flags /\ Known /\ Unsent /\ CancelledFor /\ Quiet /\ OneEncode
      /\ Cleared
  BY DEF IInv
<1>a. cleared' \subseteq Nodes
  BY DEF Observes
<1>1. TypeOK'
  <2>1. RowOK'
      <3>1. ASSUME NEW b \in Attempts, row' = Fresh(b)  PROVE RowOK'
        BY <3>1
      <3>2. CASE row' = row  BY <3>2, <1>0 DEF TypeOK
      <3>3. row' = row \/ \E b \in Attempts : row' = Fresh(b)
        BY <1>0 DEF TypeOK
      <3> QED BY <3>1, <3>2, <3>3
  <2>2. job' \in [Nodes -> [Attempts -> {"none"} \cup Live \cup Ended]]
    BY <1>0 DEF TypeOK, Place, Flags
  <2>3. submits' \subseteq Nodes \X Attempts /\ cancels' \subseteq Nodes \X Attempts
    BY <1>0 DEF TypeOK, Place, Flags
  <2>4. calls' \in 0..MaxCalls /\ faults' \in 0..MaxFaults
    BY <1>0 DEF TypeOK, Place, Flags
  <2>5. /\ drain' \in BOOLEAN /\ pause' \in [Nodes -> {"no", "graceful", "immediate"}]
       /\ pc' \in Places /\ swept' \in BOOLEAN /\ hold' \subseteq Nodes /\ quiet' \subseteq
           Nodes
       /\ lateSubmits' \subseteq Attempts /\ lateCancels' \subseteq Attempts
    BY <1>0 DEF TypeOK, Place, Flags
  <2> QED BY <1>a, <2>1, <2>2, <2>3, <2>4, <2>5 DEF TypeOK
<1>2. Place'
  BY <1>0, <1>1 DEF TypeOK, Place
<1>3. Flags'
  BY <1>0, <1>1 DEF TypeOK, Flags
<1>4. Known'
  BY <1>0, <1>1 DEF TypeOK, Known
<1>5. Unsent'
  BY <1>0, <1>1 DEF TypeOK, Unsent
<1>6. CancelledFor'
  <2>1. CASE row' = row
    BY <2>1, <1>0 DEF CancelledFor
  <2>2. CASE row' # row
    <3>1. ~row'.named
      BY <2>2, <1>0, <1>1 DEF TypeOK
    <3> QED BY <3>1 DEF CancelledFor
  <2> QED BY <2>1, <2>2
<1>7. OneEncode'
  BY <1>0, <1>1 DEF TypeOK, OneEncode
<1>8. Quiet'
  BY <1>0 DEF Quiet
<1>9. ASSUME NEW m \in cleared, HoldWanted(m)'
      PROVE  ClearedAt(m)'
  BY <1>0, <1>9, <1>1, <1>7 DEF TypeOK, Cleared, ClearedAt, OneEncode
<1> QED BY <1>1, <1>2, <1>3, <1>4, <1>5, <1>6, <1>7, <1>8, <1>9, ClearedKept DEF IInv

LEMMA UnconfirmedKeeps ==
  ASSUME IInv, Unconfirmed, Observes
  PROVE  IInv'
<1> USE NodesAssumption, BoundsAssumption DEF Unconfirmed, RowOK, Rows, Fresh, Attempts, Sent
<1>0. /\ TypeOK /\ Place /\ Flags /\ Known /\ Unsent /\ CancelledFor /\ Quiet /\ OneEncode
      /\ Cleared
  BY DEF IInv
<1>a. cleared' \subseteq Nodes
  BY DEF Observes
<1>1. TypeOK'
  BY <1>0, <1>a DEF TypeOK, Place, Flags
<1>2. Place'
  BY <1>0, <1>1 DEF TypeOK, Place
<1>3. Known'
  BY <1>0, <1>1 DEF TypeOK, Known
<1>4. CancelledFor'
  BY <1>0, <1>1 DEF TypeOK, CancelledFor
<1>5. (Flags /\ Unsent /\ Quiet /\ OneEncode)'
  BY <1>0 DEF Flags, Unsent, Quiet, OneEncode
<1>6. ASSUME NEW m \in cleared, HoldWanted(m)'
      PROVE  ClearedAt(m)'
  BY <1>0, <1>6, <1>1, <1>5 DEF TypeOK, Cleared, ClearedAt, OneEncode
<1> QED BY <1>1, <1>2, <1>3, <1>4, <1>5, <1>6, ClearedKept DEF IInv

-----------------------------------------------------------------------------
(* The operator *)

LEMMA SetDrainKeeps ==
  ASSUME IInv, SetDrain, Observes
  PROVE  IInv'
<1> USE NodesAssumption, BoundsAssumption DEF SetDrain, RowOK, Rows, Fresh, Attempts, Sent
<1>0. /\ TypeOK /\ Place /\ Flags /\ Known /\ Unsent /\ CancelledFor /\ Quiet /\ OneEncode
      /\ Cleared
  BY DEF IInv
<1>a. cleared' \subseteq Nodes
  BY DEF Observes
<1>1. TypeOK'
  BY <1>0, <1>a DEF TypeOK, Place, Flags
<1>2. (Place /\ Flags /\ Known /\ Unsent /\ CancelledFor /\ Quiet /\ OneEncode)'
  BY <1>0 DEF Place, Flags, Known, Unsent, CancelledFor, Quiet, OneEncode
<1>3. ASSUME NEW m \in cleared, HoldWanted(m)'
      PROVE  ClearedAt(m)'
  BY <1>0, <1>3, <1>1, <1>2 DEF TypeOK, Cleared, ClearedAt, OneEncode
<1> QED BY <1>1, <1>2, <1>3, ClearedKept DEF IInv

LEMMA SetPauseKeeps ==
  ASSUME NEW n \in Nodes, NEW mode \in {"no", "graceful", "immediate"}, IInv, SetPause(n,
      mode), Observes
  PROVE  IInv'
<1> USE NodesAssumption, BoundsAssumption DEF SetPause, RowOK, Rows, Fresh, Attempts, Sent
<1>0. /\ TypeOK /\ Place /\ Flags /\ Known /\ Unsent /\ CancelledFor /\ Quiet /\ OneEncode
      /\ Cleared
  BY DEF IInv
<1>a. cleared' \subseteq Nodes
  BY DEF Observes
<1>1. TypeOK'
  BY <1>0, <1>a DEF TypeOK, Place, Flags
<1>2. (Place /\ Flags /\ Known /\ Unsent /\ CancelledFor /\ Quiet /\ OneEncode)'
  BY <1>0 DEF Place, Flags, Known, Unsent, CancelledFor, Quiet, OneEncode
<1>3. ASSUME NEW m \in cleared, HoldWanted(m)'
      PROVE  ClearedAt(m)'
  BY <1>0, <1>3, <1>1, <1>2 DEF TypeOK, Cleared, ClearedAt, OneEncode
<1> QED BY <1>1, <1>2, <1>3, ClearedKept DEF IInv

LEMMA CancelKeeps ==
  ASSUME IInv, Cancel, Observes
  PROVE  IInv'
<1> USE NodesAssumption, BoundsAssumption DEF Cancel, RowOK, Rows, Fresh, Attempts, Sent
<1>0. /\ TypeOK /\ Place /\ Flags /\ Known /\ Unsent /\ CancelledFor /\ Quiet /\ OneEncode
      /\ Cleared
  BY DEF IInv
<1>a. cleared' \subseteq Nodes
  BY DEF Observes
<1>1. TypeOK'
  <2>1. RowOK'
    BY <1>0 DEF TypeOK, Place, Flags
  <2>2. job' \in [Nodes -> [Attempts -> {"none"} \cup Live \cup Ended]]
    BY <1>0 DEF TypeOK, Place, Flags
  <2>3. submits' \subseteq Nodes \X Attempts /\ cancels' \subseteq Nodes \X Attempts
    BY <1>0 DEF TypeOK, Place, Flags
  <2>4. calls' \in 0..MaxCalls /\ faults' \in 0..MaxFaults
    BY <1>0 DEF TypeOK, Place, Flags
  <2>5. /\ drain' \in BOOLEAN /\ pause' \in [Nodes -> {"no", "graceful", "immediate"}]
       /\ pc' \in Places /\ swept' \in BOOLEAN /\ hold' \subseteq Nodes /\ quiet' \subseteq
           Nodes
       /\ lateSubmits' \subseteq Attempts /\ lateCancels' \subseteq Attempts
    BY <1>0 DEF TypeOK, Place, Flags
  <2> QED BY <1>a, <2>1, <2>2, <2>3, <2>4, <2>5 DEF TypeOK
<1>2. Place'
  BY <1>0, <1>1 DEF TypeOK, Place
<1>3. Flags'
  BY <1>0, <1>1 DEF TypeOK, Flags
<1>4. Known'
  BY <1>0, <1>1 DEF TypeOK, Known
<1>5. Unsent'
  BY <1>0, <1>1 DEF TypeOK, Unsent
<1>6. CancelledFor'
  BY <1>0, <1>1 DEF TypeOK, CancelledFor
<1>7. OneEncode'
  BY <1>0, <1>1 DEF TypeOK, OneEncode
<1>8. Quiet'
  BY <1>0 DEF Quiet
<1>9. ASSUME NEW m \in cleared, HoldWanted(m)'
      PROVE  ClearedAt(m)'
  BY <1>0, <1>9, <1>1, <1>7 DEF TypeOK, Cleared, ClearedAt, OneEncode
<1> QED BY <1>1, <1>2, <1>3, <1>4, <1>5, <1>6, <1>7, <1>8, <1>9, ClearedKept DEF IInv

-----------------------------------------------------------------------------
(* The nodes *)

LEMMA SubmitArrivesKeeps ==
  ASSUME NEW n \in Nodes, NEW a \in Attempts, IInv, SubmitArrives(n, a), Observes
  PROVE  IInv'
<1> USE NodesAssumption, BoundsAssumption DEF SubmitArrives, RowOK, Rows, Fresh, Attempts, Sent
<1>0. /\ TypeOK /\ Place /\ Flags /\ Known /\ Unsent /\ CancelledFor /\ Quiet /\ OneEncode
      /\ Cleared
  BY DEF IInv
<1>a. cleared' \subseteq Nodes
  BY DEF Observes
<1>1. TypeOK'
  <2>1. RowOK'
    BY <1>0 DEF TypeOK, Place, Flags
  <2>2. job' \in [Nodes -> [Attempts -> {"none"} \cup Live \cup Ended]]
      <3>1. CASE UNCHANGED job  BY <3>1, <1>0 DEF TypeOK
      <3>2. CASE SetJob(n, a, "queued")  BY <3>2, <1>0 DEF TypeOK
      <3> QED BY <3>1, <3>2
  <2>3. submits' \subseteq Nodes \X Attempts /\ cancels' \subseteq Nodes \X Attempts
    BY <1>0 DEF TypeOK, Place, Flags
  <2>4. calls' \in 0..MaxCalls /\ faults' \in 0..MaxFaults
    BY <1>0 DEF TypeOK, Place, Flags
  <2>5. /\ drain' \in BOOLEAN /\ pause' \in [Nodes -> {"no", "graceful", "immediate"}]
       /\ pc' \in Places /\ swept' \in BOOLEAN /\ hold' \subseteq Nodes /\ quiet' \subseteq
           Nodes
       /\ lateSubmits' \subseteq Attempts /\ lateCancels' \subseteq Attempts
    BY <1>0 DEF TypeOK, Place, Flags
  <2> QED BY <1>a, <2>1, <2>2, <2>3, <2>4, <2>5 DEF TypeOK
<1>b. \A m \in Nodes, b \in Attempts : job'[m][b] = IF m = n /\ b = a /\ job[n][a] = "none"
    THEN "queued" ELSE job[m][b]
  BY <1>0 DEF TypeOK, Place, Flags
<1>2. Flags'
  BY <1>0, <1>1, <1>b DEF TypeOK, Flags
<1>3. Known'
  BY <1>0, <1>1, <1>b DEF TypeOK, Known
<1>4. Unsent'
  <2>1. CASE <<n, a>> = Mine
    BY <2>1, <1>0, <1>1, <1>b DEF TypeOK, Flags, Unsent
  <2>2. CASE <<n, a>> # Mine
    BY <2>2, <1>0, <1>1, <1>b DEF TypeOK, Unsent
  <2> QED BY <2>1, <2>2
<1>5. CancelledFor'
  BY <1>0, <1>1, <1>b DEF TypeOK, CancelledFor
<1>6. Quiet'
  BY <1>0, <1>1, <1>b DEF TypeOK, Quiet
<1>7. OneEncode'
  BY <1>0, <1>1, <1>b DEF TypeOK, OneEncode
<1>8. Place'
  BY <1>0 DEF Place
<1>9. ASSUME NEW m \in cleared, HoldWanted(m)'
      PROVE  ClearedAt(m)'
  <2>0. ClearedAt(m)
    BY <1>0 DEF Cleared
  <2>1. ASSUME NEW b \in Attempts \ lateSubmits, job'[m][b] \in Encoding \cup Waiting,
               job[m][b] \notin Encoding \cup Waiting
        PROVE  <<m, b>> = Mine /\ row.status = "cancelled"
    <3>1. m = n /\ b = a /\ job[m][b] = "none" /\ row.named /\ <<m, b>> = Mine
      BY <1>0, <1>b, <2>1 DEF TypeOK, OneEncode
    <3>2. row.submitted \/ row.reconcile
      BY <1>0, <2>1, <3>1 DEF TypeOK, Unsent
    <3>3. row.status # "active"
      BY <1>0, <2>0, <3>1, <3>2 DEF ClearedAt, TypeOK, Flags
    <3> QED BY <1>0, <3>1, <3>2, <3>3 DEF TypeOK, Flags
  <2>2. row.worker = m /\ row.status = "active" => pc' \notin {"admit", "answer"} /\ ~row'.reconcile
    BY <2>0 DEF ClearedAt
  <2>3. ASSUME NEW b \in Attempts \ lateSubmits', job'[m][b] \in Encoding \cup Waiting
        PROVE  <<m, b>> = Mine' /\ (row'.status = "cancelled" \/ (job'[m][b] = "queued" /\ m \in hold'))
    <3>1. CASE job[m][b] \in Encoding \cup Waiting
      BY <3>1, <2>0, <2>3, <1>0, <1>b DEF ClearedAt, TypeOK
    <3>2. CASE job[m][b] \notin Encoding \cup Waiting
      BY <3>2, <2>1, <2>3
    <3> QED BY <3>1, <3>2
  <2> QED BY <1>9, <2>2, <2>3 DEF ClearedAt
<1> QED BY <1>1, <1>2, <1>3, <1>4, <1>5, <1>6, <1>7, <1>8, <1>9, ClearedKept DEF IInv

LEMMA CancelArrivesKeeps ==
  ASSUME NEW n \in Nodes, NEW a \in Attempts, IInv, CancelArrives(n, a), Observes
  PROVE  IInv'
<1> USE NodesAssumption, BoundsAssumption DEF CancelArrives, RowOK, Rows, Fresh, Attempts, Sent
<1>0. /\ TypeOK /\ Place /\ Flags /\ Known /\ Unsent /\ CancelledFor /\ Quiet /\ OneEncode
      /\ Cleared
  BY DEF IInv
<1>a. cleared' \subseteq Nodes
  BY DEF Observes
<1>1. TypeOK'
  <2>1. RowOK'
    BY <1>0 DEF TypeOK, Place, Flags
  <2>2. job' \in [Nodes -> [Attempts -> {"none"} \cup Live \cup Ended]]
      <3>1. CASE UNCHANGED job  BY <3>1, <1>0 DEF TypeOK
      <3>2. CASE SetJob(n, a, "cancelled")  BY <3>2, <1>0 DEF TypeOK
      <3> QED BY <3>1, <3>2
  <2>3. submits' \subseteq Nodes \X Attempts /\ cancels' \subseteq Nodes \X Attempts
    BY <1>0 DEF TypeOK, Place, Flags
  <2>4. calls' \in 0..MaxCalls /\ faults' \in 0..MaxFaults
    BY <1>0 DEF TypeOK, Place, Flags
  <2>5. /\ drain' \in BOOLEAN /\ pause' \in [Nodes -> {"no", "graceful", "immediate"}]
       /\ pc' \in Places /\ swept' \in BOOLEAN /\ hold' \subseteq Nodes /\ quiet' \subseteq
           Nodes
       /\ lateSubmits' \subseteq Attempts /\ lateCancels' \subseteq Attempts
    BY <1>0 DEF TypeOK, Place, Flags
  <2> QED BY <1>a, <2>1, <2>2, <2>3, <2>4, <2>5 DEF TypeOK
<1>b. \A m \in Nodes, b \in Attempts : job'[m][b] = IF m = n /\ b = a /\ job[n][a] \in Live
    THEN "cancelled" ELSE job[m][b]
  BY <1>0 DEF TypeOK, Place, Flags
<1>2. Flags'
  BY <1>0, <1>1, <1>b DEF TypeOK, Flags
<1>3. Known'
  BY <1>0, <1>1, <1>b DEF TypeOK, Known
<1>4. Unsent'
  BY <1>0, <1>1, <1>b DEF TypeOK, Unsent
<1>5. CancelledFor'
  <2>1. CASE <<n, a>> = Mine
    BY <2>1, <1>0, <1>1, <1>b DEF TypeOK, CancelledFor
  <2>2. CASE <<n, a>> # Mine
    BY <2>2, <1>0, <1>1, <1>b DEF TypeOK, CancelledFor
  <2> QED BY <2>1, <2>2
<1>6. Quiet'
  BY <1>0, <1>1, <1>b DEF TypeOK, Quiet
<1>7. OneEncode'
  BY <1>0, <1>1, <1>b DEF TypeOK, OneEncode
<1>8. Place'
  BY <1>0 DEF Place
<1>9. ASSUME NEW m \in cleared, HoldWanted(m)'
      PROVE  ClearedAt(m)'
  BY <1>0, <1>9, <1>1, <1>7, <1>b DEF TypeOK, Cleared, ClearedAt, OneEncode
<1> QED BY <1>1, <1>2, <1>3, <1>4, <1>5, <1>6, <1>7, <1>8, <1>9, ClearedKept DEF IInv

LEMMA StartsKeeps ==
  ASSUME NEW n \in Nodes, NEW a \in Attempts, IInv, Starts(n, a), Observes
  PROVE  IInv'
<1> USE NodesAssumption, BoundsAssumption DEF Starts, RowOK, Rows, Fresh, Attempts, Sent
<1>0. /\ TypeOK /\ Place /\ Flags /\ Known /\ Unsent /\ CancelledFor /\ Quiet /\ OneEncode
      /\ Cleared
  BY DEF IInv
<1>a. cleared' \subseteq Nodes
  BY DEF Observes
<1>1. TypeOK'
  BY <1>0, <1>a DEF TypeOK, Place, Flags
<1>2. Flags'
  BY <1>0, <1>1 DEF TypeOK, Flags
<1>3. Known'
  BY <1>0, <1>1 DEF TypeOK, Known
<1>4. Unsent'
  BY <1>0, <1>1 DEF TypeOK, Unsent
<1>5. CancelledFor'
  BY <1>0, <1>1 DEF TypeOK, CancelledFor
<1>6. Quiet'
  BY <1>0, <1>1 DEF TypeOK, Quiet
<1>7. OneEncode'
  BY <1>0, <1>1 DEF TypeOK, OneEncode
<1>8. Place'
  BY <1>0 DEF Place
<1>9. ASSUME NEW m \in cleared, HoldWanted(m)'
      PROVE  ClearedAt(m)'
  BY <1>0, <1>9, <1>1, <1>7 DEF TypeOK, Cleared, ClearedAt, OneEncode
<1> QED BY <1>1, <1>2, <1>3, <1>4, <1>5, <1>6, <1>7, <1>8, <1>9, ClearedKept DEF IInv

LEMMA EncodesKeeps ==
  ASSUME NEW n \in Nodes, NEW a \in Attempts, IInv, Encodes(n, a), Observes
  PROVE  IInv'
<1> USE NodesAssumption, BoundsAssumption DEF Encodes, RowOK, Rows, Fresh, Attempts, Sent
<1>0. /\ TypeOK /\ Place /\ Flags /\ Known /\ Unsent /\ CancelledFor /\ Quiet /\ OneEncode
      /\ Cleared
  BY DEF IInv
<1>a. cleared' \subseteq Nodes
  BY DEF Observes
<1>1. TypeOK'
  BY <1>0, <1>a DEF TypeOK, Place, Flags
<1>2. Flags'
  BY <1>0, <1>1 DEF TypeOK, Flags
<1>3. Known'
  BY <1>0, <1>1 DEF TypeOK, Known
<1>4. Unsent'
  BY <1>0, <1>1 DEF TypeOK, Unsent
<1>5. CancelledFor'
  BY <1>0, <1>1 DEF TypeOK, CancelledFor
<1>6. Quiet'
  BY <1>0, <1>1 DEF TypeOK, Quiet
<1>7. OneEncode'
  BY <1>0, <1>1 DEF TypeOK, OneEncode
<1>8. Place'
  BY <1>0 DEF Place
<1>9. ASSUME NEW m \in cleared, HoldWanted(m)'
      PROVE  ClearedAt(m)'
  BY <1>0, <1>9, <1>1, <1>7 DEF TypeOK, Cleared, ClearedAt, OneEncode
<1> QED BY <1>1, <1>2, <1>3, <1>4, <1>5, <1>6, <1>7, <1>8, <1>9, ClearedKept DEF IInv

LEMMA ClaimsKeeps ==
  ASSUME NEW n \in Nodes, NEW a \in Attempts, IInv, Claims(n, a), Observes
  PROVE  IInv'
<1> USE NodesAssumption, BoundsAssumption DEF Claims, RowOK, Rows, Fresh, Attempts, Sent
<1>0. /\ TypeOK /\ Place /\ Flags /\ Known /\ Unsent /\ CancelledFor /\ Quiet /\ OneEncode
      /\ Cleared
  BY DEF IInv
<1>a. cleared' \subseteq Nodes
  BY DEF Observes
<1>1. TypeOK'
  BY <1>0, <1>a DEF TypeOK, Place, Flags
<1>2. Flags'
  BY <1>0, <1>1 DEF TypeOK, Flags
<1>3. Known'
  BY <1>0, <1>1 DEF TypeOK, Known
<1>4. Unsent'
  BY <1>0, <1>1 DEF TypeOK, Unsent
<1>5. CancelledFor'
  BY <1>0, <1>1 DEF TypeOK, CancelledFor
<1>6. Quiet'
  BY <1>0, <1>1 DEF TypeOK, Quiet
<1>7. OneEncode'
  BY <1>0, <1>1 DEF TypeOK, OneEncode
<1>8. Place'
  BY <1>0 DEF Place
<1>9. ASSUME NEW m \in cleared, HoldWanted(m)'
      PROVE  ClearedAt(m)'
  BY <1>0, <1>9, <1>1, <1>7 DEF TypeOK, Cleared, ClearedAt, OneEncode
<1> QED BY <1>1, <1>2, <1>3, <1>4, <1>5, <1>6, <1>7, <1>8, <1>9, ClearedKept DEF IInv

LEMMA PublishesKeeps ==
  ASSUME NEW n \in Nodes, NEW a \in Attempts, IInv, Publishes(n, a), Observes
  PROVE  IInv'
<1> USE NodesAssumption, BoundsAssumption DEF Publishes, RowOK, Rows, Fresh, Attempts, Sent
<1>0. /\ TypeOK /\ Place /\ Flags /\ Known /\ Unsent /\ CancelledFor /\ Quiet /\ OneEncode
      /\ Cleared
  BY DEF IInv
<1>a. cleared' \subseteq Nodes
  BY DEF Observes
<1>1. TypeOK'
  BY <1>0, <1>a DEF TypeOK, Place, Flags
<1>2. Flags'
  BY <1>0, <1>1 DEF TypeOK, Flags
<1>3. Known'
  BY <1>0, <1>1 DEF TypeOK, Known
<1>4. Unsent'
  BY <1>0, <1>1 DEF TypeOK, Unsent
<1>5. CancelledFor'
  BY <1>0, <1>1 DEF TypeOK, CancelledFor
<1>6. Quiet'
  BY <1>0, <1>1 DEF TypeOK, Quiet
<1>7. OneEncode'
  BY <1>0, <1>1 DEF TypeOK, OneEncode
<1>8. Place'
  BY <1>0 DEF Place
<1>9. ASSUME NEW m \in cleared, HoldWanted(m)'
      PROVE  ClearedAt(m)'
  BY <1>0, <1>9, <1>1, <1>7 DEF TypeOK, Cleared, ClearedAt, OneEncode
<1> QED BY <1>1, <1>2, <1>3, <1>4, <1>5, <1>6, <1>7, <1>8, <1>9, ClearedKept DEF IInv

LEMMA BreaksKeeps ==
  ASSUME NEW n \in Nodes, NEW a \in Attempts, IInv, Breaks(n, a), Observes
  PROVE  IInv'
<1> USE NodesAssumption, BoundsAssumption DEF Breaks, RowOK, Rows, Fresh, Attempts, Sent
<1>0. /\ TypeOK /\ Place /\ Flags /\ Known /\ Unsent /\ CancelledFor /\ Quiet /\ OneEncode
      /\ Cleared
  BY DEF IInv
<1>a. cleared' \subseteq Nodes
  BY DEF Observes
<1>b. PICK status \in {"parked", "queued"} : SetJob(n, a, status)
  OBVIOUS
<1>c. /\ job[n][a] \in {"starting", "encoded", "retried"}
      /\ job[n][a] = "starting" <=> status = "queued"
      /\ UNCHANGED <<row, pc, submits, cancels, hold, quiet, lateSubmits, lateCancels>>
  BY <1>0, <1>b DEF TypeOK
<1>1. TypeOK'
  BY <1>0, <1>a, <1>b DEF TypeOK
<1>d. \A m \in Nodes, c \in Attempts : job'[m][c] = IF m = n /\ c = a THEN status ELSE job[m][c]
  BY <1>0, <1>b DEF TypeOK
<1> HIDE DEF Breaks
<1>2. Flags'
  <2>1. CASE <<n, a>> = Mine
    BY <2>1, <1>0, <1>1, <1>c, <1>d DEF TypeOK, Flags
  <2>2. CASE <<n, a>> # Mine
    BY <2>2, <1>0, <1>1, <1>c, <1>d DEF TypeOK, Flags
  <2> QED BY <2>1, <2>2
<1>3. Known'
  BY <1>0, <1>1, <1>c, <1>d DEF TypeOK, Known
<1>4. Unsent'
  BY <1>0, <1>1, <1>c, <1>d DEF TypeOK, Unsent
<1>5. CancelledFor'
  BY <1>0, <1>1, <1>c, <1>d DEF TypeOK, CancelledFor
<1>6. Quiet'
  BY <1>0, <1>1, <1>c, <1>d DEF TypeOK, Quiet
<1>7. OneEncode'
  BY <1>0, <1>1, <1>c, <1>d DEF TypeOK, OneEncode
<1>8. Place'
  BY <1>0, <1>c DEF Place
<1>9. ASSUME NEW m \in cleared, HoldWanted(m)'
      PROVE  ClearedAt(m)'
  BY <1>0, <1>9, <1>1, <1>7, <1>c, <1>d DEF TypeOK, Cleared, ClearedAt, OneEncode
<1> QED BY <1>1, <1>2, <1>3, <1>4, <1>5, <1>6, <1>7, <1>8, <1>9, ClearedKept DEF IInv

LEMMA RetriesKeeps ==
  ASSUME NEW n \in Nodes, NEW a \in Attempts, IInv, Retries(n, a), Observes
  PROVE  IInv'
<1> USE NodesAssumption, BoundsAssumption DEF Retries, RowOK, Rows, Fresh, Attempts, Sent
<1>0. /\ TypeOK /\ Place /\ Flags /\ Known /\ Unsent /\ CancelledFor /\ Quiet /\ OneEncode
      /\ Cleared
  BY DEF IInv
<1>a. cleared' \subseteq Nodes
  BY DEF Observes
<1>1. TypeOK'
  BY <1>0, <1>a DEF TypeOK, Place, Flags
<1>2. Flags'
  BY <1>0, <1>1 DEF TypeOK, Flags
<1>3. Known'
  BY <1>0, <1>1 DEF TypeOK, Known
<1>4. Unsent'
  BY <1>0, <1>1 DEF TypeOK, Unsent
<1>5. CancelledFor'
  BY <1>0, <1>1 DEF TypeOK, CancelledFor
<1>6. Quiet'
  BY <1>0, <1>1 DEF TypeOK, Quiet
<1>7. OneEncode'
  BY <1>0, <1>1 DEF TypeOK, OneEncode
<1>8. Place'
  BY <1>0 DEF Place
<1>9. ASSUME NEW m \in cleared, HoldWanted(m)'
      PROVE  ClearedAt(m)'
  BY <1>0, <1>9, <1>1, <1>7 DEF TypeOK, Cleared, ClearedAt, OneEncode
<1> QED BY <1>1, <1>2, <1>3, <1>4, <1>5, <1>6, <1>7, <1>8, <1>9, ClearedKept DEF IInv

LEMMA SyncHoldKeeps ==
  ASSUME NEW n \in Nodes, IInv, SyncHold(n), Observes
  PROVE  IInv'
<1> USE NodesAssumption, BoundsAssumption DEF SyncHold, Told, RowOK, Rows, Fresh, Attempts, Sent
<1>0. /\ TypeOK /\ Place /\ Flags /\ Known /\ Unsent /\ CancelledFor /\ Quiet /\ OneEncode
      /\ Cleared
  BY DEF IInv
<1>a. cleared' \subseteq Nodes
  BY DEF Observes
<1>1. TypeOK'
  BY <1>0, <1>a DEF TypeOK, Place, Flags
<1>2. Quiet'
  BY <1>0, <1>1 DEF TypeOK, Quiet
<1>3. (Place /\ Flags /\ Known /\ Unsent /\ CancelledFor /\ OneEncode)'
  BY <1>0 DEF Place, Flags, Known, Unsent, CancelledFor, OneEncode
<1>4. ASSUME NEW m \in cleared, HoldWanted(m)'
      PROVE  ClearedAt(m)'
  BY <1>0, <1>4, <1>1, <1>3 DEF TypeOK, Cleared, ClearedAt, OneEncode
<1> QED BY <1>1, <1>2, <1>3, <1>4, ClearedKept DEF IInv

LEMMA SyncFailsKeeps ==
  ASSUME NEW n \in Nodes, IInv, SyncFails(n), Observes
  PROVE  IInv'
<1> USE NodesAssumption, BoundsAssumption DEF SyncFails, Told, RowOK, Rows, Fresh, Attempts,
    Sent
<1>0. /\ TypeOK /\ Place /\ Flags /\ Known /\ Unsent /\ CancelledFor /\ Quiet /\ OneEncode
      /\ Cleared
  BY DEF IInv
<1>a. cleared' \subseteq Nodes
  BY DEF Observes
<1>1. TypeOK'
  BY <1>0, <1>a DEF TypeOK, Place, Flags
<1>2. Quiet'
  BY <1>0, <1>1 DEF TypeOK, Quiet
<1>3. (Place /\ Flags /\ Known /\ Unsent /\ CancelledFor /\ OneEncode)'
  BY <1>0 DEF Place, Flags, Known, Unsent, CancelledFor, OneEncode
<1>4. ASSUME NEW m \in cleared, HoldWanted(m)'
      PROVE  ClearedAt(m)'
  BY <1>0, <1>4, <1>1, <1>3 DEF TypeOK, Cleared, ClearedAt, OneEncode
<1> QED BY <1>1, <1>2, <1>3, <1>4, ClearedKept DEF IInv

LEMMA CrashKeeps ==
  ASSUME IInv, Crash, Observes
  PROVE  IInv'
<1> USE NodesAssumption, BoundsAssumption DEF Crash, RowOK, Rows, Fresh, Attempts, Sent
<1>0. /\ TypeOK /\ Place /\ Flags /\ Known /\ Unsent /\ CancelledFor /\ Quiet /\ OneEncode
      /\ Cleared
  BY DEF IInv
<1>a. cleared' \subseteq Nodes
  BY DEF Observes
<1>1. TypeOK'
  <2>1. RowOK'
    BY <1>0 DEF TypeOK, Place, Flags
  <2>2. job' \in [Nodes -> [Attempts -> {"none"} \cup Live \cup Ended]]
    BY <1>0 DEF TypeOK, Place, Flags
  <2>3. submits' \subseteq Nodes \X Attempts /\ cancels' \subseteq Nodes \X Attempts
    BY <1>0 DEF TypeOK, Place, Flags
  <2>4. calls' \in 0..MaxCalls /\ faults' \in 0..MaxFaults
    BY <1>0 DEF TypeOK, Place, Flags
  <2>5. /\ drain' \in BOOLEAN /\ pause' \in [Nodes -> {"no", "graceful", "immediate"}]
       /\ pc' \in Places /\ swept' \in BOOLEAN /\ hold' \subseteq Nodes /\ quiet' \subseteq
           Nodes
       /\ lateSubmits' \subseteq Attempts /\ lateCancels' \subseteq Attempts
    BY <1>0 DEF TypeOK, Place, Flags
  <2> QED BY <1>a, <2>1, <2>2, <2>3, <2>4, <2>5 DEF TypeOK
<1>2. Place'
  BY <1>0, <1>1 DEF TypeOK, Place
<1>3. Known'
  BY <1>0, <1>1 DEF TypeOK, Known
<1>4. Unsent'
  BY <1>0, <1>1 DEF TypeOK, Unsent
<1>5. CancelledFor'
  BY <1>0, <1>1 DEF TypeOK, CancelledFor
<1>6. Quiet'
  BY <1>0, <1>1 DEF TypeOK, Quiet
<1>7. OneEncode'
  BY <1>0, <1>1 DEF TypeOK, OneEncode
<1>8. Flags'
  BY <1>0 DEF Flags
<1>9. ASSUME NEW m \in cleared, HoldWanted(m)'
      PROVE  ClearedAt(m)'
  BY <1>0, <1>9, <1>1, <1>7 DEF TypeOK, Cleared, ClearedAt, OneEncode
<1> QED BY <1>1, <1>2, <1>3, <1>4, <1>5, <1>6, <1>7, <1>8, <1>9, ClearedKept DEF IInv

-----------------------------------------------------------------------------
(* The invariant and what follows from it *)

LEMMA NextKeeps == IInv /\ [Next]_vars => IInv'
<1> SUFFICES ASSUME IInv, [Next]_vars PROVE IInv'
  OBVIOUS
<1>1. CASE UNCHANGED vars
  <2>1. /\ TypeOK /\ Place /\ Flags /\ Known /\ Unsent /\ CancelledFor /\ Quiet /\ Cleared
        /\ OneEncode
    BY DEF IInv
  <2>2. TypeOK'
    BY <1>1, <2>1 DEF vars, system, TypeOK, RowOK
  <2>3. (Place /\ Flags /\ Known /\ Unsent /\ CancelledFor)'
    BY <1>1, <2>1 DEF vars, system, Place, Flags, Known, Sent, Unsent, CancelledFor
  <2>4. (Quiet /\ Cleared /\ OneEncode)'
    BY <1>1, <2>1 DEF vars, system, Quiet, Cleared, ClearedAt, OneEncode
  <2> QED BY <2>2, <2>3, <2>4 DEF IInv
<1>2. ASSUME Works, Observes  PROVE IInv'
  BY <1>2, AssignKeeps, PollKeeps, ReconcileKeeps, AdmissionKeeps, SubmitKeeps, AcceptedKeeps,
     UnansweredKeeps, RefusedKeeps, UnreachableKeeps, ReleaseKeeps, KeepKeeps, MoveKeeps,
     ConfirmedKeeps, UnconfirmedKeeps DEF Works
<1>3. ASSUME Operates, Observes  PROVE IInv'
  BY <1>3, SetDrainKeeps, CancelKeeps, SetPauseKeeps DEF Operates
<1>4. ASSUME NEW n \in Nodes, NEW a \in Attempts, NodeWorks(n, a), Observes  PROVE IInv'
  BY <1>4, SubmitArrivesKeeps, CancelArrivesKeeps, StartsKeeps, ClaimsKeeps, EncodesKeeps,
     PublishesKeeps, RetriesKeeps DEF NodeWorks
<1> QED BY <1>1, <1>2, <1>3, <1>4, ResumeKeeps, SweepListsKeeps, SweepClaimsKeeps, CrashKeeps,
           BreaksKeeps, SyncHoldKeeps, SyncFailsKeeps DEF Next, Step

\* Whatever the number of nodes, moves, calls and faults, IInv holds in every
\* reachable state.
THEOREM Invariant == Spec => []IInv
<1> QED BY InitEstablishes, NextKeeps, PTL DEF Spec

\* Every variable has its type.
THEOREM TypeCorrect == Spec => []TypeOK
<1>1. IInv => TypeOK
  BY DEF IInv
<1> QED BY <1>1, Invariant, PTL

\* A job that can still encode the file, or a submit that can still make one, is
\* the one the row names (stepTranscodeSubmit, resetForRequeue).
THEOREM EncodedOnce == Spec => []OneEncode
<1>1. IInv => OneEncode
  BY DEF IInv
<1> QED BY <1>1, Invariant, PTL

\* No pause and no move ends a conversion (cancelForPause, finishPauseRequeue, resume).
THEOREM PausesEndNothing == Spec => []PauseIsNotEnd
<1>1. IInv => PauseIsNotEnd
  <2> SUFFICES ASSUME IInv, row.status = "failed", ~row.rejected
               PROVE  MyJob = "failed" \/ row.attempt \in lateCancels
    BY DEF PauseIsNotEnd
  <2> QED BY DEF IInv, Flags, CancelledFor
<1> QED BY <1>1, Invariant, PTL

\* A node that was reported idle, or ready to be deployed, stays so until it is
\* resumed (drainStatus, nodePauseStatuses, beginAdmission).
THEOREM ReadyMeansIdle == Spec => []ReadyStaysIdle
<1>1. IInv => ReadyStaysIdle
  BY DEF IInv, TypeOK, Cleared, ClearedAt, ReadyStaysIdle
<1> QED BY <1>1, Invariant, PTL

\* "moving the file now could encode it twice": of two encodes at once, one is of
\* an attempt whose submit its node had denied while it was on its way. Nothing
\* else makes two, and with no such answer NeverTwice holds.
THEOREM OnlyADeniedSubmitEncodesTwice ==
    Spec => [](/\ \A n, m \in Nodes, a, b \in Attempts :
                    job[n][a] \in Encoding /\ job[m][b] \in Encoding =>
                        (n = m /\ a = b) \/ a \in lateSubmits \/ b \in lateSubmits
               /\ lateSubmits = {} => NeverTwice)
<1> DEFINE Twice(n, m, a, b) ==
        job[n][a] \in Encoding /\ job[m][b] \in Encoding =>
            (n = m /\ a = b) \/ a \in lateSubmits \/ b \in lateSubmits
<1>1. ASSUME IInv
      PROVE  \A n, m \in Nodes, a, b \in Attempts : Twice(n, m, a, b)
  <2>1. ASSUME NEW n \in Nodes, NEW a \in Attempts, a \notin lateSubmits, job[n][a] \in Encoding
        PROVE  <<n, a>> = Mine
    BY <1>1, <2>1 DEF IInv, OneEncode, Encoding, Live
  <2> QED BY <2>1 DEF Mine
<1>2. (\A n, m \in Nodes, a, b \in Attempts : Twice(n, m, a, b)) /\ lateSubmits = {} => NeverTwice
  BY DEF NeverTwice
<1> QED BY <1>1, <1>2, Invariant, PTL

=============================================================================
