--------------------------- MODULE Scheduler_proofs ---------------------------
(***************************************************************************)
(* What the scheduler lease protects (placegame/scheduler.py), for any     *)
(* number of processes and accounts, any lease and any interval, and any   *)
(* number of crashes, lost writes and operator commands; and, where ticks  *)
(* outlive their leases, what the slots of two processes are.              *)
(***************************************************************************)
EXTENDS Scheduler, FiniteSetTheorems, TLAPS

Elected == {"leased", "listed", "ensuring", "ensured", "dispatching", "releasing"}

(* The lease of an elected worker runs as long as its tick is shorter than *)
(* the lease; while no tick has overrun, that is so for every worker.      *)
LeaseInv ==
  \A w \in Workers :
    /\ step[w] \in Elected /\ lag[w] < Lease =>
         lease.owner = w /\ lease.left = Lease - lag[w]
    /\ step[w] = "resting" => lag[w] = 0
    /\ ~overran /\ step[w] # "resting" => lag[w] < Lease

(* A claim that still counts is one of a job that was due.                 *)
ClaimInv ==
  \A w \in Workers, j \in Jobs :
    claims[w][j].live => jobs[j] # None /\ jobs[j].next <= -lag[w]

(* The rows a worker has read exist; its own are among them, and nobody    *)
(* else makes the job that it has missed.                                  *)
MissingInv ==
  \A w \in Workers : step[w] = "ensuring" =>
    /\ \A j \in rows[w] : jobs[j] # None
    /\ \A a \in Accounts : <<a, w>> \notin rows[w] => jobs[<<a, w>>] = None
    /\ \A a \in Missing(w) : ~overran => \A v \in Workers : jobs[<<a, v>>] = None

OneInv ==
  ~overran => \A a \in Accounts : \A v, w \in Workers :
    jobs[<<a, v>>] # None /\ jobs[<<a, w>>] # None => v = w

IInv == TypeOK /\ LeaseInv /\ ClaimInv /\ MissingInv /\ OneInv

LEMMA Times ==
  ASSUME TypeOK, NEW w \in Workers
  PROVE  /\ lag[w] \in Nat /\ lag[w] <= MaxLag
         /\ Now(w) \in Slots /\ LeaseEnd(w) \in Lefts /\ NextSlot(w) \in Slots
         /\ \A n \in Slots : Older(n) \in Slots /\ Older(n) <= n
         /\ \A n \in Lefts : Older(n) \in Lefts
BY SchedulerAssumption DEF TypeOK, Now, LeaseEnd, NextSlot, Slots, Lefts, Floor, Older

LEMMA RowTypes ==
  /\ NoRun \in [open : BOOLEAN, left : Lefts, previewed : BOOLEAN]
  /\ NoClaims \in [Jobs -> [phase : {"none", "queued", "previewing", "returned"},
                            live : BOOLEAN]]
<1>1. Floor \in Lefts
  BY SchedulerAssumption DEF Lefts, Floor
<1>2. QED BY <1>1 DEF NoRun, NoClaims, NoClaim

LEMMA InitInductive == Init => IInv
<1> SUFFICES ASSUME Init PROVE IInv
  OBVIOUS
<1>1. TypeOK
  <2>1. 0 \in 0..MaxLag /\ 0 \in 0..Interval /\ 0 \in 0..MaxFaults /\ 0 \in 0..MaxAdmin
        /\ Floor \in Lefts
    BY SchedulerAssumption DEF Lefts, Floor
  <2>2. QED BY <2>1, RowTypes DEF Init, TypeOK
<1>2. LeaseInv
  BY SchedulerAssumption DEF Init, LeaseInv, Elected
<1>3. ClaimInv /\ MissingInv /\ OneInv
  BY DEF Init, ClaimInv, MissingInv, OneInv, NoClaims, NoClaim, Jobs
<1>4. QED BY <1>1, <1>2, <1>3 DEF IInv

-----------------------------------------------------------------------------
(* Types. *)

Record(w, j) == StartPreview(w, j) \/ Preview(w, j) \/ FinishRun(w, j) \/ FinishFails(w, j)

(* What a step does to the jobs and to the claims.                         *)
LEMMA EnsureWriteRows ==
  ASSUME IInv, NEW w \in Workers, EnsureWrite(w)
  PROVE  /\ jobs' \in [Jobs -> {None} \cup JobRows]
         /\ \A j \in Jobs :
              \/ j[2] = w /\ j[1] \in Missing(w) /\ jobs[j] = None
              \/ jobs[j] = None /\ jobs'[j] = None
              \/ jobs[j] \in JobRows /\ jobs'[j] \in JobRows
                 /\ jobs'[j].next = jobs[j].next
<1> DEFINE inserted == {<<a, w>> : a \in Missing(w) \cap view[w]}
<1>t. TypeOK /\ MissingInv /\ step[w] = "ensuring"
  BY DEF IInv, EnsureWrite
<1>1. NewJob(w) \in JobRows
  BY <1>t, Times, RowTypes DEF NewJob, JobRows
<1>2. \A r \in JobRows : \A b \in BOOLEAN :
        [r EXCEPT !.enabled = b] \in JobRows /\ [r EXCEPT !.enabled = b].next = r.next
  BY DEF JobRows
<1>3. \A j \in Jobs : j \in inserted => j[2] = w /\ j[1] \in Missing(w) /\ jobs[j] = None
  BY <1>t DEF Missing, MissingInv
<1>4. \A j \in Jobs : EnabledAfter(j, w) \in BOOLEAN
  BY DEF EnabledAfter
<1>5. \A j \in Jobs : jobs'[j] =
        IF j \in inserted THEN NewJob(w)
        ELSE IF j \in rows[w] THEN [jobs[j] EXCEPT !.enabled = EnabledAfter(j, w)]
        ELSE jobs[j]
  BY DEF EnsureWrite
<1>6. DOMAIN jobs' = Jobs /\ jobs' = [j \in Jobs |-> jobs'[j]]
  BY DEF EnsureWrite
<1> HIDE DEF inserted
<1>7. \A j \in Jobs : jobs[j] = None \/ jobs[j] \in JobRows
  BY <1>t DEF TypeOK
<1>8. ASSUME NEW j \in Jobs
      PROVE  \/ j \in inserted /\ jobs'[j] \in JobRows
             \/ jobs[j] = None /\ jobs'[j] = None
             \/ jobs[j] \in JobRows /\ jobs'[j] \in JobRows
                /\ jobs'[j].next = jobs[j].next
  <2>1. CASE j \in inserted
    BY <1>1, <1>5, <2>1
  <2>2. CASE jobs'[j] = jobs[j]
    BY <1>7, <2>2
  <2>3. CASE j \in rows[w] /\ jobs'[j] = [jobs[j] EXCEPT !.enabled = EnabledAfter(j, w)]
    <3>1. jobs[j] \in JobRows
      BY <1>t, <1>7, <2>3 DEF MissingInv
    <3>2. QED BY <1>2, <1>4, <2>3, <3>1
  <2>4. QED BY <1>5, <2>1, <2>2, <2>3
<1>9. jobs' \in [Jobs -> {None} \cup JobRows]
  BY <1>6, <1>8
<1>10. QED BY <1>3, <1>8, <1>9

LEMMA ClaimRows ==
  ASSUME IInv, NEW w \in Workers, ClaimDue(w)
  PROVE  /\ jobs' \in [Jobs -> {None} \cup JobRows]
         /\ \A j \in Jobs :
              \/ jobs[j] = jobs'[j]
              \/ jobs[j] \in JobRows /\ jobs'[j] \in JobRows
                 /\ jobs'[j].next = jobs[j].next
         /\ claims' \in [Workers -> [Jobs ->
              [phase : {"none", "queued", "previewing", "returned"}, live : BOOLEAN]]]
         /\ \A v \in Workers : v # w => claims'[v] = claims[v]
         /\ \A j \in Jobs : claims'[w][j].live =>
              jobs[j] \in JobRows /\ jobs[j].next <= -lag[w]
<1>t. TypeOK
  BY DEF IInv
<1>p. PICK taken \in SUBSET Due(w) : Claim(w, taken)
  BY DEF ClaimDue
<1>1. LeaseEnd(w) \in Lefts
  BY <1>t, Times
<1>2. \A j \in taken : jobs[j] \in JobRows /\ jobs[j].next <= -lag[w] /\ j \in Jobs
  BY <1>t DEF Due, TypeOK, Now
<1>3. \A r \in JobRows :
        /\ [r EXCEPT !.run = [@ EXCEPT !.open = TRUE, !.left = LeaseEnd(w)]] \in JobRows
        /\ [r EXCEPT !.run = [@ EXCEPT !.open = TRUE, !.left = LeaseEnd(w)]].next = r.next
  BY <1>1 DEF JobRows
<1>4. jobs' \in [Jobs -> {None} \cup JobRows]
  BY <1>t, <1>p, <1>2, <1>3 DEF Claim, TypeOK
<1>5. \A j \in Jobs : \/ jobs[j] = jobs'[j]
                      \/ jobs[j] \in JobRows /\ jobs'[j] \in JobRows
                         /\ jobs'[j].next = jobs[j].next
  BY <1>p, <1>2, <1>3 DEF Claim
<1> DEFINE mine == [j \in Jobs |->
       IF j \in taken THEN [phase |-> "queued", live |-> TRUE] ELSE NoClaim]
<1>6. mine \in [Jobs ->
        [phase : {"none", "queued", "previewing", "returned"}, live : BOOLEAN]]
      /\ \A j \in Jobs : mine[j].live => j \in taken
  BY DEF NoClaim
<1>7. claims' = [claims EXCEPT ![w] = mine]
  BY <1>p DEF Claim
<1> HIDE DEF mine
<1>8. claims'[w] = mine /\ \A v \in Workers : v # w => claims'[v] = claims[v]
  BY <1>t, <1>7 DEF TypeOK
<1>9. claims' \in [Workers -> [Jobs ->
        [phase : {"none", "queued", "previewing", "returned"}, live : BOOLEAN]]]
  BY <1>t, <1>6, <1>7 DEF TypeOK
<1>10. QED BY <1>2, <1>4, <1>5, <1>6, <1>8, <1>9

LEMMA RecordRows ==
  ASSUME IInv, NEW w \in Workers, NEW i \in Jobs, Record(w, i)
  PROVE  /\ jobs' \in [Jobs -> {None} \cup JobRows]
         /\ \A j \in Jobs :
              \/ jobs[j] = jobs'[j]
              \/ jobs[j] \in JobRows /\ jobs'[j] \in JobRows
                 /\ \/ jobs'[j].next = jobs[j].next
                    \/ jobs'[j].next > jobs[j].next
                       /\ \A v \in Workers : ~claims'[v][j].live
         /\ claims' \in [Workers -> [Jobs ->
              [phase : {"none", "queued", "previewing", "returned"}, live : BOOLEAN]]]
         /\ \A v \in Workers, j \in Jobs : claims'[v][j].live => claims[v][j].live
<1>t. TypeOK /\ ClaimInv
  BY DEF IInv
<1> DEFINE Claims == [phase : {"none", "queued", "previewing", "returned"}, live : BOOLEAN]
<1>c. claims \in [Workers -> [Jobs -> Claims]] /\ claims[w] \in [Jobs -> Claims]
  BY <1>t DEF TypeOK
<1>k. NoClaim \in Claims /\ NoClaim.live = FALSE
  BY DEF NoClaim
<1>j. jobs \in [Jobs -> {None} \cup JobRows]
  BY <1>t DEF TypeOK
<1>l. claims[w][i].live => jobs[i] \in JobRows
  BY <1>t DEF ClaimInv, TypeOK
<1>1. CASE StartPreview(w, i)
  <2>1. claims' = [claims EXCEPT ![w][i].phase = "previewing"] /\ jobs' = jobs
    BY <1>1 DEF StartPreview, table
  <2>2. QED BY <1>c, <1>j, <2>1
<1>2. CASE Preview(w, i)
  <2>1. claims' = [claims EXCEPT ![w][i].phase = "returned"]
    BY <1>2 DEF Preview
  <2>2. CASE jobs' = jobs
    BY <1>c, <1>j, <2>1, <2>2
  <2>3. CASE claims[w][i].live /\ jobs' = [jobs EXCEPT ![i].run.previewed = TRUE]
    <3>1. [jobs[i] EXCEPT !.run.previewed = TRUE] \in JobRows
          /\ [jobs[i] EXCEPT !.run.previewed = TRUE].next = jobs[i].next
      BY <1>l, <2>3 DEF JobRows
    <3>2. jobs' = [jobs EXCEPT ![i] = [jobs[i] EXCEPT !.run.previewed = TRUE]]
      BY <2>3
    <3>3. /\ jobs' \in [Jobs -> {None} \cup JobRows]
          /\ \A j \in Jobs :
               \/ jobs[j] = jobs'[j]
               \/ jobs[j] \in JobRows /\ jobs'[j] \in JobRows
                  /\ jobs'[j].next = jobs[j].next
      BY <1>j, <1>l, <2>3, <3>1, <3>2
    <3>4. QED BY <1>c, <2>1, <3>3
  <2>4. QED BY <1>2, <2>2, <2>3 DEF Preview
<1>3. CASE FinishRun(w, i) /\ claims[w][i].live
  <2> DEFINE r == [jobs[i] EXCEPT !.next = NextSlot(w), !.run = NoRun]
  <2>1. /\ r \in JobRows /\ r.next = Interval - lag[w]
    BY <1>t, <1>l, <1>3, Times, RowTypes DEF JobRows, NextSlot
  <2>2. /\ jobs' = [jobs EXCEPT ![i] = r]
        /\ claims' = [v \in Workers |-> [claims[v] EXCEPT ![i] =
             IF v = w THEN NoClaim ELSE [claims[v][i] EXCEPT !.live = FALSE]]]
    BY <1>3 DEF FinishRun, MayRecord
  <2> HIDE DEF r
  <2>3. jobs[i].next < Interval - lag[w] /\ jobs[i].next \in Int
    <3>1. jobs[i].next <= -lag[w]
      BY <1>t, <1>3 DEF ClaimInv
    <3>2. lag[w] \in Nat /\ jobs[i].next \in Int
      BY <1>t, <1>l, <1>3, Times, SchedulerAssumption DEF JobRows, Slots, Floor
    <3>3. QED BY <3>1, <3>2, SchedulerAssumption
  <2>4. /\ claims' \in [Workers -> [Jobs -> Claims]]
        /\ \A v \in Workers : ~claims'[v][i].live
        /\ \A v \in Workers, j \in Jobs : j # i => claims'[v][j] = claims[v][j]
    <3> DEFINE new(v) == IF v = w THEN NoClaim ELSE [claims[v][i] EXCEPT !.live = FALSE]
    <3>1. ASSUME NEW v \in Workers
          PROVE  new(v) \in Claims /\ new(v).live = FALSE /\ claims[v] \in [Jobs -> Claims]
      <4>1. \A k \in Claims : [k EXCEPT !.live = FALSE] \in Claims
                             /\ [k EXCEPT !.live = FALSE].live = FALSE
        OBVIOUS
      <4>2. claims[v] \in [Jobs -> Claims] /\ claims[v][i] \in Claims
        BY <1>c
      <4> HIDE DEF Claims
      <4>3. QED BY <1>k, <4>1, <4>2
    <3>2. claims' = [v \in Workers |-> [claims[v] EXCEPT ![i] = new(v)]]
      BY <2>2
    <3> HIDE DEF new, Claims
    <3>3. QED BY <3>1, <3>2
  <2>5. jobs' \in [Jobs -> {None} \cup JobRows] /\ jobs'[i] = r
        /\ \A j \in Jobs : j # i => jobs'[j] = jobs[j]
    BY <1>j, <2>1, <2>2
  <2>6. jobs'[i].next > jobs[i].next
    BY <2>1, <2>3, <2>5
  <2>7. QED BY <1>l, <1>3, <2>1, <2>4, <2>5, <2>6
<1>4. CASE (FinishRun(w, i) /\ ~claims[w][i].live) \/ FinishFails(w, i)
  <2>1. claims' = [claims EXCEPT ![w][i] = NoClaim] /\ jobs' = jobs
    BY <1>4 DEF FinishRun, FinishFails, MayRecord, table
  <2>2. QED BY <1>c, <1>k, <1>j, <2>1
<1>5. QED BY <1>1, <1>2, <1>3, <1>4 DEF Record

(* The operator's commands and the clock.                                  *)
LEMMA OperateRows ==
  ASSUME IInv, NEW a \in Accounts, Operate(a)
  PROVE  /\ jobs' \in [Jobs -> {None} \cup JobRows]
         /\ \A j \in Jobs : \/ jobs[j] = jobs'[j]
                            \/ jobs[j] \in JobRows /\ jobs'[j] \in JobRows
                               /\ jobs'[j].next = jobs[j].next
<1>1. jobs \in [Jobs -> {None} \cup JobRows]
  BY DEF IInv, TypeOK
<1>2. \A r \in JobRows :
        [r EXCEPT !.enabled = FALSE] \in JobRows /\ [r EXCEPT !.enabled = FALSE].next = r.next
  BY DEF JobRows
<1>3. CASE CompleteRemoval(a)
  BY <1>1, <1>2, <1>3 DEF CompleteRemoval
<1>4. QED BY <1>1, <1>3 DEF Operate, Exclude, Include, BeginRemoval

LEMMA TickRows ==
  ASSUME IInv, Tick
  PROVE  /\ jobs' \in [Jobs -> {None} \cup JobRows]
         /\ \A j \in Jobs : \/ jobs[j] = None /\ jobs'[j] = None
                            \/ jobs[j] \in JobRows /\ jobs'[j] \in JobRows
                               /\ jobs'[j].next = Older(jobs[j].next)
<1>1. jobs \in [Jobs -> {None} \cup JobRows]
  BY DEF IInv, TypeOK
<1>2. (\A n \in Slots : Older(n) \in Slots) /\ (\A n \in Lefts : Older(n) \in Lefts)
  BY SchedulerAssumption DEF Slots, Lefts, Floor, Older
<1>3. \A r \in JobRows :
        LET s == [r EXCEPT !.next = Older(@), !.run = [@ EXCEPT !.left = Older(r.run.left)]]
        IN  s \in JobRows /\ s.next = Older(r.next)
  BY <1>2 DEF JobRows
<1>4. jobs' = [j \in Jobs |->
        IF jobs[j] = None THEN None
        ELSE [jobs[j] EXCEPT !.next = Older(@),
                             !.run = [@ EXCEPT !.left = Older(jobs[j].run.left)]]]
  BY DEF Tick
<1>5. QED BY <1>1, <1>3, <1>4

LEMMA TypeInductive == IInv /\ [Next]_vars => TypeOK'
<1> SUFFICES ASSUME IInv, [Next]_vars PROVE TypeOK'
  OBVIOUS
<1> USE DEF table, reads, outside, Goto
<1>t. TypeOK
  BY DEF IInv
<1>e. ASSUME NEW w \in Workers, NEW p \in 0..Interval, EndTick(w, p)
      PROVE  /\ step' \in [Workers -> {"resting"} \cup {"ticking"} \cup Elected]
             /\ lag' \in [Workers -> 0..MaxLag] /\ rest' \in [Workers -> 0..Interval]
             /\ view' \in [Workers -> SUBSET Accounts]
             /\ rows' \in [Workers -> SUBSET Jobs]
             /\ current' \in [Workers -> [Accounts -> Workers \cup {None}]]
             /\ claims' \in [Workers -> [Jobs ->
                  [phase : {"none", "queued", "previewing", "returned"}, live : BOOLEAN]]]
  <2>1. 0 \in 0..MaxLag
    BY SchedulerAssumption
  <2>2. QED BY <1>e, <1>t, <2>1, RowTypes DEF EndTick, Forget, TypeOK, Elected
<1>i. 0 \in 0..Interval /\ Interval \in 0..Interval
  BY SchedulerAssumption
<1>f. faults < MaxFaults => faults + 1 \in 0..MaxFaults
  BY <1>t, SchedulerAssumption DEF TypeOK
<1>1. ASSUME NEW w \in Workers, StartTick(w) \/ ListAccounts(w) \/ EnsureRead(w) \/ DispatchDone(w)
      PROVE  TypeOK'
  <2>1. CASE StartTick(w)
    BY <2>1, <1>t DEF StartTick, TypeOK
  <2>2. CASE ListAccounts(w)
    BY <2>2, <1>t DEF ListAccounts, TypeOK
  <2>3. CASE EnsureRead(w)
    BY <2>3, <1>t DEF EnsureRead, TypeOK
  <2>4. CASE DispatchDone(w)
    BY <2>4, <1>t DEF DispatchDone, TypeOK
  <2>5. QED BY <1>1, <2>1, <2>2, <2>3, <2>4
<1>2. ASSUME NEW w \in Workers, AcquireLease(w) PROVE TypeOK'
  <2>1. lease' \in [owner : Workers \cup {None, Gone}, left : Lefts]
    BY <1>2, <1>t, Times DEF AcquireLease
  <2>2. QED BY <1>2, <1>t, <2>1 DEF AcquireLease, TypeOK
<1>3. ASSUME NEW w \in Workers, LeaseRefused(w) PROVE TypeOK'
  BY <1>3, <1>t, <1>e, <1>i DEF LeaseRefused, TypeOK, Elected
<1>4. ASSUME NEW w \in Workers, EnsureWrite(w) PROVE TypeOK'
  <2>1. first' \in [Accounts -> Workers \cup {None}]
    BY <1>4 DEF EnsureWrite
  <2>2. QED BY <1>4, <1>t, <2>1, EnsureWriteRows DEF EnsureWrite, Forget, TypeOK
<1>5. ASSUME NEW w \in Workers, ClaimDue(w) PROVE TypeOK'
  <2>1. step' \in [Workers -> {"resting"} \cup {"ticking"} \cup Elected]
    BY <1>5, <1>t DEF ClaimDue, Claim, TypeOK, Elected
  <2>2. QED BY <1>5, <1>t, <2>1, ClaimRows DEF ClaimDue, TypeOK, Elected
<1>6. ASSUME NEW w \in Workers, NEW j \in Jobs, Record(w, j) PROVE TypeOK'
  <2>1. UNCHANGED <<lease, first, step, lag, rest, view, reads, outside>>
        /\ faults' \in 0..MaxFaults
    BY <1>6, <1>t, <1>f
    DEF Record, StartPreview, Preview, FinishRun, FinishFails, TypeOK
  <2>2. QED BY <1>6, <1>t, <2>1, RecordRows DEF TypeOK
<1>7. ASSUME NEW w \in Workers, ReleaseLease(w) PROVE TypeOK'
  <2>1. [owner |-> None, left |-> Floor] \in [owner : Workers \cup {None, Gone}, left : Lefts]
    BY SchedulerAssumption DEF Lefts, Floor
  <2>2. lease' \in [owner : Workers \cup {None, Gone}, left : Lefts]
    BY <1>7, <1>t, <2>1 DEF ReleaseLease, TypeOK
  <2>3. QED BY <1>7, <1>t, <1>e, <1>i, <2>2 DEF ReleaseLease, TypeOK, Elected
<1>8. ASSUME NEW w \in Workers, Interrupt(w) PROVE TypeOK'
  BY <1>8, <1>t, <1>f, RowTypes DEF Interrupt, TypeOK
<1>9. ASSUME NEW w \in Workers, Crash(w) \/ TickRaises(w) PROVE TypeOK'
  <2>1. [owner |-> w, left |-> LeaseEnd(w)] \in [owner : Workers \cup {None, Gone}, left : Lefts]
    BY <1>t, Times
  <2>2. lease' \in [owner : Workers \cup {None, Gone}, left : Lefts]
    BY <1>9, <1>t, <2>1 DEF Crash, TickRaises, TypeOK
  <2>3. QED BY <1>9, <1>t, <1>e, <1>f, <1>i, <2>2 DEF Crash, TickRaises, TypeOK, Elected
<1>10. ASSUME NEW a \in Accounts, Operate(a) PROVE TypeOK'
  <2>1. PICK from, to : Command(a, from, to)
          /\ to \in {"active", "excluded", "removing", "removed"}
    BY <1>10 DEF Operate, Exclude, Include, BeginRemoval, CompleteRemoval
  <2>2. commands' \in 0..MaxAdmin
    BY <2>1, <1>t, SchedulerAssumption DEF Command, TypeOK
  <2>3. QED BY <1>10, <1>t, <2>1, <2>2, OperateRows DEF Command, TypeOK
<1>11. CASE Tick
  <2>1. lag' \in [Workers -> 0..MaxLag]
    <3>1. \A w \in Workers : lag[w] \in Nat /\ lag[w] < MaxLag
      BY <1>11, <1>t, Times DEF Tick
    <3>2. \A w \in Workers : 0 \in 0..MaxLag /\ lag[w] + 1 \in 0..MaxLag
      BY <3>1, SchedulerAssumption
    <3>3. QED BY <1>11, <3>2 DEF Tick
  <2>2. rest' \in [Workers -> 0..Interval]
    <3>1. \A w \in Workers : rest[w] \in 0..Interval
      BY <1>t DEF TypeOK
    <3>2. \A w \in Workers : 0 \in 0..Interval /\ (rest[w] > 0 => rest[w] - 1 \in 0..Interval)
      BY <3>1, SchedulerAssumption
    <3>3. QED BY <1>11, <3>2 DEF Tick
  <2>3. \A n \in Lefts : Older(n) \in Lefts
    BY SchedulerAssumption DEF Lefts, Floor, Older
  <2>4. lease' \in [owner : Workers \cup {None, Gone}, left : Lefts]
    BY <1>11, <1>t, <2>3 DEF Tick, TypeOK
  <2>5. overran' \in BOOLEAN
    BY <1>11, <1>t DEF Tick, TypeOK
  <2>6. QED BY <1>11, <1>t, <2>1, <2>2, <2>4, <2>5, TickRows DEF Tick, TypeOK
<1>12. CASE UNCHANGED vars
  BY <1>12, <1>t DEF vars, TypeOK
<1>13. QED
  BY <1>1, <1>2, <1>3, <1>4, <1>5, <1>6, <1>7, <1>8, <1>9, <1>10, <1>11, <1>12
  DEF Next, Work, Fail, Record

-----------------------------------------------------------------------------
(* The lease. *)

(* Who may take the lease finds no tick that is shorter than its lease.    *)
LEMMA Outlived ==
  ASSUME IInv, NEW w \in Workers, ~Held(w), NEW v \in Workers, v # w
  PROVE  ~(step[v] \in Elected /\ lag[v] < Lease)
<1> SUFFICES ASSUME step[v] \in Elected, lag[v] < Lease PROVE FALSE
  OBVIOUS
<1>t. TypeOK /\ LeaseInv
  BY DEF IInv
<1>1. lease.owner = v /\ lease.left = Lease - lag[v]
  BY <1>t DEF LeaseInv
<1>2. lag[v] \in Nat /\ lag[w] \in Nat
  BY <1>t, Times
<1>3. lease.left > Now(w)
  BY <1>1, <1>2, SchedulerAssumption DEF Now
<1>4. QED BY <1>1, <1>3, SchedulerAssumption DEF Held

LEMMA LeaseInductive == IInv /\ [Next]_vars => LeaseInv'
<1> SUFFICES ASSUME IInv, [Next]_vars PROVE LeaseInv'
  OBVIOUS
<1> USE DEF table, reads, outside, Goto
<1>t. TypeOK /\ LeaseInv
  BY DEF IInv
<1>1. ASSUME NEW w \in Workers, step[w] \in Elected, step'[w] \in Elected,
             \A v \in Workers : v # w => step'[v] = step[v],
             UNCHANGED <<lease, lag, overran>>
      PROVE  LeaseInv'
  BY <1>1, <1>t DEF LeaseInv, Elected
<1>2. ASSUME NEW w \in Workers, step'[w] = "resting", lag'[w] = 0,
             \A v \in Workers : v # w => step'[v] = step[v] /\ lag'[v] = lag[v],
             overran' = overran, lease.owner # w => lease' = lease
      PROVE  LeaseInv'
  <2>1. \A v \in Workers : v # w /\ lease.owner = v => lease' = lease
    BY <1>2
  <2>2. QED BY <1>2, <1>t, <2>1 DEF LeaseInv, Elected
<1>3. ASSUME NEW w \in Workers, NEW p, EndTick(w, p)
      PROVE  /\ step'[w] = "resting" /\ lag'[w] = 0
             /\ \A v \in Workers : v # w => step'[v] = step[v] /\ lag'[v] = lag[v]
  BY <1>3, <1>t DEF EndTick, TypeOK
<1>4. ASSUME NEW w \in Workers, ListAccounts(w) \/ EnsureRead(w) \/ EnsureWrite(w)
               \/ ClaimDue(w) \/ DispatchDone(w) \/ Interrupt(w)
      PROVE  LeaseInv'
  <2>1. step[w] \in Elected /\ step'[w] \in Elected
        /\ \A v \in Workers : v # w => step'[v] = step[v]
    BY <1>4, <1>t
    DEF ListAccounts, EnsureRead, EnsureWrite, ClaimDue, Claim, DispatchDone, Interrupt,
        TypeOK, Elected
  <2>2. UNCHANGED <<lease, lag, overran>>
    BY <1>4 DEF ListAccounts, EnsureRead, EnsureWrite, ClaimDue, DispatchDone, Interrupt
  <2>3. QED BY <1>1, <2>1, <2>2
<1>5. ASSUME NEW w \in Workers, StartTick(w) PROVE LeaseInv'
  <2>1. step'[w] = "ticking" /\ step[w] = "resting" /\ UNCHANGED <<lease, lag, overran>>
        /\ \A v \in Workers : v # w => step'[v] = step[v]
    BY <1>5, <1>t DEF StartTick, TypeOK
  <2>2. lag[w] < Lease
    BY <1>t, <2>1, SchedulerAssumption DEF LeaseInv
  <2>3. QED BY <1>t, <2>1, <2>2 DEF LeaseInv, Elected
<1>6. ASSUME NEW w \in Workers, AcquireLease(w) PROVE LeaseInv'
  <2>1. /\ step[w] = "ticking" /\ step'[w] = "leased" /\ UNCHANGED <<lag, overran>>
        /\ \A v \in Workers : v # w => step'[v] = step[v]
        /\ lease'.owner = w /\ lease'.left = Lease - lag[w]
    BY <1>6, <1>t DEF AcquireLease, LeaseEnd, TypeOK
  <2>2. \A v \in Workers : v # w => ~(step[v] \in Elected /\ lag[v] < Lease)
    BY <1>6, Outlived DEF AcquireLease
  <2>3. QED BY <1>t, <2>1, <2>2 DEF LeaseInv, Elected
<1>7. ASSUME NEW w \in Workers, LeaseRefused(w) \/ ReleaseLease(w) \/ Crash(w)
      PROVE  LeaseInv'
  <2>1. \E p : EndTick(w, p)
    BY <1>7 DEF LeaseRefused, ReleaseLease, Crash
  <2>2. overran' = overran
    BY <1>7 DEF LeaseRefused, ReleaseLease, Crash
  <2>3. lease.owner # w => lease' = lease
    <3>1. ASSUME lease.owner # w PROVE [lease EXCEPT !.owner = IF @ = w THEN Gone ELSE @] = lease
      BY <3>1, <1>t DEF TypeOK
    <3>2. QED BY <1>7, <3>1 DEF LeaseRefused, ReleaseLease, Crash
  <2>4. QED BY <1>2, <1>3, <2>1, <2>2, <2>3
<1>r. ASSUME NEW w \in Workers, TickRaises(w) PROVE LeaseInv'
  <2>1. /\ step'[w] = "resting" /\ lag'[w] = 0 /\ overran' = overran
        /\ \A v \in Workers : v # w => step'[v] = step[v] /\ lag'[v] = lag[v]
    BY <1>r, <1>3 DEF TickRaises
  <2>2. CASE lease' = lease
    BY <1>2, <2>1, <2>2
  <2>3. CASE step[w] = "ticking" /\ ~Held(w)
    <3>1. \A v \in Workers : v # w => ~(step[v] \in Elected /\ lag[v] < Lease)
      BY <1>t, <2>3, Outlived DEF IInv
    <3>2. QED BY <1>t, <2>1, <3>1 DEF LeaseInv, Elected
  <2>4. QED BY <1>r, <2>2, <2>3 DEF TickRaises
<1>8. CASE Tick
  <2>1. /\ \A w \in Workers : lag'[w] = IF step[w] = "resting" THEN 0 ELSE lag[w] + 1
        /\ step' = step /\ lease'.owner = lease.owner /\ lease'.left = Older(lease.left)
        /\ overran' = (overran \/ \E w \in Workers : step[w] # "resting" /\ lag[w] + 1 >= Lease)
    BY <1>8, <1>t DEF Tick, TypeOK
  <2> SUFFICES ASSUME NEW w \in Workers
               PROVE  /\ step[w] \in Elected /\ lag'[w] < Lease =>
                           lease'.owner = w /\ lease'.left = Lease - lag'[w]
                      /\ step[w] = "resting" => lag'[w] = 0
                      /\ ~overran' /\ step[w] # "resting" => lag'[w] < Lease
    BY <2>1 DEF LeaseInv
  <2>2. lag[w] \in Nat /\ lease.left \in Int
    BY <1>t, Times DEF TypeOK, Lefts
  <2>3. ASSUME step[w] \in Elected, lag'[w] < Lease
        PROVE  lease'.owner = w /\ lease'.left = Lease - lag'[w]
    <3>1. lag'[w] = lag[w] + 1
      BY <2>1, <2>3 DEF Elected
    <3>2. lease.owner = w /\ lease.left = Lease - lag[w]
      BY <1>t, <2>2, <2>3, <3>1, SchedulerAssumption DEF LeaseInv
    <3>3. Older(lease.left) = lease.left - 1
      BY <2>2, <2>3, <3>1, <3>2, SchedulerAssumption DEF Older, Floor
    <3>4. QED BY <2>1, <2>2, <3>1, <3>2, <3>3, SchedulerAssumption
  <2>4. ~overran' /\ step[w] # "resting" => lag'[w] < Lease
    <3> SUFFICES ASSUME ~overran', step[w] # "resting" PROVE lag'[w] < Lease
      OBVIOUS
    <3>1. ~(lag[w] + 1 >= Lease) /\ lag'[w] = lag[w] + 1
      BY <2>1
    <3>2. QED BY <2>2, <3>1, SchedulerAssumption
  <2>5. QED BY <2>1, <2>3, <2>4
<1>9. CASE UNCHANGED <<step, lag, lease, overran>>
  BY <1>9, <1>t DEF LeaseInv
<1>10. QED
  BY <1>4, <1>5, <1>6, <1>7, <1>r, <1>8, <1>9
  DEF Next, Work, Fail, StartPreview, Preview, FinishRun, FinishFails, Operate, Exclude,
      Include, BeginRemoval, CompleteRemoval, Command, vars

-----------------------------------------------------------------------------
(* The jobs. *)

LEMMA ClaimInductive == IInv /\ [Next]_vars => ClaimInv'
<1> SUFFICES ASSUME IInv, [Next]_vars PROVE ClaimInv'
  OBVIOUS
<1> USE DEF table, reads, outside
<1>t. TypeOK /\ ClaimInv
  BY DEF IInv
<1>n. \A r \in JobRows : r # None
  BY NullAssumption
<1>k. \A j \in Jobs : NoClaims[j].live = FALSE
  BY DEF NoClaims, NoClaim
<1>1. ASSUME \A w \in Workers, j \in Jobs : claims'[w][j].live =>
               claims[w][j].live /\ lag'[w] = lag[w],
             \A w \in Workers, j \in Jobs : claims'[w][j].live /\ jobs[j] # None =>
               jobs'[j] # None /\ jobs'[j].next = jobs[j].next
      PROVE  ClaimInv'
  BY <1>1, <1>t DEF ClaimInv
<1>2. ASSUME NEW w \in Workers, EnsureWrite(w) PROVE ClaimInv'
  <2>1. \A j \in Jobs : jobs[j] # None =>
          jobs'[j] # None /\ jobs'[j].next = jobs[j].next
    BY <1>2, <1>n, EnsureWriteRows
  <2>2. UNCHANGED <<claims, lag>>
    BY <1>2 DEF EnsureWrite
  <2>3. QED BY <1>1, <2>1, <2>2
<1>3. ASSUME NEW w \in Workers, ClaimDue(w) PROVE ClaimInv'
  <2>1. lag' = lag
    BY <1>3 DEF ClaimDue
  <2>2. \A j \in Jobs : jobs[j] # None =>
          jobs'[j] # None /\ jobs'[j].next = jobs[j].next
    BY <1>3, <1>n, ClaimRows
  <2>3. \A v \in Workers, j \in Jobs : claims'[v][j].live =>
          jobs[j] # None /\ jobs[j].next <= -lag[v]
    BY <1>3, <1>n, <1>t, ClaimRows DEF ClaimInv
  <2>4. QED BY <2>1, <2>2, <2>3 DEF ClaimInv
<1>4. ASSUME NEW w \in Workers, NEW i \in Jobs, Record(w, i) PROVE ClaimInv'
  <2>1. lag' = lag
    BY <1>4 DEF Record, StartPreview, Preview, FinishRun, FinishFails
  <2>2. \A v \in Workers, j \in Jobs : claims'[v][j].live /\ jobs[j] # None =>
          jobs'[j] # None /\ jobs'[j].next = jobs[j].next
    BY <1>4, <1>n, RecordRows
  <2>3. \A v \in Workers, j \in Jobs : claims'[v][j].live => claims[v][j].live
    BY <1>4, RecordRows
  <2>4. QED BY <1>1, <2>1, <2>2, <2>3
<1>5. ASSUME NEW w \in Workers, LeaseRefused(w) \/ ReleaseLease(w) \/ Crash(w) \/ Interrupt(w)
               \/ TickRaises(w)
      PROVE  ClaimInv'
  <2>1. jobs' = jobs /\ claims' = [claims EXCEPT ![w] = NoClaims]
        /\ \A v \in Workers : v # w => lag'[v] = lag[v]
    BY <1>5, <1>t DEF LeaseRefused, ReleaseLease, Crash, Interrupt, TickRaises, EndTick, TypeOK
  <2>2. \A v \in Workers : claims'[v] = IF v = w THEN NoClaims ELSE claims[v]
    BY <1>t, <2>1 DEF TypeOK
  <2>3. QED BY <1>1, <1>k, <2>1, <2>2
<1>6. ASSUME NEW a \in Accounts, Operate(a) PROVE ClaimInv'
  <2>1. UNCHANGED <<claims, lag>>
    BY <1>6 DEF Operate, Exclude, Include, BeginRemoval, CompleteRemoval, Command
  <2>2. QED BY <1>1, <1>6, <1>n, <2>1, OperateRows
<1>7. CASE Tick
  <2> SUFFICES ASSUME NEW w \in Workers, NEW j \in Jobs, claims'[w][j].live
               PROVE  jobs'[j] # None /\ jobs'[j].next <= -lag'[w]
    BY DEF ClaimInv
  <2>1. /\ claims' = claims /\ lag[w] < MaxLag
        /\ lag'[w] = IF step[w] = "resting" THEN 0 ELSE lag[w] + 1
    BY <1>7 DEF Tick
  <2>2. jobs[j] # None /\ jobs[j].next <= -lag[w]
    BY <1>t, <2>1 DEF ClaimInv
  <2>3. jobs[j] \in JobRows /\ jobs'[j] \in JobRows /\ jobs'[j].next = Older(jobs[j].next)
    BY <1>7, <2>2, TickRows
  <2>4. jobs[j].next \in Int /\ lag[w] \in Nat
    BY <1>t, <2>3, Times, SchedulerAssumption DEF JobRows, Slots, Floor
  <2>5. Older(jobs[j].next) <= -lag'[w]
    BY <2>1, <2>2, <2>4, SchedulerAssumption DEF Older, Floor
  <2>6. QED BY <1>n, <2>3, <2>5
<1>8. CASE UNCHANGED <<jobs, claims, lag>>
  BY <1>1, <1>8
<1>9. QED
  BY <1>2, <1>3, <1>4, <1>5, <1>6, <1>7, <1>8
  DEF Next, Work, Fail, Record, StartTick, AcquireLease, ListAccounts, EnsureRead,
      DispatchDone, vars

(* Only ensure_jobs inserts rows, and no row goes away.                    *)
LEMMA RowsKept ==
  ASSUME IInv, [Next]_vars
  PROVE  \/ \E w \in Workers : EnsureWrite(w)
         \/ \A j \in Jobs : jobs'[j] = None <=> jobs[j] = None
<1> USE DEF table, reads, outside
<1>n. \A r \in JobRows : r # None
  BY NullAssumption
<1> DEFINE AllKept == \A j \in Jobs : jobs'[j] = None <=> jobs[j] = None
<1>1. ASSUME NEW w \in Workers, ClaimDue(w) PROVE AllKept
  BY <1>1, <1>n, ClaimRows
<1>2. ASSUME NEW w \in Workers, NEW i \in Jobs, Record(w, i) PROVE AllKept
  BY <1>2, <1>n, RecordRows
<1>3. ASSUME NEW a \in Accounts, Operate(a) PROVE AllKept
  BY <1>3, <1>n, OperateRows
<1>4. CASE Tick
  BY <1>4, <1>n, TickRows
<1>5. CASE UNCHANGED jobs
  BY <1>5
<1> HIDE DEF AllKept
<1>6. QED
  BY <1>1, <1>2, <1>3, <1>4, <1>5
  DEF Next, Work, Fail, Record, StartTick, AcquireLease, LeaseRefused, ListAccounts,
      EnsureRead, DispatchDone, ReleaseLease, Interrupt, TickRaises, Crash, vars, AllKept

(* A worker that is about to write ensure_jobs' rows has just read them.   *)
LEMMA RowsRead ==
  ASSUME IInv, [Next]_vars, NEW v \in Workers, step'[v] = "ensuring"
  PROVE  \/ EnsureRead(v)
         \/ /\ step[v] = "ensuring" /\ ~EnsureWrite(v)
            /\ rows'[v] = rows[v] /\ current'[v] = current[v]
<1> USE DEF table, reads, outside, Goto
<1>t. TypeOK
  BY DEF IInv
<1>1. ASSUME NEW w \in Workers, Work(w) \/ Fail(w), w # v
      PROVE  step'[v] = step[v] /\ rows'[v] = rows[v] /\ current'[v] = current[v]
  BY <1>1, <1>t DEF Work, Fail, StartTick, AcquireLease, LeaseRefused, ListAccounts,
     EnsureRead, EnsureWrite, ClaimDue, DispatchDone, ReleaseLease, StartPreview, Preview,
     FinishRun, FinishFails, Interrupt, TickRaises, Crash, EndTick, Forget, Claim,
     TypeOK
<1>2. ASSUME Work(v) \/ Fail(v), ~EnsureRead(v)
      PROVE  step[v] = "ensuring" /\ rows'[v] = rows[v] /\ current'[v] = current[v]
  BY <1>2, <1>t DEF Work, Fail, StartTick, AcquireLease, LeaseRefused, ListAccounts,
     EnsureRead, EnsureWrite, ClaimDue, DispatchDone, ReleaseLease, StartPreview, Preview,
     FinishRun, FinishFails, Interrupt, TickRaises, Crash, EndTick, Forget, Claim,
     TypeOK
<1>3. EnsureWrite(v) => step'[v] = "ensured"
  BY <1>t DEF EnsureWrite, TypeOK
<1>4. \/ \E w \in Workers : Work(w) \/ Fail(w)
      \/ UNCHANGED <<step, rows, current>>
  BY DEF Next, Operate, Exclude, Include, BeginRemoval, CompleteRemoval, Command, Tick, vars
<1>5. ~EnsureWrite(v)
  BY <1>3
<1>6. CASE UNCHANGED <<step, rows, current>>
  BY <1>5, <1>6
<1>7. ASSUME NEW w \in Workers, Work(w) \/ Fail(w), ~EnsureRead(v)
      PROVE  step[v] = "ensuring" /\ rows'[v] = rows[v] /\ current'[v] = current[v]
  <2>1. CASE w = v
    BY <1>2, <1>7, <2>1
  <2>2. CASE w # v
    BY <1>1, <1>7, <2>2
  <2>3. QED BY <2>1, <2>2
<1>8. QED BY <1>4, <1>5, <1>6, <1>7

(* Two workers that are both about to insert have outlived a lease.        *)
LEMMA Alone ==
  ASSUME IInv, ~overran, NEW v \in Workers, NEW w \in Workers,
         step[v] = "ensuring", step[w] = "ensuring"
  PROVE  v = w
BY DEF IInv, LeaseInv, Elected

LEMMA MissingInductive == IInv /\ [Next]_vars => MissingInv'
<1> SUFFICES ASSUME IInv, [Next]_vars, NEW w \in Workers, step'[w] = "ensuring"
             PROVE  /\ \A j \in rows'[w] : jobs'[j] # None
                    /\ \A a \in Accounts :
                         <<a, w>> \notin rows'[w] => jobs'[<<a, w>>] = None
                    /\ \A a \in Missing(w)' : ~overran' =>
                         \A v \in Workers : jobs'[<<a, v>>] = None
  BY DEF MissingInv
<1>t. TypeOK /\ MissingInv
  BY DEF IInv
<1>j. \A a \in Accounts, v \in Workers :
        <<a, v>> \in Jobs /\ <<a, v>>[1] = a /\ <<a, v>>[2] = v
  BY DEF Jobs
<1>s. \A j \in rows[w] : j \in Jobs
  BY <1>t DEF TypeOK
<1>o. ~overran' => ~overran
  BY DEF Next, Work, Fail, StartTick, AcquireLease, LeaseRefused, ListAccounts,
     EnsureRead, EnsureWrite, ClaimDue, DispatchDone, ReleaseLease, StartPreview, Preview,
     FinishRun, FinishFails, Interrupt, TickRaises, Crash, Operate, Exclude, Include,
     BeginRemoval, CompleteRemoval, Command, Tick, outside, vars
<1>1. CASE EnsureRead(w)
  <2>1. rows'[w] = {j \in Jobs : jobs[j] # None} /\ jobs' = jobs
    BY <1>1, <1>t DEF EnsureRead, table, TypeOK
  <2>2. QED BY <1>j, <2>1 DEF Missing
<1>2. CASE /\ step[w] = "ensuring" /\ ~EnsureWrite(w)
           /\ rows'[w] = rows[w] /\ current'[w] = current[w]
  <2>1. /\ \A j \in rows[w] : jobs[j] # None
        /\ \A a \in Accounts : <<a, w>> \notin rows[w] => jobs[<<a, w>>] = None
        /\ \A a \in Missing(w) : ~overran => \A v \in Workers : jobs[<<a, v>>] = None
    BY <1>2, <1>t DEF MissingInv
  <2>2. Missing(w)' = Missing(w) /\ Missing(w) \subseteq Accounts
    BY <1>2 DEF Missing
  <2>3. CASE \A j \in Jobs : jobs'[j] = None <=> jobs[j] = None
    BY <1>2, <1>j, <1>o, <1>s, <2>1, <2>2, <2>3
  <2>4. ASSUME NEW v \in Workers, EnsureWrite(v)
        PROVE  /\ overran
               /\ \A j \in rows[w] : jobs'[j] # None
               /\ \A a \in Accounts : <<a, w>> \notin rows[w] => jobs'[<<a, w>>] = None
    <3>1. v # w /\ step[v] = "ensuring"
      BY <1>2, <2>4 DEF EnsureWrite
    <3>2. overran
      BY <1>2, <3>1, Alone, <1>t DEF TypeOK
    <3>3. \A j \in Jobs : /\ jobs[j] # None => jobs'[j] # None
                          /\ j[2] = w /\ jobs[j] = None => jobs'[j] = None
      BY <2>4, <3>1, NullAssumption, EnsureWriteRows
    <3>4. QED BY <1>j, <1>s, <2>1, <3>2, <3>3
  <2>5. QED BY <1>2, <1>o, <2>2, <2>3, <2>4, RowsKept
<1>3. QED BY <1>1, <1>2, RowsRead

LEMMA OneInductive == IInv /\ [Next]_vars => OneInv'
<1> SUFFICES ASSUME IInv, [Next]_vars, ~overran', NEW a \in Accounts, NEW v \in Workers,
                    NEW w \in Workers, jobs'[<<a, v>>] # None, jobs'[<<a, w>>] # None
             PROVE  v = w
  BY DEF OneInv
<1>t. TypeOK /\ MissingInv /\ OneInv
  BY DEF IInv
<1>j. \A u \in Workers : <<a, u>> \in Jobs /\ <<a, u>>[1] = a /\ <<a, u>>[2] = u
  BY DEF Jobs
<1>o. ~overran
  BY DEF Next, Work, Fail, StartTick, AcquireLease, LeaseRefused, ListAccounts,
     EnsureRead, EnsureWrite, ClaimDue, DispatchDone, ReleaseLease, StartPreview, Preview,
     FinishRun, FinishFails, Interrupt, TickRaises, Crash, Operate, Exclude, Include, BeginRemoval,
     CompleteRemoval, Command, Tick, outside, vars
<1>1. CASE \A j \in Jobs : jobs'[j] = None <=> jobs[j] = None
  BY <1>t, <1>j, <1>o, <1>1 DEF OneInv
<1>2. ASSUME NEW u \in Workers, EnsureWrite(u) PROVE v = w
  <2>1. \A x \in Workers : jobs'[<<a, x>>] # None =>
          (x = u /\ a \in Missing(u)) \/ jobs[<<a, x>>] # None
    BY <1>2, <1>j, NullAssumption, EnsureWriteRows
  <2>2. CASE a \in Missing(u)
    <3>1. \A x \in Workers : jobs[<<a, x>>] = None
      BY <1>2, <1>t, <1>o, <2>2 DEF EnsureWrite, MissingInv
    <3>2. QED BY <2>1, <3>1
  <2>3. CASE a \notin Missing(u)
    BY <1>t, <1>o, <2>1, <2>3 DEF OneInv
  <2>4. QED BY <2>2, <2>3
<1>3. QED BY <1>1, <1>2, RowsKept

LEMMA Inductive == Spec => []IInv
<1>1. IInv /\ [Next]_vars => IInv'
  BY TypeInductive, LeaseInductive, ClaimInductive, MissingInductive, OneInductive
  DEF IInv
<1>2. QED BY <1>1, InitInductive, PTL DEF Spec

-----------------------------------------------------------------------------
(* The runs. *)

(* A worker has claims only while it dispatches.  As long as no tick has   *)
(* been outlived or cut short, a run that has been opened or previewed is  *)
(* claimed by somebody, and a claim is good for one preview.               *)
RunInv ==
  /\ \A w \in Workers, j \in Jobs :
       claims[w][j].phase # "none" => step[w] = "dispatching"
  /\ ~overran /\ faults = 0 =>
       /\ \A j \in Jobs : jobs[j] # None /\ (jobs[j].run.open \/ jobs[j].run.previewed) =>
            \E w \in Workers : claims[w][j].phase # "none"
       /\ \A w \in Workers, j \in Jobs : claims[w][j].phase # "none" =>
            /\ claims[w][j].live
            /\ claims[w][j].phase # "returned" => ~jobs[j].run.previewed

(* While no tick has outlived its lease, one worker at most is elected.    *)
LEMMA Sole ==
  ASSUME IInv, ~overran, NEW v \in Workers, NEW w \in Workers,
         step[v] \in Elected, step[w] \in Elected
  PROVE  v = w
BY DEF IInv, LeaseInv, Elected

(* ensure_jobs in full: a job is inserted, left alone, or switched.        *)
LEMMA EnsuredRows ==
  ASSUME IInv, NEW w \in Workers, EnsureWrite(w), NEW j \in Jobs
  PROVE  \/ /\ j[2] = w /\ j[1] \in Missing(w) \cap view[w] /\ jobs[j] = None
            /\ jobs'[j] = NewJob(w)
         \/ /\ j \notin rows[w] /\ ~(j[2] = w /\ j[1] \in Missing(w) \cap view[w])
            /\ jobs'[j] = jobs[j]
         \/ /\ j \in rows[w] /\ jobs[j] \in JobRows /\ jobs'[j] \in JobRows
            /\ jobs'[j].next = jobs[j].next /\ jobs'[j].run = jobs[j].run
            /\ jobs'[j].enabled <=> EnabledAfter(j, w)
<1> DEFINE inserted == {<<a, w>> : a \in Missing(w) \cap view[w]}
<1>t. TypeOK /\ MissingInv /\ step[w] = "ensuring"
  BY DEF IInv, EnsureWrite
<1>1. PICK a \in Accounts, v \in Workers : j = <<a, v>>
  BY DEF Jobs
<1>2. j \in inserted <=> j[2] = w /\ j[1] \in Missing(w) \cap view[w]
  BY <1>1
<1>3. jobs'[j] =
        IF j \in inserted THEN NewJob(w)
        ELSE IF j \in rows[w] THEN [jobs[j] EXCEPT !.enabled = EnabledAfter(j, w)]
        ELSE jobs[j]
  BY DEF EnsureWrite
<1> HIDE DEF inserted
<1>4. /\ j \in rows[w] => jobs[j] \in JobRows
      /\ j \in inserted => j \notin rows[w] /\ jobs[j] = None
  BY <1>t, <1>1, <1>2 DEF TypeOK, MissingInv, Missing
<1>5. \A r \in JobRows : \A b \in BOOLEAN :
        LET s == [r EXCEPT !.enabled = b] IN
        s \in JobRows /\ s.next = r.next /\ s.run = r.run /\ s.enabled = b
  BY DEF JobRows
<1>6. EnabledAfter(j, w) \in BOOLEAN
  BY DEF EnabledAfter
<1>7. QED BY <1>2, <1>3, <1>4, <1>5, <1>6

(* claim_due and the operator's commands leave a job's run and schedule,   *)
(* but for the runs that are opened and the jobs that are switched off.    *)
LEMMA ClaimedRows ==
  ASSUME IInv, NEW w \in Workers, ClaimDue(w), NEW j \in Jobs, jobs[j] \in JobRows
  PROVE  /\ jobs'[j].next = jobs[j].next /\ jobs'[j].enabled = jobs[j].enabled
         /\ jobs'[j].run.previewed = jobs[j].run.previewed
         /\ \/ jobs'[j].run = jobs[j].run
            \/ /\ j \in Due(w) /\ claims'[w][j] = [phase |-> "queued", live |-> TRUE]
               /\ jobs'[j].run.open /\ jobs'[j].run.left = LeaseEnd(w)
         /\ claims'[w][j] # NoClaim =>
              /\ j \in Due(w) /\ claims'[w][j] = [phase |-> "queued", live |-> TRUE]
              /\ jobs'[j].run.open /\ jobs'[j].run.left = LeaseEnd(w)
<1>1. \A r \in JobRows :
        LET s == [r EXCEPT !.run = [@ EXCEPT !.open = TRUE, !.left = LeaseEnd(w)]] IN
        /\ s.next = r.next /\ s.enabled = r.enabled
        /\ s.run.previewed = r.run.previewed /\ s.run.open /\ s.run.left = LeaseEnd(w)
  BY DEF JobRows
<1>2. PICK taken \in SUBSET Due(w) : Claim(w, taken)
  BY DEF ClaimDue
<1>3. jobs'[j] = IF j \in taken
        THEN [jobs[j] EXCEPT !.run = [@ EXCEPT !.open = TRUE, !.left = LeaseEnd(w)]]
        ELSE jobs[j]
  BY <1>2 DEF Claim
<1>4. claims'[w][j] = IF j \in taken THEN [phase |-> "queued", live |-> TRUE] ELSE NoClaim
  BY <1>2 DEF Claim, IInv, TypeOK
<1>5. QED BY <1>1, <1>2, <1>3, <1>4

LEMMA OperatedRows ==
  ASSUME IInv, NEW a \in Accounts, Operate(a), NEW j \in Jobs, jobs[j] \in JobRows
  PROVE  /\ jobs'[j].next = jobs[j].next /\ jobs'[j].run = jobs[j].run
         /\ jobs'[j].enabled => jobs[j].enabled
<1>1. \A r \in JobRows :
        LET s == [r EXCEPT !.enabled = FALSE] IN
        s.next = r.next /\ s.run = r.run /\ s.enabled = FALSE
  BY DEF JobRows
<1>2. jobs'[j] = jobs[j] \/ jobs'[j] = [jobs[j] EXCEPT !.enabled = FALSE]
  BY DEF Operate, Exclude, Include, BeginRemoval, CompleteRemoval
<1>3. QED BY <1>1, <1>2

LEMMA TickedRows ==
  ASSUME IInv, Tick, NEW j \in Jobs, jobs[j] \in JobRows
  PROVE  /\ jobs'[j].next = Older(jobs[j].next) /\ jobs'[j].enabled = jobs[j].enabled
         /\ jobs'[j].run.open = jobs[j].run.open
         /\ jobs'[j].run.left = Older(jobs[j].run.left)
         /\ jobs'[j].run.previewed = jobs[j].run.previewed
<1>1. \A r \in JobRows :
        LET s == [r EXCEPT !.next = Older(@),
                           !.run = [@ EXCEPT !.left = Older(r.run.left)]] IN
        /\ s.next = Older(r.next) /\ s.enabled = r.enabled
        /\ s.run.open = r.run.open /\ s.run.left = Older(r.run.left)
        /\ s.run.previewed = r.run.previewed
  BY DEF JobRows
<1>2. jobs[j] # None
  BY NullAssumption
<1>3. jobs'[j] = [jobs[j] EXCEPT !.next = Older(@),
                                 !.run = [@ EXCEPT !.left = Older(jobs[j].run.left)]]
  BY <1>2 DEF Tick
<1>4. QED BY <1>1, <1>3

(* finish_run empties the run of its job, which it moves to the future;    *)
(* preview marks one.                                                      *)
LEMMA RecordedRows ==
  ASSUME IInv, NEW w \in Workers, NEW i \in Jobs, Record(w, i), NEW j \in Jobs,
         jobs[j] \in JobRows
  PROVE  /\ jobs'[j].enabled = jobs[j].enabled
         /\ \/ /\ jobs'[j].next = jobs[j].next /\ jobs'[j].run.open = jobs[j].run.open
               /\ jobs'[j].run.left = jobs[j].run.left
               /\ \/ jobs'[j].run.previewed = jobs[j].run.previewed
                  \/ i = j /\ Preview(w, i)
            \/ /\ i = j /\ FinishRun(w, i) /\ claims[w][i].live
               /\ jobs'[j].next = NextSlot(w) /\ jobs'[j].run = NoRun
<1>1. \A r \in JobRows :
        LET s == [r EXCEPT !.run.previewed = TRUE] IN
        /\ s.next = r.next /\ s.enabled = r.enabled
        /\ s.run.open = r.run.open /\ s.run.left = r.run.left
  BY DEF JobRows
<1>2. \A r \in JobRows :
        LET s == [r EXCEPT !.next = NextSlot(w), !.run = NoRun] IN
        s.next = NextSlot(w) /\ s.enabled = r.enabled /\ s.run = NoRun
  BY DEF JobRows
<1>3. \/ jobs'[j] = jobs[j]
      \/ Preview(w, i) /\ jobs' = [jobs EXCEPT ![i].run.previewed = TRUE]
      \/ /\ FinishRun(w, i) /\ claims[w][i].live
         /\ jobs' = [jobs EXCEPT ![i] = [@ EXCEPT !.next = NextSlot(w), !.run = NoRun]]
  BY DEF Record, StartPreview, Preview, FinishRun, FinishFails, MayRecord, table
<1>4. jobs \in [Jobs -> {None} \cup JobRows]
  BY DEF IInv, TypeOK
<1>5. CASE jobs'[j] = jobs[j]
  BY <1>5
<1>6. CASE /\ jobs'[j] # jobs[j] /\ Preview(w, i)
           /\ jobs' = [jobs EXCEPT ![i].run.previewed = TRUE]
  <2>1. i = j /\ jobs'[j] = [jobs[j] EXCEPT !.run.previewed = TRUE]
    BY <1>4, <1>6
  <2>2. QED BY <1>1, <1>6, <2>1
<1>7. CASE /\ jobs'[j] # jobs[j] /\ FinishRun(w, i) /\ claims[w][i].live
           /\ jobs' = [jobs EXCEPT ![i] = [@ EXCEPT !.next = NextSlot(w), !.run = NoRun]]
  <2>1. i = j /\ jobs'[j] = [jobs[j] EXCEPT !.next = NextSlot(w), !.run = NoRun]
    BY <1>4, <1>7
  <2>2. QED BY <1>2, <1>7, <2>1
<1>8. QED BY <1>3, <1>5, <1>6, <1>7

(* What Record does to the claims: it moves one of them on.                *)
LEMMA RecordedClaims ==
  ASSUME IInv, NEW w \in Workers, NEW i \in Jobs, Record(w, i)
  PROVE  /\ step[w] = "dispatching"
         /\ \A v \in Workers, j \in Jobs : j # i => claims'[v][j] = claims[v][j]
         /\ \A v \in Workers : v # w => claims'[v][i].phase = claims[v][i].phase
         /\ \/ /\ StartPreview(w, i) \/ Preview(w, i)
               /\ claims'[w][i].live = claims[w][i].live
               /\ claims[w][i].phase # "none" /\ claims'[w][i].phase # "none"
               /\ claims'[w][i].phase = "returned" => Preview(w, i)
               /\ claims[w][i].phase # "returned"
            \/ FinishRun(w, i) /\ claims'[w][i].phase = "none"
            \/ FinishFails(w, i)
<1> DEFINE Claims == [phase : {"none", "queued", "previewing", "returned"}, live : BOOLEAN]
<1>c. claims \in [Workers -> [Jobs -> Claims]]
  BY DEF IInv, TypeOK
<1>k. NoClaim.phase = "none"
  BY DEF NoClaim
<1>1. CASE StartPreview(w, i)
  BY <1>c, <1>1 DEF StartPreview, At
<1>2. CASE Preview(w, i)
  BY <1>c, <1>2 DEF Preview, At
<1>3. CASE FinishRun(w, i) /\ claims[w][i].live
  <2>1. claims' = [v \in Workers |-> [claims[v] EXCEPT ![i] =
          IF v = w THEN NoClaim ELSE [claims[v][i] EXCEPT !.live = FALSE]]]
    BY <1>3 DEF FinishRun, MayRecord
  <2>2. \A v \in Workers : [claims[v][i] EXCEPT !.live = FALSE].phase = claims[v][i].phase
    BY <1>c
  <2>3. \A v \in Workers : claims'[v][i] =
          IF v = w THEN NoClaim ELSE [claims[v][i] EXCEPT !.live = FALSE]
    BY <1>c, <2>1
  <2>4. \A v \in Workers, j \in Jobs : j # i => claims'[v][j] = claims[v][j]
    BY <1>c, <2>1
  <2>5. step[w] = "dispatching"
    BY <1>3 DEF FinishRun, At
  <2>6. \A v \in Workers : v # w => claims'[v][i].phase = claims[v][i].phase
    BY <2>2, <2>3
  <2>7. claims'[w][i].phase = "none"
    BY <1>k, <2>3
  <2>8. QED BY <1>3, <2>4, <2>5, <2>6, <2>7
<1>4. CASE (FinishRun(w, i) /\ ~claims[w][i].live) \/ FinishFails(w, i)
  <2>1. claims' = [claims EXCEPT ![w][i] = NoClaim] /\ step[w] = "dispatching"
    BY <1>4 DEF FinishRun, FinishFails, MayRecord, At
  <2>2. QED BY <1>c, <1>k, <1>4, <2>1
<1>5. QED BY <1>1, <1>2, <1>3, <1>4 DEF Record

LEMMA RunInit == Init => RunInv
BY DEF Init, RunInv, NoClaims, NoClaim

LEMMA RunInductive == IInv /\ RunInv /\ [Next]_vars => RunInv'
<1> SUFFICES ASSUME IInv, RunInv, [Next]_vars PROVE RunInv'
  OBVIOUS
<1> USE DEF table, reads, outside, Goto
<1>t. TypeOK
  BY DEF IInv
<1>n. \A r \in JobRows : r # None
  BY NullAssumption
<1>k. \A j \in Jobs : NoClaims[j].phase = "none"
  BY DEF NoClaims, NoClaim
<1>r. NoRun.open = FALSE /\ NoRun.previewed = FALSE
  BY DEF NoRun
<1>q. \A j \in Jobs : jobs[j] = None \/ jobs[j] \in JobRows
  BY <1>t DEF TypeOK
<1> DEFINE Busy(j) == jobs[j] # None /\ (jobs[j].run.open \/ jobs[j].run.previewed)
<1>l. \A w \in Workers, j \in Jobs : claims[w][j].live => jobs[j] # None
  BY DEF IInv, ClaimInv
(* A step that neither claims nor records: the runs stay as they are, and  *)
(* so do the claims, but for those of a worker that gives up.              *)
<1>1. ASSUME \A j \in Jobs : Busy(j)' => Busy(j),
             \A j \in Jobs : jobs[j] # None =>
               jobs'[j].run.previewed = jobs[j].run.previewed,
             \A w \in Workers : step[w] = "dispatching" <=> step'[w] = "dispatching",
             \A w \in Workers, j \in Jobs :
               \/ claims'[w][j] = claims[w][j]
               \/ step[w] # "dispatching" /\ claims'[w][j].phase = "none",
             faults' = faults, overran => overran'
      PROVE  RunInv'
  <2>1. \A w \in Workers, j \in Jobs : claims'[w][j].phase # "none" <=>
                                        claims[w][j].phase # "none"
    BY <1>1 DEF RunInv
  <2>2. \A w \in Workers, j \in Jobs : claims'[w][j].phase # "none" =>
          claims'[w][j] = claims[w][j]
    BY <1>1
  <2>3. ASSUME NEW w \in Workers, NEW j \in Jobs, claims'[w][j].phase # "none"
        PROVE  step'[w] = "dispatching"
    BY <1>1, <2>1, <2>3 DEF RunInv
  <2>4. ASSUME ~overran', faults' = 0, NEW j \in Jobs, Busy(j)'
        PROVE  \E w \in Workers : claims'[w][j].phase # "none"
    BY <1>1, <2>1, <2>4 DEF RunInv
  <2>5. ASSUME ~overran', faults' = 0, NEW w \in Workers, NEW j \in Jobs,
               claims'[w][j].phase # "none"
        PROVE  /\ claims'[w][j].live
               /\ claims'[w][j].phase # "returned" => ~jobs'[j].run.previewed
    <3>1. /\ claims[w][j].live /\ jobs[j] # None /\ claims'[w][j] = claims[w][j]
          /\ claims[w][j].phase # "returned" => ~jobs[j].run.previewed
      BY <1>1, <1>l, <2>1, <2>2, <2>5 DEF RunInv
    <3>2. QED BY <1>1, <3>1
  <2>6. QED BY <2>3, <2>4, <2>5 DEF RunInv
<1>2. ASSUME NEW w \in Workers, StartTick(w) \/ AcquireLease(w) \/ LeaseRefused(w)
               \/ ListAccounts(w) \/ EnsureRead(w) \/ ReleaseLease(w)
      PROVE  RunInv'
  <2>1. /\ UNCHANGED <<jobs, faults, overran>>
        /\ \A v \in Workers : step[v] = "dispatching" <=> step'[v] = "dispatching"
    BY <1>2, <1>t DEF StartTick, AcquireLease, LeaseRefused, ListAccounts, EnsureRead,
       ReleaseLease, EndTick, TypeOK
  <2>2. \/ claims' = claims
        \/ step[w] # "dispatching" /\ claims' = [claims EXCEPT ![w] = NoClaims]
    BY <1>2 DEF StartTick, AcquireLease, LeaseRefused, ListAccounts, EnsureRead,
       ReleaseLease, EndTick
  <2>3. \A v \in Workers, j \in Jobs :
          \/ claims'[v][j] = claims[v][j]
          \/ step[v] # "dispatching" /\ claims'[v][j].phase = "none"
    BY <1>k, <1>t, <2>2 DEF TypeOK
  <2>4. QED BY <1>1, <2>1, <2>3
<1>3. ASSUME NEW w \in Workers, EnsureWrite(w) PROVE RunInv'
  <2>1. /\ UNCHANGED <<claims, faults, overran>>
        /\ step[w] = "ensuring"
        /\ \A v \in Workers : step[v] = "dispatching" <=> step'[v] = "dispatching"
    BY <1>3, <1>t DEF EnsureWrite, TypeOK
  <2>2. ASSUME NEW j \in Jobs
        PROVE  /\ jobs[j] # None => jobs'[j].run.previewed = jobs[j].run.previewed
               /\ Busy(j)' => Busy(j)
    <3>1. NewJob(w).run = NoRun
      BY DEF NewJob
    <3>2. \/ jobs[j] = None /\ jobs'[j].run = NoRun
          \/ jobs'[j] = jobs[j]
          \/ jobs[j] \in JobRows /\ jobs'[j].run = jobs[j].run
      BY <1>3, <3>1, EnsuredRows
    <3>3. QED BY <1>n, <1>r, <3>2
  <2>3. QED BY <1>1, <2>1, <2>2
<1>4. ASSUME NEW w \in Workers, ClaimDue(w) PROVE RunInv'
  <2>p. PICK taken \in SUBSET Due(w) : Claim(w, taken)
    BY <1>4 DEF ClaimDue
  <2>1. /\ UNCHANGED <<faults, overran>> /\ step[w] = "ensured"
        /\ \A v \in Workers : v # w => step'[v] = step[v] /\ claims'[v] = claims[v]
        /\ taken # {} => step'[w] = "dispatching"
        /\ claims'[w] = [j \in Jobs |->
             IF j \in taken THEN [phase |-> "queued", live |-> TRUE] ELSE NoClaim]
        /\ taken \subseteq Jobs /\ \A j \in taken : jobs[j] # None
        /\ \A j \in Jobs : j \notin taken => jobs'[j] = jobs[j]
    BY <1>4, <1>t, <2>p DEF ClaimDue, Claim, Due, TypeOK
  <2>2. \A j \in Jobs : claims'[w][j].phase # "none" <=> j \in taken
    BY <2>1 DEF NoClaim
  <2>3. \A j \in taken : claims'[w][j] = [phase |-> "queued", live |-> TRUE]
    BY <2>1
  <2>4. ASSUME ~overran, faults = 0
        PROVE  (\A v \in Workers, j \in Jobs : claims[v][j].phase = "none")
               /\ (\A j \in Jobs : ~Busy(j))
    <3>1. \A v \in Workers : step[v] # "dispatching"
      BY <2>1, <2>4, Sole DEF Elected
    <3>2. QED BY <2>4, <3>1 DEF RunInv
  <2>5. ASSUME NEW v \in Workers, NEW j \in Jobs, claims'[v][j].phase # "none"
        PROVE  step'[v] = "dispatching"
    BY <2>1, <2>2, <2>5 DEF RunInv
  <2>6. ASSUME ~overran', faults' = 0, NEW j \in Jobs, Busy(j)'
        PROVE  j \in taken
    <3>1. jobs'[j] = jobs[j] => Busy(j)
      BY <2>6
    <3>2. QED BY <2>1, <2>4, <2>6, <3>1
  <2>7. ASSUME ~overran', faults' = 0, NEW v \in Workers, NEW j \in Jobs,
               claims'[v][j].phase # "none"
        PROVE  claims'[v][j].live /\ ~jobs'[j].run.previewed
    <3>1. v = w /\ j \in taken
      BY <2>1, <2>2, <2>4, <2>7
    <3>2. jobs[j] \in JobRows /\ ~jobs[j].run.previewed
      BY <1>q, <2>1, <2>4, <2>7, <3>1
    <3>3. ~jobs'[j].run.previewed
      BY <1>4, <3>2, ClaimedRows
    <3>4. QED BY <2>3, <3>1, <3>3
  <2>8. QED BY <2>2, <2>5, <2>6, <2>7 DEF RunInv
<1>5. ASSUME NEW w \in Workers, NEW i \in Jobs, Record(w, i) PROVE RunInv'
  <2>1. step' = step /\ overran' = overran /\ (FinishFails(w, i) => faults' # 0)
        /\ (~FinishFails(w, i) => faults' = faults)
    <3>1. faults \in Nat
      BY <1>t, SchedulerAssumption DEF TypeOK
    <3>2. QED BY <1>5, <3>1 DEF Record, StartPreview, Preview, FinishRun, FinishFails
  <2>2. ASSUME NEW v \in Workers, NEW j \in Jobs, claims'[v][j].phase # "none"
        PROVE  step'[v] = "dispatching"
    <3>1. CASE j = i /\ v = w
      BY <1>5, <2>1, <3>1, RecordedClaims
    <3>2. CASE j # i \/ v # w
      <4>1. claims'[v][j].phase = claims[v][j].phase
        BY <1>5, <3>2, RecordedClaims
      <4>2. QED BY <2>1, <2>2, <4>1 DEF RunInv
    <3>3. QED BY <3>1, <3>2
  <2> SUFFICES ASSUME ~overran', faults' = 0
               PROVE  /\ \A j \in Jobs : Busy(j)' =>
                           \E v \in Workers : claims'[v][j].phase # "none"
                      /\ \A v \in Workers, j \in Jobs : claims'[v][j].phase # "none" =>
                           /\ claims'[v][j].live
                           /\ claims'[v][j].phase # "returned" => ~jobs'[j].run.previewed
    BY <2>2 DEF RunInv
  <2>3. ~overran /\ faults = 0 /\ ~FinishFails(w, i)
    BY <2>1
  <2>4. \A v \in Workers : v # w => \A j \in Jobs : claims[v][j].phase = "none"
                                                    /\ claims'[v][j].phase = "none"
    <3>1. \A v \in Workers : v # w => step[v] # "dispatching"
      BY <1>5, <2>3, Sole, RecordedClaims DEF Elected
    <3>2. QED BY <2>1, <2>2, <3>1 DEF RunInv
  <2>5. ASSUME NEW j \in Jobs, jobs[j] \in JobRows, ~(FinishRun(w, i) /\ i = j),
               ~(Preview(w, i) /\ i = j)
        PROVE  jobs'[j].run.open = jobs[j].run.open
               /\ jobs'[j].run.previewed = jobs[j].run.previewed
    BY <1>5, <2>5, RecordedRows
  <2>6. \A j \in Jobs : jobs[j] = None => jobs'[j] = None
    BY <1>5, <1>n, RecordRows
  <2>7. ASSUME NEW j \in Jobs, Busy(j)' PROVE claims'[w][j].phase # "none"
    <3>1. jobs[j] \in JobRows /\ jobs[j] # None
      BY <1>n, <1>q, <2>6, <2>7
    <3>2. CASE j # i
      <4>1. Busy(j)
        BY <2>5, <2>7, <3>1, <3>2
      <4>2. claims[w][j].phase # "none"
        BY <2>3, <2>4, <4>1 DEF RunInv
      <4>3. QED BY <1>5, <3>2, <4>2, RecordedClaims
    <3>3. CASE j = i /\ ~FinishRun(w, i)
      BY <1>5, <2>3, <3>3, RecordedClaims
    <3>4. CASE j = i /\ FinishRun(w, i)
      <4>1. CASE claims[w][i].live
        <5>1. jobs'[i].run = NoRun
          <6>1. jobs \in [Jobs -> {None} \cup JobRows] /\ i \in Jobs
            BY <1>t DEF TypeOK
          <6>2. jobs' = [jobs EXCEPT ![i] =
                  [@ EXCEPT !.next = NextSlot(w), !.run = NoRun]]
            BY <3>4, <4>1 DEF FinishRun, MayRecord
          <6>3. jobs'[i] = [jobs[i] EXCEPT !.next = NextSlot(w), !.run = NoRun]
            BY <6>1, <6>2
          <6>4. jobs[i] \in [enabled : BOOLEAN, next : Slots,
                             run : [open : BOOLEAN, left : Lefts, previewed : BOOLEAN]]
            BY <3>1, <3>4 DEF JobRows
          <6>5. QED BY <6>3, <6>4
        <5>2. QED BY <1>r, <2>7, <3>4, <5>1
      <4>2. CASE ~claims[w][i].live
        <5>1. jobs' = jobs /\ claims[w][i].phase = "returned"
          BY <3>4, <4>2 DEF FinishRun, MayRecord, At
        <5>2. QED BY <2>3, <4>2, <5>1 DEF RunInv
      <4>3. QED BY <4>1, <4>2
    <3>5. QED BY <3>2, <3>3, <3>4
  <2>8. ASSUME NEW j \in Jobs, claims'[w][j].phase # "none"
        PROVE  /\ claims'[w][j].live
               /\ claims'[w][j].phase # "returned" => ~jobs'[j].run.previewed
    <3>1. /\ claims[w][j].phase # "none" /\ claims'[w][j].live = claims[w][j].live
          /\ claims'[w][j].phase # "returned" =>
               claims[w][j].phase # "returned" /\ ~(Preview(w, i) /\ i = j)
          /\ ~(FinishRun(w, i) /\ i = j)
      <4>1. CASE j # i
        BY <1>5, <2>8, <4>1, RecordedClaims
      <4>2. CASE j = i
        <5>1. Preview(w, i) => claims'[w][i].phase = "returned"
          BY <1>t DEF Preview, TypeOK
        <5>2. FinishRun(w, i) => claims[w][i].phase = "returned"
          BY DEF FinishRun, At
        <5>3. QED BY <1>5, <2>3, <2>8, <4>2, <5>1, <5>2, RecordedClaims
      <4>3. QED BY <4>1, <4>2
    <3>2. /\ claims[w][j].live /\ jobs[j] \in JobRows
          /\ claims[w][j].phase # "returned" => ~jobs[j].run.previewed
      BY <1>l, <1>q, <2>3, <3>1 DEF RunInv
    <3>3. QED BY <2>5, <3>1, <3>2
  <2>9. QED BY <2>4, <2>7, <2>8
<1>6. ASSUME NEW w \in Workers, DispatchDone(w) PROVE RunInv'
  <2>1. UNCHANGED <<jobs, claims, faults, overran>> /\ claims[w] = NoClaims
        /\ \A v \in Workers : v # w => step'[v] = step[v]
    BY <1>6, <1>t DEF DispatchDone, TypeOK
  <2>2. \A v \in Workers, j \in Jobs : claims[v][j].phase # "none" => v # w
    BY <1>k, <2>1
  <2>3. QED BY <2>1, <2>2 DEF RunInv
<1>7. ASSUME NEW w \in Workers, Interrupt(w) \/ TickRaises(w) \/ Crash(w) PROVE RunInv'
  <2>1. faults' # 0
    <3>1. faults \in Nat
      BY <1>t, SchedulerAssumption DEF TypeOK
    <3>2. QED BY <1>7, <3>1 DEF Interrupt, TickRaises, Crash
  <2>2. claims' = [claims EXCEPT ![w] = NoClaims]
        /\ \A v \in Workers : v # w => step'[v] = step[v]
    BY <1>7, <1>t DEF Interrupt, TickRaises, Crash, EndTick, TypeOK
  <2>3. \A v \in Workers, j \in Jobs : claims'[v][j].phase # "none" =>
          v # w /\ claims'[v][j] = claims[v][j]
    BY <1>k, <1>t, <2>2 DEF TypeOK
  <2>4. QED BY <2>1, <2>2, <2>3 DEF RunInv
<1>8. ASSUME NEW a \in Accounts, Operate(a) PROVE RunInv'
  <2>1. UNCHANGED <<step, claims, faults, overran>>
    BY <1>8 DEF Operate, Exclude, Include, BeginRemoval, CompleteRemoval, Command
  <2>2. ASSUME NEW j \in Jobs
        PROVE  /\ jobs[j] # None => jobs'[j].run.previewed = jobs[j].run.previewed
               /\ Busy(j)' => Busy(j)
    <3>1. jobs[j] = None => jobs'[j] = None
      BY <1>8, <1>n, OperateRows
    <3>2. QED BY <1>8, <1>q, <3>1, OperatedRows
  <2>3. QED BY <1>1, <2>1, <2>2
<1>9. CASE Tick
  <2>1. UNCHANGED <<step, claims, faults>> /\ (overran => overran')
    BY <1>9 DEF Tick
  <2>2. ASSUME NEW j \in Jobs
        PROVE  /\ jobs[j] # None => jobs'[j].run.previewed = jobs[j].run.previewed
               /\ Busy(j)' => Busy(j)
    <3>1. jobs[j] = None => jobs'[j] = None
      BY <1>9, <1>n, TickRows
    <3>2. QED BY <1>9, <1>q, <3>1, TickedRows
  <2>3. QED BY <1>1, <2>1, <2>2
<1>10. CASE UNCHANGED <<jobs, claims, step, faults, overran>>
  BY <1>10 DEF RunInv
<1>11. QED
  BY <1>2, <1>3, <1>4, <1>5, <1>6, <1>7, <1>8, <1>9, <1>10
  DEF Next, Work, Fail, Record, vars

LEMMA RunsClaimed == Spec => []RunInv
<1>1. RunInv /\ UNCHANGED vars => RunInv'
  BY DEF RunInv, vars
<1>2. QED BY <1>1, RunInit, RunInductive, Inductive, PTL DEF Spec

(* A claim that still counts keeps the lease of its run, which ends when   *)
(* that of the tick does, as long as the tick is shorter than a lease.     *)
HoldInv ==
  \A v \in Workers, j \in Jobs :
    claims[v][j].phase # "none" /\ claims[v][j].live /\ lag[v] < Lease =>
      jobs[j].run.open /\ jobs[j].run.left = Lease - lag[v]

LEMMA HoldInit == Init => HoldInv
BY DEF Init, HoldInv, NoClaims, NoClaim

(* A run that somebody holds is not due for anybody.                       *)
LEMMA HeldRun ==
  ASSUME IInv, HoldInv, NEW v \in Workers, NEW w \in Workers, NEW j \in Jobs,
         claims[v][j].phase # "none", claims[v][j].live, lag[v] < Lease
  PROVE  j \notin Due(w)
<1>1. jobs[j].run.open /\ jobs[j].run.left = Lease - lag[v]
  BY DEF HoldInv
<1>2. lag[v] \in Nat /\ lag[w] \in Nat
  BY Times DEF IInv
<1>3. ~(jobs[j].run.left <= Now(w))
  BY <1>1, <1>2, SchedulerAssumption DEF Now
<1>4. QED BY <1>1, <1>3 DEF Due, Free

LEMMA HoldInductive == IInv /\ RunInv /\ HoldInv /\ [Next]_vars => HoldInv'
<1> SUFFICES ASSUME IInv, RunInv, HoldInv, [Next]_vars,
                    NEW v \in Workers, NEW j \in Jobs,
                    claims'[v][j].phase # "none", claims'[v][j].live, lag'[v] < Lease
             PROVE  jobs'[j].run.open /\ jobs'[j].run.left = Lease - lag'[v]
  BY DEF HoldInv
<1> USE DEF table, reads, outside, Goto
<1> DEFINE Goal == jobs'[j].run.open /\ jobs'[j].run.left = Lease - lag'[v]
<1>t. TypeOK /\ ClaimInv
  BY DEF IInv
<1>k. NoClaims[j].phase = "none" /\ NoClaim.phase = "none"
  BY DEF NoClaims, NoClaim
<1>q. jobs[j] # None => jobs[j] \in JobRows
  BY <1>t DEF TypeOK
<1>n. \A r \in JobRows : r # None
  BY NullAssumption
(* A claim that there was, of a run whose lease is left alone.             *)
<1>1. ASSUME claims[v][j].phase # "none", claims[v][j].live, lag'[v] = lag[v],
             jobs[j] \in JobRows => jobs'[j].run.open = jobs[j].run.open
                                    /\ jobs'[j].run.left = jobs[j].run.left
      PROVE  Goal
  BY <1>1, <1>q, <1>t DEF HoldInv, ClaimInv
<1>2. ASSUME NEW w \in Workers, EnsureWrite(w) PROVE Goal
  <2>1. claims' = claims /\ lag' = lag
    BY <1>2 DEF EnsureWrite
  <2>2. jobs[j] \in JobRows
    BY <1>t, <1>q, <2>1 DEF ClaimInv
  <2>3. jobs'[j].run = jobs[j].run
    BY <1>2, <1>n, <2>2, EnsuredRows
  <2>4. QED BY <1>1, <2>1, <2>3
<1>3. ASSUME NEW w \in Workers, ClaimDue(w) PROVE Goal
  <2>1. lag' = lag /\ \A u \in Workers : u # w => claims'[u] = claims[u]
    BY <1>3, ClaimRows DEF ClaimDue
  <2>2. CASE v = w
    <3>1. jobs[j] \in JobRows
      BY <1>3, <2>2, ClaimRows
    <3>2. QED BY <1>3, <1>k, <2>1, <2>2, <3>1, ClaimedRows DEF LeaseEnd
  <2>3. CASE v # w
    <3>1. claims[v][j].phase # "none" /\ claims[v][j].live /\ lag[v] < Lease
      BY <2>1, <2>3
    <3>2. j \notin Due(w)
      BY <3>1, HeldRun
    <3>3. QED BY <1>1, <1>3, <2>1, <3>1, <3>2, ClaimedRows
  <2>4. QED BY <2>2, <2>3
<1>4. ASSUME NEW w \in Workers, NEW i \in Jobs, Record(w, i) PROVE Goal
  <2>1. lag' = lag
    BY <1>4 DEF Record, StartPreview, Preview, FinishRun, FinishFails
  <2>2. claims[v][j].live /\ claims[v][j].phase # "none"
    <3>1. claims[v][j].live
      BY <1>4, RecordRows
    <3>2. j = i /\ v = w => claims[v][j].phase # "none"
      BY <1>4 DEF Record, StartPreview, Preview, FinishRun, FinishFails, At
    <3>3. j # i \/ v # w => claims[v][j].phase = claims'[v][j].phase
      BY <1>4, RecordedClaims
    <3>4. QED BY <3>1, <3>2, <3>3
  <2>3. jobs[j] \in JobRows
    BY <1>t, <1>q, <2>2 DEF ClaimInv
  <2>4. ~(i = j /\ FinishRun(w, i) /\ claims[w][i].live)
    <3> SUFFICES ASSUME i = j, FinishRun(w, i), claims[w][i].live PROVE FALSE
      OBVIOUS
    <3>1. claims'[v][i] = IF v = w THEN NoClaim ELSE [claims[v][i] EXCEPT !.live = FALSE]
      BY <1>t DEF FinishRun, MayRecord, TypeOK
    <3>2. claims[v][i] \in [phase : {"none", "queued", "previewing", "returned"},
                           live : BOOLEAN]
      BY <1>t DEF TypeOK
    <3>3. QED BY <1>k, <3>1, <3>2
  <2>5. QED BY <1>1, <1>4, <2>1, <2>2, <2>3, <2>4, RecordedRows
<1>5. ASSUME NEW w \in Workers, LeaseRefused(w) \/ ReleaseLease(w) \/ Interrupt(w)
               \/ TickRaises(w) \/ Crash(w)
      PROVE  Goal
  <2>1. /\ jobs' = jobs /\ claims' = [claims EXCEPT ![w] = NoClaims]
        /\ \A u \in Workers : u # w => lag'[u] = lag[u]
    BY <1>5, <1>t DEF LeaseRefused, ReleaseLease, Interrupt, TickRaises, Crash, EndTick, TypeOK
  <2>2. v # w /\ claims'[v] = claims[v]
    BY <1>k, <1>t, <2>1 DEF TypeOK
  <2>3. QED BY <1>1, <2>1, <2>2
<1>6. ASSUME NEW a \in Accounts, Operate(a) PROVE Goal
  <2>1. claims' = claims /\ lag' = lag
    BY <1>6 DEF Operate, Exclude, Include, BeginRemoval, CompleteRemoval, Command
  <2>2. QED BY <1>1, <1>6, <2>1, OperatedRows
<1>7. CASE Tick
  <2>1. claims' = claims /\ step[v] # "resting" /\ jobs[j] \in JobRows
    BY <1>7, <1>q, <1>t DEF Tick, RunInv, ClaimInv
  <2>2. lag'[v] = lag[v] + 1 /\ lag[v] \in Nat
    BY <1>7, <1>t, <2>1, Times DEF Tick
  <2>3. jobs[j].run.open /\ jobs[j].run.left = Lease - lag[v]
    BY <2>1, <2>2, SchedulerAssumption DEF HoldInv
  <2>4. jobs'[j].run.open = jobs[j].run.open
        /\ jobs'[j].run.left = Older(jobs[j].run.left)
    BY <1>7, <2>1, TickedRows
  <2>5. Older(Lease - lag[v]) = Lease - lag'[v]
    BY <2>2, SchedulerAssumption DEF Older, Floor
  <2>6. QED BY <2>3, <2>4, <2>5
<1>8. CASE UNCHANGED <<jobs, claims, lag>>
  BY <1>1, <1>8
<1>9. QED
  BY <1>2, <1>3, <1>4, <1>5, <1>6, <1>7, <1>8
  DEF Next, Work, Fail, Record, StartTick, AcquireLease, ListAccounts, EnsureRead,
      DispatchDone, vars

LEMMA RunsHeld == Spec => []HoldInv
<1>1. QED BY HoldInit, HoldInductive, Inductive, RunsClaimed, PTL DEF Spec

-----------------------------------------------------------------------------
(* Two workers: the slots of an account's jobs.                            *)

TwoWorkers == \A u, v, w \in Workers : u = v \/ v = w \/ u = w

(* The lease row is that of the tick that took it, however old that is.    *)
OwnerInv ==
  \A w \in Workers :
    step[w] \in Elected /\ lease.owner = w => lease.left = Lease - lag[w]

(* Two elected workers have different "now"s: the second was let in when   *)
(* the lease of the first had run out, so its tick began after.            *)
PairInv ==
  \A v, w \in Workers : v # w /\ step[w] \in Elected =>
    /\ step[v] \in Elected => lag[v] # lag[w]
    /\ step[v] = "ticking" /\ lag[v] >= lag[w] => lease.owner = w

(* What another worker inserted since a worker looked is not due at the    *)
(* "now" for which that worker will insert.                                *)
NowInv ==
  \A v, w \in Workers, a \in Accounts :
    v # w /\ step[w] = "ensuring" /\ a \in Missing(w) /\ jobs[<<a, v>>] # None =>
      jobs[<<a, v>>].next # -lag[w]

(* What another worker inserted since a worker looked: with one tick cut   *)
(* short at most, the other one does not come back to insert or to look    *)
(* before that worker has written, and the first to look saw no job.       *)
Away(u, w) ==
  \/ step[w] \in {"ensured", "dispatching", "releasing"}
  \/ step[w] = "resting" /\ rest[w] > MaxLag - lag[u]

LateInv ==
  \A u, w \in Workers, a \in Accounts :
    u # w /\ step[u] = "ensuring" /\ <<a, w>> \notin rows[u] /\ jobs[<<a, w>>] # None =>
      /\ a \notin Missing(u) => faults >= 1
      /\ faults = 0 \/ (faults = 1 /\ a \notin Missing(u)) => Away(u, w)

(* Two jobs of an account at one slot are not both on where a worker is    *)
(* about to claim for that slot, nor can another one switch them on: it    *)
(* has read both of them, or none.                                         *)
Twin(i, j) ==
  /\ i # j /\ i[1] = j[1] /\ jobs[i] # None /\ jobs[j] # None
  /\ jobs[i].next = jobs[j].next /\ jobs[i].next # Floor

BothRead(w, i, j) == ~(i \in rows[w] /\ j \notin rows[w])

ApartInv ==
  faults <= 1 => \A w \in Workers, i, j \in Jobs :
    Twin(i, j) /\ jobs[i].next <= -lag[w] =>
      /\ step[w] = "ensured" =>
           ~(i[1] \in view[w] /\ jobs[i].enabled /\ jobs[j].enabled)
      /\ step[w] = "ensuring" => BothRead(w, i, j)
      /\ step[w] = "ensured" =>
           \A u \in Workers : u # w /\ step[u] = "ensuring" => BothRead(u, i, j)

PairIInv == OwnerInv /\ PairInv /\ NowInv /\ LateInv /\ ApartInv

LEMMA PairInit == Init => PairIInv
BY DEF Init, PairIInv, OwnerInv, PairInv, NowInv, LateInv, ApartInv, Elected

(* How a step moves the workers, the clocks and the lease.                 *)
LEMMA Moves ==
  ASSUME IInv, [Next]_vars
  PROVE  \/ /\ UNCHANGED <<lag, lease>>
            /\ \A v \in Workers : step'[v] \in Elected => step[v] \in Elected
            /\ \A v \in Workers : step'[v] = "ticking" => step[v] = "ticking"
         \/ \E w \in Workers : StartTick(w)
         \/ \E w \in Workers : AcquireLease(w)
         \/ \E w \in Workers :
              /\ step'[w] = "resting"
              /\ \A v \in Workers : v # w => step'[v] = step[v] /\ lag'[v] = lag[v]
              /\ lease.owner # w => lease' = lease
              /\ lease' = lease \/ lease'.owner \notin Workers
         \/ \E w \in Workers : TickRaises(w)
         \/ Tick
<1> USE DEF table, reads, outside, Goto
<1>t. TypeOK
  BY DEF IInv
<1>1. ASSUME NEW w \in Workers, ListAccounts(w) \/ EnsureRead(w) \/ EnsureWrite(w)
               \/ ClaimDue(w) \/ DispatchDone(w) \/ Interrupt(w)
      PROVE  /\ UNCHANGED <<lag, lease>>
             /\ \A v \in Workers : step'[v] \in Elected => step[v] \in Elected
             /\ \A v \in Workers : step'[v] = "ticking" => step[v] = "ticking"
  <2>1. UNCHANGED <<lag, lease>> /\ step[w] \in Elected /\ step'[w] # "ticking"
        /\ \A v \in Workers : v # w => step'[v] = step[v]
    BY <1>1, <1>t DEF ListAccounts, EnsureRead, EnsureWrite, ClaimDue, DispatchDone,
       Interrupt, Claim, TypeOK, Elected
  <2>2. QED BY <2>1
<1>2. ASSUME NEW w \in Workers, NEW i \in Jobs, Record(w, i)
      PROVE  UNCHANGED <<lag, lease, step>>
  BY <1>2 DEF Record, StartPreview, Preview, FinishRun, FinishFails
<1>3. ASSUME NEW a \in Accounts, Operate(a) PROVE UNCHANGED <<lag, lease, step>>
  BY <1>3 DEF Operate, Exclude, Include, BeginRemoval, CompleteRemoval, Command
<1>4. ASSUME NEW w \in Workers, LeaseRefused(w) \/ ReleaseLease(w) \/ Crash(w)
      PROVE  /\ step'[w] = "resting"
             /\ \A v \in Workers : v # w => step'[v] = step[v] /\ lag'[v] = lag[v]
             /\ lease.owner # w => lease' = lease
             /\ lease' = lease \/ lease'.owner \notin Workers
  <2>1. /\ step'[w] = "resting"
        /\ \A v \in Workers : v # w => step'[v] = step[v] /\ lag'[v] = lag[v]
    BY <1>4, <1>t DEF LeaseRefused, ReleaseLease, Crash, EndTick, TypeOK
  <2>2. CASE lease' = lease
    BY <2>1, <2>2
  <2>3. CASE ReleaseLease(w) /\ lease' # lease
    BY <2>1, <2>3, SchedulerAssumption DEF ReleaseLease
  <2>4. CASE Crash(w) /\ lease' # lease
    <3>1. lease' = [lease EXCEPT !.owner = IF @ = w THEN Gone ELSE @]
      BY <2>4 DEF Crash
    <3>2. lease.owner # w => lease' = lease
      BY <1>t, <3>1 DEF TypeOK
    <3>3. lease'.owner = Gone /\ Gone \notin Workers
      BY <1>t, <2>4, <3>1, <3>2, SchedulerAssumption DEF TypeOK
    <3>4. QED BY <2>1, <3>2, <3>3
  <2>5. QED BY <1>4, <2>2, <2>3, <2>4 DEF LeaseRefused
<1>5. CASE UNCHANGED vars
  BY <1>5 DEF vars
<1>6. QED
  BY <1>1, <1>2, <1>3, <1>4, <1>5 DEF Next, Work, Fail, Record

LEMMA OwnerInductive == IInv /\ OwnerInv /\ [Next]_vars => OwnerInv'
<1> SUFFICES ASSUME IInv, OwnerInv, [Next]_vars, NEW w \in Workers,
                    step'[w] \in Elected, lease'.owner = w
             PROVE  lease'.left = Lease - lag'[w]
  BY DEF OwnerInv
<1> USE DEF Goto
<1>t. TypeOK
  BY DEF IInv
<1>1. CASE UNCHANGED <<lag, lease>> /\ step[w] \in Elected
  BY <1>1 DEF OwnerInv
<1>2. ASSUME NEW v \in Workers, StartTick(v) PROVE lease'.left = Lease - lag'[w]
  BY <1>2, <1>t DEF StartTick, OwnerInv, table, TypeOK, Elected
<1>3. ASSUME NEW v \in Workers, AcquireLease(v) PROVE lease'.left = Lease - lag'[w]
  BY <1>3 DEF AcquireLease, LeaseEnd
<1>4. ASSUME NEW v \in Workers, step'[v] = "resting",
             \A u \in Workers : u # v => step'[u] = step[u] /\ lag'[u] = lag[u],
             lease.owner # v => lease' = lease,
             lease' = lease \/ lease'.owner \notin Workers
      PROVE  lease'.left = Lease - lag'[w]
  <2>1. w # v
    BY <1>4 DEF Elected
  <2>2. lease' = lease
    BY <1>4
  <2>3. QED BY <1>4, <2>1, <2>2 DEF OwnerInv
<1>5. CASE Tick
  <2>1. /\ lag'[w] = lag[w] + 1 /\ step[w] \in Elected
        /\ lease'.owner = lease.owner /\ lease'.left = Older(lease.left)
    BY <1>5, <1>t DEF Tick, TypeOK, Elected
  <2>2. lease.left = Lease - lag[w] /\ lag[w] < MaxLag
    BY <1>5, <2>1 DEF OwnerInv, Tick
  <2>n. lag[w] \in Nat /\ lease.left \in Int
    BY <1>t, Times DEF TypeOK, Lefts
  <2>3. Older(lease.left) = lease.left - 1
    <3>1. Lease \in Int /\ Lease > 0 /\ MaxLag \in Int
      BY SchedulerAssumption
    <3>2. lease.left > -MaxLag - 1
      BY <2>2, <2>n, <3>1
    <3>3. QED BY <3>2 DEF Older, Floor
  <2>4. lease'.left = lease.left - 1
    BY <2>1, <2>3
  <2>5. Lease \in Int
    BY SchedulerAssumption
  <2>6. (Lease - lag[w]) - 1 = Lease - (lag[w] + 1)
    BY <2>n, <2>5
  <2>7. QED BY <2>1, <2>2, <2>4, <2>6
<1>6. ASSUME NEW v \in Workers, TickRaises(v) PROVE lease'.left = Lease - lag'[w]
  <2>1. v # w /\ step'[w] = step[w] /\ lag'[w] = lag[w]
    BY <1>6, <1>t DEF TickRaises, EndTick, TypeOK, Elected
  <2>2. lease' = lease
    BY <1>6, <2>1 DEF TickRaises
  <2>3. QED BY <2>1, <2>2 DEF OwnerInv
<1>7. QED BY <1>1, <1>2, <1>3, <1>4, <1>5, <1>6, Moves

LEMMA PairInductive ==
  ASSUME TwoWorkers, IInv, OwnerInv, PairInv, [Next]_vars
  PROVE  PairInv'
<1> SUFFICES ASSUME NEW v \in Workers, NEW w \in Workers, v # w, step'[w] \in Elected
             PROVE  /\ step'[v] \in Elected => lag'[v] # lag'[w]
                    /\ step'[v] = "ticking" /\ lag'[v] >= lag'[w] => lease'.owner = w
  BY DEF PairInv
<1> DEFINE Goal == /\ step'[v] \in Elected => lag'[v] # lag'[w]
                   /\ step'[v] = "ticking" /\ lag'[v] >= lag'[w] => lease'.owner = w
<1> USE DEF Goto
<1>t. TypeOK /\ LeaseInv
  BY DEF IInv
<1>n. lag[v] \in Nat /\ lag[w] \in Nat
  BY <1>t, Times
<1>s. Lease \in Nat \ {0} /\ MaxLag \in Nat
  BY SchedulerAssumption
<1>o. \A u \in Workers : u = v \/ u = w
  BY DEF TwoWorkers
<1>1. CASE /\ UNCHANGED <<lag, lease>>
           /\ \A u \in Workers : step'[u] \in Elected => step[u] \in Elected
           /\ \A u \in Workers : step'[u] = "ticking" => step[u] = "ticking"
  BY <1>1 DEF PairInv
<1>2. ASSUME NEW u \in Workers, StartTick(u) PROVE Goal
  <2>1. /\ UNCHANGED <<lag, lease>> /\ step[u] = "resting" /\ step'[u] = "ticking"
        /\ \A x \in Workers : x # u => step'[x] = step[x]
    BY <1>2, <1>t DEF StartTick, table, TypeOK
  <2>2. CASE u = v
    <3>1. step[w] \in Elected /\ lag[v] = 0
      BY <1>t, <2>1, <2>2 DEF LeaseInv
    <3>2. lag[v] >= lag[w] => lag[w] < Lease
      BY <1>n, <1>s, <3>1
    <3>3. lag[v] >= lag[w] => lease.owner = w
      BY <1>t, <3>1, <3>2 DEF LeaseInv
    <3>4. QED BY <2>1, <2>2, <3>3 DEF Elected
  <2>3. CASE u = w
    BY <2>1, <2>3 DEF Elected
  <2>4. QED BY <1>o, <2>2, <2>3
<1>3. ASSUME NEW u \in Workers, AcquireLease(u) PROVE Goal
  <2>1. /\ step[u] = "ticking" /\ step'[u] = "leased" /\ lag' = lag /\ ~Held(u)
        /\ \A x \in Workers : x # u => step'[x] = step[x]
        /\ lease'.owner = u
    BY <1>3, <1>t DEF AcquireLease, TypeOK
  <2>2. ASSUME NEW x \in Workers, x # u, step[x] \in Elected PROVE lag[x] # lag[u]
    <3>n. lag[x] \in Nat /\ lag[u] \in Nat
      BY <1>t, Times
    <3>1. CASE lease.owner = x
      <4>1. lease.left = Lease - lag[x] /\ lease.left \in Int
        BY <1>t, <2>2, <3>1 DEF OwnerInv, TypeOK, Lefts
      <4>2. ~(lease.left > Now(u))
        BY <2>1, <2>2, <3>1, SchedulerAssumption DEF Held
      <4>3. Lease - lag[x] <= -lag[u]
        BY <1>s, <3>n, <4>1, <4>2 DEF Now
      <4>4. QED BY <1>s, <3>n, <4>3
    <3>2. CASE lease.owner # x
      <4>1. ~(lag[u] >= lag[x])
        BY <2>1, <2>2, <3>2 DEF PairInv
      <4>2. QED BY <3>n, <4>1
    <3>3. QED BY <3>1, <3>2
  <2>3. CASE u = v
    <3>1. step[w] \in Elected /\ step'[v] # "ticking"
      BY <2>1, <2>3
    <3>2. QED BY <2>1, <2>2, <2>3, <3>1
  <2>4. CASE u = w
    <3>1. step'[v] = step[v] /\ lease'.owner = w
      BY <2>1, <2>4
    <3>2. QED BY <2>1, <2>2, <2>4, <3>1
  <2>5. QED BY <1>o, <2>3, <2>4
<1>4. ASSUME NEW u \in Workers, step'[u] = "resting" PROVE Goal
  <2>1. u = v
    BY <1>4, <1>o DEF Elected
  <2>2. QED BY <1>4, <2>1 DEF Elected
<1>5. CASE Tick
  <2>1. /\ \A x \in Workers : lag'[x] = IF step[x] = "resting" THEN 0 ELSE lag[x] + 1
        /\ step' = step /\ lease'.owner = lease.owner
    BY <1>5, <1>t DEF Tick, TypeOK
  <2>2. step[v] # "resting" =>
          /\ lag'[v] = lag'[w] <=> lag[v] = lag[w]
          /\ lag'[v] >= lag'[w] <=> lag[v] >= lag[w]
    <3>1. lag'[w] = lag[w] + 1
      BY <2>1 DEF Elected
    <3>2. step[v] # "resting" => lag'[v] = lag[v] + 1
      BY <2>1
    <3>3. QED BY <1>n, <3>1, <3>2
  <2>3. QED BY <2>1, <2>2 DEF PairInv, Elected
<1>6. \A u \in Workers : TickRaises(u) => step'[u] = "resting"
  BY <1>t DEF TickRaises, EndTick, TypeOK
<1>7. Goal
  BY <1>1, <1>2, <1>3, <1>4, <1>5, <1>6, Moves
<1>8. QED BY <1>7

LEMMA NowInductive ==
  ASSUME IInv, PairInv, NowInv, [Next]_vars
  PROVE  NowInv'
<1> SUFFICES ASSUME NEW v \in Workers, NEW w \in Workers, NEW a \in Accounts, v # w,
                    step'[w] = "ensuring", a \in Missing(w)', jobs'[<<a, v>>] # None
             PROVE  jobs'[<<a, v>>].next # -lag'[w]
  BY DEF NowInv
<1> DEFINE j == <<a, v>>
<1>t. TypeOK
  BY DEF IInv
<1>j. j \in Jobs /\ j[1] = a /\ j[2] = v
  BY DEF Jobs
<1>q. jobs[j] = None \/ (jobs[j] \in JobRows /\ jobs[j] # None)
  BY <1>j, <1>t, NullAssumption DEF TypeOK
<1>n. lag[w] \in Nat /\ MaxLag \in Nat /\ Interval \in Nat
  BY <1>t, Times, SchedulerAssumption
<1> HIDE DEF j
<1>1. CASE EnsureRead(w)
  <2>1. jobs[j] = None /\ jobs' = jobs
    BY <1>1, <1>j, <1>t DEF EnsureRead, Missing, table, TypeOK, j
  <2>2. QED BY <2>1 DEF j
<1>2. CASE /\ step[w] = "ensuring" /\ ~EnsureWrite(w)
           /\ rows'[w] = rows[w] /\ current'[w] = current[w]
  <2>1. jobs[j] # None => jobs[j].next # -lag[w]
    BY <1>2 DEF NowInv, Missing, j
  <2>2. jobs[j] # None => jobs[j] \in JobRows /\ jobs[j].next \in Int
    BY <1>n, <1>q DEF JobRows, Slots, Floor
  <2>3. CASE /\ lag'[w] = lag[w] /\ jobs[j] # None
             /\ jobs'[j].next = jobs[j].next \/ jobs'[j].next > 0
    BY <1>n, <2>1, <2>3 DEF j
  <2>4. ASSUME NEW u \in Workers, EnsureWrite(u) PROVE jobs'[j].next # -lag'[w]
    <3>1. u # w /\ lag' = lag /\ step[u] = "ensuring"
      BY <1>2, <2>4 DEF EnsureWrite
    <3>2. lag[u] # lag[w] /\ lag[u] \in Nat
      BY <1>2, <1>t, <3>1, Times DEF PairInv, Elected
    <3>3. jobs'[j] = NewJob(u) \/ (jobs[j] # None /\ jobs'[j].next = jobs[j].next)
      BY <1>j, <2>4, EnsuredRows, NullAssumption DEF j
    <3>4. NewJob(u).next = -lag[u]
      BY DEF NewJob, Now
    <3>5. CASE jobs'[j] = NewJob(u)
      BY <1>n, <3>1, <3>2, <3>4, <3>5
    <3>6. CASE jobs[j] # None /\ jobs'[j].next = jobs[j].next
      BY <2>1, <3>1, <3>6
    <3>7. QED BY <3>3, <3>5, <3>6
  <2>5. ASSUME NEW u \in Workers, NEW i \in Jobs, Record(u, i)
        PROVE  lag' = lag /\ jobs[j] # None
               /\ (jobs'[j].next = jobs[j].next \/ jobs'[j].next > 0)
    <3>1. lag' = lag
      BY <2>5 DEF Record, StartPreview, Preview, FinishRun, FinishFails
    <3>2. jobs[j] = None => jobs'[j] = None
      BY <1>j, <2>5, NullAssumption, RecordRows
    <3>3. jobs[j] \in JobRows /\ jobs[j] # None
      BY <1>q, <3>2 DEF j
    <3>4. lag[u] \in Nat /\ lag[u] <= MaxLag
      BY <1>t, Times
    <3>5. NextSlot(u) > 0
      BY <3>4, SchedulerAssumption DEF NextSlot
    <3>6. QED BY <1>j, <2>5, <3>1, <3>3, <3>5, RecordedRows
  <2>6. ASSUME NEW u \in Workers, ClaimDue(u)
        PROVE  lag' = lag /\ jobs[j] # None /\ jobs'[j].next = jobs[j].next
    <3>1. lag' = lag
      BY <2>6 DEF ClaimDue
    <3>2. jobs[j] = None => jobs'[j] = None
      BY <1>j, <2>6, NullAssumption, ClaimRows
    <3>3. QED BY <1>j, <1>q, <2>6, <3>1, <3>2, ClaimedRows DEF j
  <2>7. ASSUME NEW b \in Accounts, Operate(b)
        PROVE  lag' = lag /\ jobs[j] # None /\ jobs'[j].next = jobs[j].next
    <3>1. lag' = lag
      BY <2>7 DEF Operate, Exclude, Include, BeginRemoval, CompleteRemoval, Command
    <3>2. jobs[j] = None => jobs'[j] = None
      BY <1>j, <2>7, NullAssumption, OperateRows
    <3>3. QED BY <1>j, <1>q, <2>7, <3>1, <3>2, OperatedRows DEF j
  <2>8. CASE Tick
    <3>1. lag'[w] = lag[w] + 1 /\ lag[w] < MaxLag
      BY <1>2, <2>8, <1>t DEF Tick, TypeOK
    <3>2. jobs[j] = None => jobs'[j] = None
      BY <1>j, <2>8, NullAssumption, TickRows
    <3>3. jobs[j] # None /\ jobs'[j].next = Older(jobs[j].next)
      BY <1>j, <1>q, <2>8, <3>2, TickedRows DEF j
    <3>4. jobs'[j].next # -lag'[w]
      BY <1>n, <2>1, <2>2, <3>1, <3>3 DEF Older, Floor
    <3>5. QED BY <3>4 DEF j
  <2>9. CASE jobs' = jobs /\ (step'[w] # "resting" => lag'[w] = lag[w])
    BY <1>2, <2>3, <2>9 DEF j
  <2>10. \/ \E u \in Workers :
              EnsureWrite(u) \/ ClaimDue(u) \/ \E i \in Jobs : Record(u, i)
         \/ \E b \in Accounts : Operate(b)
         \/ Tick
         \/ jobs' = jobs /\ (step'[w] # "resting" => lag'[w] = lag[w])
    BY <1>t DEF Next, Work, Fail, Record, StartTick, AcquireLease, LeaseRefused,
       ListAccounts, EnsureRead, DispatchDone, ReleaseLease, Interrupt, TickRaises, Crash, EndTick,
       Goto, table, vars, TypeOK
  <2>11. QED
    BY <2>3, <2>4, <2>5, <2>6, <2>7, <2>8, <2>9, <2>10 DEF j
<1>3. QED BY <1>1, <1>2, RowsRead DEF j

(* A worker that has inserted is away until the others have written.       *)
LEMMA AwayKept ==
  ASSUME IInv, [Next]_vars, NEW u \in Workers, NEW w \in Workers, u # w,
         step[u] = "ensuring", step'[u] = "ensuring", Away(u, w), faults' = faults
  PROVE  Away(u, w)'
<1> USE DEF table, reads, outside, Goto
<1>t. TypeOK
  BY DEF IInv
<1>n. lag[u] \in Nat /\ lag[u] <= MaxLag /\ rest[w] \in Nat /\ faults \in Nat
  BY <1>t, Times, SchedulerAssumption DEF TypeOK
<1>s. MaxLag \in Nat /\ Interval \in Nat /\ MaxLag < Interval
  BY SchedulerAssumption
<1>1. CASE step'[w] = step[w] /\ rest'[w] = rest[w] /\ lag'[u] = lag[u]
  BY <1>1 DEF Away
<1>2. ASSUME Work(w) PROVE Away(u, w)'
  <2>1. step[w] # "resting" \/ rest[w] # 0
    BY <1>n, <1>s DEF Away
  <2>2. CASE ReleaseLease(w)
    <3>1. step'[w] = "resting" /\ rest'[w] = Interval /\ lag'[u] = lag[u]
      BY <1>t, <2>2 DEF ReleaseLease, EndTick, TypeOK
    <3>2. Interval > MaxLag - lag[u]
      BY <1>n, <1>s
    <3>3. QED BY <3>1, <3>2 DEF Away
  <2>3. CASE ClaimDue(w) \/ DispatchDone(w)
    BY <1>t, <2>3 DEF ClaimDue, Claim, DispatchDone, Away, TypeOK
  <2>4. ASSUME NEW i \in Jobs, Record(w, i) PROVE Away(u, w)'
    BY <1>1, <2>4 DEF Record, StartPreview, Preview, FinishRun, FinishFails
  <2>5. step[w] \in {"ensured", "dispatching", "releasing", "resting"}
    BY DEF Away
  <2>6. QED
    BY <1>2, <2>1, <2>2, <2>3, <2>4, <2>5
    DEF Work, Record, StartTick, AcquireLease, LeaseRefused, ListAccounts, EnsureRead,
        EnsureWrite
<1>3. ASSUME Work(u) PROVE FALSE
  BY <1>3, <1>t DEF Work, StartTick, AcquireLease, LeaseRefused, ListAccounts, EnsureRead,
     EnsureWrite, ClaimDue, DispatchDone, ReleaseLease, StartPreview, Preview, FinishRun,
     At, TypeOK
<1>4. ASSUME NEW x \in Workers, Work(x), x # u, x # w PROVE Away(u, w)'
  BY <1>1, <1>4, <1>t DEF Work, StartTick, AcquireLease, LeaseRefused, ListAccounts,
     EnsureRead, EnsureWrite, ClaimDue, Claim, DispatchDone, ReleaseLease, StartPreview,
     Preview, FinishRun, EndTick, TypeOK
<1>5. ASSUME NEW x \in Workers, Fail(x) PROVE FALSE
  BY <1>5, <1>n DEF Fail, Interrupt, TickRaises, Crash, FinishFails
<1>6. CASE Tick
  <2>1. /\ step' = step /\ lag'[u] = lag[u] + 1
        /\ rest'[w] = IF rest[w] > 0 THEN rest[w] - 1 ELSE 0
    BY <1>6 DEF Tick
  <2>2. rest[w] > MaxLag - lag[u] => rest'[w] > MaxLag - lag'[u]
    BY <1>n, <1>s, <2>1
  <2>3. QED BY <2>1, <2>2 DEF Away
<1>7. QED
  BY <1>1, <1>2, <1>3, <1>4, <1>5, <1>6
  DEF Next, Operate, Exclude, Include, BeginRemoval, CompleteRemoval, Command, vars

LEMMA LateInductive ==
  ASSUME TwoWorkers, IInv, LateInv, [Next]_vars
  PROVE  LateInv'
<1> SUFFICES ASSUME NEW u \in Workers, NEW w \in Workers, NEW a \in Accounts, u # w,
                    step'[u] = "ensuring", <<a, w>> \notin rows'[u], jobs'[<<a, w>>] # None
             PROVE  /\ a \notin Missing(u)' => faults' >= 1
                    /\ faults' = 0 \/ (faults' = 1 /\ a \notin Missing(u)') => Away(u, w)'
  BY DEF LateInv
<1>t. TypeOK /\ MissingInv
  BY DEF IInv
<1>j. <<a, w>> \in Jobs /\ <<a, w>>[1] = a /\ <<a, w>>[2] = w /\ <<a, u>> \in Jobs
  BY DEF Jobs
<1>f. faults \in Nat /\ (faults' = faults \/ faults' = faults + 1)
  <2>1. faults \in Nat
    BY <1>t, SchedulerAssumption DEF TypeOK
  <2>2. QED
    BY <2>1 DEF Next, Work, Fail, StartTick, AcquireLease, LeaseRefused, ListAccounts,
       EnsureRead, EnsureWrite, ClaimDue, DispatchDone, ReleaseLease, StartPreview,
       Preview, FinishRun, FinishFails, Interrupt, TickRaises, Crash, Operate, Exclude,
       Include, BeginRemoval, CompleteRemoval, Command, Tick, vars
<1>1. CASE EnsureRead(u)
  BY <1>1, <1>j, <1>t DEF EnsureRead, table, TypeOK
<1>2. CASE /\ step[u] = "ensuring" /\ ~EnsureWrite(u)
           /\ rows'[u] = rows[u] /\ current'[u] = current[u]
  <2>1. Missing(u)' = Missing(u)
    BY <1>2 DEF Missing
  <2>2. CASE jobs[<<a, w>>] = None
    <3>1. PICK x \in Workers : EnsureWrite(x)
      BY <1>j, <2>2, RowsKept
    <3>2. w = x /\ a \in Missing(w)
      BY <1>j, <2>2, <3>1, EnsuredRows, NullAssumption
    <3>3. step[w] = "ensuring" /\ step'[w] = "ensured" /\ faults' = faults
      BY <1>t, <3>1, <3>2 DEF EnsureWrite, Goto, TypeOK
    <3>4. ASSUME a \notin Missing(u) PROVE faults >= 1
      <4>1. <<a, u>> \in rows[u]
        <5>1. PICK v \in Workers : <<a, v>> \in rows[u]
          BY <3>4 DEF Missing
        <5>2. v # w
          BY <1>2, <2>2, <5>1, <1>t DEF MissingInv
        <5>3. QED BY <5>1, <5>2 DEF TwoWorkers
      <4>2. jobs[<<a, u>>] # None /\ <<a, u>> \notin rows[w]
        BY <1>2, <1>t, <3>2, <4>1 DEF MissingInv, Missing
      <4>3. faults = 0 => Away(w, u)
        BY <3>3, <4>2 DEF LateInv
      <4>4. ~Away(w, u)
        BY <1>2 DEF Away
      <4>5. QED BY <1>f, <4>3, <4>4
    <3>5. Away(u, w)'
      BY <3>3 DEF Away
    <3>6. QED BY <2>1, <3>3, <3>4, <3>5
  <2>3. CASE jobs[<<a, w>>] # None
    <3>1. /\ a \notin Missing(u) => faults >= 1
          /\ faults = 0 \/ (faults = 1 /\ a \notin Missing(u)) => Away(u, w)
      BY <1>2, <2>3 DEF LateInv
    <3>2. a \notin Missing(u) => faults' >= 1
      BY <1>f, <3>1
    <3>3. ASSUME faults' = 0 \/ (faults' = 1 /\ a \notin Missing(u)) PROVE Away(u, w)'
      <4>1. faults' = faults
        BY <1>f, <3>1, <3>3
      <4>2. Away(u, w)
        BY <3>1, <3>3, <4>1
      <4>3. QED BY <1>2, <4>1, <4>2, AwayKept
    <3>4. QED BY <2>1, <3>2, <3>3
  <2>4. QED BY <2>2, <2>3
<1>3. QED BY <1>1, <1>2, RowsRead

(* A step other than ensure_jobs' makes no twins, and brings none within   *)
(* a tick's "now": a job is moved to a later slot than any tick is at.     *)
LEMMA TwinBefore ==
  ASSUME IInv, [Next]_vars, \A x \in Workers : ~EnsureWrite(x),
         NEW w \in Workers, step'[w] # "resting",
         NEW i \in Jobs, NEW j \in Jobs, Twin(i, j)', jobs'[i].next <= -lag'[w]
  PROVE  /\ Twin(i, j) /\ jobs[i].next <= -lag[w]
         /\ jobs'[i].enabled => jobs[i].enabled
         /\ jobs'[j].enabled => jobs[j].enabled
<1> DEFINE Goal == /\ Twin(i, j) /\ jobs[i].next <= -lag[w]
                   /\ jobs'[i].enabled => jobs[i].enabled
                   /\ jobs'[j].enabled => jobs[j].enabled
<1>t. TypeOK
  BY DEF IInv
<1>n. lag[w] \in Nat /\ lag[w] <= MaxLag /\ MaxLag \in Nat
  BY <1>t, Times, SchedulerAssumption
<1>r. i # j /\ i[1] = j[1] /\ jobs'[i] # None /\ jobs'[j] # None
      /\ jobs'[i].next = jobs'[j].next /\ jobs'[i].next # Floor
  BY DEF Twin
<1>k. jobs[i] # None /\ jobs[j] # None
  BY <1>r, RowsKept
<1>q. \A k \in {i, j} : jobs[k] \in JobRows /\ jobs[k].next \in Int
  BY <1>t, <1>k, <1>n, SchedulerAssumption DEF TypeOK, JobRows, Slots, Floor
<1>1. ASSUME lag'[w] = lag[w],
             \A k \in {i, j} : jobs'[k].next = jobs[k].next
                               /\ (jobs'[k].enabled => jobs[k].enabled)
      PROVE  Goal
  BY <1>1, <1>k, <1>r DEF Twin
<1>2. ASSUME NEW u \in Workers, ClaimDue(u) PROVE Goal
  <2>1. lag' = lag
    BY <1>2 DEF ClaimDue
  <2>2. QED BY <1>1, <1>2, <1>q, <2>1, ClaimedRows
<1>3. ASSUME NEW u \in Workers, NEW l \in Jobs, Record(u, l) PROVE Goal
  <2>1. lag' = lag
    BY <1>3 DEF Record, StartPreview, Preview, FinishRun, FinishFails
  <2>2. ~(NextSlot(u) <= -lag[w])
    <3>1. lag[u] \in Nat /\ lag[u] <= MaxLag
      BY <1>t, Times
    <3>2. QED BY <1>n, <3>1, SchedulerAssumption DEF NextSlot
  <2>3. \A k \in {i, j} :
          /\ jobs'[k].enabled = jobs[k].enabled
          /\ jobs'[k].next = jobs[k].next \/ jobs'[k].next = NextSlot(u)
    BY <1>3, <1>q, RecordedRows
  <2>4. QED BY <1>1, <1>r, <2>1, <2>2, <2>3
<1>4. ASSUME NEW a \in Accounts, Operate(a) PROVE Goal
  <2>1. lag' = lag
    BY <1>4 DEF Operate, Exclude, Include, BeginRemoval, CompleteRemoval, Command
  <2>2. QED BY <1>1, <1>4, <1>q, <2>1, OperatedRows
<1>5. CASE Tick
  <2>1. lag'[w] = lag[w] + 1
    BY <1>5 DEF Tick
  <2>2. \A k \in {i, j} :
          jobs'[k].enabled = jobs[k].enabled /\ jobs'[k].next = Older(jobs[k].next)
    BY <1>5, <1>q, TickedRows
  <2>3. \A n \in Int : Older(n) <= -lag'[w] => n <= -lag[w]
    BY <1>n, <2>1 DEF Older, Floor
  <2>4. \A m \in Int : \A n \in Int : Older(m) = Older(n) /\ Older(m) # Floor => m = n
    BY <1>n DEF Older, Floor
  <2>5. \A m \in Int : Older(m) # Floor => m # Floor
    BY <1>n DEF Older, Floor
  <2>6. jobs[i].next = jobs[j].next /\ jobs[i].next # Floor /\ jobs[i].next <= -lag[w]
    BY <1>q, <1>r, <2>2, <2>3, <2>4, <2>5
  <2>7. QED BY <1>k, <1>r, <2>2, <2>6 DEF Twin
<1>6. CASE jobs' = jobs /\ lag'[w] = lag[w]
  BY <1>1, <1>6
<1>7. \/ \E u \in Workers : ClaimDue(u) \/ \E l \in Jobs : Record(u, l)
      \/ \E a \in Accounts : Operate(a)
      \/ Tick
      \/ jobs' = jobs /\ lag'[w] = lag[w]
  BY <1>t DEF Next, Work, Fail, Record, StartTick, AcquireLease, LeaseRefused,
     ListAccounts, EnsureRead, DispatchDone, ReleaseLease, Interrupt, TickRaises, Crash,
     EndTick, Goto, table, vars, TypeOK
<1>8. QED BY <1>2, <1>3, <1>4, <1>5, <1>6, <1>7

(* ensure_jobs makes no twins either: what it inserts is at a slot of its  *)
(* own.  Of twins that it has read it switches one off.                    *)
LEMMA EnsuredTwins ==
  ASSUME IInv, NowInv, NEW x \in Workers, EnsureWrite(x),
         NEW i \in Jobs, NEW j \in Jobs, Twin(i, j)'
  PROVE  /\ Twin(i, j) /\ jobs'[i].next = jobs[i].next
         /\ i \notin rows[x] => jobs'[i].enabled = jobs[i].enabled
         /\ j \notin rows[x] => jobs'[j].enabled = jobs[j].enabled
         /\ ~(i \in rows[x] /\ j \in rows[x] /\ jobs'[i].enabled /\ jobs'[j].enabled)
<1>r. i # j /\ i[1] = j[1] /\ jobs'[i] # None /\ jobs'[j] # None
      /\ jobs'[i].next = jobs'[j].next /\ jobs'[i].next # Floor
  BY DEF Twin
<1>n. NewJob(x).next = -lag[x] /\ step[x] = "ensuring"
  BY DEF NewJob, Now, EnsureWrite
<1>1. PICK a \in Accounts, y \in Workers : i = <<a, y>>
  BY DEF Jobs
<1>2. PICK z \in Workers : j = <<a, z>> /\ y # z
  BY <1>1, <1>r DEF Jobs
<1>3. ASSUME NEW k \in Jobs, NEW l \in Jobs, NEW u \in Workers, NEW v \in Workers,
             u # v, k = <<a, u>>, l = <<a, v>>, jobs'[l] # None,
             jobs'[k].next = jobs'[l].next, k[2] = x, k[1] \in Missing(x) \cap view[x],
             jobs'[k] = NewJob(x)
      PROVE  FALSE
  <2>1. l \notin rows[x] /\ v # x /\ a \in Missing(x)
    BY <1>3 DEF Missing
  <2>2. jobs'[l] = jobs[l]
    BY <1>3, <2>1, EnsuredRows
  <2>3. jobs[l].next # -lag[x]
    BY <1>3, <1>n, <2>1, <2>2 DEF NowInv
  <2>4. QED BY <1>3, <1>n, <2>2, <2>3
<1>4. ASSUME NEW k \in {i, j}
      PROVE  \/ k \notin rows[x] /\ jobs'[k] = jobs[k]
             \/ /\ k \in rows[x] /\ jobs[k] # None /\ jobs'[k].next = jobs[k].next
                /\ jobs'[k].enabled <=> EnabledAfter(k, x)
  BY <1>1, <1>2, <1>3, <1>r, EnsuredRows, NullAssumption
<1>5. ~(EnabledAfter(i, x) /\ EnabledAfter(j, x))
  BY <1>1, <1>2 DEF EnabledAfter
<1>6. QED BY <1>r, <1>4, <1>5 DEF Twin

LEMMA ApartInductive ==
  ASSUME TwoWorkers, IInv, NowInv, LateInv, ApartInv, [Next]_vars
  PROVE  ApartInv'
<1> SUFFICES ASSUME faults' <= 1, NEW w \in Workers, NEW i \in Jobs, NEW j \in Jobs,
                    Twin(i, j)', jobs'[i].next <= -lag'[w]
             PROVE  /\ step'[w] = "ensured" =>
                         ~(i[1] \in view'[w] /\ jobs'[i].enabled /\ jobs'[j].enabled)
                    /\ step'[w] = "ensuring" => BothRead(w, i, j)'
                    /\ step'[w] = "ensured" =>
                         \A u \in Workers : u # w /\ step'[u] = "ensuring" =>
                           BothRead(u, i, j)'
  BY DEF ApartInv
<1> USE DEF Goto
<1>t. TypeOK /\ MissingInv
  BY DEF IInv
<1>f. faults \in Nat /\ faults <= 1
  <2>1. faults \in Nat
    BY <1>t, SchedulerAssumption DEF TypeOK
  <2>2. faults' = faults \/ faults' = faults + 1
    BY DEF Next, Work, Fail, StartTick, AcquireLease, LeaseRefused, ListAccounts,
       EnsureRead, EnsureWrite, ClaimDue, DispatchDone, ReleaseLease, StartPreview,
       Preview, FinishRun, FinishFails, Interrupt, TickRaises, Crash, Operate, Exclude,
       Include, BeginRemoval, CompleteRemoval, Command, Tick, vars
  <2>3. QED BY <2>1, <2>2
<1>m. Twin(j, i)' /\ jobs'[j].next = jobs'[i].next
  BY DEF Twin
<1>1. CASE \A x \in Workers : ~EnsureWrite(x)
  <2> SUFFICES ASSUME step'[w] \in {"ensured", "ensuring"}
               PROVE  /\ step'[w] = "ensured" =>
                           ~(i[1] \in view'[w] /\ jobs'[i].enabled /\ jobs'[j].enabled)
                      /\ step'[w] = "ensuring" => BothRead(w, i, j)'
                      /\ step'[w] = "ensured" =>
                           \A u \in Workers : u # w /\ step'[u] = "ensuring" =>
                             BothRead(u, i, j)'
    OBVIOUS
  <2>1. /\ Twin(i, j) /\ jobs[i].next <= -lag[w]
        /\ jobs'[i].enabled => jobs[i].enabled
        /\ jobs'[j].enabled => jobs[j].enabled
    BY <1>1, TwinBefore
  <2>2. step'[w] = "ensured" => step[w] = "ensured" /\ view'[w] = view[w]
    <3> SUFFICES ASSUME step'[w] = "ensured"
                 PROVE  step[w] = "ensured" /\ view'[w] = view[w]
      OBVIOUS
    <3>1. ASSUME NEW x \in Workers, Work(x) \/ Fail(x), x # w
          PROVE  step'[w] = step[w] /\ view'[w] = view[w]
      BY <1>1, <3>1, <1>t DEF Work, Fail, StartTick, AcquireLease, LeaseRefused,
         ListAccounts, EnsureRead, ClaimDue, Claim, DispatchDone, ReleaseLease,
         StartPreview, Preview, FinishRun, FinishFails, Interrupt, TickRaises, Crash,
         EndTick, TypeOK
    <3>2. ASSUME NEW k \in Jobs, Record(w, k) PROVE UNCHANGED <<step, view>>
      BY <3>2 DEF Record, StartPreview, Preview, FinishRun, FinishFails
    <3>3. ASSUME Work(w) \/ Fail(w) PROVE UNCHANGED <<step, view>>
      BY <1>1, <3>2, <3>3, <1>t DEF Work, Fail, Record, StartTick, AcquireLease,
         LeaseRefused, ListAccounts, EnsureRead, ClaimDue, Claim, DispatchDone,
         ReleaseLease, Interrupt, TickRaises, Crash, EndTick, TypeOK
    <3>4. QED
      BY <3>1, <3>3 DEF Next, Operate, Exclude, Include, BeginRemoval, CompleteRemoval,
         Command, Tick, vars
  <2>3. ASSUME NEW u \in Workers, step'[u] = "ensuring",
               step[u] = "ensuring" => BothRead(u, i, j)
        PROVE  BothRead(u, i, j)'
    <3>1. CASE EnsureRead(u)
      BY <3>1, <1>t, <2>1 DEF EnsureRead, BothRead, Twin, TypeOK
    <3>2. CASE step[u] = "ensuring" /\ rows'[u] = rows[u]
      BY <2>3, <3>2 DEF BothRead
    <3>3. QED BY <2>3, <3>1, <3>2, RowsRead
  <2>4. step'[w] = "ensured" =>
          ~(i[1] \in view'[w] /\ jobs'[i].enabled /\ jobs'[j].enabled)
    BY <1>f, <2>1, <2>2 DEF ApartInv
  <2>5. step'[w] = "ensuring" => BothRead(w, i, j)'
    BY <1>f, <2>1, <2>3 DEF ApartInv
  <2>6. step'[w] = "ensured" =>
          \A u \in Workers : u # w /\ step'[u] = "ensuring" => BothRead(u, i, j)'
    BY <1>f, <2>1, <2>2, <2>3 DEF ApartInv
  <2>7. QED BY <2>4, <2>5, <2>6
<1>2. ASSUME NEW x \in Workers, EnsureWrite(x)
      PROVE  /\ step'[w] = "ensured" =>
                  ~(i[1] \in view'[w] /\ jobs'[i].enabled /\ jobs'[j].enabled)
             /\ step'[w] = "ensuring" => BothRead(w, i, j)'
             /\ step'[w] = "ensured" =>
                  \A u \in Workers : u # w /\ step'[u] = "ensuring" => BothRead(u, i, j)'
  <2>1. /\ step[x] = "ensuring" /\ step'[x] = "ensured" /\ lag' = lag
        /\ \A u \in Workers : u # x => step'[u] = step[u] /\ rows'[u] = rows[u]
    BY <1>2, <1>t DEF EnsureWrite, Forget, TypeOK
  <2>2. /\ Twin(i, j) /\ Twin(j, i) /\ jobs[i].next <= -lag[w]
        /\ jobs[j].next <= -lag[w]
        /\ ~(i \in rows[x] /\ j \in rows[x] /\ jobs'[i].enabled /\ jobs'[j].enabled)
    BY <1>2, <1>m, <2>1, EnsuredTwins
  <2>3. PICK a \in Accounts, y \in Workers : i = <<a, y>>
    BY DEF Jobs
  <2>4. PICK z \in Workers : j = <<a, z>> /\ y # z
    BY <2>2, <2>3 DEF Jobs, Twin
  <2>5. jobs[i] # None /\ jobs[j] # None
    BY <2>2 DEF Twin
  (* Nobody misses a row of his own. *)
  <2>6. \A u \in Workers : step[u] = "ensuring" =>
          /\ y = u => i \in rows[u]
          /\ z = u => j \in rows[u]
    BY <1>t, <2>3, <2>4, <2>5 DEF MissingInv
  <2>7. step'[w] = "ensured" => BothRead(x, i, j) /\ BothRead(x, j, i)
    BY <1>f, <2>1, <2>2 DEF ApartInv
  <2>8. step'[w] = "ensured" => ~(jobs'[i].enabled /\ jobs'[j].enabled)
    <3>1. y = x \/ z = x
      BY <2>4 DEF TwoWorkers
    <3>2. QED BY <2>1, <2>2, <2>6, <2>7, <3>1 DEF BothRead
  <2>9. step'[w] = "ensuring" => BothRead(w, i, j)'
    BY <1>f, <2>1, <2>2 DEF ApartInv, BothRead
  <2>10. ASSUME step'[w] = "ensured", NEW u \in Workers, u # w, step'[u] = "ensuring",
                i \in rows'[u], j \notin rows'[u]
         PROVE  FALSE
    <3>1. u # x /\ w = x /\ step[u] = "ensuring" /\ i \in rows[u] /\ j \notin rows[u]
      BY <2>1, <2>10 DEF TwoWorkers
    <3>2. j = <<a, w>> /\ a \notin Missing(u)
      BY <2>3, <2>4, <2>6, <3>1 DEF TwoWorkers, Missing
    <3>3. faults >= 1 /\ (faults = 1 => Away(u, w))
      BY <2>5, <2>10, <3>1, <3>2 DEF LateInv
    <3>4. ~Away(u, w)
      BY <2>1, <3>1 DEF Away
    <3>5. QED BY <1>f, <3>3, <3>4
  <2>11. QED BY <2>8, <2>9, <2>10 DEF BothRead
<1>3. QED BY <1>1, <1>2

LEMMA PairsApart ==
  ASSUME TwoWorkers
  PROVE  Spec => []PairIInv
<1>1. IInv /\ PairIInv /\ [Next]_vars => PairIInv'
  BY OwnerInductive, PairInductive, NowInductive, LateInductive, ApartInductive
  DEF PairIInv
<1>2. QED BY <1>1, PairInit, Inductive, PTL DEF Spec

-----------------------------------------------------------------------------
(* Rows, calls and counters keep their types (the tables of models.py and  *)
(* the locals of tick).                                                    *)
THEOREM TypeCorrect == Spec => []TypeOK
<1>1. IInv => TypeOK
  BY DEF IInv
<1>2. QED BY <1>1, Inductive, PTL

(* An account has one idle-preview job as long as no tick outlives its     *)
(* lease, whatever crashes (acquire_lease and ensure_jobs).                *)
THEOREM OneJob == Spec => []OneJobPerAccount
<1>1. IInv => OneJobPerAccount
  <2> SUFFICES ASSUME IInv, NEW a \in Accounts, ~overran
               PROVE  Cardinality({w \in Workers : jobs[<<a, w>>] # None}) <= 1
    BY DEF OneJobPerAccount
  <2> DEFINE S == {w \in Workers : jobs[<<a, w>>] # None}
  <2>1. CASE S = {}
    <3>1. Cardinality(S) = 0
      BY <2>1, FS_EmptySet
    <3>2. QED BY <3>1
  <2>2. ASSUME NEW w \in S PROVE Cardinality(S) <= 1
    <3>1. S = {w}
      BY <2>2 DEF IInv, OneInv
    <3>2. Cardinality(S) = 1
      BY <3>1, FS_Singleton
    <3>3. QED BY <3>2
  <2>3. QED BY <2>1, <2>2
<1>2. QED BY <1>1, Inductive, PTL

(* A worker loses a run that it has claimed and not recorded to another    *)
(* only if its tick has outlived the lease (claim_due, _claim_slot).       *)
THEOREM TakenOver == Spec => TakenOverLate
<1>1. ASSUME IInv, RunInv, HoldInv, Next, NEW v \in Workers, NEW w \in Workers,
             NEW j \in Jobs, v # w, Takes(w, j), claims[v][j].phase # "none",
             claims[v][j].live
      PROVE  lag[v] >= Lease
  <2>t. TypeOK /\ ClaimInv
    BY <1>1 DEF IInv
  <2>1. step[w] = "ensured" /\ claims'[w][j].phase = "queued"
        /\ claims[w][j].phase = "none"
    BY <1>1 DEF Takes, RunInv
  <2>2. ClaimDue(w)
    <3>1. ASSUME NEW u \in Workers, NEW i \in Jobs, Record(u, i) PROVE FALSE
      <4>1. u # w
        BY <1>1, <2>1, <3>1, RecordedClaims
      <4>2. claims'[w][j].phase = claims[w][j].phase
        BY <1>1, <3>1, <4>1, RecordedClaims
      <4>3. QED BY <2>1, <4>2
    <3>2. ASSUME NEW u \in Workers, ClaimDue(u), u # w PROVE FALSE
      BY <1>1, <2>1, <3>2, ClaimRows
    <3>3. ASSUME NEW u \in Workers, claims' = [claims EXCEPT ![u] = NoClaims] PROVE FALSE
      BY <2>1, <2>t, <3>3 DEF NoClaims, NoClaim, TypeOK
    <3>4. CASE claims' = claims
      BY <2>1, <3>4
    <3>5. QED
      BY <1>1, <3>1, <3>2, <3>3, <3>4
      DEF Next, Work, Fail, Record, StartTick, AcquireLease, LeaseRefused, ListAccounts,
          EnsureRead, EnsureWrite, DispatchDone, ReleaseLease, Interrupt, TickRaises,
          Crash, EndTick, Operate, Exclude, Include, BeginRemoval, CompleteRemoval,
          Command, Tick
  <2>3. j \in Due(w)
    <3>1. jobs[j] \in JobRows
      BY <1>1, <2>t DEF TypeOK, ClaimInv
    <3>2. QED BY <1>1, <2>1, <2>2, <3>1, ClaimedRows DEF NoClaim
  <2>4. ~(lag[v] < Lease)
    BY <1>1, <2>3, HeldRun
  <2>5. QED BY <2>4, <2>t, Times, SchedulerAssumption
<1>2. IInv /\ RunInv /\ HoldInv /\ [Next]_vars =>
        [\A v, w \in Workers, j \in Jobs :
           v # w /\ Takes(w, j) /\ claims[v][j].phase # "none" /\ claims[v][j].live
             => lag[v] >= Lease]_vars
  BY <1>1
<1>3. QED BY <1>2, Inductive, RunsClaimed, RunsHeld, PTL DEF TakenOverLate, Spec

(* The schedule of a job never runs back, however late and however often   *)
(* its runs are recorded (claim_due, finish_run).                          *)
THEOREM Advances == Spec => ScheduleAdvances
<1>1. ASSUME IInv, [Next]_vars, ~Tick, NEW j \in Jobs, jobs[j] # None
      PROVE  jobs'[j].next >= jobs[j].next
  <2>n. \A r \in JobRows : r # None /\ r.next \in Int
    BY NullAssumption, SchedulerAssumption DEF JobRows, Slots, Floor
  <2>t. jobs[j] \in JobRows
    BY <1>1 DEF IInv, TypeOK
  <2>1. ASSUME NEW w \in Workers, EnsureWrite(w) PROVE jobs'[j].next = jobs[j].next
    BY <1>1, <2>1, EnsureWriteRows
  <2>2. ASSUME NEW w \in Workers, ClaimDue(w) PROVE jobs'[j].next = jobs[j].next
    BY <1>1, <2>2, ClaimRows
  <2>3. ASSUME NEW w \in Workers, NEW i \in Jobs, Record(w, i)
        PROVE  jobs'[j].next = jobs[j].next \/ jobs'[j].next > jobs[j].next
    BY <1>1, <2>3, RecordRows
  <2>4. ASSUME NEW a \in Accounts, Operate(a) PROVE jobs'[j].next = jobs[j].next
    BY <1>1, <2>4, OperateRows
  <2>5. CASE jobs' = jobs
    BY <2>5, <2>n, <2>t
  <2>6. jobs'[j].next = jobs[j].next \/ jobs'[j].next > jobs[j].next
    BY <1>1, <2>1, <2>2, <2>3, <2>4, <2>5
    DEF Next, Work, Fail, Record, StartTick, AcquireLease, LeaseRefused, ListAccounts,
        EnsureRead, DispatchDone, ReleaseLease, Interrupt, TickRaises, Crash, table, vars
  <2>7. jobs'[j].next \in Int
    <3>1. jobs'[j] \in JobRows \/ jobs'[j] = None
      BY <1>1, TypeInductive DEF TypeOK
    <3>2. QED BY <1>1, <2>n, <2>t, <3>1, RowsKept, <2>1, EnsureWriteRows
  <2>8. QED BY <2>n, <2>t, <2>6, <2>7
<1>2. IInv /\ [Next]_vars =>
        [Tick \/ \A j \in Jobs : jobs[j] # None => jobs'[j].next >= jobs[j].next]_vars
  BY <1>1
<1>3. QED BY <1>2, Inductive, PTL DEF ScheduleAdvances, Spec

(* Where no tick outlives a lease and none is cut short, a slot of an      *)
(* account is previewed once (claim_due, _dispatch, finish_run).           *)
THEOREM PreviewedOnce == Spec => UndisturbedPreviewOnce
<1>1. IInv /\ RunInv /\ [Next]_vars =>
        [~overran /\ faults = 0 =>
           \A w \in Workers, j \in Jobs : ~PreviewsAgain(w, j)]_vars
  BY DEF RunInv, PreviewsAgain
<1>2. QED BY <1>1, Inductive, RunsClaimed, PTL DEF UndisturbedPreviewOnce, Spec

(* Of the jobs that two processes may have made for an account, no two are *)
(* claimed for the same slot, unless two ticks have been cut short         *)
(* (ensure_jobs, claim_due, _claim_slot).                                  *)
THEOREM Apart ==
  ASSUME TwoWorkers
  PROVE  Spec => []SlotsApart
<1>1. IInv /\ PairIInv => SlotsApart
  <2> SUFFICES ASSUME IInv, PairIInv, NEW w \in Workers, step[w] = "ensured",
                      faults <= 1, NEW i \in Due(w), NEW j \in Due(w), i[1] = j[1],
                      jobs[i].next = jobs[j].next, i # j, jobs[i].next # Floor
               PROVE  FALSE
    BY DEF SlotsApart
  <2>1. i \in Jobs /\ j \in Jobs /\ Twin(i, j) /\ jobs[i].next <= -lag[w]
    BY DEF Due, Twin, Now
  <2>2. i[1] \in view[w] /\ jobs[i].enabled /\ jobs[j].enabled
    BY DEF Due
  <2>3. QED BY <2>1, <2>2 DEF PairIInv, ApartInv
<1>2. QED BY <1>1, Inductive, PairsApart, PTL
=============================================================================
