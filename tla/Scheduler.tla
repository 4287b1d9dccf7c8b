------------------------------ MODULE Scheduler ------------------------------
(***************************************************************************)
(* The idle-preview scheduler (placegame/scheduler.py): every service      *)
(* process runs one worker, and a worker's tick elects itself through one  *)
(* lease row, provisions a job per account, claims the due jobs as runs,   *)
(* previews them under a semaphore, records them and gives the lease back. *)
(*                                                                         *)
(* Each action is one database transaction or one preview; between two of  *)
(* them other workers, the clock, an operator, a crash may come.  A tick   *)
(* reads the clock once, before it asks for the lease, and works with that *)
(* "now" to its end: lag[w] says how old it is.  All times are relative to *)
(* the clock; what is older than Floor is due, and expired, for everyone.  *)
(*                                                                         *)
(* A run is one row for an account and a slot; here the run of a job's     *)
(* slot is kept with the job until it is complete.  That is the same where *)
(* two jobs of one account never compete for a slot: while no tick has     *)
(* outlived its lease, since there is one job then, and for two workers    *)
(* whose ticks are shorter than an interval and of which one dies at most  *)
(* once (SlotsApart).  Three workers may make jobs for one slot: two that  *)
(* asked for the lease at the same time, and one between them that took    *)
(* over from the first and released.                                       *)
(***************************************************************************)
EXTENDS Integers, FiniteSets

CONSTANTS
  Accounts,
  Workers,         \* one scheduler per process
  Lease,           \* scheduler_lease_seconds, of the election and of a run
  Interval,        \* scheduler_interval_seconds
  MaxConcurrency,  \* max_account_concurrency
  MaxLag,          \* bound: the longest a tick may take
  MaxFaults,       \* bound: ticks cut short, crashes, lost writes
  MaxAdmin,        \* bound: operator commands
  Gone,            \* the worker id of a process that is no more
  None

ASSUME SchedulerAssumption ==
  /\ Lease \in Nat \ {0} /\ Interval \in Nat \ {0} /\ MaxConcurrency \in Nat \ {0}
  /\ MaxLag \in Nat /\ MaxLag < Interval /\ MaxFaults \in Nat /\ MaxAdmin \in Nat
  /\ {None, Gone} \cap Workers = {} /\ None # Gone

VARIABLES
  status,   \* what accounts.list_accounts shows of an account
  lease,    \* the scheduler_leases row
  jobs,     \* jobs rows, each with the unfinished job_runs row of its slot;
            \* a worker inserts at most one per account
  first,    \* whose job of the account has the smallest created_at
  step,     \* where the worker is in tick()
  lag,      \* clock minus the "now" of the tick
  rest,     \* time left in _wait_for_next_tick
  view,     \* the accounts the tick's list showed as eligible
  rows,     \* the jobs ensure_jobs has read
  current,  \* the oldest of them for each account
  claims,   \* the claimed runs the tick is dispatching
  overran,  \* ghost: some tick has outlived a lease
  faults,
  commands

vars == <<status, lease, jobs, first, step, lag, rest, view, rows, current, claims,
          overran, faults, commands>>
table == <<lease, jobs, first>>
reads == <<rows, current>>
outside == <<status, overran, commands>>

Floor == -MaxLag - 1
Slots == Floor..Interval
Lefts == Floor..Lease
Older(n) == IF n > Floor THEN n - 1 ELSE n
Jobs == Accounts \X Workers

JobRows == [enabled : BOOLEAN, next : Slots,
            run : [open : BOOLEAN, left : Lefts, previewed : BOOLEAN]]

ASSUME NullAssumption == None \notin JobRows

NoRun == [open |-> FALSE, left |-> Floor, previewed |-> FALSE]
NoClaim == [phase |-> "none", live |-> FALSE]
NoClaims == [j \in Jobs |-> NoClaim]

(* A tick's "now" on the relative axis; its leases and slots start there.  *)
Now(w) == -lag[w]
LeaseEnd(w) == Lease - lag[w]
(* Slip: the interval is added twice. *)
NextSlotTwice(w) == 2 * Interval - lag[w]
NextSlot(w) == Interval - lag[w]

-----------------------------------------------------------------------------
Init ==
  /\ status = [a \in Accounts |-> "active"]
  /\ lease = [owner |-> None, left |-> Floor]
  /\ jobs = [j \in Jobs |-> None]
  /\ first = [a \in Accounts |-> None]
  /\ step = [w \in Workers |-> "resting"]
  /\ lag = [w \in Workers |-> 0]
  /\ rest = [w \in Workers |-> 0]
  /\ view = [w \in Workers |-> {}]
  /\ rows = [w \in Workers |-> {}]
  /\ current = [w \in Workers |-> [a \in Accounts |-> None]]
  /\ claims = [w \in Workers |-> NoClaims]
  /\ overran = FALSE
  /\ faults = 0
  /\ commands = 0

Goto(w, s) == step' = [step EXCEPT ![w] = s]

(* ensure_jobs is over: the rows it has read are no concern of the tick.   *)
Forget(w) ==
  /\ rows' = [rows EXCEPT ![w] = {}]
  /\ current' = [current EXCEPT ![w] = [a \in Accounts |-> None]]

(* The end of a tick: its locals are gone, and the loop waits an interval. *)
EndTick(w, pause) ==
  /\ Goto(w, "resting")
  /\ lag' = [lag EXCEPT ![w] = 0]
  /\ rest' = [rest EXCEPT ![w] = pause]
  /\ view' = [view EXCEPT ![w] = {}]
  /\ Forget(w)
  /\ claims' = [claims EXCEPT ![w] = NoClaims]

StartTick(w) ==
  /\ step[w] = "resting" /\ rest[w] = 0
  /\ Goto(w, "ticking")
  /\ UNCHANGED <<table, lag, rest, view, reads, claims, faults, outside>>

(* Slip: the lease is taken from whoever has it. *)
HeldNever(w) == FALSE

(* Somebody else owns the lease, and it has not expired by w's "now".      *)
Held(w) == lease.owner \notin {None, w} /\ lease.left > Now(w)

AcquireLease(w) ==
  /\ step[w] = "ticking"
  /\ ~Held(w)
  /\ lease' = [owner |-> w, left |-> LeaseEnd(w)]
  /\ Goto(w, "leased")
  /\ UNCHANGED <<jobs, first, lag, rest, view, reads, claims, faults, outside>>

LeaseRefused(w) ==
  /\ step[w] = "ticking"
  /\ Held(w)
  /\ EndTick(w, Interval)
  /\ UNCHANGED <<table, faults, outside>>

ListAccounts(w) ==
  /\ step[w] = "leased"
  /\ view' = [view EXCEPT ![w] = {a \in Accounts : status[a] = "active"}]
  /\ Goto(w, "listed")
  /\ UNCHANGED <<table, lag, rest, reads, claims, faults, outside>>

(* ensure_jobs takes its view of the rows; it gets their locks, changes    *)
(* them and commits in one step.  A row that does not exist at the first   *)
(* step is neither locked nor changed, whoever inserts it meanwhile.       *)
EnsureRead(w) ==
  /\ step[w] = "listed"
  /\ rows' = [rows EXCEPT ![w] = {j \in Jobs : jobs[j] # None}]
  /\ current' = [current EXCEPT ![w] = first]
  /\ Goto(w, "ensuring")
  /\ UNCHANGED <<table, lag, rest, view, claims, faults, outside>>

(* The accounts it has seen no job for. *)
Missing(w) == {a \in Accounts : \A v \in Workers : <<a, v>> \notin rows[w]}

NewJob(w) == [enabled |-> TRUE, next |-> Now(w), run |-> NoRun]

(* Slip: jobs of accounts that may not run are left as they are. *)
EnabledUnlessSpare(j, w) == jobs[j].enabled \/ j[1] \in view[w]

(* The oldest row of an eligible account is on, every other row is off.    *)
EnabledAfter(j, w) == current[w][j[1]] = j[2] /\ j[1] \in view[w]

(* Racing inserts carry the "now" of two hosts: either may be the older.   *)
EnsureWrite(w) ==
  LET inserted == {<<a, w>> : a \in Missing(w) \cap view[w]} IN
  /\ step[w] = "ensuring"
  /\ jobs' = [j \in Jobs |->
       IF j \in inserted THEN NewJob(w)
       ELSE IF j \in rows[w] THEN [jobs[j] EXCEPT !.enabled = EnabledAfter(j, w)]
       ELSE jobs[j]]
  /\ \E oldest \in [Accounts -> Workers \cup {None}] :
       /\ \A a \in Accounts :
            IF <<a, w>> \in inserted
              THEN oldest[a] \in IF first[a] = None THEN {w} ELSE {w, first[a]}
              ELSE oldest[a] = first[a]
       /\ first' = oldest
  /\ Forget(w)
  /\ Goto(w, "ensured")
  /\ UNCHANGED <<lease, lag, rest, view, claims, faults, outside>>

(* Slip: the lease of an unfinished run is not looked at. *)
FreeAlways(run, w) == TRUE

(* claim_due and _claim_slot: a due job gets the run of its slot if there  *)
(* is none yet, or one that is unfinished and whose lease has run out.     *)
Free(run, w) == ~run.open \/ run.left <= Now(w)

Due(w) ==
  {j \in Jobs : /\ jobs[j] # None /\ j[1] \in view[w]
                /\ jobs[j].enabled /\ jobs[j].next <= Now(w)
                /\ Free(jobs[j].run, w)}

(* The rows that an open transaction may have locked: a removal's last,    *)
(* ensure_jobs, claim_due or finish_run of another worker.                 *)
LockedElsewhere(w, j) ==
  \/ status[j[1]] = "removing"
  \/ \E v \in Workers \ {w} :
       \/ step[v] = "ensuring" /\ j \in rows[v]
       \/ step[v] = "ensured"
       \/ claims[v][j].phase = "returned"

Claim(w, taken) ==
  /\ jobs' = [j \in Jobs |->
       IF j \in taken
         THEN [jobs[j] EXCEPT !.run = [@ EXCEPT !.open = TRUE, !.left = LeaseEnd(w)]]
         ELSE jobs[j]]
  /\ claims' = [claims EXCEPT ![w] = [j \in Jobs |->
       IF j \in taken THEN [phase |-> "queued", live |-> TRUE] ELSE NoClaim]]
  /\ Goto(w, IF taken = {} THEN "releasing" ELSE "dispatching")

(* skip_locked: the due jobs are claimed but for some that are locked.     *)
ClaimDue(w) ==
  /\ step[w] = "ensured"
  /\ \E skipped \in SUBSET {j \in Due(w) : LockedElsewhere(w, j)} :
       Claim(w, Due(w) \ skipped)
  /\ UNCHANGED <<lease, first, lag, rest, view, reads, faults, outside>>

-----------------------------------------------------------------------------
(* _dispatch, one per claimed run; the semaphore is held until it ends. *)

(* claims[w][j].live: nobody else has completed the run meanwhile.         *)

At(w, j, phase) == step[w] = "dispatching" /\ claims[w][j].phase = phase

StartPreview(w, j) ==
  /\ At(w, j, "queued")
  /\ Cardinality({i \in Jobs : claims[w][i].phase \in {"previewing", "returned"}})
       < MaxConcurrency
  /\ claims' = [claims EXCEPT ![w][j].phase = "previewing"]
  /\ UNCHANGED <<table, step, lag, rest, view, reads, faults, outside>>

(* preview() is let in, or refused by AccountService.locked; it may also   *)
(* raise for reasons of its own.  The run is recorded whatever came of it. *)
Preview(w, j) ==
  /\ At(w, j, "previewing")
  /\ claims' = [claims EXCEPT ![w][j].phase = "returned"]
  /\ jobs' = IF status[j[1]] = "active" /\ claims[w][j].live
               THEN [jobs EXCEPT ![j].run.previewed = TRUE] ELSE jobs
  /\ UNCHANGED <<lease, first, step, lag, rest, view, reads, faults, outside>>

(* Slips: a run that is complete is recorded again; no run is recorded.    *)
MayRecordAny(w, j) == TRUE
MayRecordNever(w, j) == FALSE

(* finish_run: a run is completed once ...                                 *)
MayRecord(w, j) == claims[w][j].live

(* ... and moves its job to the slot after the "now" of the tick.          *)
FinishRun(w, j) ==
  /\ At(w, j, "returned")
  /\ IF MayRecord(w, j)
       THEN /\ jobs' = [jobs EXCEPT ![j] = [@ EXCEPT !.next = NextSlot(w), !.run = NoRun]]
            /\ claims' = [v \in Workers |-> [claims[v] EXCEPT ![j] =
                 IF v = w THEN NoClaim ELSE [@ EXCEPT !.live = FALSE]]]
       ELSE UNCHANGED jobs /\ claims' = [claims EXCEPT ![w][j] = NoClaim]
  /\ UNCHANGED <<lease, first, step, lag, rest, view, reads, faults, outside>>

(* The write is lost: logged, and left to the run's lease. *)
FinishFails(w, j) ==
  /\ At(w, j, "returned")
  /\ faults < MaxFaults
  /\ faults' = faults + 1
  /\ claims' = [claims EXCEPT ![w][j] = NoClaim]
  /\ UNCHANGED <<table, step, lag, rest, view, reads, outside>>

DispatchDone(w) ==
  /\ step[w] = "dispatching"
  /\ claims[w] = NoClaims
  /\ Goto(w, "releasing")
  /\ UNCHANGED <<table, lag, rest, view, reads, claims, faults, outside>>

ReleaseLease(w) ==
  /\ step[w] = "releasing"
  /\ lease' = IF lease.owner = w THEN [owner |-> None, left |-> Floor] ELSE lease
  /\ EndTick(w, Interval)
  /\ UNCHANGED <<jobs, first, faults, outside>>

-----------------------------------------------------------------------------
(* The list, a store call or the whole task ends early: the finally block  *)
(* still releases the lease.                                               *)
Interrupt(w) ==
  /\ step[w] \in {"leased", "listed", "ensuring", "ensured", "dispatching"}
  /\ faults < MaxFaults
  /\ faults' = faults + 1
  /\ claims' = [claims EXCEPT ![w] = NoClaims]
  /\ Goto(w, "releasing")
  /\ UNCHANGED <<table, lag, rest, view, reads, outside>>

(* acquire_lease raises before the try block, or after its commit has been *)
(* carried out; or release_lease raises in the finally block.  The loop    *)
(* logs it and waits.                                                      *)
TickRaises(w) ==
  /\ step[w] \in {"ticking", "releasing"}
  /\ faults < MaxFaults
  /\ faults' = faults + 1
  /\ EndTick(w, Interval)
  /\ \/ UNCHANGED lease
     \/ step[w] = "ticking" /\ ~Held(w) /\ lease' = [owner |-> w, left |-> LeaseEnd(w)]
  /\ UNCHANGED <<jobs, first, outside>>

(* The process dies and comes back, under a worker id of its own or, if    *)
(* one was configured, under the same.                                     *)
Crash(w) ==
  /\ step[w] # "resting"
  /\ faults < MaxFaults
  /\ faults' = faults + 1
  /\ EndTick(w, 0)
  /\ lease' \in {lease, [lease EXCEPT !.owner = IF @ = w THEN Gone ELSE @]}
  /\ UNCHANGED <<jobs, first, outside>>

(* AccountService: pause or disable, resume or enable, disable_drain_remove. *)
Command(a, from, to) ==
  /\ status[a] \in from
  /\ commands < MaxAdmin
  /\ status' = [status EXCEPT ![a] = to]
  /\ commands' = commands + 1
  /\ UNCHANGED <<lease, first, step, lag, rest, view, reads, claims, overran, faults>>

Exclude(a) == Command(a, {"active"}, "excluded") /\ UNCHANGED jobs
Include(a) == Command(a, {"excluded"}, "active") /\ UNCHANGED jobs
BeginRemoval(a) == Command(a, {"active", "excluded"}, "removing") /\ UNCHANGED jobs
CompleteRemoval(a) ==
  /\ Command(a, {"removing"}, "removed")
  /\ jobs' = [j \in Jobs |->
       IF j[1] = a /\ jobs[j] # None THEN [jobs[j] EXCEPT !.enabled = FALSE] ELSE jobs[j]]

Tick ==
  /\ \A w \in Workers : lag[w] < MaxLag
  /\ lag' = [w \in Workers |-> IF step[w] = "resting" THEN 0 ELSE lag[w] + 1]
  /\ rest' = [w \in Workers |-> IF rest[w] > 0 THEN rest[w] - 1 ELSE 0]
  /\ lease' = [lease EXCEPT !.left = Older(@)]
  /\ jobs' = [j \in Jobs |->
       IF jobs[j] = None THEN None
       ELSE [jobs[j] EXCEPT !.next = Older(@),
                            !.run = [@ EXCEPT !.left = Older(jobs[j].run.left)]]]
  /\ overran' = (overran \/ \E w \in Workers : step[w] # "resting" /\ lag[w] + 1 >= Lease)
  /\ UNCHANGED <<first, step, view, reads, claims, faults, status, commands>>

-----------------------------------------------------------------------------
Work(w) ==
  \/ StartTick(w) \/ AcquireLease(w) \/ LeaseRefused(w) \/ ListAccounts(w)
  \/ EnsureRead(w) \/ EnsureWrite(w) \/ ClaimDue(w) \/ DispatchDone(w) \/ ReleaseLease(w)
  \/ \E j \in Jobs : StartPreview(w, j) \/ Preview(w, j) \/ FinishRun(w, j)

Fail(w) ==
  \/ Interrupt(w) \/ TickRaises(w) \/ Crash(w)
  \/ \E j \in Jobs : FinishFails(w, j)

Operate(a) == Exclude(a) \/ Include(a) \/ BeginRemoval(a) \/ CompleteRemoval(a)

Next ==
  \/ \E w \in Workers : Work(w) \/ Fail(w)
  \/ \E a \in Accounts : Operate(a)
  \/ Tick

Spec == Init /\ [][Next]_vars

(* Processes keep running, and time passes. *)
Fairness == WF_vars(Tick) /\ \A w \in Workers : WF_vars(Work(w))
FairSpec == Spec /\ Fairness

-----------------------------------------------------------------------------
(* Properties. *)

(* Rows, calls and counters keep their types (the tables of models.py and  *)
(* the locals of tick).                                                    *)
TypeOK ==
  /\ status \in [Accounts -> {"active", "excluded", "removing", "removed"}]
  /\ lease \in [owner : Workers \cup {None, Gone}, left : Lefts]
  /\ jobs \in [Jobs -> {None} \cup JobRows]
  /\ first \in [Accounts -> Workers \cup {None}]
  /\ step \in [Workers -> {"resting", "ticking", "leased", "listed", "ensuring",
                           "ensured", "dispatching", "releasing"}]
  /\ lag \in [Workers -> 0..MaxLag]
  /\ rest \in [Workers -> 0..Interval]
  /\ view \in [Workers -> SUBSET Accounts]
  /\ rows \in [Workers -> SUBSET Jobs]
  /\ current \in [Workers -> [Accounts -> Workers \cup {None}]]
  /\ claims \in [Workers -> [Jobs -> [phase : {"none", "queued", "previewing", "returned"},
                                     live : BOOLEAN]]]
  /\ overran \in BOOLEAN
  /\ faults \in 0..MaxFaults
  /\ commands \in 0..MaxAdmin

Kept(a) == <<a, first[a]>>

(* The jobs a worker is about to claim are at different slots or belong to *)
(* different accounts, so that none finds another's run (_claim_slot): a   *)
(* second worker is let in at a later second (idempotency key, lease).     *)
(* Two restarts, each with a list of jobs that is out of date, break it.   *)
SlotsApart ==
  \A w \in Workers : step[w] = "ensured" /\ faults <= 1 =>
    \A i, j \in Due(w) :
      (i[1] = j[1] /\ jobs[i].next = jobs[j].next) => i = j \/ jobs[i].next = Floor

(* A late or repeated finish_run never pulls a schedule back: a job's next *)
(* run only moves towards the future.                                      *)
ScheduleAdvances ==
  [][Tick \/ \A j \in Jobs : jobs[j] # None => jobs'[j].next >= jobs[j].next]_vars

(* However many ticks overlap, a run that its worker has not lost yet is   *)
(* claimed by another only when that worker's tick has outlived the run's  *)
(* lease (acquire_lease at the start of a tick, _claim_slot at its end).   *)
Takes(w, j) == step[w] = "ensured" /\ claims'[w][j].phase = "queued"
TakenOverLate ==
  [][\A v, w \in Workers, j \in Jobs :
       v # w /\ Takes(w, j) /\ claims[v][j].phase # "none" /\ claims[v][j].live
         => lag[v] >= Lease]_vars

(* An account has one idle-preview job as long as no tick outlives its     *)
(* lease, whatever crashes (ensure_jobs).                                  *)
OneJobPerAccount ==
  \A a \in Accounts :
    ~overran => Cardinality({w \in Workers : jobs[<<a, w>>] # None}) <= 1

(* w calls preview() for a slot that has been previewed or completed.      *)
PreviewsAgain(w, j) ==
  /\ claims[w][j].phase = "previewing" /\ claims'[w][j].phase = "returned"
  /\ status[j[1]] = "active"
  /\ ~claims[w][j].live \/ jobs[j].run.previewed

(* A scheduled slot of an account is previewed at most once (_claim_slot,  *)
(* its unique key and its run lease) ...                                   *)
PreviewOncePerSlot == [][\A w \in Workers, j \in Jobs : ~PreviewsAgain(w, j)]_vars

(* ... as long as no tick outlives its leases or is cut short.             *)
UndisturbedPreviewOnce ==
  [][~overran /\ faults = 0 =>
       \A w \in Workers, j \in Jobs : ~PreviewsAgain(w, j)]_vars

(* An eligible account without a job, or with a job that is due, is        *)
(* brought forward to a later slot, whatever ticks are lost (tick, run).   *)
Overdue(a) ==
  /\ status[a] = "active"
  /\ IF first[a] = None THEN TRUE ELSE jobs[Kept(a)].next <= 0
EveryAccountServed == \A a \in Accounts : Overdue(a) ~> ~Overdue(a)

(* A removed account's jobs may be switched on again by a tick that listed *)
(* it before, but they end switched off for good (ensure_jobs).            *)
RemovedStaysQuiet ==
  \A a \in Accounts :
    (status[a] = "removed") ~>
      [](\A w \in Workers : jobs[<<a, w>>] # None => ~jobs[<<a, w>>].enabled)
=============================================================================
