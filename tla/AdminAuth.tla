------------------------------- MODULE AdminAuth -------------------------------
(***************************************************************************)
(* The administrator's password and sessions (placegame/admin/auth.py and  *)
(* the auth routes of placegame/admin/routes.py).                          *)
(*                                                                         *)
(* Every store call is a transaction of its own; in between a call awaits  *)
(* and other calls, the clock and crashes come in.  What a call has read   *)
(* before an await (the password hash, "now") it uses after it.            *)
(*                                                                         *)
(* A password hash is the number of passwords there have been, 0 before    *)
(* the setup: a hash verifies the password it was made of and no other.    *)
(* Expiry times are kept as the time that is left; a call's "now" is lag   *)
(* older than the clock.                                                   *)
(***************************************************************************)
EXTENDS Integers

CONSTANTS
  Callers,        \* concurrent requests to the admin API
  Tokens,         \* session tokens; each is drawn by one login at most
  IdleTicks,      \* idle_seconds
  AbsoluteTicks,  \* absolute_seconds
  MaxLag,         \* bound: how long a store call may take after its "now"
  MaxPasswords,   \* bound: number of passwords
  MaxFaults,      \* bound: calls that end early
  None,
  Gone            \* a session that was deleted

ASSUME LifetimeAssumption ==
  /\ IdleTicks \in Nat \ {0} /\ AbsoluteTicks \in Nat \ {0}
  /\ MaxLag \in Nat /\ MaxPasswords \in Nat /\ MaxFaults \in Nat

VARIABLES
  credential,  \* the password_hash of the admin_credentials row, 0: no row
  sessions,    \* admin_sessions rows
  call,        \* local state of each request
  faults,      \* number of calls that ended early
  undropped    \* ghost: a change ended before it dropped the sessions

vars == <<credential, sessions, call, faults, undropped>>

Hashes == 0..MaxPasswords

(* idle and absolute: the time until the session expires.  Ghosts: the     *)
(* password it was given for, whether a change of it came before the       *)
(* session, and the time until its latest use is IdleTicks ago.            *)
Sessions ==
  [idle : -MaxLag..IdleTicks, absolute : -MaxLag..AbsoluteTicks,
   hash : 1..MaxPasswords, late : BOOLEAN, recent : -MaxLag..IdleTicks]
ASSUME NullAssumption ==
  /\ None \notin Tokens
  /\ None # Gone
  /\ None \notin Sessions /\ Gone \notin Sessions

Requests == {"use", "logout", "change"}
Steps == {"out", "verifying", "creating", "finding", "deleting", "reading",
          "updating", "dropping"}
Calls == [at : Steps, request : Requests, token : Tokens \cup {None},
          hash : Hashes, lag : 0..MaxLag]

NoCall == [at |-> "out", request |-> "use", token |-> None, hash |-> 0, lag |-> 0]
Live(t) == sessions[t] \notin {None, Gone}

-----------------------------------------------------------------------------
Init ==
  /\ credential = 0
  /\ sessions = [t \in Tokens |-> None]
  /\ call = [c \in Callers |-> NoCall]
  /\ faults = 0
  /\ undropped = FALSE

Goto(c, step) == call' = [call EXCEPT ![c].at = step]
Return(c) == call' = [call EXCEPT ![c] = NoCall]

(* The primary key lets one setup in, all others find the row.             *)
SetupAllowed == credential = 0 /\ MaxPasswords > 0

Setup(c) ==
  /\ call[c].at = "out"
  /\ SetupAllowed
  /\ credential' = credential + 1
  /\ UNCHANGED <<sessions, call, faults, undropped>>

-----------------------------------------------------------------------------
(* login: read the hash, verify, take the time, create the session.  The   *)
(* token it will draw is set aside here, so that the last one is not drawn *)
(* twice: with none left no login begins.                                  *)

Drawn(t) == sessions[t] # None \/ \E c \in Callers : call[c].token = t

ReadForLogin(c, t) ==
  /\ call[c].at = "out"
  /\ credential # 0
  /\ ~Drawn(t)
  /\ call' = [call EXCEPT ![c] =
       [NoCall EXCEPT !.at = "verifying", !.token = t, !.hash = credential]]
  /\ UNCHANGED <<credential, sessions, faults, undropped>>

(* The password is wrong, or right and the time is taken.                  *)
Verify(c) ==
  /\ call[c].at = "verifying"
  /\ Return(c) \/ Goto(c, "creating")
  /\ UNCHANGED <<credential, sessions, faults, undropped>>

CreateSession(c) ==
  LET t == call[c].token IN
  /\ call[c].at = "creating"
  /\ sessions' = [sessions EXCEPT ![t] =
       [idle |-> IdleTicks - call[c].lag, absolute |-> AbsoluteTicks - call[c].lag,
        hash |-> call[c].hash, late |-> call[c].hash # credential,
        recent |-> IdleTicks - call[c].lag]]
  /\ Return(c)
  /\ UNCHANGED <<credential, faults, undropped>>

-----------------------------------------------------------------------------
(* Every other request presents a token first (require_admin, validate);   *)
(* the token may be one that is long gone.                                 *)
Present(c, t, request) ==
  /\ call[c].at = "out"
  /\ sessions[t] # None
  /\ call' = [call EXCEPT ![c] =
       [NoCall EXCEPT !.at = "finding", !.request = request, !.token = t]]
  /\ UNCHANGED <<credential, sessions, faults, undropped>>

Expired(s, lag) == s.idle + lag <= 0 \/ s.absolute + lag <= 0

(* Slips: last_seen_at stays as it is; each use moves the absolute expiry; *)
(* the idle time is added to what is left of it.                           *)
NotRefreshed(s, lag) == s
RefreshedWhole(s, lag) ==
  [s EXCEPT !.idle = IdleTicks - lag, !.absolute = AbsoluteTicks - lag]
Extended(s, lag) == [s EXCEPT !.idle = @ + IdleTicks]

(* last_seen_at becomes the call's "now", be it older than the last.       *)
Refreshed(s, lag) == [s EXCEPT !.idle = IdleTicks - lag]

Admitted(c) ==
  CASE call[c].request = "use" -> NoCall
    [] call[c].request = "logout" -> [call[c] EXCEPT !.at = "deleting", !.lag = 0]
    [] call[c].request = "change" -> [call[c] EXCEPT !.at = "reading", !.lag = 0]

Latest(n, m) == IF n > m THEN n ELSE m
Used(s, lag) == [Refreshed(s, lag) EXCEPT !.recent = Latest(@, IdleTicks - lag)]

(* find_session: an expired row is deleted, a good one is refreshed; what  *)
(* an admitted request does is another component's, or one of the two      *)
(* below.                                                                  *)
FindSession(c) ==
  LET t == call[c].token
      lag == call[c].lag
  IN
  /\ call[c].at = "finding"
  /\ IF Live(t) /\ ~Expired(sessions[t], lag)
       THEN /\ sessions' = [sessions EXCEPT ![t] = Used(@, lag)]
            /\ call' = [call EXCEPT ![c] = Admitted(c)]
       ELSE /\ sessions' = [sessions EXCEPT ![t] = Gone]
            /\ Return(c)
  /\ UNCHANGED <<credential, faults, undropped>>

DeleteSession(c) ==
  /\ call[c].at = "deleting"
  /\ sessions' = [sessions EXCEPT ![call[c].token] = Gone]
  /\ Return(c)
  /\ UNCHANGED <<credential, faults, undropped>>

-----------------------------------------------------------------------------
(* change_password: read the hash and verify, write the new one, drop      *)
(* every session; three transactions.                                      *)

(* Unauthorized, a blank new password, or on with the change.              *)
ReadForChange(c) ==
  /\ call[c].at = "reading"
  /\ \/ Return(c)
     \/ call' = [call EXCEPT ![c].at = "updating", ![c].hash = credential]
  /\ UNCHANGED <<credential, sessions, faults, undropped>>

UpdateHash(c) ==
  /\ call[c].at = "updating"
  /\ credential < MaxPasswords
  /\ credential' = credential + 1
  /\ Goto(c, "dropping")
  /\ UNCHANGED <<sessions, faults, undropped>>

(* Slip: only the session of the request is dropped.                       *)
DroppedOwn(c) ==
  [t \in Tokens |-> IF t = call[c].token THEN Gone ELSE sessions[t]]

Dropped(c) == [t \in Tokens |-> IF Live(t) THEN Gone ELSE sessions[t]]

DropSessions(c) ==
  /\ call[c].at = "dropping"
  /\ sessions' = Dropped(c)
  /\ Return(c)
  /\ UNCHANGED <<credential, faults, undropped>>

-----------------------------------------------------------------------------
(* A request is cancelled, raises or dies with its process.                *)
Abandon(c) ==
  /\ call[c].at # "out"
  /\ faults < MaxFaults
  /\ faults' = faults + 1
  /\ undropped' = (undropped \/ call[c].at = "dropping")
  /\ Return(c)
  /\ UNCHANGED <<credential, sessions>>

Older(n) == IF n > -MaxLag THEN n - 1 ELSE n
Waiting == {"creating", "finding"}

Tick ==
  /\ \A c \in Callers : call[c].at \in Waiting => call[c].lag < MaxLag
  /\ call' = [c \in Callers |->
       IF call[c].at \in Waiting THEN [call[c] EXCEPT !.lag = @ + 1] ELSE call[c]]
  /\ sessions' = [t \in Tokens |->
       IF Live(t)
         THEN [sessions[t] EXCEPT
                 !.idle = Older(@), !.absolute = Older(@), !.recent = Older(@)]
         ELSE sessions[t]]
  /\ UNCHANGED <<credential, faults, undropped>>

-----------------------------------------------------------------------------
Proceed(c) ==
  \/ Verify(c) \/ FindSession(c) \/ DeleteSession(c)
  \/ ReadForChange(c) \/ UpdateHash(c) \/ DropSessions(c)
  \/ CreateSession(c)

Begin(c) ==
  \/ Setup(c)
  \/ \E t \in Tokens : ReadForLogin(c, t)
  \/ \E t \in Tokens, request \in Requests : Present(c, t, request)

Next == Tick \/ \E c \in Callers : Begin(c) \/ Proceed(c) \/ Abandon(c)

Spec == Init /\ [][Next]_vars

(* A request in progress goes on, and time passes.                         *)
Fairness == WF_vars(Tick) /\ \A c \in Callers : WF_vars(Proceed(c))
FairSpec == Spec /\ Fairness

-----------------------------------------------------------------------------
(* Properties. *)

(* The row, the sessions and the requests keep their types (AdminCredential*)
(* and AdminSession of models.py, the locals of AdminAuthService).         *)
TypeOK ==
  /\ credential \in Hashes
  /\ sessions \in [Tokens -> Sessions \cup {None, Gone}]
  /\ call \in [Callers -> Calls]
  /\ faults \in 0..MaxFaults
  /\ undropped \in BOOLEAN

Outdated(t) == Live(t) /\ sessions[t].hash # credential

(* No session of a former password outlives the change of it, except one   *)
(* whose login had verified the former password and was overtaken by the   *)
(* change, or when a change has died between its two writes                *)
(* (change_password: the hash first, then every session).                  *)
ChangeEndsSessions ==
  \A t \in Tokens : Outdated(t) =>
    \/ sessions[t].late
    \/ undropped
    \/ \E c \in Callers : call[c].at = "dropping"

(* A request that took its time late may set last_seen_at back, but never  *)
(* by more than a store call lasts: a session in use does not expire       *)
(* sooner than that (find_session, validate).                              *)
IdleWithinLag ==
  \A t \in Tokens : Live(t) => sessions[t].idle >= sessions[t].recent - MaxLag

(* A session of a former password that is left nonetheless comes to its    *)
(* end, however often it is used (absolute_expires_at).                    *)
OutdatedEnds ==
  \A t \in Tokens : Outdated(t) ~> ~Live(t) \/ sessions[t].absolute <= 0
=============================================================================
