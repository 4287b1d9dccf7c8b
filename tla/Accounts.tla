------------------------------ MODULE Accounts ------------------------------
(***************************************************************************)
(* The account service (placegame/accounts/service.py): which game account *)
(* a row stands for, which secrets it stores, who may use it and how it is *)
(* removed.                                                                *)
(*                                                                         *)
(* An operation on a row holds the row's lock from its first read to its   *)
(* commit and works on a copy.  Operations that ask the game are a pair of *)
(* actions, one that opens txn[a] with what the game answered and one that *)
(* commits or loses it; meanwhile other rows, enrollments and the game     *)
(* move on.  What an operation only reads again under its own lock cannot  *)
(* change, so its calls of the game are one step.  The others are one      *)
(* step.  Session expiry, the failure window and refusals by the game are  *)
(* choices: an expiry may be anything, an hour may pass between two calls. *)
(*                                                                         *)
(* A secret is modelled by what it opens: a user name with its password by *)
(* the name, a session token by the identity it belongs to.                *)
(***************************************************************************)
EXTENDS Integers, FiniteSets

CONSTANTS
  Accounts,      \* ids of game_accounts rows
  Identities,    \* the game's account ids
  Usernames,
  Requests,      \* concurrent enrollments
  PauseReasons,  \* what operators type as a reason
  AuthLimit,     \* failed logins of an hour that pause an account, 3 in the code
  MaxRenames,    \* bound: user names that move to another game account
  MaxRemovals,   \* bound: concurrent removals of one row
  None

ASSUME AccountsAssumption ==
  /\ AuthLimit \in Nat \ {0} /\ MaxRenames \in Nat /\ MaxRemovals \in Nat
  /\ None \notin Identities \cup Usernames \cup PauseReasons

VARIABLES
  row,       \* committed game_accounts rows
  txn,       \* the open transaction on a row: its copy, and the identity that
             \* a locked() block acts for
  removals,  \* disable_drain_remove calls between their two transactions
  enroll,    \* add_credentials and add_token_only calls
  owner,     \* the game: whom a user name logs in
  renames

vars == <<row, txn, removals, enroll, owner, renames>>
elsewhere == <<enroll, owner, renames>>

Marks == {"removing", "removed"}
Automatic == {"session_refresh_required", "authentication_required",
              "account_identity_mismatch"}
Rows ==
  {s \in [enabled : BOOLEAN, paused : {None} \cup Marks \cup Automatic \cup PauseReasons,
          mode : {"credentials", "token_only"}, identity : Identities \cup {None},
          login : Usernames \cup {None}, session : Identities \cup {None},
          failures : 0..AuthLimit] :
     s.mode = "token_only" => s.login = None}
Transactions == [copy : Rows, acts : Identities \cup {None}]
Enrollments == [new : Rows, at : {"verified", "checked"}]

ASSUME NullAssumption ==
  None \notin Marks \cup Automatic \cup Rows \cup Transactions \cup Enrollments

NewRow(mode, i, u) ==
  [enabled |-> TRUE, paused |-> None, mode |-> mode, identity |-> i,
   login |-> u, session |-> i, failures |-> 0]

(* Rows of the first release have no identity yet; two of them may have    *)
(* been made for one game account.                                         *)
Historical ==
  {[NewRow("credentials", owner[u], u) EXCEPT !.identity = None] : u \in Usernames}
    \cup {[NewRow("token_only", i, None) EXCEPT !.identity = None] : i \in Identities}

Init ==
  /\ owner \in [Usernames -> Identities]
  /\ row \in [Accounts -> {None} \cup Historical]
  /\ txn = [a \in Accounts |-> None]
  /\ removals = [a \in Accounts |-> 0]
  /\ enroll = [r \in Requests |-> None]
  /\ renames = 0

-----------------------------------------------------------------------------
(* Identity (_find_identity, _bind_or_match_identity).                     *)

Free(a) == txn[a] = None
Exists(a) == row[a] # None
Known(a) == {row[b].identity : b \in {b \in Accounts \ {a} : Exists(b)}}

Mismatched(s) == [s EXCEPT !.enabled = FALSE, !.paused = "account_identity_mismatch"]

(* Slip: an identity once bound is not compared any more. *)
BoundBlindly(a, s, i) ==
  IF s.identity # None THEN s
  ELSE IF i \notin Known(a) THEN [s EXCEPT !.identity = i] ELSE Mismatched(s)

(* The copy s of row a after the game has called it i.                     *)
Bound(a, s, i) ==
  IF s.identity = i \/ (s.identity = None /\ i \notin Known(a))
  THEN [s EXCEPT !.identity = i]
  ELSE Mismatched(s)

(* Slip: no unique key. *)
NeverBlocks(a, s) == TRUE

(* The unique key on the identity: a flush waits for the transaction that  *)
(* has flushed the same one, and is refused when that commits.             *)
Flushes(a, s) ==
  \A b \in Accounts \ {a} :
    ~Free(b) /\ txn[b].copy.identity = s.identity => s.identity \in {row[a].identity, None}

-----------------------------------------------------------------------------
(* Sessions (_ensure_locked).                                              *)

Failed(s, n) ==
  [s EXCEPT !.failures = n,
            !.paused = IF n >= AuthLimit THEN "authentication_required" ELSE @]

(* _record_auth_failure: the first of an hour's window, or one more.       *)
AuthFailures(s) ==
  {Failed(s, 1), Failed(s, IF s.failures < AuthLimit THEN s.failures + 1 ELSE AuthLimit)}

NoSession(s) == [copy |-> s, acts |-> None]
Session(s, i) == [copy |-> s, acts |-> IF s.paused = None THEN i ELSE None]

(* The stored token is not due for renewal and the game accepts it.        *)
Resumed(a, s) ==
  IF s.session = None THEN {} ELSE {Session(Bound(a, s, s.session), s.session)}

Renewed(s, i) ==
  IF s.paused = None THEN [s EXCEPT !.session = i, !.failures = 0] ELSE s

LoggedIn(a, s) ==
  IF s.login = None THEN {}
  ELSE LET i == owner[s.login] IN {Session(Renewed(Bound(a, s, i), i), i)}

(* What becomes of the copy s, and whom the session is for, if any.        *)
Ensured(a, s) ==
  IF s.paused # None THEN {NoSession(s)}
  ELSE Resumed(a, s) \cup
    IF s.mode = "token_only"
    THEN {NoSession([s EXCEPT !.paused = "session_refresh_required"])}
    ELSE LoggedIn(a, s) \cup {NoSession(t) : t \in AuthFailures(s)}

-----------------------------------------------------------------------------
(* Operations that ask the game.                                           *)

Open(a, o) ==
  /\ Flushes(a, o.copy)
  /\ txn' = [txn EXCEPT ![a] = o]
  /\ UNCHANGED <<row, removals, elsewhere>>

Mutable(s) == s.enabled /\ s.paused = None

(* locked(): the block runs with the row's lock, session and identity.     *)
EnterBlock(a) ==
  /\ Exists(a) /\ Free(a)
  /\ Mutable(row[a])
  /\ \E o \in Ensured(a, row[a]) : Open(a, o)

(* ensure_session(), snapshot(): for a disabled account, too.              *)
EnsureSession(a) ==
  /\ Exists(a) /\ Free(a)
  /\ row[a].paused = None
  /\ \E o \in Ensured(a, row[a]) : Open(a, NoSession(o.copy))

(* A historical row is bound by its stored secret first, or not at all.    *)
StoredFirst(a, s) ==
  IF s.identity # None THEN {s}
  ELSE LET i == IF s.mode = "token_only" THEN s.session
                ELSE IF s.login = None THEN None ELSE owner[s.login]
       IN {s} \cup IF i = None THEN {} ELSE {Bound(a, s, i)}

(* Slip: stores the proposal before it looks at the identity. *)
ReplacedUnverified(s, new) ==
  IF s.identity # new.session
  THEN Mismatched([s EXCEPT !.mode = new.mode, !.login = new.login, !.session = new.session])
  ELSE [s EXCEPT !.mode = new.mode, !.login = new.login, !.session = new.session,
                 !.paused = None, !.failures = 0]

(* Slip: a row that changes to token_only keeps its password. *)
ReplacedKeepingLogin(s, new) ==
  IF s.identity # new.session THEN Mismatched(s)
  ELSE [s EXCEPT !.mode = new.mode, !.session = new.session,
                 !.login = IF new.login = None THEN @ ELSE new.login,
                 !.paused = None, !.failures = 0]

Replaced(s, new) ==
  IF s.identity # new.session THEN Mismatched(s)
  ELSE [s EXCEPT !.mode = new.mode, !.login = new.login, !.session = new.session,
                 !.paused = None, !.failures = 0]

(* update_credentials(), update_token_only(): the stored identity, the     *)
(* game's word on the proposed secret, then the replacement.               *)
Update(a, new) ==
  /\ Exists(a) /\ Free(a)
  /\ row[a].paused \notin Marks
  /\ \E s \in StoredFirst(a, row[a]) :
       \E t \in {s} \cup IF s.identity = None THEN {} ELSE {Replaced(s, new)} :
         Open(a, NoSession(t))

UpdateCredentials(a, u) ==
  Update(a, [mode |-> "credentials", login |-> u, session |-> owner[u]])
UpdateTokenOnly(a, i) ==
  Update(a, [mode |-> "token_only", login |-> None, session |-> i])

Commit(a) ==
  /\ ~Free(a)
  /\ row' = [row EXCEPT ![a] = txn[a].copy]
  /\ txn' = [txn EXCEPT ![a] = None]
  /\ UNCHANGED <<removals, elsewhere>>

(* The block or a later call of the game raises, or the process ends.      *)
Rollback(a) ==
  /\ ~Free(a)
  /\ txn' = [txn EXCEPT ![a] = None]
  /\ UNCHANGED <<row, removals, elsewhere>>

-----------------------------------------------------------------------------
(* Operations of one transaction.                                          *)

Write(a, s) ==
  /\ row' = [row EXCEPT ![a] = s]
  /\ UNCHANGED <<txn, elsewhere>>

(* enable(), disable().                                                    *)
SetLifecycle(a, enabled) ==
  /\ Exists(a) /\ Free(a)
  /\ row[a].paused \notin Marks
  /\ Write(a, [row[a] EXCEPT !.enabled = enabled])
  /\ UNCHANGED removals

Pause(a, reason) ==
  /\ Exists(a) /\ Free(a)
  /\ row[a].paused \notin Marks
  /\ Write(a, [row[a] EXCEPT !.paused = reason])
  /\ UNCHANGED removals

(* Slip: only the tombstone is refused. *)
ResumeUnlessRemoved(a) ==
  /\ Exists(a) /\ Free(a)
  /\ row[a].paused # "removed"
  /\ Write(a, [row[a] EXCEPT !.paused = None])
  /\ UNCHANGED removals

Resume(a) ==
  /\ Exists(a) /\ Free(a)
  /\ row[a].paused \notin Marks
  /\ Write(a, [row[a] EXCEPT !.paused = None])
  /\ UNCHANGED removals

(* Slip: the first transaction of a removal does not wait for the row. *)
BeginRemovalAtOnce(a) ==
  /\ Exists(a) /\ row[a].paused # "removed"
  /\ removals[a] < MaxRemovals
  /\ removals' = [removals EXCEPT ![a] = @ + 1]
  /\ Write(a, [row[a] EXCEPT !.enabled = FALSE, !.paused = "removing"])

(* disable_drain_remove(), the marker: no account lock, but the row's.     *)
BeginRemoval(a) ==
  /\ Exists(a) /\ Free(a) /\ row[a].paused # "removed"
  /\ removals[a] < MaxRemovals
  /\ removals' = [removals EXCEPT ![a] = @ + 1]
  /\ Write(a, [row[a] EXCEPT !.enabled = FALSE, !.paused = "removing"])

(* disable_drain_remove(), the tombstone; the jobs are Scheduler's.        *)
CompleteRemoval(a) ==
  /\ removals[a] > 0 /\ Free(a)
  /\ removals' = [removals EXCEPT ![a] = @ - 1]
  /\ Write(a, [row[a] EXCEPT !.enabled = FALSE, !.paused = "removed",
                             !.login = None, !.session = None])

(* The call ends between its transactions.                                 *)
LoseRemoval(a) ==
  /\ removals[a] > 0
  /\ removals' = [removals EXCEPT ![a] = @ - 1]
  /\ UNCHANGED <<row, txn, elsewhere>>

-----------------------------------------------------------------------------
(* Enrollment (add_credentials, add_token_only): the game is asked first,  *)
(* the table is then read and written under the lock of the identity.      *)

Enrolling(r, e) ==
  /\ enroll' = [enroll EXCEPT ![r] = e]
  /\ UNCHANGED <<txn, removals, owner, renames>>

Verify(r) ==
  /\ enroll[r] = None
  /\ \/ \E u \in Usernames :
          Enrolling(r, [new |-> NewRow("credentials", owner[u], u), at |-> "verified"])
     \/ \E i \in Identities :
          Enrolling(r, [new |-> NewRow("token_only", i, None), at |-> "verified"])
  /\ UNCHANGED row

Unresolved == \E a \in Accounts : Exists(a) /\ row[a].identity = None
(* Slip: no lock. *)
IdentityLockedNever(i) == FALSE
IdentityLocked(i) ==
  \E r \in Requests :
    enroll[r] # None /\ enroll[r].at = "checked" /\ enroll[r].new.identity = i
Unbound(i) == \A a \in Accounts : Exists(a) => row[a].identity # i
(* Slip: rows without an identity are not considered. *)
EnrollableUnlessFound(i) == Unbound(i)
Enrollable(i) == ~Unresolved /\ Unbound(i)

CheckEnrollment(r) ==
  /\ enroll[r] # None /\ enroll[r].at = "verified"
  /\ ~IdentityLocked(enroll[r].new.identity)
  /\ Enrolling(r, IF Enrollable(enroll[r].new.identity)
                  THEN [enroll[r] EXCEPT !.at = "checked"] ELSE None)
  /\ UNCHANGED row

Insert(r, a) ==
  /\ enroll[r] # None /\ enroll[r].at = "checked"
  /\ ~Exists(a) /\ Unbound(enroll[r].new.identity)
  /\ row' = [row EXCEPT ![a] = enroll[r].new]
  /\ Enrolling(r, None)

DropEnrollment(r) ==
  /\ enroll[r] # None
  /\ Enrolling(r, None)
  /\ UNCHANGED row

-----------------------------------------------------------------------------
(* The game gives a user name to another of its accounts.                  *)
Rename(u, i) ==
  /\ renames < MaxRenames /\ owner[u] # i
  /\ owner' = [owner EXCEPT ![u] = i]
  /\ renames' = renames + 1
  /\ UNCHANGED <<row, txn, removals, enroll>>

Operate(a) ==
  \/ \E e \in BOOLEAN : SetLifecycle(a, e)
  \/ \E reason \in PauseReasons : Pause(a, reason)
  \/ Resume(a)
  \/ BeginRemoval(a) \/ CompleteRemoval(a) \/ LoseRemoval(a)

Use(a) ==
  \/ EnterBlock(a) \/ EnsureSession(a)
  \/ \E u \in Usernames : UpdateCredentials(a, u)
  \/ \E i \in Identities : UpdateTokenOnly(a, i)
  \/ Commit(a) \/ Rollback(a)

Enroll(r) ==
  \/ Verify(r) \/ CheckEnrollment(r) \/ DropEnrollment(r)
  \/ \E a \in Accounts : Insert(r, a)

Next ==
  \/ \E a \in Accounts : Operate(a) \/ Use(a)
  \/ \E r \in Requests : Enroll(r)
  \/ \E u \in Usernames, i \in Identities : Rename(u, i)

Spec == Init /\ [][Next]_vars

-----------------------------------------------------------------------------
(* Properties. *)

(* Rows, copies and calls keep their types (GameAccount of models.py).     *)
TypeOK ==
  /\ row \in [Accounts -> {None} \cup Rows]
  /\ txn \in [Accounts -> {None} \cup Transactions]
  /\ removals \in [Accounts -> 0..MaxRemovals]
  /\ enroll \in [Requests -> {None} \cup Enrollments]
  /\ owner \in [Usernames -> Identities]
  /\ renames \in 0..MaxRenames

Copies(a) == (IF Exists(a) THEN {row[a]} ELSE {}) \cup (IF Free(a) THEN {} ELSE {txn[a].copy})

(* No two rows are bound to one game account, committed or in flight: not  *)
(* when two historical rows resolve at once, nor when one does while an    *)
(* enrollment is under way (_bind_or_match_identity, identity_lock).       *)
OneRowPerIdentity ==
  \A a, b \in Accounts : a # b =>
    \A s \in Copies(a), t \in Copies(b) : s.identity = t.identity => s.identity = None

(* A locked block plays the game account its row is bound to, and no other *)
(* block plays that account at the time (_ensure_locked, _locked).         *)
OneActor ==
  \A a \in Accounts : ~Free(a) /\ txn[a].acts # None =>
    /\ txn[a].acts = txn[a].copy.identity
    /\ \A b \in Accounts \ {a} : ~Free(b) => txn[b].acts # txn[a].acts

(* While a block is inside, the account stays enabled and unpaused:        *)
(* disabling, pausing and removal wait for it (_require_mutable and the    *)
(* row lock, which the marker of a removal takes as well).                 *)
ExclusionDrains ==
  \A a \in Accounts : ~Free(a) /\ txn[a].acts # None => Mutable(row[a])

(* A removal that has begun is never undone, by no command, renewal or     *)
(* late commit; a tombstone does not change (_reject_removal_marker).      *)
RemovalIrrevocable ==
  [][\A a \in Accounts : Exists(a) =>
       /\ row[a].paused = "removing" => row'[a].paused \in Marks
       /\ row[a].paused = "removed" => row'[a] = row[a]]_vars

(* A tombstone is disabled and stores no secret (disable_drain_remove).    *)
TombstoneEmpty ==
  \A a \in Accounts : Exists(a) /\ row[a].paused = "removed" =>
    ~row[a].enabled /\ row[a].login = None /\ row[a].session = None

(* Secrets are replaced only by ones the game has just accepted for the    *)
(* identity of the row; a failed login or update leaves the stored ones    *)
(* alone (update_credentials, update_token_only, _ensure_locked).          *)
Secrets(s) == <<s.mode, s.login, s.session>>
SecretsVerified ==
  [][\A a \in Accounts : Exists(a) /\ Secrets(row'[a]) # Secrets(row[a]) =>
       \/ row'[a].paused = "removed"
       \/ row'[a].session = row'[a].identity /\ row'[a].identity # None]_vars

(* An enrollment adds no second holder of a game account's session, not    *)
(* even beside a historical row nobody has resolved yet, unless a user     *)
(* name moved in the game meanwhile (has_unresolved_identity).             *)
NoSecondHolder ==
  [][\A a \in Accounts : renames = 0 /\ ~Exists(a) /\ row'[a] # None =>
       \A b \in Accounts : Exists(b) => row[b].session # row'[a].session]_vars

(* An enrollment that found its identity free still finds it free when it  *)
(* inserts: callers get a conflict, never a failed unique key              *)
(* (identity_lock).                                                        *)
CheckedStaysFree ==
  \A r \in Requests : enroll[r] # None /\ enroll[r].at = "checked" =>
    \A a \in Accounts : \A s \in Copies(a) : s.identity # enroll[r].new.identity
=============================================================================
