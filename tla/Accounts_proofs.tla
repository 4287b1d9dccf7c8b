--------------------------- MODULE Accounts_proofs ---------------------------
(***************************************************************************)
(* What the account service guarantees of its rows, for any number of      *)
(* accounts, enrollments, removals and user names that move                *)
(* (placegame/accounts/service.py).                                        *)
(***************************************************************************)
EXTENDS Accounts, TLAPS

(* The secrets of t are those of s, or ones proven to be t's identity's.   *)
Proven(s, t) ==
  \/ Secrets(t) = Secrets(s)
  \/ t.session = t.identity /\ t.identity # None

(* The stored session belongs to the identity and to the login.            *)
Settled(s) ==
  s.session # None =>
    /\ s.identity \in {None, s.session}
    /\ s.login # None => s.session = owner[s.login]

(* Why a row s may be paused after the game has been asked.                *)
Reasons(s) == {s.paused, None} \cup Automatic

(* What may become of the row s of account a in a transaction o, whatever  *)
(* the game answers: it keeps its identity or finds one that no other row  *)
(* has, acts for that identity only, and never marks the row as removed.   *)
Offer(a, s, o) ==
  /\ o \in Transactions
  /\ \/ o.copy.identity = s.identity
     \/ s.identity = None /\ o.copy.identity \in Identities \ Known(a)
  /\ Proven(s, o.copy)
  /\ o.copy.paused \in Reasons(s)
  /\ o.acts # None => o.acts = o.copy.identity
  /\ Settled(s) => Settled(o.copy)

-----------------------------------------------------------------------------
(* The operators on rows.                                                  *)

(* A mismatch touches neither identity nor secrets (_identity_mismatch).   *)
LEMMA MismatchedRow ==
  ASSUME NEW s \in Rows
  PROVE  /\ Mismatched(s) \in Rows
         /\ Mismatched(s).identity = s.identity
         /\ Secrets(Mismatched(s)) = Secrets(s)
         /\ Mismatched(s).paused # None /\ Mismatched(s).paused \in Automatic
  BY NullAssumption DEF Mismatched, Rows, Automatic, Secrets

(* Binding finds an identity for a row that has none, unless another row   *)
(* has it, and leaves the row unpaused only if the identity is the one     *)
(* asked for (_bind_or_match_identity).                                    *)
LEMMA BoundRow ==
  ASSUME NEW a \in Accounts, NEW s \in Rows, NEW i \in Identities
  PROVE  /\ Bound(a, s, i) \in Rows
         /\ \/ Bound(a, s, i).identity = s.identity
            \/ s.identity = None /\ i \notin Known(a) /\ Bound(a, s, i).identity = i
         /\ Secrets(Bound(a, s, i)) = Secrets(s)
         /\ Bound(a, s, i).paused \in Reasons(s)
         /\ Bound(a, s, i).paused = None => Bound(a, s, i).identity = i
<1>1. CASE s.identity = i \/ (s.identity = None /\ i \notin Known(a))
  <2> DEFINE t == [s EXCEPT !.identity = i]
  <2>1. t \in Rows /\ t.identity = i /\ Secrets(t) = Secrets(s) /\ t.paused = s.paused
    BY DEF Rows, Secrets
  <2>2. Bound(a, s, i) = t
    BY <1>1 DEF Bound
  <2> HIDE DEF t
  <2>3. QED BY <1>1, <2>1, <2>2 DEF Reasons
<1>2. CASE ~(s.identity = i \/ (s.identity = None /\ i \notin Known(a)))
  BY <1>2, MismatchedRow DEF Bound, Reasons
<1>3. QED BY <1>1, <1>2

(* A renewed token replaces the session and ends the count (_ensure_locked). *)
LEMMA RenewedRow ==
  ASSUME NEW s \in Rows, NEW i \in Identities, s.paused = None
  PROVE  /\ Renewed(s, i) \in Rows
         /\ Renewed(s, i).identity = s.identity /\ Renewed(s, i).session = i
         /\ Renewed(s, i).login = s.login /\ Renewed(s, i).paused = None
<1>1. 0 \in 0..AuthLimit
  BY AccountsAssumption
<1>2. QED BY <1>1 DEF Renewed, Rows

(* So what is settled stays settled when it is bound to the owner of its   *)
(* stored session, or to whom its login leads.                             *)
LEMMA BoundSettled ==
  ASSUME NEW a \in Accounts, NEW s \in Rows, NEW i \in Identities, Settled(s),
         s.session \in {None, i}
  PROVE  Settled(Bound(a, s, i))
<1>1. Bound(a, s, i).session = s.session /\ Bound(a, s, i).login = s.login
  BY BoundRow DEF Secrets
<1>2. QED BY <1>1, BoundRow DEF Settled

(* A failed login counts, and may pause (_record_auth_failure).            *)
LEMMA FailedRow ==
  ASSUME NEW s \in Rows, NEW t \in AuthFailures(s)
  PROVE  /\ t \in Rows /\ t.identity = s.identity /\ Secrets(t) = Secrets(s)
         /\ t.paused \in Reasons(s)
<1>1. ASSUME NEW n \in 0..AuthLimit
      PROVE  /\ Failed(s, n) \in Rows
             /\ Failed(s, n).identity = s.identity
             /\ Secrets(Failed(s, n)) = Secrets(s)
             /\ Failed(s, n).paused \in Reasons(s)
  BY DEF Failed, Rows, Automatic, Secrets, Reasons
<1>2. s.failures \in 0..AuthLimit
  BY DEF Rows
<1>3. /\ 1 \in 0..AuthLimit
      /\ (IF s.failures < AuthLimit THEN s.failures + 1 ELSE AuthLimit) \in 0..AuthLimit
  BY <1>2, AccountsAssumption
<1>4. QED BY <1>1, <1>3 DEF AuthFailures

LEMMA SecretsSettled ==
  ASSUME NEW s \in Rows, NEW t, t.identity = s.identity,
         Secrets(t) = Secrets(s), Settled(s)
  PROVE  Settled(t)
  BY DEF Secrets, Settled

-----------------------------------------------------------------------------
(* What an operation offers (_ensure_locked, update_credentials,           *)
(* update_token_only).                                                     *)

(* A copy that acts for nobody is an offer if its row is one.              *)
LEMMA IdleOffer ==
  ASSUME NEW a \in Accounts, NEW s, NEW t \in Rows,
         \/ t.identity = s.identity
         \/ s.identity = None /\ t.identity \in Identities \ Known(a),
         Proven(s, t), t.paused \in Reasons(s),
         Settled(s) => Settled(t)
  PROVE  Offer(a, s, NoSession(t))
  BY DEF Offer, NoSession, Transactions

LEMMA ResumedOffer ==
  ASSUME NEW a \in Accounts, NEW s \in Rows, NEW o \in Resumed(a, s)
  PROVE  Offer(a, s, o)
<1> DEFINE t == Bound(a, s, s.session)
<1>1. s.session \in Identities
  BY DEF Resumed, Rows
<1>2. o = Session(t, s.session)
  BY DEF Resumed
<1>3. /\ t \in Rows
      /\ \/ t.identity = s.identity
         \/ s.identity = None /\ t.identity \in Identities \ Known(a)
      /\ Secrets(t) = Secrets(s) /\ t.paused \in Reasons(s)
      /\ t.paused = None => t.identity = s.session
      /\ Settled(s) => Settled(t)
  BY <1>1, BoundRow, BoundSettled
<1> HIDE DEF t
<1>4. QED BY <1>1, <1>2, <1>3 DEF Offer, Session, Transactions, Proven

LEMMA LoggedInOffer ==
  ASSUME NEW a \in Accounts, NEW s \in Rows, NEW o \in LoggedIn(a, s),
         owner \in [Usernames -> Identities]
  PROVE  Offer(a, s, o)
<1> DEFINE i == owner[s.login]
           b == Bound(a, s, i)
           t == Renewed(b, i)
<1>1. s.login # None /\ i \in Identities
  BY DEF LoggedIn, Rows
<1>2. o = Session(t, i)
  BY <1>1 DEF LoggedIn
<1>3. /\ b \in Rows
      /\ \/ b.identity = s.identity
         \/ s.identity = None /\ b.identity \in Identities \ Known(a)
      /\ Secrets(b) = Secrets(s) /\ b.paused \in Reasons(s)
      /\ b.paused = None => b.identity = i
      /\ b.login = s.login
  BY <1>1, BoundRow DEF Secrets
<1>4. Settled(s) => Settled(b)
  BY <1>1, BoundSettled DEF Settled
<1> HIDE DEF i, b
<1>5. CASE b.paused = None
  <2>1. /\ t \in Rows /\ t.identity = i /\ t.session = i /\ t.login = s.login
        /\ t.paused = None
    BY <1>1, <1>3, <1>5, RenewedRow
  <2>2. Settled(t)
    BY <2>1 DEF Settled, i
  <2> HIDE DEF t
  <2>3. i # None
    BY <1>1, AccountsAssumption
  <2>4. o.copy = t /\ o.acts = i /\ o \in Transactions
    BY <1>1, <1>2, <2>1 DEF Session, Transactions
  <2>5. QED BY <1>3, <1>5, <2>1, <2>2, <2>3, <2>4 DEF Offer, Proven, Reasons
<1>6. CASE b.paused # None
  <2>1. o = NoSession(b)
    BY <1>2, <1>6 DEF Renewed, Session, NoSession
  <2>2. QED BY <1>3, <1>4, <2>1, IdleOffer DEF Proven
<1>7. QED BY <1>5, <1>6

LEMMA EnsuredOffer ==
  ASSUME NEW a \in Accounts, NEW s \in Rows, NEW o \in Ensured(a, s),
         owner \in [Usernames -> Identities]
  PROVE  Offer(a, s, o)
<1>1. CASE o = NoSession(s)
  BY <1>1, IdleOffer DEF Proven, Reasons
<1>2. CASE o \in Resumed(a, s)
  BY <1>2, ResumedOffer
<1>3. CASE o \in LoggedIn(a, s)
  BY <1>3, LoggedInOffer
<1>4. CASE \E t \in AuthFailures(s) : o = NoSession(t)
  BY <1>4, FailedRow, SecretsSettled, IdleOffer DEF Proven
<1>5. CASE o = NoSession([s EXCEPT !.paused = "session_refresh_required"])
  <2> DEFINE t == [s EXCEPT !.paused = "session_refresh_required"]
  <2>1. /\ t \in Rows /\ t.identity = s.identity /\ Secrets(t) = Secrets(s)
        /\ t.paused \in Reasons(s)
    BY DEF Rows, Automatic, Secrets, Reasons
  <2> HIDE DEF t
  <2>2. QED BY <1>5, <2>1, SecretsSettled, IdleOffer DEF Proven, t
<1>6. QED BY <1>1, <1>2, <1>3, <1>4, <1>5 DEF Ensured

LEMMA StoredFirstOffer ==
  ASSUME NEW a \in Accounts, NEW s \in Rows, NEW t \in StoredFirst(a, s),
         owner \in [Usernames -> Identities]
  PROVE  /\ t \in Rows
         /\ \/ t.identity = s.identity
            \/ s.identity = None /\ t.identity \in Identities \ Known(a)
         /\ Secrets(t) = Secrets(s) /\ t.paused \in Reasons(s)
         /\ Settled(s) => Settled(t)
<1>1. CASE t = s
  BY <1>1 DEF Reasons
<1>2. CASE t # s
  <2> DEFINE i == IF s.mode = "token_only" THEN s.session
                  ELSE IF s.login = None THEN None ELSE owner[s.login]
  <2>1. i # None /\ t = Bound(a, s, i)
    BY <1>2 DEF StoredFirst
  <2>2. i \in Identities
    BY <2>1 DEF Rows
  <2>3. Settled(s) => s.session \in {None, i}
    BY <2>1 DEF Settled
  <2> HIDE DEF i
  <2>4. QED BY <2>1, <2>2, <2>3, BoundRow, BoundSettled
<1>3. QED BY <1>1, <1>2

(* A proposal: a token for an identity, or a login and whom it leads to.   *)
Proposal(new) ==
  /\ new.session \in Identities
  /\ \/ new.mode = "credentials" /\ new.login \in Usernames
        /\ new.session = owner[new.login]
     \/ new.mode = "token_only" /\ new.login = None

LEMMA ReplacedRow ==
  ASSUME NEW s \in Rows, NEW new, Proposal(new), s.identity # None
  PROVE  /\ Replaced(s, new) \in Rows
         /\ Replaced(s, new).identity = s.identity
         /\ Proven(s, Replaced(s, new)) /\ Replaced(s, new).paused \in Reasons(s)
         /\ Settled(s) => Settled(Replaced(s, new))
<1>1. CASE s.identity # new.session
  BY <1>1, MismatchedRow, SecretsSettled DEF Replaced, Proven, Reasons
<1>2. CASE s.identity = new.session
  <2> DEFINE t == [s EXCEPT !.mode = new.mode, !.login = new.login,
                            !.session = new.session, !.paused = None, !.failures = 0]
  <2>1. 0 \in 0..AuthLimit
    BY AccountsAssumption
  <2>2. /\ t \in Rows /\ t.identity = s.identity /\ t.session = s.identity
        /\ t.login = new.login /\ t.paused = None
    BY <1>2, <2>1 DEF Rows, Proposal
  <2>3. t = Replaced(s, new)
    BY <1>2 DEF Replaced
  <2> HIDE DEF t
  <2>4. Settled(t)
    BY <1>2, <2>2, AccountsAssumption DEF Settled, Proposal
  <2>5. QED BY <2>2, <2>3, <2>4 DEF Proven, Reasons
<1>3. QED BY <1>1, <1>2

LEMMA UpdateOffer ==
  ASSUME NEW a \in Accounts, row[a] \in Rows, owner \in [Usernames -> Identities],
         NEW new, Proposal(new), Update(a, new)
  PROVE  \E o : Offer(a, row[a], o) /\ o.acts = None /\ Open(a, o)
<1>1. PICK s \in StoredFirst(a, row[a]) :
        \E t \in {s} \cup IF s.identity = None THEN {} ELSE {Replaced(s, new)} :
          Open(a, NoSession(t))
  BY DEF Update
<1>2. PICK t \in {s} \cup IF s.identity = None THEN {} ELSE {Replaced(s, new)} :
        Open(a, NoSession(t))
  BY <1>1
<1>3. /\ s \in Rows
      /\ \/ s.identity = row[a].identity
         \/ row[a].identity = None /\ s.identity \in Identities \ Known(a)
      /\ Secrets(s) = Secrets(row[a]) /\ s.paused \in Reasons(row[a])
      /\ Settled(row[a]) => Settled(s)
  BY StoredFirstOffer
<1>4. /\ t \in Rows /\ t.identity = s.identity /\ Proven(s, t)
      /\ t.paused \in Reasons(s)
      /\ Settled(s) => Settled(t)
  <2>1. CASE t = s
    BY <1>3, <2>1 DEF Proven, Reasons
  <2>2. CASE t # s
    BY <1>2, <1>3, <2>2, ReplacedRow
  <2>3. QED BY <2>1, <2>2
<1>5. Proven(row[a], t) /\ t.paused \in Reasons(row[a])
  BY <1>3, <1>4 DEF Proven, Reasons
<1>6. Offer(a, row[a], NoSession(t))
  BY <1>3, <1>4, <1>5, IdleOffer
<1>7. QED BY <1>2, <1>6 DEF NoSession

-----------------------------------------------------------------------------
(* The inductive invariant.                                                *)

Empty(s) == ~s.enabled /\ s.login = None /\ s.session = None

(* A transaction is open on a row that exists and no removal has marked,   *)
(* it keeps the identity once there is one and marks nothing, and a block  *)
(* acts for the identity of its row, which is enabled and not paused.      *)
Attached(a) ==
  /\ Exists(a) /\ row[a].paused \notin Marks
  /\ row[a].identity \in {txn[a].copy.identity, None}
  /\ Proven(row[a], txn[a].copy) /\ txn[a].copy.paused \notin Marks
  /\ txn[a].acts # None => Mutable(row[a]) /\ txn[a].acts = txn[a].copy.identity
TxnInv == \A a \in Accounts : ~Free(a) => Attached(a)

(* A removal under way has marked its row, and a tombstone that it meets   *)
(* is one that a removal has left.                                         *)
Marked(a) ==
  /\ Exists(a) /\ row[a].paused \in Marks
  /\ row[a].paused = "removed" => Empty(row[a])
RemovalInv == \A a \in Accounts : removals[a] > 0 => Marked(a)

Checked(r) == enroll[r] # None /\ enroll[r].at = "checked"

(* Enrollments are unpaused and for a session of their identity; while one *)
(* is checked every row has an identity, and no other is checked for the   *)
(* same one.                                                               *)
EnrollInv ==
  /\ \A r \in Requests : enroll[r] # None =>
       /\ enroll[r].new.identity \in Identities
       /\ enroll[r].new.session = enroll[r].new.identity
       /\ enroll[r].new.paused = None
  /\ \A r \in Requests : Checked(r) =>
       /\ ~Unresolved
       /\ \A q \in Requests \ {r} : Checked(q) =>
            enroll[q].new.identity # enroll[r].new.identity

(* As long as no user name has moved, every stored session is that of the  *)
(* row's identity and of its login.                                        *)
HolderInv == renames = 0 =>
  /\ \A a \in Accounts : \A s \in Copies(a) : Settled(s)
  /\ \A r \in Requests : enroll[r] # None => Settled(enroll[r].new)

IInv ==
  /\ TypeOK /\ TxnInv /\ RemovalInv /\ EnrollInv /\ HolderInv
  /\ OneRowPerIdentity /\ CheckedStaysFree

-----------------------------------------------------------------------------
(* What the steps do to rows and copies.                                   *)

(* An operation opens a transaction on the row it has locked.              *)
Opened(a) ==
  /\ Exists(a) /\ Free(a) /\ row[a].paused \notin Marks
  /\ \E o : /\ Offer(a, row[a], o) /\ Open(a, o)
            /\ o.acts # None => Mutable(row[a])

(* A write of one transaction: it keeps the identity, and the secrets      *)
(* unless it leaves a tombstone; what is marked stays so.                  *)
Written(a, s) ==
  /\ Exists(a) /\ Free(a)
  /\ s \in Rows /\ s.identity = row[a].identity
  /\ Secrets(s) = Secrets(row[a]) \/ (Empty(s) /\ s.paused = "removed")
  /\ row[a].paused = "removing" => s.paused \in Marks
  /\ row[a].paused = "removed" => s = row[a]
  /\ s.paused = "removed" => Empty(s) \/ s.paused \in PauseReasons
  /\ removals' \in [Accounts -> 0..MaxRemovals]
  /\ removals'[a] > 0 =>
       s.paused \in Marks /\ (s.paused = "removed" => Empty(s))
  /\ \A b \in Accounts \ {a} : removals'[b] = removals[b]
  /\ Write(a, s)

(* Every operation that asks the game makes an offer for its row           *)
(* (locked, ensure_session, snapshot, update_credentials,                  *)
(* update_token_only).                                                     *)
LEMMA OpenedStep ==
  ASSUME TypeOK, NEW a \in Accounts,
         \/ EnterBlock(a) \/ EnsureSession(a)
         \/ \E u \in Usernames : UpdateCredentials(a, u)
         \/ \E i \in Identities : UpdateTokenOnly(a, i)
  PROVE  Opened(a)
<1>1. /\ Exists(a) => row[a] \in Rows
      /\ owner \in [Usernames -> Identities]
  BY DEF TypeOK, Exists
<1>2. None \notin Marks
  BY NullAssumption
<1>3. CASE EnterBlock(a)
  BY <1>1, <1>2, <1>3, EnsuredOffer DEF EnterBlock, Opened, Mutable
<1>4. CASE EnsureSession(a)
  <2>1. PICK o \in Ensured(a, row[a]) : Open(a, NoSession(o.copy))
    BY <1>4 DEF EnsureSession
  <2>2. Offer(a, row[a], o)
    BY <1>1, <1>4, EnsuredOffer DEF EnsureSession
  <2>3. Offer(a, row[a], NoSession(o.copy)) /\ NoSession(o.copy).acts = None
    BY <2>2 DEF Offer, NoSession, Transactions
  <2>4. QED BY <1>2, <1>4, <2>1, <2>3 DEF EnsureSession, Opened
<1>5. ASSUME NEW new, Proposal(new), Update(a, new)
      PROVE  Opened(a)
  BY <1>1, <1>5, UpdateOffer DEF Update, Opened
<1>6. CASE \E u \in Usernames : UpdateCredentials(a, u)
  BY <1>1, <1>5, <1>6 DEF UpdateCredentials, Proposal
<1>7. CASE \E i \in Identities : UpdateTokenOnly(a, i)
  BY <1>5, <1>7 DEF UpdateTokenOnly, Proposal
<1>8. QED BY <1>3, <1>4, <1>6, <1>7

(* Commands and removals write a row nobody has open (enable, disable,     *)
(* pause, resume, disable_drain_remove).                                   *)
LEMMA WrittenStep ==
  ASSUME TypeOK, RemovalInv, NEW a \in Accounts, Operate(a), ~LoseRemoval(a)
  PROVE  \E s : Written(a, s)
<1>1. /\ removals \in [Accounts -> 0..MaxRemovals]
      /\ Exists(a) => row[a] \in Rows
      /\ MaxRemovals \in Nat
  BY AccountsAssumption DEF TypeOK, Exists
<1>2. removals[a] > 0 =>
        /\ Exists(a) /\ row[a].paused \in Marks
        /\ row[a].paused = "removed" => Empty(row[a])
  BY DEF RemovalInv, Marked
<1>3. ASSUME NEW e \in BOOLEAN, SetLifecycle(a, e)
      PROVE  \E s : Written(a, s)
  <2> DEFINE s == [row[a] EXCEPT !.enabled = e]
  <2>1. /\ Exists(a) /\ Free(a) /\ row[a].paused \notin Marks
        /\ Write(a, s) /\ UNCHANGED removals
    BY <1>3 DEF SetLifecycle
  <2>2. /\ s \in Rows /\ s.identity = row[a].identity /\ Secrets(s) = Secrets(row[a])
        /\ s.paused = row[a].paused
    BY <1>1, <2>1 DEF Rows, Secrets
  <2> HIDE DEF s
  <2>3. QED BY <1>1, <1>2, <2>1, <2>2 DEF Written, Marks
<1>4. ASSUME NEW p \in {None} \cup PauseReasons, row[a].paused \notin Marks,
             Exists(a), Free(a), Write(a, [row[a] EXCEPT !.paused = p]),
             UNCHANGED removals
      PROVE  \E s : Written(a, s)
  <2> DEFINE s == [row[a] EXCEPT !.paused = p]
  <2>1. /\ s \in Rows /\ s.identity = row[a].identity /\ Secrets(s) = Secrets(row[a])
        /\ s.paused = p /\ Write(a, s)
    BY <1>1, <1>4 DEF Rows, Secrets
  <2>2. "removed" # None
    BY NullAssumption DEF Marks
  <2> HIDE DEF s
  <2>3. QED BY <1>1, <1>2, <1>4, <2>1, <2>2 DEF Written, Marks
<1>5. CASE BeginRemoval(a)
  <2> DEFINE s == [row[a] EXCEPT !.enabled = FALSE, !.paused = "removing"]
  <2>1. /\ Exists(a) /\ Free(a) /\ row[a].paused # "removed" /\ Write(a, s)
        /\ removals[a] < MaxRemovals /\ removals' = [removals EXCEPT ![a] = @ + 1]
    BY <1>5 DEF BeginRemoval
  <2>2. s \in Rows /\ s.identity = row[a].identity /\ Secrets(s) = Secrets(row[a])
    BY <1>1, <2>1 DEF Rows, Secrets, Marks
  <2>3. s.paused = "removing"
    BY <1>1, <2>1 DEF Rows
  <2>4. /\ removals' \in [Accounts -> 0..MaxRemovals]
        /\ \A b \in Accounts \ {a} : removals'[b] = removals[b]
    BY <1>1, <2>1
  <2> HIDE DEF s
  <2>5. QED BY <2>1, <2>2, <2>3, <2>4 DEF Written, Marks
<1>6. CASE CompleteRemoval(a)
  <2> DEFINE s == [row[a] EXCEPT !.enabled = FALSE, !.paused = "removed",
                                 !.login = None, !.session = None]
  <2>1. /\ removals[a] > 0 /\ Free(a) /\ Write(a, s)
        /\ removals' = [removals EXCEPT ![a] = @ - 1]
    BY <1>6 DEF CompleteRemoval
  <2>2. Exists(a) /\ row[a] \in Rows
    BY <1>1, <1>2, <2>1
  <2>3. s \in Rows /\ s.identity = row[a].identity /\ Empty(s) /\ s.paused = "removed"
    BY <2>2 DEF Rows, Marks, Empty
  <2>4. row[a].paused = "removed" => s = row[a]
    BY <1>2, <2>1, <2>2 DEF Rows, Empty
  <2>5. /\ removals' \in [Accounts -> 0..MaxRemovals]
        /\ \A b \in Accounts \ {a} : removals'[b] = removals[b]
    BY <1>1, <2>1
  <2> HIDE DEF s
  <2>6. QED BY <2>1, <2>2, <2>3, <2>4, <2>5 DEF Written, Marks
<1>7. QED BY <1>3, <1>4, <1>5, <1>6 DEF Operate, Pause, Resume

-----------------------------------------------------------------------------
(* The invariant is inductive.                                             *)

(* Every step is one of these.                                             *)
LEMMA StepKinds ==
  ASSUME TypeOK, RemovalInv, Next
  PROVE  \/ \E a \in Accounts :
              \/ Opened(a) \/ (\E s : Written(a, s))
              \/ LoseRemoval(a) \/ Commit(a) \/ Rollback(a)
         \/ \E r \in Requests : Enroll(r)
         \/ \E u \in Usernames, i \in Identities : Rename(u, i)
  BY OpenedStep, WrittenStep DEF Next, Use

(* A new row is typed and its session is that of its identity.             *)
LEMMA NewRowTyped ==
  ASSUME NEW i \in Identities
  PROVE  /\ \A u \in Usernames : NewRow("credentials", i, u) \in Rows
         /\ NewRow("token_only", i, None) \in Rows
<1>1. 0 \in 0..AuthLimit
  BY AccountsAssumption
<1>2. QED BY <1>1 DEF NewRow, Rows

(* What the game has verified enrolls an identity and a session of it.     *)
LEMMA Verified ==
  ASSUME TypeOK, NEW r \in Requests, Verify(r)
  PROVE  \E e \in Enrollments :
           /\ Enrolling(r, e) /\ e.at = "verified"
           /\ e.new.identity \in Identities /\ e.new.session = e.new.identity
           /\ Settled(e.new) /\ e.new.paused = None
<1>1. ASSUME NEW n \in Rows, Enrolling(r, [new |-> n, at |-> "verified"]),
             n.identity \in Identities, n.session = n.identity,
             n.login # None => n.session = owner[n.login], n.paused = None
      PROVE  \E e \in Enrollments :
               /\ Enrolling(r, e) /\ e.at = "verified"
               /\ e.new.identity \in Identities /\ e.new.session = e.new.identity
               /\ Settled(e.new) /\ e.new.paused = None
  <2> DEFINE e == [new |-> n, at |-> "verified"]
  <2>1. e \in Enrollments /\ e.at = "verified" /\ e.new = n /\ Enrolling(r, e)
    BY <1>1 DEF Enrollments
  <2> HIDE DEF e
  <2>2. QED BY <1>1, <2>1 DEF Settled
<1>2. ASSUME NEW u \in Usernames,
             Enrolling(r, [new |-> NewRow("credentials", owner[u], u), at |-> "verified"])
      PROVE  \E e \in Enrollments :
               /\ Enrolling(r, e) /\ e.at = "verified"
               /\ e.new.identity \in Identities /\ e.new.session = e.new.identity
               /\ Settled(e.new) /\ e.new.paused = None
  <2> DEFINE n == NewRow("credentials", owner[u], u)
  <2>1. owner[u] \in Identities
    BY DEF TypeOK
  <2>2. n.identity = owner[u] /\ n.session = owner[u] /\ n.login = u /\ n.paused = None
    BY DEF NewRow
  <2>3. n \in Rows
    BY <2>1, NewRowTyped
  <2> HIDE DEF n
  <2>4. QED BY <1>1, <1>2, <2>1, <2>2, <2>3 DEF n
<1>3. ASSUME NEW i \in Identities,
             Enrolling(r, [new |-> NewRow("token_only", i, None), at |-> "verified"])
      PROVE  \E e \in Enrollments :
               /\ Enrolling(r, e) /\ e.at = "verified"
               /\ e.new.identity \in Identities /\ e.new.session = e.new.identity
               /\ Settled(e.new) /\ e.new.paused = None
  <2> DEFINE n == NewRow("token_only", i, None)
  <2>1. n.identity = i /\ n.session = i /\ n.login = None /\ n.paused = None
    BY DEF NewRow
  <2>2. n \in Rows
    BY NewRowTyped
  <2> HIDE DEF n
  <2>3. QED BY <1>1, <1>3, <2>1, <2>2 DEF n
<1>4. QED BY <1>2, <1>3 DEF Verify

LEMMA HistoricalTyped ==
  ASSUME owner \in [Usernames -> Identities], NEW s \in Historical
  PROVE  s \in Rows /\ Settled(s)
<1>1. ASSUME NEW t \in Rows, s = [t EXCEPT !.identity = None],
             t.login # None => t.session = owner[t.login]
      PROVE  s \in Rows /\ Settled(s)
  BY <1>1 DEF Rows, Settled
<1>2. ASSUME NEW u \in Usernames,
             s = [NewRow("credentials", owner[u], u) EXCEPT !.identity = None]
      PROVE  s \in Rows /\ Settled(s)
  BY <1>1, <1>2, NewRowTyped DEF NewRow
<1>3. ASSUME NEW i \in Identities,
             s = [NewRow("token_only", i, None) EXCEPT !.identity = None]
      PROVE  s \in Rows /\ Settled(s)
  BY <1>1, <1>3, NewRowTyped DEF NewRow
<1>4. QED BY <1>2, <1>3 DEF Historical

LEMMA InitInductive == Init => IInv
<1> SUFFICES ASSUME Init PROVE IInv
  OBVIOUS
<1>1. \A a \in Accounts : Exists(a) => row[a] \in Historical
  BY DEF Init, Exists
<1>2. \A s \in Historical : s \in Rows /\ Settled(s) /\ s.identity = None
  <2>1. \A s \in Historical : s.identity = None
    BY DEF Historical, NewRow
  <2>2. QED BY <2>1, HistoricalTyped DEF Init
<1>3. TypeOK
  BY <1>1, <1>2, AccountsAssumption DEF Init, TypeOK, Exists
<1>4. \A a \in Accounts : Free(a)
  BY DEF Init, Free
<1>5. \A a \in Accounts : \A s \in Copies(a) : Settled(s) /\ s.identity = None
  BY <1>1, <1>2, <1>4 DEF Copies
<1>6. TxnInv /\ HolderInv /\ OneRowPerIdentity
  BY <1>4, <1>5 DEF TxnInv, HolderInv, OneRowPerIdentity, Init
<1>7. RemovalInv /\ EnrollInv /\ CheckedStaysFree
  BY DEF RemovalInv, EnrollInv, CheckedStaysFree, Checked, Init
<1>8. QED BY <1>3, <1>6, <1>7 DEF IInv

(* The types, step by step.                                                *)
LEMMA TypeInductive == TypeOK /\ RemovalInv /\ [Next]_vars => TypeOK'
<1> SUFFICES ASSUME TypeOK, RemovalInv, [Next]_vars PROVE TypeOK'
  OBVIOUS
<1>1. ASSUME NEW a \in Accounts, Opened(a) PROVE TypeOK'
  BY <1>1 DEF Opened, Open, Offer, TypeOK, elsewhere
<1>2. ASSUME NEW a \in Accounts, NEW s, Written(a, s) PROVE TypeOK'
  BY <1>2 DEF Written, Write, TypeOK, elsewhere
<1>3. ASSUME NEW a \in Accounts, LoseRemoval(a) PROVE TypeOK'
  BY <1>3, AccountsAssumption DEF LoseRemoval, TypeOK, elsewhere
<1>4. ASSUME NEW a \in Accounts, Commit(a) PROVE TypeOK'
  <2>1. txn[a].copy \in Rows
    BY <1>4 DEF Commit, Free, TypeOK, Transactions
  <2>2. QED BY <1>4, <2>1 DEF Commit, TypeOK, elsewhere
<1>5. ASSUME NEW a \in Accounts, Rollback(a) PROVE TypeOK'
  BY <1>5 DEF Rollback, TypeOK, elsewhere
<1>6. ASSUME NEW r \in Requests, Verify(r) PROVE TypeOK'
  <2>1. PICK e \in Enrollments : Enrolling(r, e)
    BY <1>6, Verified
  <2>2. QED BY <1>6, <2>1 DEF Verify, Enrolling, TypeOK
<1>7. ASSUME NEW r \in Requests, CheckEnrollment(r) PROVE TypeOK'
  <2>1. [enroll[r] EXCEPT !.at = "checked"] \in Enrollments
    BY <1>7 DEF CheckEnrollment, TypeOK, Enrollments
  <2>2. QED BY <1>7, <2>1 DEF CheckEnrollment, Enrolling, TypeOK
<1>8. ASSUME NEW r \in Requests, DropEnrollment(r) PROVE TypeOK'
  BY <1>8 DEF DropEnrollment, Enrolling, TypeOK
<1>9. ASSUME NEW r \in Requests, NEW a \in Accounts, Insert(r, a) PROVE TypeOK'
  <2>1. enroll[r].new \in Rows
    BY <1>9 DEF Insert, TypeOK, Enrollments
  <2>2. QED BY <1>9, <2>1 DEF Insert, Enrolling, TypeOK
<1>10. ASSUME NEW u \in Usernames, NEW i \in Identities, Rename(u, i) PROVE TypeOK'
  BY <1>10, AccountsAssumption DEF Rename, TypeOK
<1>11. CASE UNCHANGED vars
  BY <1>11 DEF vars, TypeOK
<1>12. QED
  BY <1>1, <1>2, <1>3, <1>4, <1>5, <1>6, <1>7, <1>8, <1>9, <1>10, <1>11, StepKinds
     DEF Enroll

(* Only the row and the transaction of one account move in a step.         *)
LEMMA OpenedCopies ==
  ASSUME TypeOK, NEW a \in Accounts, NEW o, Offer(a, row[a], o), Open(a, o)
  PROVE  /\ \A b \in Accounts : row'[b] = row[b]
         /\ txn'[a] = o /\ ~Free(a)'
         /\ \A b \in Accounts \ {a} : txn'[b] = txn[b] /\ Copies(b)' = Copies(b)
         /\ Copies(a)' \subseteq Copies(a) \cup {o.copy}
<1>1. o # None
  BY NullAssumption DEF Offer
<1>2. QED BY <1>1 DEF Open, TypeOK, Free, Copies, Exists

LEMMA WrittenCopies ==
  ASSUME TypeOK, NEW a \in Accounts, NEW s, Written(a, s)
  PROVE  /\ row'[a] = s /\ Exists(a)' /\ txn' = txn
         /\ \A b \in Accounts \ {a} : row'[b] = row[b] /\ Copies(b)' = Copies(b)
         /\ Copies(a)' = {s} /\ Copies(a) = {row[a]}
<1>1. s # None
  BY NullAssumption DEF Written
<1>2. QED BY <1>1 DEF Written, Write, TypeOK, Free, Copies, Exists

LEMMA CommitCopies ==
  ASSUME TypeOK, NEW a \in Accounts, Commit(a)
  PROVE  /\ row'[a] = txn[a].copy /\ Exists(a)' /\ Free(a)'
         /\ \A b \in Accounts \ {a} :
              txn'[b] = txn[b] /\ row'[b] = row[b] /\ Copies(b)' = Copies(b)
         /\ Copies(a)' = {txn[a].copy} /\ txn[a].copy \in Copies(a)
<1>1. txn[a].copy # None
  BY NullAssumption DEF Commit, TypeOK, Free, Transactions
<1>2. QED BY <1>1 DEF Commit, TypeOK, Free, Copies, Exists

LEMMA RollbackCopies ==
  ASSUME TypeOK, NEW a \in Accounts, Rollback(a)
  PROVE  /\ Free(a)' /\ row' = row
         /\ \A b \in Accounts \ {a} : txn'[b] = txn[b] /\ Copies(b)' = Copies(b)
         /\ Copies(a)' \subseteq Copies(a)
  BY DEF Rollback, TypeOK, Free, Copies, Exists

LEMMA InsertCopies ==
  ASSUME TypeOK, NEW r \in Requests, NEW a \in Accounts, Insert(r, a)
  PROVE  /\ row'[a] = enroll[r].new /\ Exists(a)' /\ txn' = txn
         /\ \A b \in Accounts \ {a} : row'[b] = row[b] /\ Copies(b)' = Copies(b)
         /\ Copies(a)' = Copies(a) \cup {enroll[r].new}
         /\ enroll'[r] = None
         /\ \A q \in Requests \ {r} : enroll'[q] = enroll[q]
<1>1. enroll[r].new # None
  BY NullAssumption DEF Insert, TypeOK, Enrollments
<1>2. QED BY <1>1 DEF Insert, Enrolling, TypeOK, Free, Copies, Exists

(* Steps that leave rows and transactions alone.                           *)
LEMMA SameCopies ==
  ASSUME row' = row, txn' = txn
  PROVE  \A a \in Accounts : Copies(a)' = Copies(a) /\ Exists(a)' = Exists(a)
  BY DEF Copies, Exists, Free

LEMMA EnrollFrame ==
  ASSUME NEW r \in Requests, Verify(r) \/ CheckEnrollment(r) \/ DropEnrollment(r)
  PROVE  row' = row /\ txn' = txn /\ UNCHANGED <<removals, owner, renames>>
  BY DEF Verify, CheckEnrollment, DropEnrollment, Enrolling

(* The lock of a row: what is open on it was opened on the row as it is.   *)
LEMMA TxnInductive == IInv /\ [Next]_vars => TxnInv'
<1> SUFFICES ASSUME TypeOK, TxnInv, RemovalInv, [Next]_vars PROVE TxnInv'
  BY DEF IInv
<1>0. ASSUME NEW b \in Accounts, row'[b] = row[b], txn'[b] = txn[b]
      PROVE  ~Free(b)' => Attached(b)'
  BY <1>0 DEF TxnInv, Attached, Free, Exists
<1>1. ASSUME NEW a \in Accounts, Opened(a) PROVE TxnInv'
  <2>1. PICK o : /\ Offer(a, row[a], o) /\ Open(a, o)
                 /\ o.acts # None => Mutable(row[a])
    BY <1>1 DEF Opened
  <2>2. /\ \A b \in Accounts : row'[b] = row[b]
        /\ txn'[a] = o
        /\ \A b \in Accounts \ {a} : txn'[b] = txn[b]
    BY <2>1, OpenedCopies
  <2>3. Attached(a)'
    <3>1. Reasons(row[a]) \cap Marks = {}
      BY <1>1, NullAssumption DEF Reasons, Opened, Automatic, Marks
    <3>2. QED BY <1>1, <2>1, <2>2, <3>1 DEF Attached, Offer, Opened, Exists
  <2>4. QED BY <1>0, <2>2, <2>3 DEF TxnInv
<1>2. ASSUME NEW a \in Accounts, NEW s, Written(a, s) PROVE TxnInv'
  <2>1. Free(a)'
    BY <1>2, WrittenCopies DEF Written, Free
  <2>2. QED BY <1>0, <1>2, <2>1, WrittenCopies DEF TxnInv
<1>3. ASSUME NEW a \in Accounts, Commit(a) PROVE TxnInv'
  BY <1>0, <1>3, CommitCopies DEF TxnInv
<1>4. ASSUME NEW a \in Accounts, Rollback(a) PROVE TxnInv'
  BY <1>0, <1>4, RollbackCopies DEF TxnInv
<1>5. ASSUME NEW r \in Requests, NEW a \in Accounts, Insert(r, a) PROVE TxnInv'
  <2>1. Free(a)'
    BY <1>5, InsertCopies DEF Insert, TxnInv, Attached, Free
  <2>2. QED BY <1>0, <1>5, <2>1, InsertCopies DEF TxnInv
<1>6. CASE row' = row /\ txn' = txn
  BY <1>0, <1>6 DEF TxnInv
<1>7. QED
  BY <1>1, <1>2, <1>3, <1>4, <1>5, <1>6, StepKinds, EnrollFrame
     DEF Enroll, LoseRemoval, Rename, vars

(* Nothing unmarks a row, and a second removal finds an empty tombstone.   *)
LEMMA RemovalInductive == IInv /\ [Next]_vars => RemovalInv'
<1> SUFFICES ASSUME TypeOK, TxnInv, RemovalInv, [Next]_vars PROVE RemovalInv'
  BY DEF IInv
<1>0. ASSUME NEW b \in Accounts, row'[b] = row[b], removals'[b] > 0 => removals[b] > 0
      PROVE  removals'[b] > 0 => Marked(b)'
  BY <1>0 DEF RemovalInv, Marked, Exists
<1>1. ASSUME NEW a \in Accounts, Opened(a) PROVE RemovalInv'
  BY <1>0, <1>1, OpenedCopies DEF Opened, Open, RemovalInv
<1>2. ASSUME NEW a \in Accounts, NEW s, Written(a, s) PROVE RemovalInv'
  <2>1. removals'[a] > 0 => Marked(a)'
    BY <1>2, WrittenCopies DEF Written, Marked
  <2>2. QED BY <1>0, <1>2, <2>1, WrittenCopies DEF Written, RemovalInv
<1>3. ASSUME NEW a \in Accounts, LoseRemoval(a) PROVE RemovalInv'
  <2>1. removals \in [Accounts -> 0..MaxRemovals] /\ MaxRemovals \in Nat
    BY AccountsAssumption DEF TypeOK
  <2>2. \A b \in Accounts : removals'[b] > 0 => removals[b] > 0
    BY <1>3, <2>1 DEF LoseRemoval
  <2>3. QED BY <1>0, <1>3, <2>2 DEF LoseRemoval, RemovalInv
<1>4. ASSUME NEW a \in Accounts, Commit(a) PROVE RemovalInv'
  <2>1. removals' = removals
    BY <1>4 DEF Commit
  <2>2. ~(removals[a] > 0)
    BY <1>4 DEF Commit, TxnInv, Attached, RemovalInv, Marked
  <2>3. QED BY <1>0, <1>4, <2>1, <2>2, CommitCopies DEF RemovalInv
<1>5. ASSUME NEW r \in Requests, NEW a \in Accounts, Insert(r, a) PROVE RemovalInv'
  <2>1. removals' = removals
    BY <1>5 DEF Insert, Enrolling
  <2>2. ~(removals[a] > 0)
    BY <1>5 DEF Insert, RemovalInv, Marked
  <2>3. QED BY <1>0, <1>5, <2>1, <2>2, InsertCopies DEF RemovalInv
<1>6. CASE row' = row /\ removals' = removals
  BY <1>0, <1>6 DEF RemovalInv
<1>7. QED
  BY <1>1, <1>2, <1>3, <1>4, <1>5, <1>6, StepKinds, EnrollFrame
     DEF Enroll, Rollback, Rename, vars

(* An identity is bound where no row has it, and flushed where no open     *)
(* transaction has it; an insert takes one that was kept free for it.      *)
LEMMA OneRowInductive == IInv /\ [Next]_vars => OneRowPerIdentity'
<1> SUFFICES ASSUME IInv, [Next]_vars PROVE OneRowPerIdentity'
  OBVIOUS
<1> USE DEF IInv
<1>0. ASSUME NEW a \in Accounts,
             \A b \in Accounts \ {a} : Copies(b)' = Copies(b),
             \A t \in Copies(a)' :
               \/ t.identity = None
               \/ \E s \in Copies(a) : s.identity = t.identity
               \/ \A b \in Accounts \ {a} : \A u \in Copies(b) : u.identity # t.identity
      PROVE  OneRowPerIdentity'
  BY <1>0 DEF OneRowPerIdentity
<1>1. ASSUME NEW a \in Accounts, Opened(a) PROVE OneRowPerIdentity'
  <2>1. PICK o : Offer(a, row[a], o) /\ Open(a, o)
    BY <1>1 DEF Opened
  <2>2. row[a] \in Copies(a)
    BY <1>1 DEF Opened, Copies
  <2>3. ASSUME row[a].identity = None, o.copy.identity \in Identities \ Known(a),
               NEW b \in Accounts \ {a}, NEW u \in Copies(b)
        PROVE  u.identity # o.copy.identity
    <3>1. o.copy.identity # None
      BY <2>3, AccountsAssumption
    <3>2. ~Free(b) => txn[b].copy.identity # o.copy.identity
      BY <2>1, <2>3, <3>1 DEF Open, Flushes
    <3>3. Exists(b) => row[b].identity # o.copy.identity
      BY <2>3 DEF Known
    <3>4. QED BY <2>3, <3>2, <3>3 DEF Copies
  <2>4. QED BY <1>0, <2>1, <2>2, <2>3, OpenedCopies DEF Offer
<1>2. ASSUME NEW a \in Accounts, NEW s, Written(a, s) PROVE OneRowPerIdentity'
  BY <1>0, <1>2, WrittenCopies DEF Written
<1>3. ASSUME NEW a \in Accounts, Commit(a) PROVE OneRowPerIdentity'
  BY <1>0, <1>3, CommitCopies
<1>4. ASSUME NEW a \in Accounts, Rollback(a) PROVE OneRowPerIdentity'
  BY <1>0, <1>4, RollbackCopies
<1>5. ASSUME NEW r \in Requests, NEW a \in Accounts, Insert(r, a) PROVE OneRowPerIdentity'
  <2>1. \A b \in Accounts : \A u \in Copies(b) : u.identity # enroll[r].new.identity
    BY <1>5 DEF Insert, CheckedStaysFree
  <2>2. QED BY <1>0, <1>5, <2>1, InsertCopies
<1>6. CASE row' = row /\ txn' = txn
  BY <1>6, SameCopies DEF OneRowPerIdentity
<1>7. QED
  BY <1>1, <1>2, <1>3, <1>4, <1>5, <1>6, StepKinds, EnrollFrame
     DEF Enroll, LoseRemoval, Rename, vars

(* When an enrollment has looked, no row can find an identity any more.    *)
LEMMA CheckedInductive == IInv /\ [Next]_vars => CheckedStaysFree'
<1> SUFFICES ASSUME IInv, [Next]_vars PROVE CheckedStaysFree'
  OBVIOUS
<1> USE DEF IInv
<1>0. ASSUME NEW a \in Accounts, enroll' = enroll,
             \A b \in Accounts \ {a} : Copies(b)' = Copies(b),
             (\E r \in Requests : Checked(r)) =>
               \A t \in Copies(a)' : \E s \in Copies(a) : s.identity = t.identity
      PROVE  CheckedStaysFree'
  BY <1>0 DEF CheckedStaysFree, Checked
<1>1. ASSUME NEW a \in Accounts, Opened(a) PROVE CheckedStaysFree'
  <2>1. PICK o : Offer(a, row[a], o) /\ Open(a, o)
    BY <1>1 DEF Opened
  <2>2. row[a] \in Copies(a) /\ enroll' = enroll
    BY <1>1, <2>1 DEF Opened, Copies, Open, elsewhere
  <2>3. (\E r \in Requests : Checked(r)) => o.copy.identity = row[a].identity
    BY <1>1, <2>1 DEF Opened, EnrollInv, Unresolved, Offer
  <2>4. QED BY <1>0, <2>1, <2>2, <2>3, OpenedCopies
<1>2. ASSUME NEW a \in Accounts, NEW s, Written(a, s) PROVE CheckedStaysFree'
  <2>1. enroll' = enroll /\ s.identity = row[a].identity
    BY <1>2 DEF Written, Write, elsewhere
  <2>2. QED BY <1>0, <1>2, <2>1, WrittenCopies
<1>3. ASSUME NEW a \in Accounts, Commit(a) PROVE CheckedStaysFree'
  <2>1. enroll' = enroll
    BY <1>3 DEF Commit, elsewhere
  <2>2. QED BY <1>0, <1>3, <2>1, CommitCopies
<1>4. ASSUME NEW a \in Accounts, Rollback(a) PROVE CheckedStaysFree'
  BY <1>0, <1>4, RollbackCopies DEF Rollback, elsewhere
<1>5. ASSUME NEW r \in Requests, NEW a \in Accounts, Insert(r, a) PROVE CheckedStaysFree'
  <2>1. ASSUME NEW q \in Requests, Checked(q)'
        PROVE  /\ enroll'[q] = enroll[q] /\ Checked(q)
               /\ enroll[q].new.identity # enroll[r].new.identity
    <3>1. q # r /\ enroll'[q] = enroll[q]
      BY <1>5, <2>1, InsertCopies DEF Checked
    <3>2. QED BY <1>5, <2>1, <3>1 DEF Insert, EnrollInv, Checked
  <2>2. QED BY <1>5, <2>1, InsertCopies DEF CheckedStaysFree, Checked
<1>6. ASSUME NEW r \in Requests, CheckEnrollment(r) PROVE CheckedStaysFree'
  <2>1. \A q \in Requests \ {r} : enroll'[q] = enroll[q]
    BY <1>6 DEF CheckEnrollment, Enrolling, TypeOK
  <2>2. ASSUME Checked(r)', NEW b \in Accounts, NEW u \in Copies(b)
        PROVE  u.identity # enroll'[r].new.identity
    <3>1. /\ Enrollable(enroll[r].new.identity)
          /\ enroll'[r] = [enroll[r] EXCEPT !.at = "checked"]
      BY <1>6, <2>2 DEF CheckEnrollment, Enrolling, TypeOK, Checked
    <3>2. enroll'[r].new = enroll[r].new
      BY <1>6, <3>1 DEF CheckEnrollment, TypeOK, Enrollments
    <3>3. Exists(b) => row[b].identity \notin {None, enroll[r].new.identity}
      BY <3>1 DEF Enrollable, Unresolved, Unbound
    <3>4. ~Free(b) => txn[b].copy.identity # enroll[r].new.identity
      BY <3>3 DEF TxnInv, Attached
    <3>5. QED BY <2>2, <3>2, <3>3, <3>4 DEF Copies
  <2>3. QED BY <1>6, <2>1, <2>2, EnrollFrame, SameCopies DEF CheckedStaysFree, Checked
<1>7. ASSUME NEW r \in Requests, Verify(r) \/ DropEnrollment(r) PROVE CheckedStaysFree'
  <2>1. \A q \in Requests : Checked(q)' => enroll'[q] = enroll[q]
    BY <1>7 DEF Verify, DropEnrollment, Enrolling, TypeOK, Checked
  <2>2. QED BY <1>7, <2>1, EnrollFrame, SameCopies DEF CheckedStaysFree, Checked
<1>8. CASE row' = row /\ txn' = txn /\ enroll' = enroll
  BY <1>8, SameCopies DEF CheckedStaysFree
<1>9. QED
  BY <1>1, <1>2, <1>3, <1>4, <1>5, <1>6, <1>7, <1>8, StepKinds
     DEF Enroll, LoseRemoval, Rename, elsewhere, vars

(* A row keeps the identity it has; new ones have one.                     *)
LEMMA RowIdentity ==
  ASSUME IInv, [Next]_vars, NEW b \in Accounts, Exists(b)'
  PROVE  \/ Exists(b) /\ row[b].identity \in {row'[b].identity, None}
         \/ ~Exists(b) /\ row'[b].identity \in Identities
<1> USE DEF IInv
<1>0. CASE row'[b] = row[b]
  BY <1>0 DEF Exists
<1>1. ASSUME NEW a \in Accounts, Opened(a) PROVE row'[b] = row[b]
  BY <1>1, OpenedCopies DEF Opened
<1>2. ASSUME NEW a \in Accounts, NEW s, Written(a, s), row'[b] # row[b]
      PROVE  Exists(b) /\ row'[b].identity = row[b].identity
  BY <1>2, WrittenCopies DEF Written
<1>3. ASSUME NEW a \in Accounts, Commit(a), row'[b] # row[b]
      PROVE  Exists(b) /\ row[b].identity \in {row'[b].identity, None}
  BY <1>3, CommitCopies DEF Commit, TxnInv, Attached
<1>4. ASSUME NEW r \in Requests, NEW a \in Accounts, Insert(r, a), row'[b] # row[b]
      PROVE  ~Exists(b) /\ row'[b].identity \in Identities
  <2>1. a = b /\ row'[b] = enroll[r].new
    BY <1>4, InsertCopies
  <2>2. QED BY <1>4, <2>1 DEF Insert, EnrollInv
<1>5. QED
  BY <1>0, <1>1, <1>2, <1>3, <1>4, StepKinds, EnrollFrame
     DEF Enroll, LoseRemoval, Rollback, Rename, vars

(* A lock on its identity keeps two enrollments apart (identity_lock).     *)
LEMMA EnrollInductive == IInv /\ [Next]_vars => EnrollInv'
<1> SUFFICES ASSUME IInv, [Next]_vars PROVE EnrollInv'
  OBVIOUS
<1> USE DEF IInv
<1>r. ~Unresolved => ~Unresolved'
  <2>1. \A b \in Accounts : Exists(b)' =>
          \/ Exists(b) /\ row[b].identity \in {row'[b].identity, None}
          \/ ~Exists(b) /\ row'[b].identity # None
    BY RowIdentity, AccountsAssumption
  <2>2. Unresolved' => \E b \in Accounts : Exists(b)' /\ row'[b].identity = None
    BY DEF Unresolved
  <2>3. QED BY <2>1, <2>2 DEF Unresolved
<1>0. ASSUME \A r \in Requests : enroll'[r] \in {None, enroll[r]}
      PROVE  EnrollInv'
  BY <1>0, <1>r DEF EnrollInv, Checked
<1>1. ASSUME NEW r \in Requests, Verify(r) PROVE EnrollInv'
  <2>1. PICK e : /\ Enrolling(r, e) /\ e.at = "verified"
                 /\ e.new.identity \in Identities /\ e.new.session = e.new.identity
                 /\ e.new.paused = None
    BY <1>1, Verified
  <2>2. enroll'[r] = e /\ \A q \in Requests \ {r} : enroll'[q] = enroll[q]
    BY <2>1 DEF Enrolling, TypeOK
  <2>3. QED BY <1>r, <2>1, <2>2 DEF EnrollInv, Checked
<1>2. ASSUME NEW r \in Requests, CheckEnrollment(r) PROVE EnrollInv'
  <2>1. \A q \in Requests \ {r} : enroll'[q] = enroll[q]
    BY <1>2 DEF CheckEnrollment, Enrolling, TypeOK
  <2>2. CASE Enrollable(enroll[r].new.identity)
    <3> DEFINE e == [enroll[r] EXCEPT !.at = "checked"]
    <3>1. e.new = enroll[r].new
      BY <1>2 DEF CheckEnrollment, TypeOK, Enrollments
    <3>2. enroll'[r] = e
      BY <1>2, <2>2 DEF CheckEnrollment, Enrolling, TypeOK
    <3> HIDE DEF e
    <3>3. ~Unresolved
      BY <2>2 DEF Enrollable
    <3>4. \A q \in Requests \ {r} : Checked(q)' =>
            enroll'[q].new.identity # enroll'[r].new.identity
      BY <1>2, <2>1, <3>1, <3>2 DEF CheckEnrollment, IdentityLocked, Checked
    <3>5. enroll[r] # None
      BY <1>2 DEF CheckEnrollment
    <3>6. QED BY <1>r, <2>1, <3>1, <3>2, <3>3, <3>4, <3>5 DEF EnrollInv, Checked
  <2>3. CASE ~Enrollable(enroll[r].new.identity)
    BY <1>0, <1>2, <2>1, <2>3 DEF CheckEnrollment, Enrolling, TypeOK
  <2>4. QED BY <2>2, <2>3
<1>3. ASSUME NEW r \in Requests, DropEnrollment(r) PROVE EnrollInv'
  BY <1>0, <1>3 DEF DropEnrollment, Enrolling, TypeOK
<1>4. ASSUME NEW r \in Requests, NEW a \in Accounts, Insert(r, a) PROVE EnrollInv'
  BY <1>0, <1>4, InsertCopies
<1>5. CASE enroll' = enroll
  BY <1>0, <1>5
<1>6. QED
  BY <1>1, <1>2, <1>3, <1>4, <1>5, StepKinds
     DEF Enroll, Opened, Open, Written, Write, LoseRemoval, Commit, Rollback, Rename,
         elsewhere, vars

(* While the game moves no user name, a session that is accepted or issued *)
(* binds its own identity.                                                 *)
LEMMA HolderInductive == IInv /\ [Next]_vars => HolderInv'
<1> SUFFICES ASSUME IInv, [Next]_vars, renames' = 0 PROVE HolderInv'
  BY DEF HolderInv
<1> USE DEF IInv
<1>1. renames' = renames /\ owner' = owner
  <2>1. ~\E u \in Usernames, i \in Identities : Rename(u, i)
    BY AccountsAssumption DEF Rename, TypeOK
  <2>2. QED
    BY <2>1, StepKinds, EnrollFrame
       DEF Enroll, Insert, Enrolling, Opened, Open, Written, Write, LoseRemoval, Commit,
           Rollback, elsewhere, vars
<1>2. /\ \A a \in Accounts : \A s \in Copies(a) : Settled(s)
      /\ \A r \in Requests : enroll[r] # None => Settled(enroll[r].new)
  BY <1>1 DEF HolderInv
<1>3. ASSUME NEW s, Settled(s) PROVE Settled(s)'
  BY <1>1, <1>3 DEF Settled
<1>4. \A a \in Accounts : \A t \in Copies(a)' : Settled(t)
  <2>0. ASSUME NEW a \in Accounts, \A b \in Accounts \ {a} : Copies(b)' = Copies(b),
               \A t \in Copies(a)' : Settled(t)
        PROVE  \A b \in Accounts : \A t \in Copies(b)' : Settled(t)
    BY <1>2, <2>0
  <2>1. ASSUME NEW a \in Accounts, Opened(a)
        PROVE  \A b \in Accounts : \A t \in Copies(b)' : Settled(t)
    <3>1. PICK o : Offer(a, row[a], o) /\ Open(a, o)
      BY <2>1 DEF Opened
    <3>2. Settled(o.copy)
      BY <1>2, <2>1, <3>1 DEF Opened, Offer, Copies
    <3>3. QED BY <1>2, <2>0, <3>1, <3>2, OpenedCopies
  <2>2. ASSUME NEW a \in Accounts, NEW s, Written(a, s)
        PROVE  \A b \in Accounts : \A t \in Copies(b)' : Settled(t)
    <3>1. Settled(s)
      BY <1>2, <2>2, WrittenCopies DEF Written, Secrets, Empty, Settled
    <3>2. QED BY <2>0, <2>2, <3>1, WrittenCopies
  <2>3. ASSUME NEW a \in Accounts, Commit(a)
        PROVE  \A b \in Accounts : \A t \in Copies(b)' : Settled(t)
    BY <1>2, <2>0, <2>3, CommitCopies
  <2>4. ASSUME NEW a \in Accounts, Rollback(a)
        PROVE  \A b \in Accounts : \A t \in Copies(b)' : Settled(t)
    BY <1>2, <2>0, <2>4, RollbackCopies
  <2>5. ASSUME NEW r \in Requests, NEW a \in Accounts, Insert(r, a)
        PROVE  \A b \in Accounts : \A t \in Copies(b)' : Settled(t)
    <3>1. Settled(enroll[r].new)
      BY <1>2, <2>5 DEF Insert
    <3>2. QED BY <1>2, <2>0, <2>5, <3>1, InsertCopies
  <2>6. CASE row' = row /\ txn' = txn
    BY <1>2, <2>6, SameCopies
  <2>7. QED
    BY <2>1, <2>2, <2>3, <2>4, <2>5, <2>6, StepKinds, EnrollFrame
       DEF Enroll, LoseRemoval, Rename, vars
<1>5. \A r \in Requests : enroll'[r] # None => Settled(enroll'[r].new)
  <2>0. ASSUME \A r \in Requests : enroll'[r] \in {None, enroll[r]}
        PROVE  \A r \in Requests : enroll'[r] # None => Settled(enroll'[r].new)
    BY <1>2, <2>0
  <2>1. ASSUME NEW r \in Requests, Verify(r)
        PROVE  \A q \in Requests : enroll'[q] # None => Settled(enroll'[q].new)
    <3>1. PICK e : Enrolling(r, e) /\ Settled(e.new)
      BY <2>1, Verified
    <3>2. enroll'[r] = e /\ \A q \in Requests \ {r} : enroll'[q] = enroll[q]
      BY <3>1 DEF Enrolling, TypeOK
    <3>3. QED BY <1>2, <3>1, <3>2
  <2>2. ASSUME NEW r \in Requests, CheckEnrollment(r)
        PROVE  \A q \in Requests : enroll'[q] # None => Settled(enroll'[q].new)
    <3> DEFINE e == [enroll[r] EXCEPT !.at = "checked"]
    <3>1. e.new = enroll[r].new /\ enroll[r] # None
      BY <2>2 DEF CheckEnrollment, TypeOK, Enrollments
    <3>2. /\ enroll'[r] \in {e, None}
          /\ \A q \in Requests \ {r} : enroll'[q] = enroll[q]
      BY <2>2 DEF CheckEnrollment, Enrolling, TypeOK
    <3> HIDE DEF e
    <3>3. QED BY <1>2, <3>1, <3>2
  <2>3. ASSUME NEW r \in Requests, DropEnrollment(r)
        PROVE  \A q \in Requests : enroll'[q] # None => Settled(enroll'[q].new)
    BY <2>0, <2>3 DEF DropEnrollment, Enrolling, TypeOK
  <2>4. ASSUME NEW r \in Requests, NEW a \in Accounts, Insert(r, a)
        PROVE  \A q \in Requests : enroll'[q] # None => Settled(enroll'[q].new)
    BY <2>0, <2>4, InsertCopies
  <2>5. CASE enroll' = enroll
    BY <2>0, <2>5
  <2>6. QED
    BY <2>1, <2>2, <2>3, <2>4, <2>5, StepKinds
       DEF Enroll, Opened, Open, Written, Write, LoseRemoval, Commit, Rollback, Rename,
           elsewhere, vars
<1>6. QED BY <1>1, <1>3, <1>4, <1>5 DEF HolderInv

LEMMA Inductive == Spec => []IInv
<1>1. IInv /\ [Next]_vars => IInv'
  BY TypeInductive, TxnInductive, RemovalInductive, EnrollInductive, HolderInductive,
     OneRowInductive, CheckedInductive DEF IInv
<1>2. QED BY <1>1, InitInductive, PTL DEF Spec

-----------------------------------------------------------------------------
(* The theorems.                                                           *)

(* Rows, copies and calls keep their types (GameAccount of models.py).     *)
THEOREM TypeCorrect == Spec => []TypeOK
  BY Inductive, PTL DEF IInv

(* No two rows are ever bound to one game account, not even in a           *)
(* transaction that is still open (_bind_or_match_identity,                *)
(* identity_lock).                                                         *)
THEOREM OneRow == Spec => []OneRowPerIdentity
  BY Inductive, PTL DEF IInv

(* A locked block acts for the identity of its row, and no other for the   *)
(* same one (_ensure_locked, _locked).                                     *)
THEOREM OneActs == Spec => []OneActor
<1>1. IInv => OneActor
  <2> SUFFICES ASSUME IInv, NEW a \in Accounts, ~Free(a), txn[a].acts # None
               PROVE  /\ txn[a].acts = txn[a].copy.identity
                      /\ \A b \in Accounts \ {a} : ~Free(b) => txn[b].acts # txn[a].acts
    BY DEF OneActor
  <2>1. txn[a].acts = txn[a].copy.identity
    BY DEF IInv, TxnInv, Attached
  <2>2. ASSUME NEW b \in Accounts \ {a}, ~Free(b), txn[b].acts = txn[a].acts
        PROVE  FALSE
    <3>1. txn[b].acts = txn[b].copy.identity
      BY <2>2 DEF IInv, TxnInv, Attached
    <3>2. txn[a].copy \in Copies(a) /\ txn[b].copy \in Copies(b)
      BY <2>2 DEF Copies
    <3>3. QED BY <2>1, <2>2, <3>1, <3>2 DEF IInv, OneRowPerIdentity
  <2>3. QED BY <2>1, <2>2
<1>2. QED BY <1>1, Inductive, PTL

(* Nobody disables, pauses or removes an account while a block is inside   *)
(* (_require_mutable, the row lock).                                       *)
THEOREM Drains == Spec => []ExclusionDrains
<1>1. IInv => ExclusionDrains
  BY DEF IInv, TxnInv, Attached, ExclusionDrains
<1>2. QED BY <1>1, Inductive, PTL

(* An enrollment that found its identity free inserts it (identity_lock,   *)
(* has_unresolved_identity).                                               *)
THEOREM StaysFree == Spec => []CheckedStaysFree
  BY Inductive, PTL DEF IInv

(* A removal that has begun is never undone, and a tombstone is final      *)
(* (_reject_removal_marker, disable_drain_remove).                         *)
THEOREM Irrevocable == Spec => RemovalIrrevocable
<1>1. ASSUME IInv, [Next]_vars, NEW b \in Accounts, Exists(b)
      PROVE  /\ row[b].paused = "removing" => row'[b].paused \in Marks
             /\ row[b].paused = "removed" => row'[b] = row[b]
  <2> USE DEF IInv
  <2>0. CASE row'[b] = row[b]
    BY <2>0 DEF Marks
  <2>1. ASSUME NEW a \in Accounts, Opened(a) PROVE row'[b] = row[b]
    BY <1>1, <2>1, OpenedCopies DEF Opened
  <2>2. ASSUME NEW a \in Accounts, NEW s, Written(a, s), row'[b] # row[b]
        PROVE  /\ row[b].paused = "removing" => row'[b].paused \in Marks
               /\ row[b].paused = "removed" => row'[b] = row[b]
    BY <1>1, <2>2, WrittenCopies DEF Written
  <2>3. ASSUME NEW a \in Accounts, Commit(a), row'[b] # row[b]
        PROVE  row[b].paused \notin Marks
    BY <1>1, <2>3, CommitCopies DEF Commit, TxnInv, Attached
  <2>4. ASSUME NEW r \in Requests, NEW a \in Accounts, Insert(r, a)
        PROVE  row'[b] = row[b]
    BY <1>1, <2>4, InsertCopies DEF Insert
  <2>5. QED
    BY <2>0, <2>1, <2>2, <2>3, <2>4, <1>1, StepKinds, EnrollFrame
       DEF Enroll, LoseRemoval, Rollback, Rename, vars, Marks
<1>2. IInv /\ [Next]_vars =>
        [\A a \in Accounts : Exists(a) =>
           /\ row[a].paused = "removing" => row'[a].paused \in Marks
           /\ row[a].paused = "removed" => row'[a] = row[a]]_vars
  BY <1>1
<1>3. QED BY <1>2, Inductive, PTL DEF RemovalIrrevocable, Spec

(* Stored secrets only give way to ones the game has accepted for the      *)
(* identity of the row, or to a tombstone (update_credentials,             *)
(* update_token_only, _ensure_locked).                                     *)
THEOREM Proved == Spec => SecretsVerified
<1>1. ASSUME IInv, [Next]_vars, NEW b \in Accounts, Exists(b),
             Secrets(row'[b]) # Secrets(row[b])
      PROVE  \/ row'[b].paused = "removed"
             \/ row'[b].session = row'[b].identity /\ row'[b].identity # None
  <2> USE DEF IInv
  <2>0. row'[b] # row[b]
    BY <1>1
  <2>1. ASSUME NEW a \in Accounts, Opened(a) PROVE row'[b] = row[b]
    BY <1>1, <2>1, OpenedCopies DEF Opened
  <2>2. ASSUME NEW a \in Accounts, NEW s, Written(a, s)
        PROVE  row'[b].paused = "removed"
    BY <1>1, <2>0, <2>2, WrittenCopies DEF Written
  <2>3. ASSUME NEW a \in Accounts, Commit(a)
        PROVE  row'[b].session = row'[b].identity /\ row'[b].identity # None
    BY <1>1, <2>0, <2>3, CommitCopies DEF Commit, TxnInv, Attached, Proven
  <2>4. ASSUME NEW r \in Requests, NEW a \in Accounts, Insert(r, a)
        PROVE  row'[b] = row[b]
    BY <1>1, <2>4, InsertCopies DEF Insert
  <2>5. QED
    BY <1>1, <2>0, <2>1, <2>2, <2>3, <2>4, StepKinds, EnrollFrame
       DEF Enroll, LoseRemoval, Rollback, Rename, vars
<1>2. IInv /\ [Next]_vars =>
        [\A a \in Accounts : Exists(a) /\ Secrets(row'[a]) # Secrets(row[a]) =>
           \/ row'[a].paused = "removed"
           \/ row'[a].session = row'[a].identity /\ row'[a].identity # None]_vars
  BY <1>1
<1>3. QED BY <1>2, Inductive, PTL DEF SecretsVerified, Spec

(* An enrollment adds no second holder of a session, unless a user name    *)
(* moved in the game (add_credentials, add_token_only,                     *)
(* has_unresolved_identity).                                               *)
THEOREM OneHolder == Spec => NoSecondHolder
<1>1. ASSUME IInv, [Next]_vars, NEW a \in Accounts, renames = 0, ~Exists(a),
             row'[a] # None, NEW b \in Accounts, Exists(b)
      PROVE  row[b].session # row'[a].session
  <2> USE DEF IInv
  <2>0. row'[a] # row[a]
    BY <1>1 DEF Exists
  <2>1. ASSUME NEW c \in Accounts, Opened(c) PROVE row'[a] = row[a]
    BY <1>1, <2>1, OpenedCopies DEF Opened
  <2>2. ASSUME NEW c \in Accounts, NEW s, Written(c, s) PROVE row'[a] = row[a]
    BY <1>1, <2>2, WrittenCopies DEF Written
  <2>3. ASSUME NEW c \in Accounts, Commit(c) PROVE row'[a] = row[a]
    BY <1>1, <2>3, CommitCopies DEF Commit, TxnInv, Attached
  <2>4. PICK r \in Requests : \E c \in Accounts : Insert(r, c)
    BY <1>1, <2>0, <2>1, <2>2, <2>3, StepKinds, EnrollFrame
       DEF Enroll, LoseRemoval, Rollback, Rename, vars
  <2>5. /\ Checked(r) /\ row'[a] = enroll[r].new
        /\ Unbound(enroll[r].new.identity)
    BY <1>1, <2>0, <2>4, InsertCopies DEF Insert, Checked
  <2>6. /\ enroll[r].new.session = enroll[r].new.identity
        /\ enroll[r].new.identity \in Identities
    BY <1>1, <2>5 DEF EnrollInv, Checked
  <2>7. row[b].identity \notin {None, enroll[r].new.identity}
    BY <1>1, <2>5 DEF EnrollInv, Unresolved, Unbound
  <2>8. Settled(row[b])
    BY <1>1 DEF HolderInv, Copies
  <2>9. QED BY <2>5, <2>6, <2>7, <2>8, AccountsAssumption DEF Settled
<1>2. IInv /\ [Next]_vars =>
        [\A a \in Accounts : renames = 0 /\ ~Exists(a) /\ row'[a] # None =>
           \A b \in Accounts : Exists(b) => row[b].session # row'[a].session]_vars
  BY <1>1
<1>3. QED BY <1>2, Inductive, PTL DEF NoSecondHolder, Spec

(* A tombstone is disabled and stores no secret, as long as operators do   *)
(* not type a mark as the reason of a pause: that one way is all there is  *)
(* (pause, disable_drain_remove).                                          *)
THEOREM TombstonesUnlessTyped ==
  ASSUME PauseReasons \cap Marks = {}
  PROVE  Spec => []TombstoneEmpty
<1> DEFINE Tombs == \A a \in Accounts :
             Exists(a) /\ row[a].paused = "removed" => Empty(row[a])
<1>1. Init => Tombs
  <2> SUFFICES ASSUME Init, NEW a \in Accounts, Exists(a) PROVE row[a].paused = None
    BY NullAssumption DEF Marks
  <2>1. row[a] \in Historical
    BY DEF Init, Exists
  <2>2. QED BY <2>1 DEF Historical, NewRow
<1>2. ASSUME IInv, [Next]_vars, Tombs, NEW b \in Accounts, Exists(b)',
             row'[b].paused = "removed"
      PROVE  Empty(row'[b])
  <2> USE DEF IInv
  <2>0. CASE row'[b] = row[b]
    BY <1>2, <2>0 DEF Exists
  <2>1. ASSUME NEW a \in Accounts, Opened(a) PROVE row'[b] = row[b]
    BY <1>2, <2>1, OpenedCopies DEF Opened
  <2>2. ASSUME NEW a \in Accounts, NEW s, Written(a, s), row'[b] # row[b]
        PROVE  Empty(row'[b])
    BY <1>2, <2>2, WrittenCopies DEF Written, Marks
  <2>3. ASSUME NEW a \in Accounts, Commit(a)
        PROVE  row'[b] = row[b]
    BY <1>2, <2>3, CommitCopies DEF Commit, TxnInv, Attached, Marks
  <2>4. ASSUME NEW r \in Requests, NEW a \in Accounts, Insert(r, a)
        PROVE  row'[b] = row[b]
    <3>1. enroll[r].new.paused = None
      BY <1>2, <2>4 DEF Insert, EnrollInv
    <3>2. enroll[r].new.paused # "removed"
      BY <3>1, NullAssumption DEF Marks
    <3>3. QED BY <1>2, <2>4, <3>2, InsertCopies DEF Insert
  <2>5. QED
    BY <2>0, <2>1, <2>2, <2>3, <2>4, <1>2, StepKinds, EnrollFrame
       DEF Enroll, LoseRemoval, Rollback, Rename, vars
<1>3. IInv /\ Tombs /\ [Next]_vars => Tombs'
  BY <1>2
<1>4. Tombs => TombstoneEmpty
  BY DEF TombstoneEmpty, Empty
<1> HIDE DEF Tombs
<1>5. QED BY <1>1, <1>3, <1>4, Inductive, PTL DEF Spec
=============================================================================
