------------------------------ MODULE GameClient ------------------------------
(***************************************************************************)
(* Calls to the game through HttpGameClient (placegame/game/client.py).    *)
(* Clients of different accounts run concurrently and share one thing, the *)
(* GameClientVersion they declare.  The game refuses a version below the   *)
(* one it requires with a 426 that names that version; the client adopts   *)
(* it and tries once more.  Reads survive two transport failures in a row, *)
(* a mutation none: whether its request took effect is then unknown.       *)
(*                                                                         *)
(* A call's header is built before the rate limiter lets it through, and a *)
(* reply is read some time after the game has sent it.                     *)
(***************************************************************************)
EXTENDS Naturals

CONSTANTS
  Callers,      \* calls in progress at one time, one per account
  Seeds,        \* GAME_CLIENT_VERSION, as configured
  MaxVersion,   \* bound: versions the game may require
  MaxLosses,    \* bound: transport failures, 5xx answers, nameless 426s
  None

ASSUME ClientAssumption ==
  /\ MaxVersion \in Nat \ {0} /\ Seeds \subseteq 1..MaxVersion
  /\ MaxLosses \in Nat
  /\ None \notin 1..MaxVersion

VARIABLES
  version,   \* GameClientVersion._value
  required,  \* the game: the version it requires
  call,      \* local state of each call
  wire,      \* the request of each call, or the game's reply to it
  effects,   \* ghost: how often the game has done the work of the call
  losses

vars == <<version, required, call, wire, effects, losses>>

Versions == 1..MaxVersion
Attempts == 3

Kinds == {"ok", "refused", "schema_mismatch", "unavailable", "ambiguous",
          "client_version_rejected"}
Replies == [status : {"request", "ok", "mangled", "refused", "failed", "426"},
            names : Versions \cup {None}]
Calls ==
  [step : {"over", "ready", "waiting", "sent"}, mutation : BOOLEAN, round : 1..2,
   attempt : 1..Attempts, header : Versions \cup {None}, outcome : Kinds \cup {None}]

ASSUME NoneAssumption == None \notin Kinds /\ None \notin Replies

NoCall == [step |-> "over", mutation |-> FALSE, round |-> 1, attempt |-> 1,
           header |-> None, outcome |-> None]
Reply(status, names) == [status |-> status, names |-> names]

-----------------------------------------------------------------------------
Init ==
  /\ version \in Seeds
  /\ required \in Versions
  /\ call = [c \in Callers |-> NoCall]
  /\ wire = [c \in Callers |-> None]
  /\ effects = [c \in Callers |-> 0]
  /\ losses = 0

(* _request: an operation of the registry, a mutation or a read.           *)
Start(c) ==
  /\ call[c].step = "over"
  /\ \E m \in BOOLEAN :
       call' = [call EXCEPT ![c] = [NoCall EXCEPT !.step = "ready", !.mutation = m]]
  /\ effects' = [effects EXCEPT ![c] = 0]
  /\ UNCHANGED <<version, required, wire, losses>>

(* _send_once builds the headers, then waits for the rate limiter.         *)
BuildHeaders(c) ==
  /\ call[c].step = "ready"
  /\ call' = [call EXCEPT ![c] = [@ EXCEPT !.step = "waiting", !.header = version]]
  /\ UNCHANGED <<version, required, wire, effects, losses>>

PassLimiter(c) ==
  /\ call[c].step = "waiting"
  /\ call' = [call EXCEPT ![c].step = "sent"]
  /\ wire' = [wire EXCEPT ![c] = Reply("request", None)]
  /\ UNCHANGED <<version, required, effects, losses>>

-----------------------------------------------------------------------------
(* The game: it checks the version before it does any work.                *)

Accepted(c) == call[c].header >= required

Work(c) ==
  effects' = [effects EXCEPT ![c] = IF call[c].mutation THEN @ + 1 ELSE @]

Lossy == losses < MaxLosses /\ losses' = losses + 1

Serve(c) ==
  /\ wire[c] = Reply("request", None)
  /\ \/ /\ ~Accepted(c)
        /\ \/ wire' = [wire EXCEPT ![c] = Reply("426", required)] /\ UNCHANGED losses
           \/ wire' = [wire EXCEPT ![c] = Reply("426", None)] /\ Lossy
        /\ UNCHANGED effects
     \/ /\ Accepted(c)
        /\ \/ /\ wire' = [wire EXCEPT ![c] = Reply("refused", None)]
              /\ UNCHANGED <<effects, losses>>
           \/ /\ \E s \in {"ok", "mangled"} : wire' = [wire EXCEPT ![c] = Reply(s, None)]
              /\ Work(c)
              /\ UNCHANGED losses
           \/ /\ wire' = [wire EXCEPT ![c] = Reply("failed", None)]
              /\ Work(c) \/ UNCHANGED effects
              /\ Lossy
  /\ UNCHANGED <<version, required, call>>

Release ==
  /\ required < MaxVersion
  /\ required' = required + 1
  /\ UNCHANGED <<version, call, wire, effects, losses>>

-----------------------------------------------------------------------------
Return(c, kind) ==
  call' = [call EXCEPT ![c] = [@ EXCEPT !.step = "over", !.outcome = kind, !.header = None]]

(* Slips: a lost mutation is sent again; a read gets one attempt too many; *)
(* a lost mutation counts as not done.                                     *)
LastAttemptOfAll(c) == call[c].attempt = Attempts
LastAttemptLate(c) == call[c].mutation \/ call[c].attempt > Attempts
Unavailable(c) == "unavailable"

(* _attempt: a mutation has one attempt, a read three.                     *)
LastAttempt(c) == call[c].mutation \/ call[c].attempt = Attempts
NoAnswer(c) == IF call[c].mutation THEN "ambiguous" ELSE "unavailable"

(* A transport failure; the game may have worked, or may yet.              *)
LoseAnswer(c) ==
  /\ call[c].step = "sent"
  /\ Lossy
  /\ wire' = [wire EXCEPT ![c] = None]
  /\ \/ wire[c] = Reply("request", None) /\ Accepted(c) /\ Work(c)
     \/ UNCHANGED effects
  /\ IF LastAttempt(c)
       THEN Return(c, NoAnswer(c))
       ELSE call' = [call EXCEPT
                       ![c] = [@ EXCEPT !.step = "ready", !.attempt = call[c].attempt + 1]]
  /\ UNCHANGED <<version, required>>

(* Slip: nothing the game names is ever taken. *)
IsNewsNever(v) == FALSE

(* GameClientVersion.adopt.                                                *)
IsNews(v) == v # None /\ v # version

(* _request_outcome on a 426: adopt, and once more with fresh attempts.    *)
ReceiveRejection(c) ==
  LET news == call[c].round = 1 /\ IsNews(wire[c].names) IN
  /\ call[c].step = "sent"
  /\ wire[c] # None /\ wire[c].status = "426"
  /\ version' = IF news THEN wire[c].names ELSE version
  /\ IF news
       THEN call' = [call EXCEPT ![c] = [@ EXCEPT !.step = "ready", !.round = 2, !.attempt = 1]]
       ELSE Return(c, "client_version_rejected")
  /\ wire' = [wire EXCEPT ![c] = None]
  /\ UNCHANGED <<required, effects, losses>>

(* _interpret_response: what the answer says, or cannot be read to say.    *)
Interpret(c) ==
  CASE wire[c].status = "ok" -> "ok"
    [] wire[c].status = "mangled" -> "schema_mismatch"
    [] wire[c].status = "refused" -> "refused"
    [] OTHER -> NoAnswer(c)

ReceiveAnswer(c) ==
  /\ call[c].step = "sent"
  /\ wire[c] # None /\ wire[c].status \notin {"request", "426"}
  /\ Return(c, Interpret(c))
  /\ wire' = [wire EXCEPT ![c] = None]
  /\ UNCHANGED <<version, required, effects, losses>>

-----------------------------------------------------------------------------
Step(c) ==
  \/ Start(c) \/ BuildHeaders(c) \/ PassLimiter(c) \/ Serve(c)
  \/ ReceiveRejection(c) \/ ReceiveAnswer(c)

Next == Release \/ \E c \in Callers : Step(c) \/ LoseAnswer(c)

Spec == Init /\ [][Next]_vars

(* Accounts keep calling, and requests are answered.                       *)
Fairness == \A c \in Callers : WF_vars(Step(c))
FairSpec == Spec /\ Fairness

-----------------------------------------------------------------------------
(* Properties. *)

(* The shared version and the locals of the calls keep their types.        *)
TypeOK ==
  /\ version \in Versions /\ required \in Versions
  /\ call \in [Callers -> Calls]
  /\ wire \in [Callers -> Replies \cup {None}]
  /\ effects \in [Callers -> Nat]
  /\ losses \in 0..MaxLosses

(* Whatever is lost, refused or tried again, the game does the work of a   *)
(* mutation at most once per call (_attempt, _request_outcome).            *)
MutationOnce == \A c \in Callers : effects[c] <= 1

(* A mutation reported as refused has had no effect, and one reported as   *)
(* done has had it; all that is unknown is reported as ambiguous, or as an *)
(* answer nobody can read (_interpret_response, _attempt).                 *)
OutcomeHonest ==
  \A c \in Callers :
    /\ call[c].outcome \in {"refused", "client_version_rejected", "unavailable"}
         => effects[c] = 0
    /\ (call[c].outcome = "ok" /\ call[c].mutation) => effects[c] = 1

(* The call fails for its version, which the game has named.               *)
FailsForVersion(c) ==
  /\ call'[c].outcome = "client_version_rejected"
  /\ call[c].outcome = None
  /\ wire[c].names # None

(* A call fails for its version only after it was tried with the version   *)
(* the game named (_request_outcome).                                      *)
RetriedOnce ==
  [][\A c \in Callers : FailsForVersion(c) => call[c].round = 2]_vars

(* What holds of it when calls share the version: a call is tried again,   *)
(* unless another call changed the version after its header was built.     *)
RetriedUnlessOvertaken ==
  [][\A c \in Callers :
       FailsForVersion(c) => call[c].round = 2 \/ version # call[c].header]_vars

(* Once the game stops changing the version it requires, the version all   *)
(* clients declare settles at one that it accepts, however late an old 426 *)
(* comes in (adopt).                                                       *)
VersionSettles == <>[](version >= required)
=============================================================================
