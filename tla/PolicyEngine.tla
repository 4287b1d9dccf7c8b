------------------------------ MODULE PolicyEngine -----------------------------
(***************************************************************************)
(* What to do next for an account (placegame/policy/engine.py and          *)
(* placegame/rewards.py), with the search of BossOptimizer.                *)
(*                                                                         *)
(* A builder holds the account lock.  It awaits one view of the game and   *)
(* decides on it; a boss plan awaits the search in between, and the view   *)
(* is old when the plan is made.  A plan is kept with the projection of    *)
(* its view, which stands for its fingerprint, and the policy version; a   *)
(* boss plan's projection holds its selection and its preview as well.     *)
(* Meanwhile the game moves on and the policy is saved.  One plan is       *)
(* followed at a time, until it expires.                                   *)
(*                                                                         *)
(* Names are numbers in the order in which the code sorts them; an array   *)
(* that the projection sorts by key is a set, and its keys are distinct.   *)
(***************************************************************************)
EXTENDS BossOptimizer

CONSTANTS
  IdleViews, BossViews, WorldViews, ProfessionViews, RewardViews,
                  \* the game's answers, section by section
  Minutes,        \* minutes of the Shanghai day at which plans are built
  WorldAttempts,  \* assists an account may make on an instance (3)
  QueueLimit,     \* actions the game queues (5)
  QueueShort,     \* a queue of fewer actions is refilled (2)
  QueueSeconds,   \* so is one that lasts for less (6 h)
  Items,          \* what recipes consume and produce
  NoCeiling,      \* no capacity in the idle view
  MaxVersion      \* bound on the policy's version

Sections ==
  [idle |-> IdleViews, boss |-> BossViews, world |-> WorldViews,
   profession |-> ProfessionViews, reward |-> RewardViews]

SettingFields ==
  [threshold : Nat, minChance : Int, paid : BOOLEAN, collaborate : BOOLEAN,
   reserve : Nat, food : Nat, potion : Nat, horizon : Nat, claims : BOOLEAN]

(* The schemas of the game's answers, as far as a decision reads them.     *)
IdleSummaries == [seconds : Nat, capacity : Nat \cup {NoCeiling}]
Entries ==
  [key : Int, type : {"personal", "map", "world", "other"}, level : Nat,
   attempts : Nat \cup {None}, blocked : BOOLEAN, options : SUBSET Difficulties]
Slots == [key : Int, score : Nat, eligible : BOOLEAN]
BossStates ==
  [entries : SUBSET Entries, free : Nat, material : Nat, slots : SUBSET Slots,
   potionSwitch : BOOLEAN, affixes : SUBSET Int]
Instances ==
  [key : Int, active : BOOLEAN, alive : BOOLEAN, mine : Nat, remaining : Nat]
Recipes ==
  [key : Int, kind : {"food", "potion", "other"}, output : Items,
   duration : Nat \ {0}, inputs : [Items -> Nat], milestone : BOOLEAN]
ProfessionStates ==
  [queued : Nat, seconds : Nat, balances : [Items -> Nat], recipes : SUBSET Recipes]
Candidates ==
  [key : Int, known : BOOLEAN, completed : BOOLEAN, claimed : BOOLEAN,
   choices : Nat, cost : Nat, overflow : BOOLEAN]
RewardStates == [inventory : BOOLEAN, candidates : Seq(Candidates)]

ASSUME EngineAssumption ==
  /\ Settings \subseteq SettingFields
  /\ Minutes \subseteq 0..1439
  /\ WorldAttempts \in Nat /\ QueueLimit \in Nat /\ QueueShort \in Nat
  /\ QueueSeconds \in Nat /\ MaxVersion \in Nat \ {0}
  /\ NoCeiling \notin Nat
ASSUME ViewAssumption ==
  /\ IdleViews \subseteq IdleSummaries
  /\ BossViews \subseteq BossStates
  /\ WorldViews \subseteq SUBSET Instances
  /\ ProfessionViews \subseteq ProfessionStates
  /\ RewardViews \subseteq RewardStates
  /\ \A s \in BossViews : IsFiniteSet(s.affixes)
ASSUME NullAssumption ==
  None \notin BossStates \cup {"personal_boss", "ordinary_boss"}

VARIABLES
  section,  \* the section of the game this behaviour is about
  game,     \* what the game would answer
  version,  \* version of the account's policy
  goal,     \* family of the plan a search is for
  plan      \* the plan that was made, until it expires

vars == <<settings, search, section, game, version, goal, plan>>

-----------------------------------------------------------------------------
(* Idle. *)

Threshold(s) ==
  IF s.capacity = NoCeiling \/ settings.threshold <= s.capacity
    THEN settings.threshold ELSE s.capacity

Collects(s) == IF s.seconds >= Threshold(s) THEN {[kind |-> "collect"]} ELSE {}

IdleProjection(s) == [capacity |-> s.capacity, eligible |-> Collects(s) # {}]

(* What idle_resolver() computes, for a plan that is to be executed.  No   *)
(* other family has a resolver.                                            *)
ResolvedProjection(s) == [seconds |-> s.seconds, capacity |-> s.capacity]

-----------------------------------------------------------------------------
(* World boss. *)

InWindow(minute) ==
  \/ 600 <= minute /\ minute < 660
  \/ 960 <= minute /\ minute < 1020
  \/ 1200 <= minute /\ minute < 1260

Assistable(i) == i.active /\ i.alive /\ i.mine < WorldAttempts /\ i.remaining > 0

Assists(instances, minute) ==
  {[kind |-> "assist", boss |-> i.key] :
     i \in {x \in instances :
              /\ settings.collaborate /\ InWindow(minute) /\ Assistable(x)
              /\ \A y \in instances : Assistable(y) => x.key <= y.key}}

(* Slip: the projection forgets the account's own attempts.                *)
WorldProjectionUncounted(instances) ==
  {[key |-> i.key, active |-> i.active, alive |-> i.alive,
    remaining |-> i.remaining] : i \in instances}

WorldProjection(instances) == instances

-----------------------------------------------------------------------------
(* Profession.  The queue is its length and the sum of its seconds.        *)

Short(s, r, kind, target) == r.kind = kind /\ s.balances[r.output] < target

Supplied(s, r) == \A item \in Items : s.balances[item] >= r.inputs[item]

(* Only the last priority looks at what the recipe consumes.               *)
Wanted(s, r) ==
  CASE r.milestone -> 1
    [] ~r.milestone /\ Short(s, r, "food", settings.food) -> 2
    [] ~r.milestone /\ Short(s, r, "potion", settings.potion) -> 3
    [] OTHER -> IF Supplied(s, r) THEN 4 ELSE 5

Recipe(s) ==
  {r \in s.recipes :
     /\ Wanted(s, r) < 5
     /\ \A q \in s.recipes \ {r} :
          \/ Wanted(s, r) < Wanted(s, q)
          \/ Wanted(s, r) = Wanted(s, q) /\ r.key < q.key}

ProfessionProjection(s) == s

Refilled(s) == s.queued < QueueShort \/ s.seconds < QueueSeconds

(* As many as last to the horizon, rounded up, and one at least.           *)
Lasting(s, r) ==
  LET missing == IF settings.horizon > s.seconds THEN settings.horizon - s.seconds ELSE 0
      n == (missing + r.duration - 1) \div r.duration
  IN  IF n = 0 THEN 1 ELSE n

(* Slip: the place that is left in the queue is not looked at.             *)
UncappedCount(s, r) == Lasting(s, r)

Count(s, r) ==
  IF Lasting(s, r) <= QueueLimit - s.queued THEN Lasting(s, r)
  ELSE QueueLimit - s.queued

Enqueues(s) ==
  IF Refilled(s) /\ s.queued < QueueLimit
    THEN {[kind |-> "enqueue", recipe |-> r.key, count |-> Count(s, r)] :
            r \in Recipe(s)}
    ELSE {}

Upkeep(s, minute) ==
  IF minute % 5 = 0 THEN {[kind |-> "settle"]} ELSE Enqueues(s)

-----------------------------------------------------------------------------
(* Safe rewards. *)

Safe(s, c) ==
  /\ settings.claims /\ s.inventory
  /\ c.completed /\ ~c.claimed /\ c.choices = 0 /\ c.cost = 0 /\ ~c.overflow
  /\ c.known

(* The candidates are in the order of the game: the first that is safe.    *)
Claims(s) ==
  {[kind |-> "claim", reward |-> s.candidates[n].key] :
     n \in {m \in DOMAIN s.candidates :
              /\ Safe(s, s.candidates[m])
              /\ \A k \in 1..m - 1 : ~Safe(s, s.candidates[k])}}

RewardProjection(s) ==
  [inventory |-> s.inventory,
   candidates |-> {s.candidates[n] : n \in DOMAIN s.candidates}]

-----------------------------------------------------------------------------
(* Bosses.  A personal boss is searched for among the personal entries, an *)
(* ordinary one among those that can be challenged now.                    *)

EntriesFor(family, s) ==
  {e \in s.entries :
     IF family = "personal_boss"
       THEN e.type = "personal"
       ELSE /\ e.type \in {"map", "world"}
            /\ e.attempts # None /\ e.attempts > 0
            /\ ~e.blocked}

BossView(family, s) == [s EXCEPT !.entries = EntriesFor(family, s)]

(* The selection is that of the search: an action and its preview.         *)
BossProjection(s, selection) == [view |-> s, selection |-> selection]

Challenge(slot) ==
  [kind |-> "challenge", boss |-> pair[1].key, difficulty |-> pair[2],
   config |-> choice.config, affix |-> choice.affix, slot |-> slot.key,
   material |-> Uses(pair[2], boss)]

Selections ==
  {[action |-> Challenge(slot), preview |-> choice.preview] : slot \in TargetSlot(boss)}

-----------------------------------------------------------------------------
(* One decision, selected when the engine has found something to do.       *)
Plan(family, action, projection) ==
  [family |-> family, action |-> action, projection |-> projection,
   version |-> version]

Decide(family, actions, projection) ==
  \E a \in IF actions = {} THEN {None} ELSE actions :
    plan' = Plan(family, a, projection)

Init ==
  /\ settings \in Settings
  /\ section \in DOMAIN Sections
  /\ game \in Sections[section]
  /\ version = 1 /\ goal = None /\ plan = None
  /\ step = "out" /\ boss = None /\ pair = None /\ left = {}
  /\ seen = <<>> /\ tried = 0 /\ choice = None

Build(family, actions, projection) ==
  /\ Idle /\ plan = None
  /\ Decide(family, actions, projection)
  /\ UNCHANGED <<settings, search, section, game, version, goal>>

BuildIdle ==
  /\ section = "idle"
  /\ Build("idle", Collects(game), IdleProjection(game))

BuildWorld ==
  /\ section = "world"
  /\ \E minute \in Minutes :
       Build("world_boss", Assists(game, minute), WorldProjection(game))

BuildProfession ==
  /\ section = "profession"
  /\ \E minute \in Minutes :
       Build("profession", Upkeep(game, minute), ProfessionProjection(game))

BuildReward ==
  /\ section = "reward"
  /\ Build("safe_reward", Claims(game), RewardProjection(game))

(* No attempt is left, or no entry can be challenged.                      *)
NoAttempt(family) ==
  IF family = "personal_boss"
    THEN game.free = 0 /\ ~settings.paid
    ELSE EntriesFor(family, game) = {}

RefuseBoss(family) ==
  /\ section = "boss"
  /\ NoAttempt(family)
  /\ Build(family, {}, BossProjection(game, None))

(* Without an entry to search the builder raises (GameSchemaMismatch).     *)
BossRead(family) ==
  /\ section = "boss"
  /\ Idle /\ plan = None
  /\ ~NoAttempt(family)
  /\ EntriesFor(family, game) # {}

(* A potion to switch, no slot to win for, or all entries are blocked.     *)
SkipSearch(family) ==
  /\ BossRead(family)
  /\ ~Searchable(game) \/ Pairs(EntriesFor(family, game)) = {}
  /\ Build(family, {}, BossProjection(BossView(family, game), None))

(* The view is read, and the first preview requested.                      *)
StartSearch(family) ==
  /\ BossRead(family)
  /\ Searchable(game)
  /\ Pairs(EntriesFor(family, game)) # {}
  /\ boss' = BossView(family, game)
  /\ Visit(Pairs(EntriesFor(family, game)))
  /\ goal' = family
  /\ UNCHANGED <<settings, section, game, version, plan>>

SearchStep ==
  /\ Search
  /\ UNCHANGED <<settings, section, game, version, goal, plan>>

(* The view in the projection is the one the search was started with.      *)
FinishSearch ==
  /\ \/ /\ step = "chosen"
        /\ \E x \in Selections : Decide(goal, {x.action}, BossProjection(boss, x))
     \/ /\ NothingLeft
        /\ Decide(goal, {}, BossProjection(boss, None))
  /\ Stop
  /\ goal' = None
  /\ UNCHANGED <<settings, section, game, version>>

(* A preview raises: there is no plan.                                     *)
SearchFails ==
  /\ step \in {"baseline", "affixes"}
  /\ Stop
  /\ goal' = None
  /\ UNCHANGED <<settings, section, game, version, plan>>

(* External: the player or the game's clock.                               *)
GameMoves ==
  /\ game' \in Sections[section]
  /\ UNCHANGED <<settings, search, section, version, goal, plan>>

(* Five minutes after it was made the plan cannot be executed any more.    *)
Expire ==
  /\ plan # None
  /\ plan' = None
  /\ UNCHANGED <<settings, search, section, game, version, goal>>

(* PostgresPolicyService.save takes the lock that a builder holds.         *)
SavePolicy ==
  /\ Idle
  /\ version < MaxVersion
  /\ version' = version + 1
  /\ settings' \in Settings
  /\ UNCHANGED <<search, section, game, goal, plan>>

Next ==
  \/ BuildIdle \/ BuildWorld \/ BuildProfession \/ BuildReward
  \/ \E family \in {"personal_boss", "ordinary_boss"} :
       RefuseBoss(family) \/ SkipSearch(family) \/ StartSearch(family)
  \/ SearchStep \/ FinishSearch \/ SearchFails
  \/ GameMoves \/ Expire \/ SavePolicy

Spec == Init /\ [][Next]_vars

-----------------------------------------------------------------------------
(* Properties. *)

Families ==
  {"idle", "world_boss", "profession", "safe_reward", "personal_boss", "ordinary_boss"}

Actions ==
  [kind : {"collect", "settle"}]
    \cup [kind : {"assist"}, boss : Int]
    \cup [kind : {"enqueue"}, recipe : Int, count : 1..QueueLimit]
    \cup [kind : {"claim"}, reward : Int]
    \cup [kind : {"challenge"}, boss : Int, difficulty : Difficulties,
          config : Configs, affix : Int \cup {None}, slot : Int, material : BOOLEAN]

(* The state of the searches and of the plans; a plan queues at least one  *)
(* action and not more than the game takes (_profession_action).           *)
TypeOK ==
  /\ SearchTypes
  /\ section \in DOMAIN Sections /\ game \in Sections[section]
  /\ version \in 1..MaxVersion
  /\ goal \in {"personal_boss", "ordinary_boss", None}
  /\ goal = None <=> Idle
  /\ plan # None => /\ plan.family \in Families
                    /\ plan.action \in Actions \cup {None}
                    /\ plan.version \in 1..version

(* The answer s has the projection that the builder of plan p kept: taken  *)
(* by the builder's own rule and, for a boss, with the plan's selection.   *)
Alike(p, s) ==
  p.projection =
    CASE p.family = "idle" -> IdleProjection(s)
      [] p.family = "world_boss" -> WorldProjection(s)
      [] p.family = "profession" -> ProfessionProjection(s)
      [] p.family = "safe_reward" -> RewardProjection(s)
      [] OTHER -> BossProjection(BossView(p.family, s), p.projection.selection)

(* What the builders ask of the game and of the policy before they select  *)
(* an action: neither more nor less than the code asks.                    *)
Collectable(s) ==
  \/ s.seconds >= settings.threshold
  \/ s.capacity # NoCeiling /\ s.seconds >= s.capacity

Assistance(a, s) ==
  /\ settings.collaborate
  /\ \E i \in s : i.key = a.boss /\ Assistable(i)

(* A milestone and a stock below its target are enqueued without a look at *)
(* the inputs, and no count is bounded by them.                            *)
Queueable(a, s) ==
  /\ \E r \in s.recipes :
       /\ r.key = a.recipe
       /\ \/ r.milestone
          \/ Short(s, r, "food", settings.food)
          \/ Short(s, r, "potion", settings.potion)
          \/ Supplied(s, r)
  /\ s.queued + a.count <= QueueLimit

Claimable(a, s) ==
  \E n \in DOMAIN s.candidates :
    s.candidates[n].key = a.reward /\ Safe(s, s.candidates[n])

(* The preview that counts is the one in the projection: what the game     *)
(* would predict now no view shows.                                        *)
Challengeable(p, s) ==
  LET a == p.action
  IN  /\ p.projection.selection.action = a
      /\ Eligible(p.projection.selection.preview)
      /\ \E e \in EntriesFor(p.family, s) :
           e.key = a.boss /\ ~e.blocked /\ a.difficulty \in e.options
      /\ p.family = "personal_boss" => s.free > 0 \/ settings.paid
      /\ \E slot \in s.slots : slot.key = a.slot /\ slot.eligible
      /\ a.material => s.material > settings.reserve
      /\ ~s.potionSwitch

Demands(p, s) ==
  CASE p.action.kind = "collect" -> Collectable(s)
    [] p.action.kind = "assist" -> Assistance(p.action, s)
    [] p.action.kind = "enqueue" -> Queueable(p.action, s)
    [] p.action.kind = "claim" -> Claimable(p.action, s)
    [] p.action.kind = "challenge" -> Challengeable(p, s)
    [] OTHER -> TRUE

(* However the game and the policy have moved since a plan was made: while *)
(* the version is the plan's and the game looks as the plan's projection   *)
(* says, all that the builder asked for when it selected the action is     *)
(* still so.  The projections leave nothing out that a decision rests on,  *)
(* and a boss plan is bound to the view its search began with, not to the  *)
(* one at its end (engine.py, rewards.py).  What the code does not ask for *)
(* is not part of it: a recipe's inputs in the first three priorities,     *)
(* materials for the whole count, the minute of the day.                   *)
ProjectionSuffices ==
  /\ plan # None
  /\ plan.action # None
  /\ plan.version = version
  /\ Alike(plan, game)
  => Demands(plan, game)

(* Task 5 design, lines 13-14: a plan uses the same projection when it is  *)
(* created (build_idle_plan) and executed (idle_resolver).                 *)
ResolverAgrees ==
  [][BuildIdle => plan'.projection = ResolvedProjection(game)]_vars
=============================================================================
