-------------------------- MODULE PolicyEngine_proofs --------------------------
(***************************************************************************)
(* Proofs about PolicyEngine (placegame/policy/engine.py, rewards.py) and  *)
(* BossOptimizer (boss_optimizer.py), for every set of views, policies and *)
(* previews.                                                               *)
(*                                                                         *)
(* A plan is judged against every view that looks to it like the one it    *)
(* was made from: what its builder asked for is so in all of them.  Only a *)
(* new policy version changes that, and then the plan is not of the        *)
(* current version.  A search keeps the view it was started with.  In its ranking  *)
(* every place is taken once, so that the first of the shortlist is the    *)
(* best of all answers, and each try has a configuration and an affix.     *)
(***************************************************************************)
EXTENDS PolicyEngine, FiniteSetTheorems, TLAPS

(* What a search owes to the view it was started with.                     *)
SearchInv ==
  ~Idle =>
    /\ section = "boss"
    /\ goal \in {"personal_boss", "ordinary_boss"}
    /\ goal = "personal_boss" => boss.free > 0 \/ settings.paid
    /\ ~boss.potionSwitch
    /\ \A e \in boss.entries : e \in EntriesFor(goal, boss)
    /\ pair \in Pairs(boss.entries)
    /\ left \subseteq Pairs(boss.entries)

(* Where a search is, and that what it chooses is eligible.                *)
ChoiceInv ==
  /\ SearchTypes
  /\ goal \in {"personal_boss", "ordinary_boss", None}
  /\ goal = None <=> Idle
  /\ boss # None => boss \in BossStates /\ IsFiniteSet(boss.affixes)
  /\ step = "baseline" => choice = None /\ Len(seen) < NConfigs
  /\ step = "chosen" => choice # None
  /\ NothingOverlooked

DemandsMet(p) ==
  p.action # None /\ p.version = version =>
    \A t \in Sections[section] : Alike(p, t) => Demands(p, t)

PlanInv ==
  /\ section \in DOMAIN Sections
  /\ game \in Sections[section]
  /\ version \in Nat
  /\ settings \in Settings
  /\ plan # None => plan.version \in Nat /\ plan.version <= version
  /\ \A p : plan = p /\ p # None => DemandsMet(p)

-----------------------------------------------------------------------------
(* Family by family: what is asked for when an action is selected on one   *)
(* view is so in all views that have its projection.                       *)

LEMMA IdleAlike ==
  ASSUME NEW s \in IdleViews, NEW t \in IdleViews, settings \in Settings,
         NEW a \in Collects(s), NEW p, p = Plan("idle", a, IdleProjection(s)),
         Alike(p, t)
  PROVE  Demands(p, t)
<1>1. a.kind = "collect" /\ Collects(s) # {}
  BY DEF Collects
<1>2. p.family = "idle" /\ p.action = a /\ p.projection = IdleProjection(s)
  BY DEF Plan
<1>3. IdleProjection(t) = IdleProjection(s)
  BY <1>2 DEF Alike
<1>4. Collects(t) # {}
  BY <1>1, <1>3 DEF IdleProjection
<1>5. t.seconds >= Threshold(t)
  BY <1>4 DEF Collects
<1>6. Collectable(t)
  BY <1>5 DEF Threshold, Collectable
<1>7. QED BY <1>1, <1>2, <1>6 DEF Demands

LEMMA WorldAlike ==
  ASSUME NEW s, NEW t, NEW m, NEW a \in Assists(s, m),
         NEW p, p = Plan("world_boss", a, WorldProjection(s)), Alike(p, t)
  PROVE  Demands(p, t)
<1>1. p.family = "world_boss" /\ p.action = a /\ p.projection = WorldProjection(s)
  BY DEF Plan
<1>2. t = s
  BY <1>1 DEF Alike, WorldProjection
<1>3. PICK i \in s : /\ a = [kind |-> "assist", boss |-> i.key]
                     /\ settings.collaborate /\ Assistable(i)
  BY DEF Assists
<1>4. a.kind = "assist" /\ Assistance(a, t)
  BY <1>2, <1>3 DEF Assistance
<1>5. QED BY <1>1, <1>4 DEF Demands

(* The queue takes what is enqueued.                                       *)
LEMMA CountFits ==
  ASSUME NEW s \in ProfessionViews, NEW r \in s.recipes, settings \in Settings,
         s.queued < QueueLimit
  PROVE  /\ Count(s, r) \in 1..QueueLimit
         /\ s.queued + Count(s, r) <= QueueLimit
<1>1. s.queued \in Nat /\ s.seconds \in Nat /\ r.duration \in Nat \ {0}
  BY ViewAssumption DEF ProfessionStates, Recipes
<1>2. settings.horizon \in Nat
  BY EngineAssumption DEF SettingFields
<1>3. Lasting(s, r) \in Nat \ {0}
  <2> DEFINE missing == IF settings.horizon > s.seconds THEN settings.horizon - s.seconds
                        ELSE 0
             n == (missing + r.duration - 1) \div r.duration
  <2>1. missing \in Nat
    BY <1>1, <1>2
  <2>2. missing + r.duration - 1 \in Nat
    BY <1>1, <2>1
  <2>3. n \in Nat
    BY <1>1, <2>2
  <2>4. QED BY <2>3 DEF Lasting
<1>4. QED BY <1>1, <1>3, EngineAssumption DEF Count

LEMMA ProfessionAlike ==
  ASSUME NEW s \in ProfessionViews, NEW t, NEW m, NEW a \in Upkeep(s, m),
         settings \in Settings,
         NEW p, p = Plan("profession", a, ProfessionProjection(s)), Alike(p, t)
  PROVE  Demands(p, t)
<1>1. p.family = "profession" /\ p.action = a /\ p.projection = ProfessionProjection(s)
  BY DEF Plan
<1>2. t = s
  BY <1>1 DEF Alike, ProfessionProjection
<1>3. CASE m % 5 = 0
  BY <1>1, <1>3 DEF Upkeep, Demands
<1>4. CASE m % 5 # 0
  <2>1. PICK r \in s.recipes :
          /\ a = [kind |-> "enqueue", recipe |-> r.key, count |-> Count(s, r)]
          /\ Wanted(s, r) < 5
    BY <1>4 DEF Upkeep, Enqueues, Recipe
  <2>2. s.queued < QueueLimit
    BY <1>4 DEF Upkeep, Enqueues
  <2>3. \/ r.milestone
        \/ Short(s, r, "food", settings.food)
        \/ Short(s, r, "potion", settings.potion)
        \/ Supplied(s, r)
    BY <2>1 DEF Wanted
  <2>4. s.queued + Count(s, r) <= QueueLimit
    BY <2>2, CountFits
  <2>5. a.kind = "enqueue" /\ Queueable(a, t)
    BY <1>2, <2>1, <2>3, <2>4 DEF Queueable
  <2>6. QED BY <1>1, <2>5 DEF Demands
<1>5. QED BY <1>3, <1>4

LEMMA RewardAlike ==
  ASSUME NEW s, NEW t, NEW a \in Claims(s),
         NEW p, p = Plan("safe_reward", a, RewardProjection(s)), Alike(p, t)
  PROVE  Demands(p, t)
<1>1. p.family = "safe_reward" /\ p.action = a /\ p.projection = RewardProjection(s)
  BY DEF Plan
<1>2. /\ t.inventory = s.inventory
      /\ \A n \in DOMAIN s.candidates : \E k \in DOMAIN t.candidates :
           t.candidates[k] = s.candidates[n]
  <2>1. RewardProjection(t) = RewardProjection(s)
    BY <1>1 DEF Alike
  <2>2. t.inventory = s.inventory
    BY <2>1 DEF RewardProjection
  <2>3. {t.candidates[n] : n \in DOMAIN t.candidates}
          = {s.candidates[n] : n \in DOMAIN s.candidates}
    BY <2>1 DEF RewardProjection
  <2>4. QED BY <2>2, <2>3
<1>3. PICK n \in DOMAIN s.candidates :
        /\ a = [kind |-> "claim", reward |-> s.candidates[n].key]
        /\ Safe(s, s.candidates[n])
  BY DEF Claims
<1>4. PICK k \in DOMAIN t.candidates : t.candidates[k] = s.candidates[n]
  BY <1>2
<1>5. t.candidates[k].key = a.reward /\ Safe(t, t.candidates[k])
  BY <1>2, <1>3, <1>4 DEF Safe
<1>6. a.kind = "claim" /\ Claimable(a, t)
  BY <1>3, <1>5 DEF Claimable
<1>7. QED BY <1>1, <1>6 DEF Demands

LEMMA BossAlike ==
  ASSUME NEW t \in BossViews, NEW f \in {"personal_boss", "ordinary_boss"}, f = goal,
         SearchInv, ChoiceInv, step = "chosen", NEW x \in Selections,
         NEW p, p = Plan(f, x.action, BossProjection(boss, x)), Alike(p, t)
  PROVE  Demands(p, t)
<1>1. p.family = f /\ p.action = x.action /\ p.projection = BossProjection(boss, x)
  BY DEF Plan
<1>2. PICK slot \in TargetSlot(boss) :
        x = [action |-> Challenge(slot), preview |-> choice.preview]
  BY DEF Selections
<1> DEFINE a == p.action
<1>3. a.kind = "challenge" /\ a.boss = pair[1].key /\ a.difficulty = pair[2]
      /\ a.slot = slot.key /\ a.material = Uses(pair[2], boss)
  BY <1>1, <1>2 DEF Challenge
<1>4. BossView(f, t) = boss
  BY <1>1 DEF Alike, BossProjection
<1>5. /\ EntriesFor(f, t) = boss.entries /\ t.free = boss.free /\ t.slots = boss.slots
      /\ t.material = boss.material /\ t.potionSwitch = boss.potionSwitch
  BY <1>4, ViewAssumption DEF BossView, BossStates
<1>6. p.projection.selection.action = a /\ Eligible(p.projection.selection.preview)
  BY <1>1, <1>2 DEF BossProjection, ChoiceInv, NothingOverlooked
<1>7. ~Idle
  BY DEF Idle
<1>8. \E e \in EntriesFor(f, t) :
        e.key = a.boss /\ ~e.blocked /\ a.difficulty \in e.options
  BY <1>3, <1>5, <1>7 DEF SearchInv, Pairs
<1>9. \E y \in t.slots : y.key = a.slot /\ y.eligible
  BY <1>3, <1>5 DEF TargetSlot, EligibleSlots
<1>10. a.material => t.material > settings.reserve
  BY <1>3, <1>5 DEF Uses
<1>11. (f = "personal_boss" => t.free > 0 \/ settings.paid) /\ ~t.potionSwitch
  BY <1>5, <1>7 DEF SearchInv
<1>12. Challengeable(p, t)
  BY <1>1, <1>6, <1>8, <1>9, <1>10, <1>11 DEF Challengeable
<1>13. QED BY <1>3, <1>12 DEF Demands

-----------------------------------------------------------------------------
(* The search.                                                             *)

LEMMA ViewedEntries ==
  ASSUME NEW v \in BossViews, NEW f
  PROVE  /\ BossView(f, v).entries = EntriesFor(f, v)
         /\ BossView(f, v).free = v.free
         /\ BossView(f, v).potionSwitch = v.potionSwitch
         /\ \A e \in EntriesFor(f, v) : e \in EntriesFor(f, BossView(f, v))
BY ViewAssumption DEF BossView, BossStates, EntriesFor

LEMMA SearchInductive == PlanInv /\ SearchInv /\ [Next]_vars => SearchInv'
<1> SUFFICES ASSUME PlanInv, SearchInv, [Next]_vars PROVE SearchInv'
  OBVIOUS
<1> USE DEF search
<1>1. ASSUME UNCHANGED <<settings, search, section, goal>> PROVE SearchInv'
  BY <1>1 DEF SearchInv, Idle, Pairs, EntriesFor
<1>2. ASSUME NEW f, NEW actions, NEW p, Build(f, actions, p) PROVE SearchInv'
  BY <1>1, <1>2 DEF Build
<1>3. ASSUME NEW f \in {"personal_boss", "ordinary_boss"}, StartSearch(f) PROVE SearchInv'
  <2>1. game \in BossViews
    BY <1>3 DEF StartSearch, BossRead, PlanInv, Sections
  <2>2. /\ section' = "boss" /\ goal' = f /\ boss' = BossView(f, game)
        /\ settings' = settings
        /\ pair' \in First(Pairs(EntriesFor(f, game)))
        /\ left' = Pairs(EntriesFor(f, game)) \ {pair'}
        /\ ~game.potionSwitch
        /\ f = "personal_boss" => game.free # 0 \/ settings.paid
    BY <1>3 DEF StartSearch, BossRead, NoAttempt, Visit, Searchable
  <2>3. game.free # 0 => game.free > 0
    BY <2>1, ViewAssumption DEF BossStates
  <2>4. boss'.entries = EntriesFor(f, game)
    BY <2>1, <2>2, ViewedEntries
  <2>5. pair' \in Pairs(boss'.entries) /\ left' \subseteq Pairs(boss'.entries)
    BY <2>2, <2>4 DEF First
  <2>6. QED
    BY <2>1, <2>2, <2>3, <2>4, <2>5, ViewedEntries DEF SearchInv, EntriesFor, Pairs
<1>4. ASSUME SearchStep PROVE SearchInv'
  <2>1. UNCHANGED <<settings, section, goal, boss>> /\ ~Idle
    BY <1>4 DEF SearchStep, Search, PreviewBaseline, PreviewAffix, Conclude, NextPair, Idle
  <2>2. CASE UNCHANGED <<pair, left>>
    BY <2>1, <2>2 DEF SearchInv, Pairs, EntriesFor
  <2>3. CASE NextPair
    <3>1. pair' \in left /\ left' \subseteq left
      BY <2>3 DEF NextPair, Visit, First
    <3>2. QED BY <2>1, <3>1 DEF SearchInv, Pairs, EntriesFor
  <2>4. QED
    BY <1>4, <2>2, <2>3 DEF SearchStep, Search, PreviewBaseline, PreviewAffix, Conclude
<1>5. ASSUME Stop PROVE SearchInv'
  BY <1>5 DEF Stop, SearchInv, Idle
<1>6. ASSUME SavePolicy PROVE SearchInv'
  BY <1>6 DEF SavePolicy, SearchInv, Idle
<1>7. CASE UNCHANGED vars
  BY <1>1, <1>7 DEF vars
<1>8. CASE Next
  <2>1. ASSUME NEW f \in {"personal_boss", "ordinary_boss"},
               RefuseBoss(f) \/ SkipSearch(f) \/ StartSearch(f)
        PROVE  SearchInv'
    BY <2>1, <1>2, <1>3 DEF RefuseBoss, SkipSearch
  <2>2. QED
    BY <1>8, <1>1, <1>2, <1>4, <1>5, <1>6, <2>1
    DEF Next, BuildIdle, BuildWorld, BuildProfession, BuildReward, FinishSearch,
        SearchFails, GameMoves, Expire
<1>9. QED BY <1>7, <1>8

-----------------------------------------------------------------------------
(* The plan.                                                               *)

(* Neither the projections nor the demands change under one policy.        *)
LEMMA SamePolicy ==
  ASSUME settings' = settings
  PROVE  /\ \A p, t : Alike(p, t)' <=> Alike(p, t)
         /\ \A p, t : Demands(p, t)' <=> Demands(p, t)
<1>1. \A p, t : Alike(p, t)' <=> Alike(p, t)
  BY DEF Alike, IdleProjection, Collects, Threshold, WorldProjection,
         ProfessionProjection, RewardProjection, BossProjection, BossView, EntriesFor
<1>2. \A p, t : Demands(p, t)' <=> Demands(p, t)
  BY DEF Demands, Collectable, Assistance, Assistable, Queueable, Short, Supplied,
         Claimable, Safe, Challengeable, Eligible, EntriesFor
<1>3. QED BY <1>1, <1>2

LEMMA DecideAlike ==
  ASSUME PlanInv, NEW f, NEW actions, NEW projection, Decide(f, actions, projection),
         UNCHANGED <<settings, section, version>>, game' \in Sections[section],
         \A a \in actions, t \in Sections[section] :
           Alike(Plan(f, a, projection), t) => Demands(Plan(f, a, projection), t)
  PROVE  PlanInv'
<1>1. PICK a \in IF actions = {} THEN {None} ELSE actions :
        plan' = Plan(f, a, projection)
  BY DEF Decide
<1>2. a # None => a \in actions
  BY <1>1
<1>3. Plan(f, a, projection).action = a /\ Plan(f, a, projection).version = version
  BY DEF Plan
<1>4. ASSUME NEW p, p = plan' PROVE DemandsMet(p)'
  <2>1. SUFFICES ASSUME a # None, NEW t \in Sections[section], Alike(p, t)
                 PROVE  Demands(p, t)
    BY <1>1, <1>3, <1>4, SamePolicy DEF DemandsMet, Sections
  <2>2. QED BY <1>1, <1>2, <1>4, <2>1
<1>5. Sections' = Sections
  BY DEF Sections
<1>6. QED BY <1>1, <1>3, <1>4, <1>5 DEF PlanInv

LEMMA PlanInductive == PlanInv /\ SearchInv /\ ChoiceInv /\ [Next]_vars => PlanInv'
<1> SUFFICES ASSUME PlanInv, SearchInv, ChoiceInv, [Next]_vars PROVE PlanInv'
  OBVIOUS
<1> USE DEF search
<1>1. ASSUME UNCHANGED <<settings, section, version>>, plan' \in {plan, None},
             game' \in Sections[section]
      PROVE  PlanInv'
  <2>1. \A p : DemandsMet(p) => DemandsMet(p)'
    BY <1>1, SamePolicy DEF DemandsMet, Sections
  <2>2. QED BY <1>1, <2>1 DEF PlanInv, Sections
<1>2. ASSUME NEW f, NEW p, Build(f, {}, p) PROVE PlanInv'
  BY <1>2, DecideAlike DEF Build, PlanInv
<1>3. ASSUME BuildIdle PROVE PlanInv'
  <2>1. \A a \in Collects(game), t \in IdleViews :
          Alike(Plan("idle", a, IdleProjection(game)), t)
            => Demands(Plan("idle", a, IdleProjection(game)), t)
    BY <1>3, IdleAlike DEF BuildIdle, PlanInv, Sections
  <2>2. QED BY <1>3, <2>1, DecideAlike DEF BuildIdle, Build, PlanInv, Sections
<1>4. ASSUME BuildWorld PROVE PlanInv'
  <2>1. PICK m \in Minutes : Build("world_boss", Assists(game, m), WorldProjection(game))
    BY <1>4 DEF BuildWorld
  <2>2. \A a \in Assists(game, m), t \in Sections[section] :
          Alike(Plan("world_boss", a, WorldProjection(game)), t)
            => Demands(Plan("world_boss", a, WorldProjection(game)), t)
    BY WorldAlike
  <2>3. QED BY <2>1, <2>2, DecideAlike DEF Build, PlanInv
<1>5. ASSUME BuildProfession PROVE PlanInv'
  <2>1. PICK m \in Minutes :
          Build("profession", Upkeep(game, m), ProfessionProjection(game))
    BY <1>5 DEF BuildProfession
  <2>2. game \in ProfessionViews /\ settings \in Settings
    BY <1>5 DEF BuildProfession, PlanInv, Sections
  <2>3. \A a \in Upkeep(game, m), t \in Sections[section] :
          Alike(Plan("profession", a, ProfessionProjection(game)), t)
            => Demands(Plan("profession", a, ProfessionProjection(game)), t)
    BY <2>2, ProfessionAlike
  <2>4. QED BY <2>1, <2>3, DecideAlike DEF Build, PlanInv
<1>6. ASSUME BuildReward PROVE PlanInv'
  <2>1. \A a \in Claims(game), t \in Sections[section] :
          Alike(Plan("safe_reward", a, RewardProjection(game)), t)
            => Demands(Plan("safe_reward", a, RewardProjection(game)), t)
    BY RewardAlike
  <2>2. QED BY <1>6, <2>1, DecideAlike DEF BuildReward, Build, PlanInv
<1>7. ASSUME FinishSearch PROVE PlanInv'
  <2>1. ~Idle /\ UNCHANGED <<settings, section, game, version>>
    BY <1>7 DEF FinishSearch, Idle, NothingLeft
  <2>2. PICK f \in {"personal_boss", "ordinary_boss"} : f = goal
    BY <2>1 DEF SearchInv
  <2>3. Sections[section] = BossViews
    BY <2>1 DEF SearchInv, Sections
  <2>4. CASE Decide(f, {}, BossProjection(boss, None))
    BY <2>1, <2>4, DecideAlike DEF PlanInv
  <2>5. ASSUME step = "chosen", NEW x \in Selections,
               Decide(f, {x.action}, BossProjection(boss, x))
        PROVE  PlanInv'
    <3>1. \A t \in Sections[section] :
            Alike(Plan(f, x.action, BossProjection(boss, x)), t)
              => Demands(Plan(f, x.action, BossProjection(boss, x)), t)
      BY <2>2, <2>3, <2>5, BossAlike
    <3>2. QED BY <2>1, <2>5, <3>1, DecideAlike DEF PlanInv
  <2>6. QED BY <1>7, <2>2, <2>4, <2>5 DEF FinishSearch
<1>8. ASSUME SavePolicy PROVE PlanInv'
  <2>1. /\ version' = version + 1 /\ settings' \in Settings
        /\ UNCHANGED <<section, game, plan>>
    BY <1>8 DEF SavePolicy
  <2>2. \A p : plan' = p /\ p # None => p.version # version'
    BY <2>1 DEF PlanInv
  <2>3. \A p : plan' = p /\ p # None => DemandsMet(p)'
    BY <2>2 DEF DemandsMet
  <2>4. QED BY <2>1, <2>3 DEF PlanInv, Sections
<1>9. CASE UNCHANGED vars
  BY <1>1, <1>9 DEF vars, PlanInv
<1>10. CASE Next
  <2>1. ASSUME NEW f \in {"personal_boss", "ordinary_boss"},
               RefuseBoss(f) \/ SkipSearch(f) \/ StartSearch(f)
        PROVE  PlanInv'
    BY <2>1, <1>1, <1>2 DEF RefuseBoss, SkipSearch, StartSearch, PlanInv
  <2>2. ASSUME SearchStep \/ SearchFails \/ GameMoves \/ Expire PROVE PlanInv'
    BY <2>2, <1>1 DEF SearchStep, SearchFails, GameMoves, Expire, PlanInv
  <2>3. QED
    BY <1>10, <1>3, <1>4, <1>5, <1>6, <1>7, <1>8, <2>1, <2>2 DEF Next
<1>11. QED BY <1>9, <1>10

-----------------------------------------------------------------------------
(* The rankings.  In a finite set with a strict total order every place,   *)
(* counted from 0, is taken.                                               *)

Orders(R, S) ==
  /\ \A c \in S : <<c, c>> \notin R
  /\ \A c, d, e \in S : <<c, d>> \in R /\ <<d, e>> \in R => <<c, e>> \in R
  /\ \A c, d \in S : c # d => <<c, d>> \in R \/ <<d, c>> \in R

Rank(R, S, c) == Cardinality({d \in S : <<d, c>> \in R})

LEMMA EveryPlaceTaken ==
  ASSUME NEW S, IsFiniteSet(S), NEW R, Orders(R, S),
         NEW n \in Nat, n < Cardinality(S)
  PROVE  \E c \in S : Rank(R, S, c) = n
<1> DEFINE Up(c) == {d \in S : <<d, c>> \in R}
           place == [c \in S |-> Cardinality(Up(c))]
<1>1. PICK N \in Nat : N = Cardinality(S)
  BY FS_CardinalityType
<1>2. ASSUME NEW c \in S
      PROVE  IsFiniteSet(Up(c)) /\ Cardinality(Up(c)) \in Nat /\ Cardinality(Up(c)) < N
  <2>1. Up(c) \in SUBSET S /\ c \notin Up(c)
    BY DEF Orders
  <2> HIDE DEF Up
  <2>2. /\ IsFiniteSet(Up(c)) /\ Cardinality(Up(c)) <= Cardinality(S)
        /\ Cardinality(S) = Cardinality(Up(c)) => S = Up(c)
    BY <2>1, FS_Subset
  <2>3. PICK k \in Nat : k = Cardinality(Up(c))
    BY <2>2, FS_CardinalityType
  <2>4. k <= N /\ k # N
    BY <1>1, <2>1, <2>2, <2>3
  <2>5. k < N
    BY <2>4
  <2>6. QED BY <2>2, <2>3, <2>5
<1>3. ASSUME NEW c \in S, NEW d \in S, <<c, d>> \in R
      PROVE  Cardinality(Up(c)) < Cardinality(Up(d))
  <2>1. Up(c) \in SUBSET Up(d) /\ c \in Up(d) /\ c \notin Up(c)
    BY <1>3 DEF Orders
  <2>2. IsFiniteSet(Up(d)) /\ Cardinality(Up(c)) \in Nat /\ Cardinality(Up(d)) \in Nat
    BY <1>2
  <2>3. /\ Cardinality(Up(c)) <= Cardinality(Up(d))
        /\ Cardinality(Up(d)) = Cardinality(Up(c)) => Up(d) = Up(c)
    BY <2>1, <2>2, FS_Subset
  <2>4. Up(d) # Up(c)
    BY <2>1
  <2>5. QED BY <2>2, <2>3, <2>4
<1> HIDE DEF Up
<1>4. place \in Injection(S, 0..N-1)
  <2>1. place \in [S -> 0..N-1]
    BY <1>1, <1>2
  <2>2. \A c, d \in S : place[c] = place[d] => c = d
    <3> SUFFICES ASSUME NEW c \in S, NEW d \in S, c # d PROVE place[c] # place[d]
      OBVIOUS
    <3>1. PICK m \in Nat, k \in Nat : m = Cardinality(Up(c)) /\ k = Cardinality(Up(d))
      BY <1>2
    <3>2. m < k \/ k < m
      BY <1>3, <3>1 DEF Orders
    <3>3. QED BY <3>1, <3>2
  <2>3. QED BY <2>1, <2>2 DEF Injection, IsInjective
<1>5. IsFiniteSet(0..N-1) /\ Cardinality(0..N-1) = N
  <2>1. 0 \in Int /\ N - 1 \in Int /\ (IF 0 > N - 1 THEN 0 ELSE (N - 1) - 0 + 1) = N
    BY <1>1
  <2>2. QED BY <2>1, FS_Interval
<1>6. place \in Surjection(S, 0..N-1)
  <2> HIDE DEF place
  <2>1. IsFiniteSet(S) /\ Cardinality(S) = Cardinality(0..N-1)
    BY <1>1, <1>5
  <2>2. QED BY <1>4, <1>5, <2>1, FS_Injection
<1>7. PICK c \in S : place[c] = n
  <2>1. n \in 0..N-1
    BY <1>1
  <2>2. QED BY <1>6, <2>1 DEF Surjection
<1>8. QED BY <1>7 DEF Up, Rank

(* The order of the answers is total: better ones first, and equal ones in *)
(* the order of their configurations.                                      *)
LEMMA AheadOrders ==
  ASSUME NEW answers \in [Configs -> Previews]
  PROVE  /\ \A c \in Configs : ~Ahead(answers, c, c)
         /\ \A c, d, e \in Configs :
              Ahead(answers, c, d) /\ Ahead(answers, d, e) => Ahead(answers, c, e)
         /\ \A c, d \in Configs :
              c # d => Ahead(answers, c, d) \/ Ahead(answers, d, c)
<1>1. \A c \in Configs : /\ c \in Int
                         /\ answers[c].win \in BOOLEAN
                         /\ answers[c].chance \in Int /\ answers[c].vigor \in Int
  <2>1. \A p \in Previews :
          p.win \in BOOLEAN /\ p.chance \in Int /\ p.vigor \in Int
    BY SearchAssumption DEF Previews
  <2>2. \A c \in Configs : c \in Int
    BY SearchAssumption DEF Configs
  <2>3. QED BY <2>1, <2>2
<1>2. QED BY <1>1 DEF Ahead, Better

LEMMA EveryConfigPlaced ==
  ASSUME NEW answers \in [Configs -> Previews], NEW n \in 0..NConfigs - 1
  PROVE  At(answers, n) \in Configs /\ Place(answers, At(answers, n)) = n
<1> DEFINE R == {x \in Configs \X Configs : Ahead(answers, x[1], x[2])}
<1>1. IsFiniteSet(Configs) /\ Cardinality(Configs) = NConfigs
  BY FS_Interval, SearchAssumption DEF Configs
<1>2. \A c, d \in Configs : <<c, d>> \in R <=> Ahead(answers, c, d)
  OBVIOUS
<1>3. n \in Nat /\ n < NConfigs
  BY SearchAssumption
<1> HIDE DEF R
<1>4. Orders(R, Configs)
  BY <1>2, AheadOrders DEF Orders
<1>5. PICK c \in Configs : Rank(R, Configs, c) = n
  BY <1>1, <1>3, <1>4, EveryPlaceTaken
<1>6. Rank(R, Configs, c) = Place(answers, c)
  <2>1. {d \in Configs : <<d, c>> \in R} = {d \in Configs : Ahead(answers, d, c)}
    BY <1>2
  <2>2. QED BY <2>1 DEF Rank, Place
<1>7. QED BY <1>5, <1>6 DEF At

(* Place 0 has the best answer, and it is eligible if any is.              *)
LEMMA BestIsFirst ==
  ASSUME NEW answers \in [Configs -> Previews], NEW c \in Configs,
         settings \in Settings
  PROVE  /\ At(answers, 0) \in Configs
         /\ ~Better(answers[c], answers[At(answers, 0)])
         /\ Eligible(answers[c]) => Eligible(answers[At(answers, 0)])
<1> DEFINE best == At(answers, 0)
<1>1. best \in Configs /\ Place(answers, best) = 0
  BY EveryConfigPlaced, SearchAssumption
<1>2. ~Ahead(answers, c, best)
  <2> DEFINE Up == {d \in Configs : Ahead(answers, d, best)}
  <2>1. IsFiniteSet(Up)
    BY FS_Subset, FS_Interval, SearchAssumption DEF Configs
  <2>2. Up = {}
    BY <1>1, <2>1, FS_EmptySet DEF Place
  <2>3. QED BY <2>2
<1>3. ~Better(answers[c], answers[best])
  BY <1>2 DEF Ahead
<1>4. \A p, q \in Previews : Eligible(p) /\ ~Better(p, q) => Eligible(q)
  <2>1. \A p \in Previews : p.win \in BOOLEAN /\ p.chance \in Int /\ p.vigor \in Int
    BY SearchAssumption DEF Previews
  <2>2. settings.minChance \in Int
    BY EngineAssumption DEF SettingFields
  <2> TAKE p \in Previews, q \in Previews
  <2>3. p.chance \in Int /\ q.chance \in Int
    BY <2>1
  <2>4. CASE q.win
    <3>1. CASE p.chance > q.chance
      BY <2>3, <2>4, <3>1, <2>2 DEF Eligible, Better
    <3>2. CASE ~(p.chance > q.chance)
      BY <2>3, <2>4, <3>2, <2>2 DEF Eligible
    <3>3. QED BY <3>1, <3>2
  <2>5. CASE ~q.win
    BY <2>5 DEF Eligible, Better
  <2>6. QED BY <2>4, <2>5
<1>5. QED BY <1>1, <1>3, <1>4

(* The best answer without an affix is the choice when it is eligible, and *)
(* with no choice none of them is (_for_entry).                            *)
LEMMA BaselineChosen ==
  ASSUME NEW answers \in [Configs -> Previews], settings \in Settings,
         NEW b, b = BestBaseline(answers)
  PROVE  /\ b = None => \A c \in Configs : ~Eligible(answers[c])
         /\ b # None => /\ b \in Choices /\ b.affix = None
                        /\ Eligible(b.preview)
                        /\ \A c \in Configs : ~Better(answers[c], b.preview)
<1> DEFINE good == {n \in 0..Shortlisted - 1 : Eligible(answers[At(answers, n)])}
           first == CHOOSE n \in good : \A m \in good : n <= m
<1>1. At(answers, 0) \in Configs
  BY EveryConfigPlaced, SearchAssumption
<1>2. 0 \in 0..Shortlisted - 1
  BY SearchAssumption
<1>3. CASE good = {}
  <2>1. b = None
    BY <1>3 DEF BestBaseline
  <2>2. ~Eligible(answers[At(answers, 0)])
    BY <1>2, <1>3
  <2>3. QED BY <2>1, <2>2, BestIsFirst
<1>4. CASE good # {}
  <2>1. PICK n \in 0..Shortlisted - 1 : Eligible(answers[At(answers, n)])
    BY <1>4
  <2>2. At(answers, n) \in Configs
    BY EveryConfigPlaced, SearchAssumption
  <2>3. 0 \in good
    BY <1>2, <2>1, <2>2, BestIsFirst
  <2>4. \A m \in good : m \in Nat /\ 0 <= m
    BY SearchAssumption
  <2> HIDE DEF good
  <2>5. first \in good /\ first <= 0
    BY <2>3, <2>4
  <2>6. first = 0
    BY <2>4, <2>5
  <2>7. b = [config |-> At(answers, 0), affix |-> None,
             preview |-> answers[At(answers, 0)]]
    BY <1>4, <2>6 DEF BestBaseline, good
  <2>8. b \in Choices
    BY <1>1, <2>7 DEF Choices
  <2>9. Eligible(b.preview)
    BY <2>3, <2>7 DEF good
  <2>10. b # None
    BY <2>8, ChoiceAssumption
  <2>11. QED BY <2>7, <2>8, <2>9, <2>10, BestIsFirst
<1>5. QED BY <1>3, <1>4

(* The tries are over before the affixes are.                              *)
LEMMA Monotone ==
  ASSUME NEW k \in Nat, NEW q \in Nat, NEW s \in Nat \ {0}, k <= q
  PROVE  k * s <= q * s
<1>1. PICK d \in Nat : q = k + d
  BY SMT
<1>2. q * s = k * s + d * s
  BY <1>1
<1>3. d * s \in Nat /\ k * s \in Nat
  OBVIOUS
<1>4. QED BY <1>2, <1>3

LEMMA Quotient ==
  ASSUME NEW n \in Nat, NEW s \in Nat \ {0}, NEW k \in Nat, n < k * s
  PROVE  n \div s \in Nat /\ n \div s < k
<1>1. PICK q \in Nat, r \in Nat : n = q * s + r /\ q = n \div s
  <2>1. n \div s \in Nat
    OBVIOUS
  <2>2. n % s \in Nat /\ n = (n \div s) * s + (n % s)
    OBVIOUS
  <2>3. QED BY <2>1, <2>2
<1>2. q * s \in Nat /\ q * s < k * s
  BY <1>1
<1>3. ~(k <= q)
  BY <1>2, Monotone
<1>4. QED BY <1>1, <1>3

(* A preview with an affix is of one that the game offers, and of one of   *)
(* the shortlisted configurations (_for_entry).                            *)
LEMMA TriesExist ==
  ASSUME NEW n \in Nat, n < AffixTries,
         boss.affixes \in SUBSET Int, IsFiniteSet(boss.affixes),
         seen \in [Configs -> Previews]
  PROVE  TryAffix(n) \in boss.affixes /\ TryConfig(n) \in Configs
<1>1. Shortlisted \in Nat \ {0} /\ Shortlisted <= NConfigs /\ NConfigs \in Nat
  BY SearchAssumption
<1>2. PICK k \in Nat : k = Cardinality(boss.affixes)
  BY FS_CardinalityType
<1>3. n < k * Shortlisted
  <2>1. k * Shortlisted \in Nat /\ MaxAffixPreviews \in Nat
    BY <1>1, SearchAssumption
  <2>2. QED BY <1>2, <2>1 DEF AffixTries
<1>4. PICK q \in Nat : q = n \div Shortlisted /\ q < k
  BY <1>1, <1>3, Quotient
<1> DEFINE R == {x \in Int \X Int : x[1] < x[2]}
<1>5. \A a, b \in boss.affixes : <<a, b>> \in R <=> a < b
  OBVIOUS
<1>6. Orders(R, boss.affixes)
  BY DEF Orders
<1> HIDE DEF R
<1>7. \E a \in boss.affixes : Rank(R, boss.affixes, a) = q
  BY <1>2, <1>4, <1>6, EveryPlaceTaken
<1>8. ASSUME NEW a \in boss.affixes
      PROVE  Rank(R, boss.affixes, a) = Cardinality({b \in boss.affixes : b < a})
  <2>1. {b \in boss.affixes : <<b, a>> \in R} = {b \in boss.affixes : b < a}
    BY <1>5
  <2>2. QED BY <2>1 DEF Rank
<1>9. TryAffix(n) \in boss.affixes
  BY <1>4, <1>7, <1>8 DEF TryAffix
<1>10. n % Shortlisted \in 0..NConfigs - 1
  BY <1>1
<1>11. TryConfig(n) \in Configs
  BY <1>10, EveryConfigPlaced DEF TryConfig
<1>12. QED BY <1>9, <1>11

-----------------------------------------------------------------------------
(* The state of the searches.                                              *)

(* A boss view as it is searched is a view with fewer entries.             *)
LEMMA ViewedBoss ==
  ASSUME NEW v \in BossViews, NEW f
  PROVE  BossView(f, v) \in BossStates /\ IsFiniteSet(BossView(f, v).affixes)
<1>1. v \in BossStates /\ IsFiniteSet(v.affixes)
  BY ViewAssumption
<1>2. EntriesFor(f, v) \in SUBSET Entries
  BY <1>1 DEF EntriesFor, BossStates
<1>3. QED BY <1>1, <1>2 DEF BossView, BossStates

(* All but the policy is what the state of a search depends on.            *)
LEMMA ChoiceKept ==
  ASSUME ChoiceInv, UNCHANGED <<search, goal>>,
         settings' \in Settings, ~Idle => settings' = settings
  PROVE  ChoiceInv'
<1>1. CASE settings' = settings
  BY <1>1 DEF ChoiceInv, SearchTypes, Idle, NothingOverlooked, Eligible, search
<1>2. CASE Idle
  BY <1>2 DEF ChoiceInv, SearchTypes, Idle, NothingOverlooked, search
<1>3. QED BY <1>1, <1>2

LEMMA ChoiceVisits ==
  ASSUME NEW pairs, Visit(pairs), settings' \in Settings,
         boss' \in BossStates, IsFiniteSet(boss'.affixes),
         goal' \in {"personal_boss", "ordinary_boss"}
  PROVE  ChoiceInv'
<1>1. /\ step' = "baseline" /\ seen' = <<>> /\ tried' = 0 /\ choice' = None
      /\ boss' # None /\ goal' # None
  BY NullAssumption DEF Visit
<1>2. 0 \in 0..MaxAffixPreviews /\ 0 < NConfigs /\ 0 <= NConfigs
  BY SearchAssumption
<1>3. SearchTypes'
  BY <1>1, <1>2 DEF SearchTypes, Idle
<1>4. QED BY <1>1, <1>2, <1>3 DEF ChoiceInv, NothingOverlooked, Idle

LEMMA ChoiceStops ==
  ASSUME Stop, goal' = None, settings' \in Settings
  PROVE  ChoiceInv'
<1>1. /\ step' = "out" /\ seen' = <<>> /\ tried' = 0 /\ choice' = None /\ boss' = None
  BY DEF Stop
<1>2. 0 \in 0..MaxAffixPreviews /\ 0 <= NConfigs
  BY SearchAssumption
<1>3. SearchTypes'
  BY <1>1, <1>2 DEF SearchTypes, Idle
<1>4. QED BY <1>1, <1>3 DEF ChoiceInv, NothingOverlooked, Idle

LEMMA ChoiceSearched ==
  ASSUME ChoiceInv, Search, UNCHANGED <<settings, goal>>
  PROVE  ChoiceInv'
<1>1. ~Idle /\ boss \in BossStates /\ IsFiniteSet(boss.affixes) /\ boss' = boss
      /\ goal' = goal /\ goal \in {"personal_boss", "ordinary_boss"}
      /\ settings' = settings /\ settings \in Settings /\ boss # None
  BY DEF Search, PreviewBaseline, PreviewAffix, Conclude, NextPair, Idle, ChoiceInv,
         SearchTypes
<1>2. ASSUME NEW p \in Previews, PreviewBaseline(p) PROVE ChoiceInv'
  <2>1. /\ step = "baseline" /\ seen \in Seq(Previews) /\ choice = None
        /\ Len(seen) < NConfigs /\ NConfigs \in Nat /\ tried \in 0..MaxAffixPreviews
        /\ tried' = tried /\ seen' = Append(seen, p)
    BY <1>2, SearchAssumption DEF ChoiceInv, SearchTypes, PreviewBaseline
  <2>2. seen' \in Seq(Previews) /\ Len(seen') = Len(seen) + 1
    BY <2>1
  <2>3. CASE Len(seen) + 1 = NConfigs
    <3>1. step' = "affixes" /\ choice' = BestBaseline(seen')
      BY <1>2, <2>1, <2>3 DEF PreviewBaseline
    <3>2. Len(seen') = NConfigs /\ seen' \in [Configs -> Previews]
      BY <2>2, <2>3 DEF Configs
    <3>3. PICK b : b = BestBaseline(seen')
      OBVIOUS
    <3>4. /\ choice' = None => \A c \in Configs : ~Eligible(seen'[c])
          /\ choice' # None => /\ choice' \in Choices /\ choice'.affix = None
                               /\ Eligible(choice'.preview)
                               /\ \A c \in Configs : ~Better(seen'[c], choice'.preview)
      BY <1>1, <3>1, <3>2, <3>3, BaselineChosen
    <3>5. SearchTypes'
      BY <1>1, <2>1, <2>2, <3>1, <3>2, <3>4 DEF SearchTypes, Idle
    <3>6. NothingOverlooked'
      BY <1>1, <3>4 DEF NothingOverlooked, Eligible
    <3>7. QED BY <1>1, <3>1, <3>5, <3>6, NullAssumption DEF ChoiceInv, Idle
  <2>4. CASE Len(seen) + 1 # NConfigs
    <3>1. step' = "baseline" /\ choice' = None
      BY <1>2, <2>1, <2>4 DEF PreviewBaseline
    <3>2. Len(seen') < NConfigs /\ Len(seen') <= NConfigs
      BY <2>1, <2>2, <2>4
    <3>3. SearchTypes'
      BY <1>1, <2>1, <2>2, <3>1, <3>2 DEF SearchTypes, Idle
    <3>4. QED
      BY <1>1, <3>1, <3>2, <3>3, NullAssumption DEF ChoiceInv, Idle, NothingOverlooked
  <2>5. QED BY <2>3, <2>4
<1>3. ASSUME NEW p \in Previews, PreviewAffix(p) PROVE ChoiceInv'
  <2>1. /\ step = "affixes" /\ seen \in [Configs -> Previews] /\ Len(seen) = NConfigs
        /\ seen' = seen /\ seen \in Seq(Previews)
        /\ tried \in Nat /\ tried < AffixTries /\ tried' = tried + 1
    BY <1>3 DEF ChoiceInv, SearchTypes, PreviewAffix, Configs
  <2>2. tried' \in 0..MaxAffixPreviews
    <3>1. PICK k \in Nat : k = Cardinality(boss.affixes)
      BY <1>1, FS_CardinalityType
    <3>2. k * Shortlisted \in Nat /\ MaxAffixPreviews \in Nat
      BY SearchAssumption
    <3>3. AffixTries \in Nat /\ AffixTries <= MaxAffixPreviews
      BY <3>1, <3>2 DEF AffixTries
    <3>4. QED BY <2>1, <3>2, <3>3
  <2>3. CASE Eligible(p)
    <3> DEFINE made == [config |-> TryConfig(tried), affix |-> TryAffix(tried),
                        preview |-> p]
    <3>1. step' = "chosen" /\ choice' = made
      BY <1>3, <2>3 DEF PreviewAffix
    <3>2. boss.affixes \in SUBSET Int
      BY <1>1 DEF BossStates
    <3>3. TryAffix(tried) \in boss.affixes /\ TryConfig(tried) \in Configs
      BY <1>1, <2>1, <3>2, TriesExist
    <3>4. made \in Choices /\ made.affix \in boss.affixes /\ made.affix # None
          /\ made.preview = p
      BY <3>2, <3>3, ChoiceAssumption DEF Choices
    <3>5. made # None
      BY <3>4, ChoiceAssumption
    <3> HIDE DEF made
    <3>6. SearchTypes'
      BY <1>1, <2>1, <2>2, <3>1, <3>4 DEF SearchTypes, Idle, ChoiceInv
    <3>7. NothingOverlooked'
      BY <1>1, <2>3, <3>1, <3>4, <3>5 DEF NothingOverlooked, Eligible
    <3>8. QED BY <1>1, <3>1, <3>5, <3>6, <3>7, NullAssumption DEF ChoiceInv, Idle
  <2>4. CASE ~Eligible(p)
    <3>1. step' = step /\ choice' = choice
      BY <1>3, <2>4 DEF PreviewAffix
    <3>2. SearchTypes'
      BY <1>1, <2>1, <2>2, <3>1 DEF SearchTypes, Idle, ChoiceInv
    <3>3. NothingOverlooked'
      BY <1>1, <2>1, <3>1 DEF NothingOverlooked, Eligible, ChoiceInv
    <3>4. QED BY <1>1, <2>1, <3>1, <3>2, <3>3, NullAssumption DEF ChoiceInv, Idle
  <2>5. QED BY <2>3, <2>4
<1>4. ASSUME Conclude PROVE ChoiceInv'
  <2>1. /\ step = "affixes" /\ step' = "chosen" /\ choice # None
        /\ UNCHANGED <<boss, seen, tried, choice>>
    BY <1>4 DEF Conclude
  <2>2. SearchTypes'
    BY <1>1, <2>1 DEF SearchTypes, Idle, ChoiceInv
  <2>3. NothingOverlooked'
    BY <1>1, <2>1 DEF NothingOverlooked, Eligible, ChoiceInv
  <2>4. QED BY <1>1, <2>1, <2>2, <2>3, NullAssumption DEF ChoiceInv, Idle
<1>5. ASSUME NextPair PROVE ChoiceInv'
  <2>1. Visit(left)
    BY <1>5 DEF NextPair
  <2>2. QED BY <1>1, <2>1, ChoiceVisits
<1>6. QED BY <1>2, <1>3, <1>4, <1>5 DEF Search

LEMMA ChoiceInductive == PlanInv /\ ChoiceInv /\ [Next]_vars => ChoiceInv'
<1> SUFFICES ASSUME PlanInv, ChoiceInv, [Next]_vars PROVE ChoiceInv'
  OBVIOUS
<1>1. settings \in Settings
  BY DEF PlanInv
<1>2. ASSUME UNCHANGED <<search, settings, goal>> PROVE ChoiceInv'
  BY <1>1, <1>2, ChoiceKept
<1>3. ASSUME NEW f, NEW actions, NEW p, Build(f, actions, p) PROVE ChoiceInv'
  BY <1>2, <1>3 DEF Build
<1>4. ASSUME NEW f \in {"personal_boss", "ordinary_boss"}, StartSearch(f) PROVE ChoiceInv'
  <2>1. game \in BossViews
    BY <1>4 DEF StartSearch, BossRead, PlanInv, Sections
  <2>2. /\ boss' = BossView(f, game) /\ Visit(Pairs(EntriesFor(f, game)))
        /\ goal' = f /\ settings' = settings
    BY <1>4 DEF StartSearch
  <2>3. boss' \in BossStates /\ IsFiniteSet(boss'.affixes)
    BY <2>1, <2>2, ViewedBoss
  <2>4. QED BY <1>1, <2>2, <2>3, ChoiceVisits
<1>5. ASSUME SearchStep PROVE ChoiceInv'
  BY <1>5, ChoiceSearched DEF SearchStep
<1>6. ASSUME FinishSearch \/ SearchFails PROVE ChoiceInv'
  BY <1>1, <1>6, ChoiceStops DEF FinishSearch, SearchFails
<1>7. ASSUME SavePolicy PROVE ChoiceInv'
  BY <1>7, ChoiceKept DEF SavePolicy
<1>8. CASE UNCHANGED vars
  BY <1>2, <1>8 DEF vars
<1>9. CASE Next
  <2>1. ASSUME NEW f \in {"personal_boss", "ordinary_boss"},
               RefuseBoss(f) \/ SkipSearch(f) \/ StartSearch(f)
        PROVE  ChoiceInv'
    BY <2>1, <1>3, <1>4 DEF RefuseBoss, SkipSearch
  <2>2. QED
    BY <1>9, <1>2, <1>3, <1>5, <1>6, <1>7, <2>1
    DEF Next, BuildIdle, BuildWorld, BuildProfession, BuildReward, GameMoves, Expire
<1>10. QED BY <1>8, <1>9

-----------------------------------------------------------------------------
(* The actions that are planned.                                           *)

PlanTyped ==
  plan # None => /\ plan.family \in Families
                 /\ plan.action \in Actions \cup {None}
                 /\ plan.version \in 1..version

VersionTyped == version \in 1..MaxVersion /\ PlanTyped

LEMMA CollectsTyped == \A s : Collects(s) \subseteq Actions
BY DEF Collects, Actions

LEMMA AssistsTyped ==
  ASSUME NEW s \in WorldViews, NEW m PROVE Assists(s, m) \subseteq Actions
<1>1. \A i \in s : i.key \in Int
  BY ViewAssumption DEF Instances
<1>2. QED BY <1>1 DEF Assists, Actions

LEMMA UpkeepTyped ==
  ASSUME NEW s \in ProfessionViews, NEW m, settings \in Settings
  PROVE  Upkeep(s, m) \subseteq Actions
<1>1. SUFFICES ASSUME NEW a \in Upkeep(s, m) PROVE a \in Actions
  OBVIOUS
<1>2. CASE m % 5 = 0
  BY <1>2 DEF Upkeep, Actions
<1>3. CASE m % 5 # 0
  <2>1. PICK r \in s.recipes :
          a = [kind |-> "enqueue", recipe |-> r.key, count |-> Count(s, r)]
    BY <1>3 DEF Upkeep, Enqueues, Recipe
  <2>2. s.queued < QueueLimit
    BY <1>3 DEF Upkeep, Enqueues
  <2>3. r.key \in Int
    BY ViewAssumption DEF ProfessionStates, Recipes
  <2>4. Count(s, r) \in 1..QueueLimit
    BY <2>2, CountFits
  <2>5. QED BY <2>1, <2>3, <2>4 DEF Actions
<1>4. QED BY <1>2, <1>3

LEMMA ClaimsTyped ==
  ASSUME NEW s \in RewardViews PROVE Claims(s) \subseteq Actions
<1>1. s.candidates \in Seq(Candidates)
  BY ViewAssumption DEF RewardStates
<1>2. ASSUME NEW q \in Seq(Candidates), NEW n \in DOMAIN q PROVE q[n] \in Candidates
  OBVIOUS
<1>3. \A c \in Candidates : c.key \in Int
  BY DEF Candidates
<1>4. \A n \in DOMAIN s.candidates : s.candidates[n].key \in Int
  BY <1>1, <1>2, <1>3
<1>5. QED BY <1>4 DEF Claims, Actions

LEMMA ChallengesTyped ==
  ASSUME SearchInv, ChoiceInv, step = "chosen", NEW slot \in TargetSlot(boss)
  PROVE  Challenge(slot) \in Actions
<1>1. boss \in BossStates /\ ~Idle
  BY DEF ChoiceInv, SearchTypes, Idle
<1>2. pair[1].key \in Int /\ pair[2] \in Difficulties
  <2>1. pair \in boss.entries \X Difficulties
    BY <1>1 DEF SearchInv, Pairs
  <2>2. pair[1] \in Entries
    BY <1>1, <2>1 DEF BossStates
  <2>3. QED BY <2>1, <2>2 DEF Entries
<1>3. choice.config \in Configs /\ choice.affix \in Int \cup {None}
  BY DEF ChoiceInv, SearchTypes, Choices
<1>4. slot.key \in Int
  <2>1. slot \in Slots
    BY <1>1 DEF TargetSlot, EligibleSlots, BossStates
  <2>2. QED BY <2>1 DEF Slots
<1>5. Uses(pair[2], boss) \in BOOLEAN
  BY DEF Uses
<1>6. QED BY <1>2, <1>3, <1>4, <1>5 DEF Challenge, Actions

LEMMA DecideTyped ==
  ASSUME VersionTyped, NEW f \in Families, NEW actions \in SUBSET Actions,
         NEW projection, Decide(f, actions, projection), version' = version
  PROVE  VersionTyped'
<1>1. PICK a \in Actions \cup {None} :
        plan' = Plan(f, a, projection)
  BY DEF Decide
<1>2. version \in 1..version
  BY DEF VersionTyped
<1>3. plan'.family = f /\ plan'.action = a /\ plan'.version = version
  BY <1>1 DEF Plan
<1>4. Actions' = Actions
  BY DEF Actions
<1>5. QED BY <1>2, <1>3 DEF VersionTyped, PlanTyped

LEMMA TypedInductive ==
  PlanInv /\ SearchInv /\ ChoiceInv /\ VersionTyped /\ [Next]_vars => VersionTyped'
<1> SUFFICES ASSUME PlanInv, SearchInv, ChoiceInv, VersionTyped, [Next]_vars
             PROVE  VersionTyped'
  OBVIOUS
<1>1. game \in Sections[section] /\ settings \in Settings
  BY DEF PlanInv
<1>2. ASSUME plan' \in {plan, None}, version' = version PROVE VersionTyped'
  BY <1>2 DEF VersionTyped, PlanTyped
<1>3. ASSUME NEW f \in Families, NEW actions \in SUBSET Actions, NEW p,
             Build(f, actions, p)
      PROVE  VersionTyped'
  BY <1>3, DecideTyped DEF Build
<1>4. ASSUME BuildIdle PROVE VersionTyped'
  BY <1>3, <1>4, CollectsTyped DEF BuildIdle, Families
<1>5. ASSUME BuildWorld PROVE VersionTyped'
  BY <1>1, <1>3, <1>5, AssistsTyped DEF BuildWorld, Families, Sections
<1>6. ASSUME BuildProfession PROVE VersionTyped'
  BY <1>1, <1>3, <1>6, UpkeepTyped DEF BuildProfession, Families, Sections
<1>7. ASSUME BuildReward PROVE VersionTyped'
  BY <1>1, <1>3, <1>7, ClaimsTyped DEF BuildReward, Families, Sections
<1>8. ASSUME NEW f \in {"personal_boss", "ordinary_boss"},
             RefuseBoss(f) \/ SkipSearch(f) \/ StartSearch(f)
      PROVE  VersionTyped'
  <2>1. CASE RefuseBoss(f) \/ SkipSearch(f)
    BY <1>3, <2>1 DEF RefuseBoss, SkipSearch, Families
  <2>2. CASE StartSearch(f)
    BY <1>2, <2>2 DEF StartSearch
  <2>3. QED BY <1>8, <2>1, <2>2
<1>9. ASSUME FinishSearch PROVE VersionTyped'
  <2>1. ~Idle /\ version' = version
    BY <1>9 DEF FinishSearch, Idle, NothingLeft
  <2>2. goal \in Families
    BY <2>1 DEF SearchInv, Families
  <2>3. CASE Decide(goal, {}, BossProjection(boss, None))
    BY <2>1, <2>2, <2>3, DecideTyped
  <2>4. ASSUME step = "chosen", NEW x \in Selections,
               Decide(goal, {x.action}, BossProjection(boss, x))
        PROVE  VersionTyped'
    <3>1. x.action \in Actions
      BY <2>4, ChallengesTyped DEF Selections
    <3>2. QED BY <2>1, <2>2, <2>4, <3>1, DecideTyped
  <2>5. QED BY <1>9, <2>3, <2>4 DEF FinishSearch
<1>10. ASSUME SavePolicy PROVE VersionTyped'
  <2>1. version < MaxVersion /\ version' = version + 1 /\ plan' = plan
    BY <1>10 DEF SavePolicy
  <2>2. version \in Nat /\ MaxVersion \in Nat /\ 1 <= version
    BY EngineAssumption DEF VersionTyped
  <2>3. version' \in 1..MaxVersion
    BY <2>1, <2>2
  <2>4. \A v \in 1..version : v \in 1..version'
    BY <2>1, <2>2
  <2>5. QED BY <2>1, <2>3, <2>4 DEF VersionTyped, PlanTyped
<1>11. CASE UNCHANGED vars
  BY <1>2, <1>11 DEF vars
<1>12. CASE Next
  <2>1. ASSUME SearchStep \/ SearchFails \/ GameMoves \/ Expire PROVE VersionTyped'
    BY <2>1, <1>2 DEF SearchStep, SearchFails, GameMoves, Expire
  <2>2. QED
    BY <1>12, <1>4, <1>5, <1>6, <1>7, <1>8, <1>9, <1>10, <2>1 DEF Next
<1>13. QED BY <1>11, <1>12

-----------------------------------------------------------------------------
(* The inductive invariant.                                                *)

LEMMA Inductive ==
  /\ Init => PlanInv /\ SearchInv /\ ChoiceInv /\ VersionTyped
  /\ PlanInv /\ SearchInv /\ ChoiceInv /\ VersionTyped /\ [Next]_vars
       => (PlanInv /\ SearchInv /\ ChoiceInv /\ VersionTyped)'
<1>1. ASSUME Init PROVE PlanInv /\ SearchInv /\ ChoiceInv /\ VersionTyped
  <2>1. PlanInv /\ SearchInv
    BY <1>1 DEF Init, PlanInv, SearchInv, Idle
  <2>2. 0 \in 0..MaxAffixPreviews /\ 0 <= NConfigs /\ 1 \in 1..MaxVersion
    BY SearchAssumption, EngineAssumption
  <2>3. SearchTypes
    BY <1>1, <2>2 DEF Init, SearchTypes, Idle
  <2>4. ChoiceInv /\ VersionTyped
    BY <1>1, <2>2, <2>3 DEF Init, ChoiceInv, NothingOverlooked, Idle, VersionTyped,
       PlanTyped
  <2>5. QED BY <2>1, <2>4
<1>2. QED BY <1>1, SearchInductive, PlanInductive, ChoiceInductive, TypedInductive

(* While the version is the plan's and the game looks as its projection    *)
(* says, what the builder asked for when it selected the action is so,     *)
(* however old the view was on which it or a search decided                *)
(* (PolicyEngine.build_*_plan, SafeRewardPlanner.build).                   *)
THEOREM Suffices == Spec => []ProjectionSuffices
<1>1. PlanInv => ProjectionSuffices
  <2> SUFFICES ASSUME PlanInv, plan # None, plan.action # None,
                      plan.version = version, Alike(plan, game)
               PROVE  Demands(plan, game)
    BY DEF ProjectionSuffices
  <2>1. DemandsMet(plan)
    BY DEF PlanInv
  <2>2. QED BY <2>1 DEF DemandsMet, PlanInv
<1>2. QED BY <1>1, Inductive, PTL DEF Spec

(* The types; a plan queues at least one action and no more than the game  *)
(* takes, and challenges with a configuration and an affix that exist      *)
(* (_profession_action, optimize_boss).                                    *)
THEOREM TypeCorrect == Spec => []TypeOK
<1>1. PlanInv /\ ChoiceInv /\ VersionTyped => TypeOK
  BY DEF PlanInv, ChoiceInv, VersionTyped, PlanTyped, TypeOK
<1>2. QED BY <1>1, Inductive, PTL DEF Spec

(* However the game answers, the search chooses an eligible configuration, *)
(* the best without an affix, and passes an entry over only when the game  *)
(* predicted no acceptable win for any of them (_for_entry).               *)
THEOREM NoneOverlooked == Spec => []NothingOverlooked
<1>1. ChoiceInv => NothingOverlooked
  BY DEF ChoiceInv
<1>2. QED BY <1>1, Inductive, PTL DEF Spec
=============================================================================
