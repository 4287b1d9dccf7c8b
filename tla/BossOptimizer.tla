----------------------------- MODULE BossOptimizer -----------------------------
(***************************************************************************)
(* The search for a boss to challenge (placegame/boss_optimizer.py).       *)
(*                                                                         *)
(* For one entry and difficulty after the other the optimizer awaits a     *)
(* preview of every configuration (a skill and a buff), shortlists the     *)
(* best, and awaits previews of those with a reward affix, the highest     *)
(* multiplier first.  The game may answer anything to each of them.        *)
(*                                                                         *)
(* Configurations are numbered by their tie key, affixes by descending     *)
(* multiplier.  The two hit-point percentages of a preview only order      *)
(* previews that are equal otherwise: they are one number, vigor.          *)
(***************************************************************************)
EXTENDS Integers, FiniteSets, Sequences

CONSTANTS
  NConfigs,          \* configurations of a skill and a buff (12)
  Shortlisted,       \* length of the shortlist (3)
  MaxAffixPreviews,  \* previews with an affix, for an entry and difficulty (12)
  Chances,           \* values of chance in a preview
  Vigors,            \* orders of the hit points in a preview
  Settings,          \* policies of the account, without their version
  None

ASSUME SearchAssumption ==
  /\ NConfigs \in Nat \ {0}
  /\ Shortlisted \in 1..NConfigs
  /\ MaxAffixPreviews \in Nat
  /\ Chances \subseteq Int /\ Vigors \subseteq Int

VARIABLES
  settings,  \* the account's policy
  step,      \* where the search is
  boss,      \* the BossState the search was started with
  pair,      \* the entry and difficulty being previewed
  left,      \* the pairs that come after it
  seen,      \* answers to the previews without an affix
  tried,     \* number of previews with an affix
  choice     \* final: a configuration, its affix and its preview

search == <<step, boss, pair, left, seen, tried, choice>>

Configs == 1..NConfigs
Previews == [win : BOOLEAN, chance : Chances, vigor : Vigors]
Choices == [config : Configs, affix : Int \cup {None}, preview : Previews]

ASSUME ChoiceAssumption == None \notin Int \cup Choices

Difficulties == {"nightmare", "hard", "normal"}
Hardness == [nightmare |-> 1, hard |-> 2, normal |-> 3]

Eligible(p) == p.win /\ p.chance >= settings.minChance

(* Slip: the chance comes before the predicted result.                     *)
BetterByChance(p, q) ==
  \/ p.chance > q.chance
  \/ p.chance = q.chance /\ p.vigor > q.vigor

(* Equal previews are in the order of the configurations.                  *)
Better(p, q) ==
  \/ p.win /\ ~q.win
  \/ p.win = q.win /\ p.chance > q.chance
  \/ p.win = q.win /\ p.chance = q.chance /\ p.vigor > q.vigor

Ahead(answers, c, d) ==
  \/ Better(answers[c], answers[d])
  \/ ~Better(answers[d], answers[c]) /\ c < d

(* Place of a configuration in the order of all answers, from 0.           *)
Place(answers, c) == Cardinality({d \in Configs : Ahead(answers, d, c)})
At(answers, n) == CHOOSE c \in Configs : Place(answers, c) = n

(* The first of the shortlist is the choice when it is eligible, and none  *)
(* else is eligible when it is not.                                        *)
BestBaseline(answers) ==
  LET good == {n \in 0..Shortlisted - 1 : Eligible(answers[At(answers, n)])}
      first == CHOOSE n \in good : \A m \in good : n <= m
  IN  IF good = {} THEN None
      ELSE [config |-> At(answers, first), affix |-> None,
            preview |-> answers[At(answers, first)]]

-----------------------------------------------------------------------------
(* Entries by descending level, each from nightmare to normal.             *)

Pairs(entries) ==
  {x \in entries \X Difficulties : ~x[1].blocked /\ x[2] \in x[1].options}

Before(x, y) ==
  LET e == x[1]
      f == y[1]
  IN  \/ e.level > f.level
      \/ e.level = f.level /\ e.key < f.key
      \/ e = f /\ Hardness[x[2]] < Hardness[y[2]]

First(pairs) == {x \in pairs : \A y \in pairs \ {x} : Before(x, y)}

(* The lowest score, of an eligible slot: a set with one element.          *)
EligibleSlots(s) == {slot \in s.slots : slot.eligible}
TargetSlot(s) ==
  {slot \in EligibleSlots(s) : \A other \in EligibleSlots(s) :
     \/ slot.score < other.score
     \/ slot.score = other.score /\ slot.key <= other.key}

Uses(d, s) == d \in {"hard", "nightmare"} /\ s.material > settings.reserve

Idle == step = "out"

(* A required potion that is not active, or no slot: no search begins.     *)
Searchable(s) == ~s.potionSwitch /\ EligibleSlots(s) # {}

Visit(pairs) ==
  /\ pair' \in First(pairs)
  /\ left' = pairs \ {pair'}
  /\ step' = "baseline"
  /\ seen' = <<>>
  /\ tried' = 0
  /\ choice' = None

Stop ==
  /\ step' = "out"
  /\ boss' = None /\ pair' = None /\ left' = {}
  /\ seen' = <<>> /\ tried' = 0 /\ choice' = None

-----------------------------------------------------------------------------
PreviewBaseline(p) ==
  /\ step = "baseline"
  /\ seen' = Append(seen, p)
  /\ IF Len(seen) + 1 = NConfigs
       THEN step' = "affixes" /\ choice' = BestBaseline(Append(seen, p))
       ELSE UNCHANGED <<step, choice>>
  /\ UNCHANGED <<boss, pair, left, tried>>

AffixTries ==
  LET all == Cardinality(boss.affixes) * Shortlisted
  IN  IF all < MaxAffixPreviews THEN all ELSE MaxAffixPreviews

(* Try n is for the place n % Shortlisted of the shortlist, with the affix *)
(* that has n \div Shortlisted others before it.                           *)
TryConfig(n) == At(seen, n % Shortlisted)
TryAffix(n) ==
  CHOOSE a \in boss.affixes :
    Cardinality({b \in boss.affixes : b < a}) = n \div Shortlisted

PreviewAffix(p) ==
  /\ step = "affixes"
  /\ tried < AffixTries
  /\ tried' = tried + 1
  /\ IF Eligible(p)
       THEN /\ choice' = [config |-> TryConfig(tried), affix |-> TryAffix(tried),
                          preview |-> p]
            /\ step' = "chosen"
       ELSE UNCHANGED <<choice, step>>
  /\ UNCHANGED <<boss, pair, left, seen>>

(* Nothing is left to try: with a choice the search is over.               *)
Conclude ==
  /\ step = "affixes"
  /\ tried = AffixTries
  /\ choice # None
  /\ step' = "chosen"
  /\ UNCHANGED <<boss, pair, left, seen, tried, choice>>

NextPair ==
  /\ step = "affixes"
  /\ tried = AffixTries
  /\ choice = None
  /\ left # {}
  /\ Visit(left)
  /\ UNCHANGED boss

NothingLeft ==
  /\ step = "affixes" /\ tried = AffixTries
  /\ choice = None /\ left = {}

Search ==
  \/ \E p \in Previews : PreviewBaseline(p) \/ PreviewAffix(p)
  \/ Conclude \/ NextPair

-----------------------------------------------------------------------------
(* Properties. *)

SearchTypes ==
  /\ settings \in Settings
  /\ step \in {"out", "baseline", "affixes", "chosen"}
  /\ seen \in Seq(Previews) /\ Len(seen) <= NConfigs
  /\ tried \in 0..MaxAffixPreviews
  /\ choice \in {None} \cup Choices
  /\ choice # None => choice.affix \in boss.affixes \cup {None}
  /\ Idle <=> boss = None
  /\ step \in {"affixes", "chosen"} => Len(seen) = NConfigs

(* All configurations have been previewed: a choice is eligible and, if it *)
(* carries no affix, no other configuration was better; with no choice the *)
(* entry is passed over, and then the game predicted no acceptable win for *)
(* any of them, shortlisted or not (_for_entry).                           *)
NothingOverlooked ==
  step \in {"affixes", "chosen"} =>
    IF choice = None
      THEN \A c \in Configs : ~Eligible(seen[c])
      ELSE /\ Eligible(choice.preview)
           /\ choice.affix = None =>
                \A c \in Configs : ~Better(seen[c], choice.preview)
=============================================================================
