---------------------------- MODULE MCPolicyEngine -----------------------------
(* Small instances of PolicyEngine for TLC. *)
EXTENDS PolicyEngine

Base ==
  [threshold |-> 3, minChance |-> 1, paid |-> FALSE, collaborate |-> TRUE,
   reserve |-> 1, food |-> 1, potion |-> 1, horizon |-> 4, claims |-> TRUE]

TwoSettings ==
  {Base,
   [Base EXCEPT !.threshold = 2, !.minChance = 2, !.paid = TRUE, !.reserve = 0,
                !.food = 0, !.potion = 2, !.horizon = 12, !.claims = FALSE,
                !.collaborate = FALSE]}

TwoChances == {1, 2}
TwoVigors == {1, 2}

SmallIdle == [seconds : 0..4, capacity : {2, 4, NoCeiling}]

SmallBoss ==
  LET Entry(key, type, level, attempts, blocked, options) ==
        [key |-> key, type |-> type, level |-> level, attempts |-> attempts,
         blocked |-> blocked, options |-> options]
      both == {Entry(1, "personal", 5, None, FALSE, {"hard"}),
               Entry(2, "map", 4, 1, FALSE, {"normal"})}
      used == {Entry(1, "personal", 5, None, TRUE, {"hard"}),
               Entry(2, "map", 4, 0, FALSE, {"normal"})}
      world == {Entry(3, "world", 6, 1, FALSE, {"nightmare", "normal"})}
      slots == {[key |-> 1, score |-> 7, eligible |-> TRUE],
                [key |-> 2, score |-> 3, eligible |-> TRUE],
                [key |-> 3, score |-> 1, eligible |-> FALSE]}
      first == [entries |-> both, free |-> 1, material |-> 2, slots |-> slots,
                potionSwitch |-> FALSE, affixes |-> {1, 2}]
  IN  {first,
       [first EXCEPT !.free = 0, !.material = 1],
       [first EXCEPT !.entries = used],
       [first EXCEPT !.entries = world, !.affixes = {1}],
       [first EXCEPT !.slots = {slot \in slots : slot.key = 3}],
       [first EXCEPT !.potionSwitch = TRUE]}

SmallWorld ==
  LET Instance(key) ==
        [key : {key}, active : BOOLEAN, alive : {TRUE}, mine : {2, 3}, remaining : {0, 1}]
      Dead == [key |-> 1, active |-> TRUE, alive |-> FALSE, mine |-> 0, remaining |-> 1]
      Spare == [key |-> 2, active |-> TRUE, alive |-> TRUE, mine |-> 0, remaining |-> 1]
  IN  {{i, j} : i \in Instance(1) \cup {Dead}, j \in {Spare, [Spare EXCEPT !.mine = 3]}}

ThreeItems == 1..3

SmallProfession ==
  LET NewRecipe(key, kind, output, duration, inputs, milestone) ==
        [key |-> key, kind |-> kind, output |-> output, duration |-> duration,
         inputs |-> inputs, milestone |-> milestone]
      food == NewRecipe(1, "food", 1, 3, <<0, 2, 0>>, FALSE)
      potion == NewRecipe(2, "potion", 2, 1, <<0, 0, 1>>, FALSE)
      ore == NewRecipe(3, "other", 3, 2, <<1, 0, 0>>, FALSE)
  IN  [queued : {0, 1, 4, 5}, seconds : {3, 9},
       balances : {<<0, 1, 1>>, <<1, 0, 1>>, <<1, 1, 0>>},
       recipes : {{food, potion, ore}, {ore, [potion EXCEPT !.milestone = TRUE]}}]

SmallReward ==
  LET Candidate(key) ==
        [key : {key}, known : {TRUE}, completed : BOOLEAN, claimed : BOOLEAN,
         choices : {0}, cost : {0}, overflow : {FALSE}]
      Odd == [key |-> 3, known |-> TRUE, completed |-> TRUE, claimed |-> FALSE,
              choices |-> 0, cost |-> 0, overflow |-> FALSE]
      Others == {[Odd EXCEPT !.choices = 2], [Odd EXCEPT !.cost = 1],
                 [Odd EXCEPT !.overflow = TRUE], [Odd EXCEPT !.known = FALSE]}
  IN  [inventory : BOOLEAN,
       candidates : {<<>>}
                      \cup {<<a>> : a \in Candidate(1)}
                      \cup {<<b, a>> : a \in Candidate(1), b \in Candidate(2)}
                      \cup {<<o>> : o \in Others}]

(* The ends of two windows, and minutes inside and outside of them.        *)
SomeMinutes == {599, 600, 659, 660, 1200, 1261}
=============================================================================
