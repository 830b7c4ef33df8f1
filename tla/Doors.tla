-------------------------------- MODULE Doors --------------------------------
(***************************************************************************)
(* The door games of src/src/bbs/doors as functions from what a game holds *)
(* and the first letter of a line to what may come of it.  What a generator*)
(* or a pack of cards decides is a choice from a set; texts are left out.  *)
(* What a game keeps in the database is named by Keys; the session does    *)
(* the loading and saving (module Bbs).                                    *)
(***************************************************************************)
EXTENDS Integers, Sequences, FiniteSets

CONSTANTS
    Cards,         \* 1..10
    Secret,        \* the letters of hangman's word
    Letters,       \* what a caller may guess: 'A' to 'Z'
    MaxMisses,     \* 6
    SpaceCredits,  \* what a merchant starts with (500)
    MaxCargo,      \* 20
    Ports,         \* 1..12
    Hits, Gains    \* of an exploration: 1..8 and 4..15

ASSUME DoorsAssumption ==
    /\ Cards \subseteq 1..10 /\ Cards # {}
    /\ Secret \subseteq Letters /\ Secret # {} /\ MaxMisses \in Nat \ {0}
    /\ SpaceCredits \in Nat /\ MaxCargo \in Nat
    /\ Ports \subseteq 1..12 /\ 1 \in Ports
    /\ Hits \subseteq 1..8 /\ Gains \subseteq 4..15 /\ Hits # {} /\ Gains # {}

\* doors[]: what the caller types for each.
Door == [blackjack |-> "1", hangman |-> "2", space |-> "3", dungeon |-> "4", speed |-> "S"]
Game == DOMAIN Door

\* The integers each game keeps, in the order they are saved, and what they are
\* before they are first saved.
Keys == [blackjack |-> <<"credits">>, hangman |-> <<"wins">>,
         space |-> <<"credits", "cargo", "port">>,
         dungeon |-> <<"level", "xp", "hp", "gold">>, speed |-> <<>>]

Fresh == [blackjack |-> [credits |-> 1000], hangman |-> [wins |-> 0],
          space |-> [credits |-> SpaceCredits, cargo |-> 0, port |-> 1],
          dungeon |-> [level |-> 1, xp |-> 0, hp |-> 20, gold |-> 0],
          speed |-> [t |-> 0]]

\* All are loaded when the game opens, but for the wins, which are loaded when
\* there is one to add.
Loads(game) == IF game = "hangman" THEN <<>> ELSE Keys[game]

\* What a game does with a line: it goes on, it goes back to the menu of doors,
\* it opens anew, or it counts a win; with or without saving first.
Outcome(values, save, then) == [values |-> values, save |-> save, then |-> then]
Stay(values)  == Outcome(values, FALSE, "stay")
Leave(values) == Outcome(values, FALSE, "leave")

\* The functions of module TLC, written out because the prover does not look
\* inside those.
key :> value == [k \in {key} |-> value]
f @@ g == [k \in DOMAIN f \cup DOMAIN g |-> IF k \in DOMAIN f THEN f[k] ELSE g[k]]

-----------------------------------------------------------------------------
(* Blackjack: credits, the caller's hand and the dealer's.                 *)

Deal(credits) ==
    { [credits |-> credits, you |-> a + b, dealer |-> c] : a \in Cards, b \in Cards, c \in Cards }

Wager == 25

\* Mutant: a hand over 21 may go on.
Hit_NoBust(v) == { Stay([v EXCEPT !.you = @ + c]) : c \in Cards }

\* Over 21 the hand is lost at once.
Hit(v) ==
    { IF v.you + c > 21 THEN Outcome([v EXCEPT !.credits = @ - Wager], TRUE, "again")
                        ELSE Stay([v EXCEPT !.you = @ + c]) : c \in Cards }

\* The dealer draws while below 17, so ends at most ten above 16.
Stand(v) ==
    { Outcome([v EXCEPT !.credits = IF total > 21 \/ v.you > total THEN @ + Wager
                                    ELSE IF v.you < total THEN @ - Wager ELSE @], TRUE, "again")
        : total \in 17..26 }

Blackjack(v, key) ==
    CASE key = "Q" -> {Leave(v)}
      [] key = "H" -> Hit(v)
      [] key = "S" -> Stand(v)
      [] key \notin {"Q", "H", "S"} -> {Stay(v)}

-----------------------------------------------------------------------------
(* Hangman: the letters tried; over says the word is out.                  *)

Word == [wins |-> 0, tried |-> {}, misses |-> 0, over |-> FALSE]

\* Mutant: a letter tried before costs again.
Guess_Again(v, key) ==
    IF key \notin Letters THEN v
    ELSE [v EXCEPT !.tried = @ \cup {key}, !.misses = IF key \in Secret THEN @ ELSE @ + 1]

Guess(v, key) ==
    IF key \notin Letters \/ key \in v.tried THEN v
    ELSE [v EXCEPT !.tried = @ \cup {key}, !.misses = IF key \in Secret THEN @ ELSE @ + 1]

Hangman(v, key) ==
    LET g == Guess(v, key)
        over == [g EXCEPT !.over = TRUE]
    IN CASE key = "Q" -> {Leave(v)}
         [] key # "Q" /\ v.over -> {Outcome(v, FALSE, "again")}
         [] key # "Q" /\ ~v.over ->
              IF g.misses >= MaxMisses THEN {Stay(over)}
              ELSE IF Secret \subseteq g.tried
                   THEN {Outcome(over, FALSE, "won")}
                   ELSE {Stay(g)}

-----------------------------------------------------------------------------
(* Orbit Merchant and Ember Depths, which save after every line.           *)

Price(port) == 18 + (port % 17)

\* Mutant: a merchant buys on credit.
Buys_OnCredit(v) == v.cargo < MaxCargo

Buys(v) == v.cargo < MaxCargo /\ v.credits >= Price(v.port)

Space(v, key) ==
    CASE key = "Q" -> {Outcome(v, TRUE, "leave")}
      [] key = "B" /\ Buys(v) ->
           {Outcome([v EXCEPT !.credits = @ - Price(v.port), !.cargo = @ + 1], TRUE, "stay")}
      [] key = "S" /\ v.cargo > 0 ->
           {Outcome([v EXCEPT !.credits = @ + Price(v.port), !.cargo = @ - 1], TRUE, "stay")}
      [] key = "J" -> { Outcome([v EXCEPT !.port = p], TRUE, "stay") : p \in Ports }
      [] key \notin {"Q", "J"} /\ (key = "B" => ~Buys(v)) /\ (key = "S" => ~(v.cargo > 0)) ->
           {Outcome(v, TRUE, "stay")}

Health(level) == 20 + level * 3

\* The hit may kill, which costs half the gold; else there is a gain.  The level
\* is looked at either way.
Explored(v, hit, gain) ==
    LET alive == v.hp > hit
        u == IF alive THEN [v EXCEPT !.hp = @ - hit, !.xp = @ + gain, !.gold = @ + gain \div 2]
                      ELSE [v EXCEPT !.hp = Health(v.level), !.gold = @ \div 2]
    IN IF u.xp >= u.level * 50 THEN [u EXCEPT !.level = @ + 1] ELSE u

Explores(v) ==
    UNION { { Outcome(Explored(v, h, g), TRUE, "stay") : g \in Gains } : h \in Hits }

Dungeon(v, key) ==
    CASE key = "Q" -> {Outcome(v, TRUE, "leave")}
      [] key = "R" -> {Outcome([v EXCEPT !.hp = Health(v.level)], TRUE, "stay")}
      [] key = "E" -> Explores(v)
      [] key \notin {"Q", "R", "E"} -> {Outcome(v, TRUE, "stay")}

-----------------------------------------------------------------------------

\* open_game, once the saved values are there.
Opened(game, loaded) ==
    CASE game = "blackjack" -> Deal(loaded.credits)
      [] game = "hangman" -> {Word}
      [] game \notin {"blackjack", "hangman"} -> {loaded}

\* input.  The speed challenge takes any line for the answer.
Input(game, v, key) ==
    CASE game = "blackjack" -> Blackjack(v, key)
      [] game = "hangman" -> Hangman(v, key)
      [] game = "space" -> Space(v, key)
      [] game = "dungeon" -> Dungeon(v, key)
      [] game = "speed" -> {Leave(v)}

\* What a game never leaves the caller looking at: a hand already lost, a word
\* already out that still takes letters, a merchant in debt or with more than the
\* ship holds, a dead hero or one who has not been given the level earned.
InBounds(game, v) ==
    CASE game = "blackjack" -> v.you \in 2..21 /\ v.dealer \in 1..10
      [] game = "hangman" ->
           /\ v.misses = Cardinality(v.tried \ Secret) /\ v.misses <= MaxMisses
           /\ ~v.over => v.misses < MaxMisses /\ ~ Secret \subseteq v.tried
      [] game = "space" -> v.credits >= 0 /\ v.cargo \in 0..MaxCargo
      [] game = "dungeon" -> v.hp \in 1..Health(v.level) /\ v.gold >= 0 /\ v.xp < v.level * 50
      [] game = "speed" -> TRUE

=============================================================================
