-------------------------------- MODULE MCBbs --------------------------------
(***************************************************************************)
(* Model checking Bbs: a caller who may type anything anywhere, one for    *)
(* each game, and two calls at once, of two users and of the same one.     *)
(***************************************************************************)
EXTENDS Bbs

CONSTANTS s1, s2

Lines(words) == { <<w, "CR">> : w \in words }

\* What is typed at each stage; nothing where the caller never gets.
Nothing == [stage \in Stages |-> {}]
Anywhere(chunks) == [stage \in Stages |-> chunks]

LogsIn(name) == [SELECT |-> Lines({"BBS"}), LOGIN |-> Lines({name}), PASSWORD |-> Lines({"good"})]
Registers(name) ==
    [SELECT |-> Lines({"BBS"}), LOGIN |-> Lines({"NEW", name}), PASSWORD |-> Lines({"good"}),
     NEW_NAME |-> Lines({name}), NEW_PASSWORD |-> Lines({"good"}), TERM_ASK |-> Lines({"Y"})]
Plays(name, game, keys) ==
    [MAIN |-> Lines({"D", "Q"}), DOORS |-> Lines({Door[game], "Q"}), DOOR |-> Lines({"Q"} \cup keys)]
        @@ LogsIn(name) @@ Nothing

One(first, registered, n) == [chunks |-> s1 :> first, users |-> registered, moves |-> n]
Two(first, second, registered, n) ==
    [chunks |-> (s1 :> first) @@ (s2 :> second), users |-> registered, moves |-> n]

\* Before the choice: a frame in one piece or two, after noise, after a line.
Choosing == { <<"lcp1">>, <<"lcp2">>, <<"lcp1", "lcp2">>, <<"noise">>, <<"noise", "CR">>, <<"CR">>,
              <<"BBS">>, <<"BBS", "CR">>, <<"DEL">>, <<"CR", "lcp1">> }

\* A new user finds out about the terminal and the settings, and logs in with the
\* right word or another; a report may come late.
Settings ==
    [TERM_QUERY |-> Lines({"Y"}) \cup {<<"report">>}, TERM_ASK |-> Lines({"Y", "N"}) \cup {<<"report">>},
     MAIN |-> Lines({"T", "C", "P"}) \cup {<<"P", "CR", "Q", "CR">>, <<"Q">>},
     TERM_MENU |-> Lines({"A", "S", "C", "Q"}), TERM_ANSI |-> Lines({"Y", "N"}),
     TERM_SIZE |-> Lines({"80 24"}), TERM_CHARSET |-> Lines({"C"}), PASSWORD |-> Lines({"good", "bad"})]
    @@ Registers("ann") @@ Nothing

\* Two calls at once.
Merchant == [MAIN |-> Lines({"D"}), DOORS |-> Lines({"3"}), DOOR |-> Lines({"B"})]
            @@ LogsIn("ann") @@ Nothing
Newcomer(name) == [MAIN |-> Lines({"T", "Q"}), TERM_MENU |-> Lines({"A"}), TERM_ANSI |-> Lines({"Y"}),
                   TERM_QUERY |-> {<<"report">>}]
                  @@ Registers(name) @@ Nothing

Typing ==
    { One(Anywhere(Choosing), <<>>, 0), One(Settings, <<>>, 0),
      One(Plays("ann", "blackjack", {"H", "S"}), <<"ann">>, 4),
      One(Plays("ann", "hangman", {"M", "O", "X", "Y", "Z"}), <<"ann">>, 6),
      One(Plays("ann", "space", {"B", "S", "J"}), <<"ann">>, 6),
      One(Plays("ann", "dungeon", {"E", "R"}), <<"ann">>, 6),
      One(Plays("ann", "speed", {"X"}), <<"ann">>, 2),
      Two(Merchant, Merchant, <<"ann">>, 1),
      Two(Newcomer("ann"), Newcomer("ann"), <<>>, 0),
      Two(Newcomer("bob"), Merchant, <<"ann">>, 2) }
=============================================================================
