--------------------------------- MODULE Bbs ---------------------------------
(***************************************************************************)
(* The text menu of a call: src/src/bbs/bbs.c, the session a modem's bytes *)
(* are fed to until the caller has chosen PPP or hangs up, with the games  *)
(* behind it (module Doors) and the database that the sessions of several  *)
(* calls, each a process, write to at the same time.  The call's side is   *)
(* the part of pump_ppp that feeds a session and reads its route           *)
(* (sm_call.c:408).  tests/bbs_session.c drives the same interface.        *)
(*                                                                         *)
(* A feed is taken byte by byte, a database statement is a step, and the   *)
(* steps of two sessions interleave.  What is typed is a sequence of       *)
(* tokens: a token is a character, or a word nothing looks inside of, a    *)
(* terminal's report, or a part of a PPP frame.                            *)
(***************************************************************************)
EXTENDS Doors

CONSTANTS
    Sessions,    \* calls with a session, one process each
    Names,       \* handles
    Password0,   \* what those registered at the start have for a password
    Scenarios,   \* who may type what: records [chunks, users, moves]
    LineMax,     \* sizeof(line) - 1 (159)
    PppSize,     \* sizeof(ppp) (1024)
    QueryTicks,  \* ticks in 1500 ms
    MaxSelect,   \* bound: tokens fed before the caller has chosen
    None

\* scenario.chunks[s][stage]: what may come in one feed of a call s that comes;
\* users: who is registered at
\* the start; moves: lines a session's games may be given (a bound).
ASSUME BbsAssumption ==
    /\ None \notin Names
    /\ LineMax \in Nat \ {0} /\ PppSize \in Nat \ {0} /\ QueryTicks \in Nat \ {0}

Routes == {"SELECT", "BBS", "PPP", "HANGUP"}
Inside == {"TERM_QUERY", "TERM_ASK", "MAIN", "TERM_MENU", "TERM_ANSI", "TERM_SIZE",
           "TERM_CHARSET", "DOORS", "DOOR"}
Stages == {"SELECT", "LOGIN", "PASSWORD", "NEW_NAME", "NEW_PASSWORD"} \cup Inside
Token == STRING

\* A handle is registered once (UNIQUE, bbs.c:91).  A feed is shorter than the
\* early buffer: pump_ppp takes at most 256 bytes at a time (sm_call.c:394).
ASSUME ScenarioAssumption ==
    /\ Password0 \in Token
    /\ \A sc \in Scenarios :
          /\ sc.users \in Seq(Names)
          /\ \A i, j \in 1..Len(sc.users) : sc.users[i] = sc.users[j] => i = j
          /\ \A s \in DOMAIN sc.chunks, stage \in Stages : sc.chunks[s][stage] \subseteq Seq(Token)
          /\ \A s \in DOMAIN sc.chunks : \A chunk \in sc.chunks[s]["SELECT"] : Len(chunk) < PppSize

VARIABLES
    scenario,
    session,      \* struct bbs_session of each call
    users,        \* table users, by id
    connections,  \* table connections, by id
    games         \* table game_state: of each handle and game, the keys saved

vars == <<scenario, session, users, connections, games>>

\* at: waiting for the call ("idle"), in a feed, at pump_ppp's look at the route,
\* in a game's loads or saves, or gone.  early: what pump_ppp gave to pppd.
New == [at |-> "none", route |-> "SELECT", stage |-> "SELECT", line |-> <<>>, feed |-> <<>>,
        ppp |-> <<>>, early |-> <<>>, query |-> {}, query_ms |-> 0, pending |-> None,
        user_id |-> 0, ansi |-> FALSE, sized |-> FALSE, connection_id |-> 0, last_id |-> 0,
        door |-> "none", values |-> <<>>, keys |-> <<>>, then |-> "stay", moves |-> 0,
        heard |-> <<>>, broken |-> FALSE]

NoKeys == [g \in Game |-> <<>>]

TypeOK ==
    \A s \in Sessions :
        LET x == session[s] IN
        /\ x.at \in {"none", "idle", "feed", "route", "load", "save", "gone"}
        /\ x.route \in Routes /\ x.stage \in Stages
        /\ Len(x.line) <= LineMax /\ Len(x.ppp) <= PppSize
        /\ x.query_ms < QueryTicks
        /\ x.user_id \in 0..Len(users)
        /\ x.door \in Game \cup {"none"}

Init ==
    /\ scenario \in Scenarios
    /\ session = [s \in Sessions |-> New]
    /\ users = [i \in 1..Len(scenario.users) |->
                   [handle |-> scenario.users[i], password |-> <<Password0>>,
                    ansi |-> FALSE, sized |-> TRUE]]
    /\ connections = <<>>
    /\ games = [n \in Names |-> NoKeys]

-----------------------------------------------------------------------------
(* Helpers.                                                                *)

\* The named fields of s change.
Put(s, changes) == session' = [session EXCEPT ![s] = changes @@ @]

\* A second process that has the database open may make a statement fail.
Busy(s) == \E t \in Sessions \ {s} : session[t].at \notin {"none", "gone"}

Handle(s) == users[session[s].user_id].handle

\* Mutant: a row for every entry of the menu.
Recorded_Always(id, user) == user # 0

\* record_connection has something to insert.
Recorded(id, user) == id = 0 /\ user # 0

\* record_connection and prompt_main.  The result of the INSERT is not looked at:
\* when it fails, last_insert_rowid is that of an earlier one, or none.
EnterMain(s, changes) ==
    LET x == changes @@ session[s]
        main == [stage |-> "MAIN"] @@ changes
    IN \/ /\ Recorded(x.connection_id, x.user_id)
          /\ connections' = Append(connections, [user |-> x.user_id, by |-> s, ended |-> FALSE])
          /\ Put(s, [connection_id |-> Len(connections'), last_id |-> Len(connections')] @@ main)
       \/ /\ Recorded(x.connection_id, x.user_id) /\ Busy(s)
          /\ Put(s, [connection_id |-> x.last_id, broken |-> TRUE] @@ main)
          /\ UNCHANGED connections
       \/ /\ ~Recorded(x.connection_id, x.user_id)
          /\ Put(s, main)
          /\ UNCHANGED connections

\* terminal_save.
SaveTerminal(s, ansi, sized) ==
    \/ users' = [users EXCEPT ![session[s].user_id].ansi = ansi,
                              ![session[s].user_id].sized = sized]
    \/ Busy(s) /\ UNCHANGED users

\* begin_terminal: the size is asked for unless it is known.
BeginTerminal(s, changes) ==
    IF (changes @@ session[s]).sized
    THEN EnterMain(s, changes)
    ELSE /\ Put(s, [stage |-> "TERM_QUERY", query |-> {}, query_ms |-> 0] @@ changes)
         /\ UNCHANGED connections

-----------------------------------------------------------------------------
(* The call's side.                                                        *)

\* bbs_session_create.
Create(s) ==
    /\ session[s].at = "none" /\ s \in DOMAIN scenario.chunks
    /\ Put(s, [at |-> "idle"])
    /\ UNCHANGED <<scenario, users, connections, games>>

Prefix(ppp) == Len(ppp) >= 2 /\ ppp[1] = "lcp1" /\ ppp[2] = "lcp2"

\* bbs_session_feed begins.  Until the caller has chosen the bytes are kept, and a
\* start of PPP's first frame is the choice.
Feed(s, chunk) ==
    LET x == session[s]
        kept == x.ppp \o SubSeq(chunk, 1, IF Len(chunk) < PppSize - Len(x.ppp)
                                         THEN Len(chunk) ELSE PppSize - Len(x.ppp))
    IN /\ IF x.stage = "SELECT"
          THEN /\ Len(x.heard) + Len(chunk) <= MaxSelect
               /\ IF Prefix(kept)
                  THEN Put(s, [ppp |-> kept, route |-> "PPP", at |-> "route",
                               heard |-> x.heard \o chunk])
                  ELSE Put(s, [ppp |-> kept, feed |-> chunk, at |-> "feed",
                               heard |-> x.heard \o chunk])
          ELSE Put(s, [feed |-> chunk, at |-> "feed"])
       /\ UNCHANGED <<scenario, users, connections, games>>

\* pump_ppp has bytes for the session.
Comes(s) ==
    /\ session[s].at = "idle"
    /\ \E chunk \in scenario.chunks[s][session[s].stage] : Feed(s, chunk)

FeedEnds(s) ==
    /\ session[s].at = "feed" /\ session[s].feed = <<>>
    /\ Put(s, [at |-> "route"])
    /\ UNCHANGED <<scenario, users, connections, games>>

\* bbs_session_destroy completes the row of connection_id and frees the session;
\* whose it was and what was heard are kept for the properties.
Destroy(s, changes) ==
    LET id == session[s].connection_id IN
    /\ \/ connections' = [i \in 1..Len(connections) |->
                             IF i = id THEN [connections[i] EXCEPT !.ended = TRUE]
                                       ELSE connections[i]]
       \/ id # 0 /\ Busy(s) /\ UNCHANGED connections
    /\ Put(s, changes @@ [New EXCEPT !.at = "gone", !.heard = session[s].heard,
                            !.user_id = session[s].user_id, !.broken = session[s].broken])
    /\ UNCHANGED <<scenario, users, games>>

\* pump_ppp reads the route: it hangs up, starts pppd (which may fail: it hangs
\* up) and gives it the early bytes, or lets the session go on.
PumpRoute(s) ==
    /\ session[s].at = "route"
    /\ \/ session[s].route = "PPP" /\ Destroy(s, [early |-> session[s].ppp])
       \/ session[s].route \in {"PPP", "HANGUP"} /\ Destroy(s, <<>>)
       \/ /\ session[s].route \in {"SELECT", "BBS"}
          /\ Put(s, [at |-> "idle"])
          /\ UNCHANGED <<scenario, users, connections, games>>

\* The call ends under the session.
CallEnds(s) == session[s].at = "idle" /\ Destroy(s, <<>>)

\* The call's process is killed between two steps; nothing is completed.
Killed(s) ==
    /\ session[s].at \notin {"none", "gone"}
    /\ Put(s, [New EXCEPT !.at = "gone", !.heard = session[s].heard,
                          !.user_id = session[s].user_id, !.broken = TRUE])
    /\ UNCHANGED <<scenario, users, connections, games>>

\* bbs_session_tick, which every audio message brings: a report seen by the end
\* of the query says that the terminal has ANSI; without one the caller is asked.
Tick(s) ==
    LET x == session[s] IN
    /\ x.at = "idle" /\ x.stage = "TERM_QUERY"
    /\ \/ /\ x.query_ms + 1 < QueryTicks
          /\ Put(s, [query_ms |-> x.query_ms + 1])
          /\ UNCHANGED <<users, connections>>
       \/ /\ x.query_ms + 1 = QueryTicks /\ "report" \in x.query
          /\ SaveTerminal(s, TRUE, TRUE)
          /\ EnterMain(s, [ansi |-> TRUE, sized |-> TRUE, query_ms |-> 0])
       \/ /\ x.query_ms + 1 = QueryTicks /\ "report" \notin x.query
          /\ Put(s, [stage |-> "TERM_ASK", sized |-> TRUE, query_ms |-> 0])
          /\ UNCHANGED <<users, connections>>
    /\ UNCHANGED <<scenario, games>>

-----------------------------------------------------------------------------
(* bbs_session_feed, a byte at a time.                                     *)

HasRoom(line) == Len(line) < LineMax

\* Anything but an end of line: part of the answer to a query, an erase, or a
\* character of the line, if there is room for it.
Byte(s) ==
    LET x == session[s]
        ch == Head(x.feed)
        rest == [feed |-> Tail(x.feed)]
    IN /\ x.at = "feed" /\ x.feed # <<>>
       /\ \/ /\ x.stage = "TERM_QUERY"
             /\ Put(s, [query |-> x.query \cup {ch}] @@ rest)
          \/ /\ x.stage # "TERM_QUERY" /\ ch = "CR" /\ x.line = <<>>
             /\ Put(s, rest)
          \/ /\ x.stage # "TERM_QUERY" /\ ch = "DEL"
             /\ Put(s, [line |-> SubSeq(x.line, 1, Len(x.line) - 1)] @@ rest)
          \/ /\ x.stage # "TERM_QUERY" /\ ch \notin {"CR", "DEL"}
             /\ Put(s, (IF HasRoom(x.line) THEN [line |-> Append(x.line, ch)] ELSE <<>>) @@ rest)
       /\ UNCHANGED <<scenario, users, connections, games>>

\* A line is complete, and the session is at this stage.
Line(s, stage) ==
    LET x == session[s] IN
    /\ x.at = "feed" /\ x.feed # <<>> /\ Head(x.feed) = "CR"
    /\ x.line # <<>> /\ x.stage = stage

\* handle_line's switch, and line_len = 0 after it.  Commands are told by their
\* first letter; a name, a password or "BBS" is the whole line.
Done(s) == [line |-> <<>>, feed |-> Tail(session[s].feed)]
First(s) == Head(session[s].line)
Is(s, word) == session[s].line = <<word>>
Goto(s, stage) == Put(s, [stage |-> stage] @@ Done(s))

\* Mutant: what was kept in case it was PPP stays.
Chosen_KeepsBytes(s) == <<>>

\* "text selection is not an early PPP frame" (line 244).
Chosen(s) == [ppp |-> <<>>]

Select(s) ==
    /\ Line(s, "SELECT")
    /\ IF Is(s, "BBS") THEN Put(s, Chosen(s) @@ [route |-> "BBS", stage |-> "LOGIN"] @@ Done(s))
                       ELSE Put(s, Chosen(s) @@ [route |-> "PPP"] @@ Done(s))
    /\ UNCHANGED <<scenario, users, connections, games>>

\* The line as a handle: a word that is no name is still somebody's guess.
Typed(s) == IF Len(session[s].line) = 1 /\ First(s) \in Names THEN First(s) ELSE None

Login(s) ==
    /\ Line(s, "LOGIN")
    /\ IF Is(s, "NEW") THEN Goto(s, "NEW_NAME")
                       ELSE Put(s, [pending |-> Typed(s), stage |-> "PASSWORD"] @@ Done(s))
    /\ UNCHANGED <<scenario, users, connections, games>>

NewName(s) ==
    /\ Line(s, "NEW_NAME")
    /\ Put(s, [pending |-> Typed(s), stage |-> "NEW_PASSWORD"] @@ Done(s))
    /\ UNCHANGED <<scenario, users, connections, games>>

\* login_lookup, then the terminal the user had last.
Password(s) ==
    /\ Line(s, "PASSWORD")
    /\ LET found == {id \in 1..Len(users) : /\ users[id].handle = session[s].pending
                                            /\ users[id].password = session[s].line}
       IN \/ \E id \in found :
               BeginTerminal(s, [user_id |-> id, ansi |-> users[id].ansi,
                                 sized |-> users[id].sized] @@ Done(s))
          \/ found = {} /\ Goto(s, "LOGIN") /\ UNCHANGED connections
    /\ UNCHANGED <<scenario, users, games>>

\* Mutant: the result of the INSERT is not looked at.
Refuse_Ignored(s) == BeginTerminal(s, [user_id |-> session[s].last_id] @@ Done(s))

Refuse(s) == Goto(s, "LOGIN") /\ UNCHANGED connections

\* register_user: the INSERT fails for a handle that exists, or when it must.
NewPassword(s) ==
    /\ Line(s, "NEW_PASSWORD")
    /\ \/ /\ session[s].pending # None
          /\ \A id \in 1..Len(users) : users[id].handle # session[s].pending
          /\ users' = Append(users, [handle |-> session[s].pending, password |-> session[s].line,
                                     ansi |-> FALSE, sized |-> FALSE])
          /\ BeginTerminal(s, [user_id |-> Len(users'), last_id |-> Len(users')] @@ Done(s))
       \/ /\ \/ session[s].pending = None \/ Busy(s)
             \/ \E id \in 1..Len(users) : users[id].handle = session[s].pending
          /\ Refuse(s) /\ UNCHANGED users
    /\ UNCHANGED <<scenario, games>>

\* The caller's answer, to the question after a query or in the settings.
TermAnsi(s) ==
    /\ Line(s, "TERM_ASK") \/ Line(s, "TERM_ANSI")
    /\ SaveTerminal(s, First(s) = "Y", TRUE)
    /\ EnterMain(s, [ansi |-> First(s) = "Y", sized |-> TRUE] @@ Done(s))
    /\ UNCHANGED <<scenario, games>>

\* The connection's figures, the history and anything else leave the stage as it is.
Main(s) ==
    /\ Line(s, "MAIN")
    /\ \/ First(s) = "D" /\ Goto(s, "DOORS")
       \/ First(s) = "T" /\ Goto(s, "TERM_MENU")
       \/ First(s) = "P" /\ Put(s, [route |-> "PPP"] @@ Done(s))
       \/ First(s) = "Q" /\ Put(s, [route |-> "HANGUP"] @@ Done(s))
       \/ First(s) \notin {"D", "T", "P", "Q"} /\ Goto(s, "MAIN")
    /\ UNCHANGED <<scenario, users, connections, games>>

TermMenu(s) ==
    /\ Line(s, "TERM_MENU")
    /\ \/ First(s) = "A" /\ Goto(s, "TERM_ANSI")
       \/ First(s) = "S" /\ Goto(s, "TERM_SIZE")
       \/ First(s) = "C" /\ Goto(s, "TERM_CHARSET")
       \/ First(s) \notin {"A", "S", "C"} /\ Goto(s, "MAIN")
    /\ UNCHANGED <<scenario, users, connections, games>>

\* A size out of bounds is not taken; neither answer changes what is modelled.
TermSize(s) ==
    /\ Line(s, "TERM_SIZE") \/ Line(s, "TERM_CHARSET")
    /\ Goto(s, "MAIN")
    /\ SaveTerminal(s, session[s].ansi, session[s].sized) \/ UNCHANGED users
    /\ UNCHANGED <<scenario, connections, games>>

-----------------------------------------------------------------------------
(* The doors.                                                              *)

\* open_game, or again: the keys are loaded one by one.
Loading(game, then) == [at |-> "load", keys |-> Loads(game), then |-> then,
                        values |-> Fresh[game]]

DoorsMenu(s) ==
    /\ Line(s, "DOORS")
    /\ IF First(s) = "Q" THEN Goto(s, "MAIN")
       ELSE \/ \E g \in Game : /\ Is(s, Door[g])
                               /\ Put(s, [stage |-> "DOOR", door |-> g] @@ Loading(g, "again") @@ Done(s))
            \/ /\ ~ \E g \in Game : Is(s, Door[g])
               /\ Goto(s, "DOORS")
    /\ UNCHANGED <<scenario, users, connections, games>>

\* door_return.  What the game held is not looked at again.
DoorReturn == [at |-> "feed", stage |-> "DOORS", door |-> "none", values |-> <<>>, then |-> "stay"]

\* What is done when the game has saved, or has nothing to save.
Follow(game, then) ==
    CASE then = "stay"  -> [at |-> "feed"]
      [] then = "leave" -> DoorReturn
      [] then = "again" -> Loading(game, "again")
      [] then = "won"   -> [at |-> "load", keys |-> <<"wins">>, then |-> "won"]

DoorInput(s) ==
    LET x == session[s] IN
    /\ Line(s, "DOOR")
    /\ x.moves < scenario.moves \/ First(s) = "Q"
    /\ \E o \in Input(x.door, x.values, First(s)) :
          Put(s, (IF o.save THEN [at |-> "save", keys |-> Keys[x.door], then |-> o.then]
                            ELSE Follow(x.door, o.then))
                 @@ [values |-> o.values, moves |-> IF First(s) = "Q" THEN x.moves ELSE x.moves + 1]
                 @@ Done(s))
    /\ UNCHANGED <<scenario, users, connections, games>>

\* load_int.
LoadKey(s) ==
    LET x == session[s]
        key == Head(x.keys)
        saved == games[Handle(s)][x.door]
    IN /\ x.at = "load" /\ x.keys # <<>>
       /\ Put(s, [keys |-> Tail(x.keys),
                  values |-> [x.values EXCEPT ![key] = IF key \in DOMAIN saved THEN saved[key]
                                                       ELSE Fresh[x.door][key]]])
       /\ UNCHANGED <<scenario, users, connections, games>>

\* Everything is loaded: the cards are dealt, the word is drawn, the win is added.
Loaded(s) ==
    LET x == session[s] IN
    /\ x.at = "load" /\ x.keys = <<>>
    /\ \/ /\ x.then = "again"
          /\ \E v \in Opened(x.door, x.values) : Put(s, [at |-> "feed", values |-> v])
       \/ /\ x.then = "won"
          /\ Put(s, [at |-> "save", keys |-> <<"wins">>, then |-> "stay",
                     values |-> [x.values EXCEPT !.wins = @ + 1]])
    /\ UNCHANGED <<scenario, users, connections, games>>

\* Mutant: the first key is saved and the rest forgotten.
Unsaved_None(keys) == <<>>

Unsaved(keys) == Tail(keys)

\* save_int, whose failure is not noticed.
SaveKey(s) ==
    LET x == session[s]
        key == Head(x.keys)
        n == Handle(s)
    IN /\ x.at = "save" /\ x.keys # <<>>
       /\ \/ /\ games' = [games EXCEPT ![n][x.door] = (key :> x.values[key]) @@ @]
             /\ Put(s, [keys |-> Unsaved(x.keys)])
          \/ /\ Busy(s) /\ UNCHANGED games
             /\ Put(s, [keys |-> Unsaved(x.keys), broken |-> TRUE])
       /\ UNCHANGED <<scenario, users, connections>>

Saved(s) ==
    LET x == session[s] IN
    /\ x.at = "save" /\ x.keys = <<>>
    /\ Put(s, Follow(x.door, x.then))
    /\ UNCHANGED <<scenario, users, connections, games>>

-----------------------------------------------------------------------------

Next ==
    \E s \in Sessions :
        \/ Create(s) \/ Comes(s) \/ FeedEnds(s)
        \/ PumpRoute(s) \/ CallEnds(s) \/ Killed(s) \/ Tick(s) \/ Byte(s)
        \/ Select(s) \/ Login(s) \/ NewName(s) \/ Password(s) \/ NewPassword(s)
        \/ TermAnsi(s) \/ Main(s) \/ TermMenu(s) \/ TermSize(s)
        \/ DoorsMenu(s) \/ DoorInput(s) \/ LoadKey(s) \/ Loaded(s) \/ SaveKey(s) \/ Saved(s)

Spec == Init /\ [][Next]_vars

-----------------------------------------------------------------------------
(* Properties.                                                             *)

\* What pppd is given to begin with is what the caller sent, all of it, and it
\* begins with PPP's first frame; or nothing (bbs.c:244, 310, sm_call.c:430).
EarlyFrameWhole ==
    \A s \in Sessions :
        session[s].early # <<>> =>
            session[s].early = session[s].heard /\ Prefix(session[s].early)

\* Past the login there is a user who gave a password or made one, and the
\* session knows whose it is (bbs.c:176, 194).
InsideIsSomebody ==
    \A s \in Sessions :
        LET x == session[s] IN
        x.stage \in Inside => x.user_id # 0 /\ Handle(s) = x.pending

\* No statement of a session has failed, and none was killed.
NoneBroken == \A s \in Sessions : ~session[s].broken

\* A session at the menu or further has its own row of connections, one, open
\* while it lives and ended when it is gone, whatever other sessions of the same
\* user or another have inserted meanwhile (bbs.c:134, 335).
OneRowEach ==
    NoneBroken =>
        \A s \in Sessions :
            LET x == session[s]
                mine == {i \in 1..Len(connections) : connections[i].by = s}
            IN /\ Cardinality(mine) <= 1
               /\ x.connection_id # 0 => mine = {x.connection_id}
               /\ x.stage \in {"MAIN", "DOORS", "DOOR"} => mine # {}
               /\ \A i \in mine : connections[i].user = x.user_id
                                  /\ (connections[i].ended => x.at = "gone")

\* Nobody else plays, or played, as this user.
Alone(s) ==
    \A t \in Sessions \ {s} :
        session[t].user_id = 0 \/ session[t].user_id # session[s].user_id

\* What the caller sees of a game is a state the game allows, unless a save, key
\* by key, was broken off, or two sessions of the user made theirs in turns.
GamesInBounds ==
    \A s \in Sessions :
        LET x == session[s] IN
        x.door # "none" /\ x.at \notin {"load", "save"} /\ Alone(s) /\ NoneBroken
            => InBounds(x.door, x.values)

\* Between lines, the database has what the session of a game that saves after
\* every line has (before the first, nothing, which loads as what the game starts
\* with); a call that ends here loses nothing (doors/space.c, doors/dungeon.c).
SavedGame ==
    \A s \in Sessions :
        LET x == session[s] IN
        x.door \in {"space", "dungeon"} /\ x.at \notin {"load", "save"}
            /\ Alone(s) /\ ~x.broken
            => x.values = games[Handle(s)][x.door] @@ Fresh[x.door]

=============================================================================
