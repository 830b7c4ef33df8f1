------------------------------ MODULE BbsProofs ------------------------------
(***************************************************************************)
(* The sessions of the text menu, proved for any number of calls that use  *)
(* the database at the same time, any users and anything typed: what pppd  *)
(* is given first, who is inside, and whose rows are whose; then the games *)
(* behind the menu: what a game shows is a state the game allows, and      *)
(* between two lines the database has what a game that saves after every   *)
(* line holds.                                                             *)
(***************************************************************************)
EXTENDS Bbs, SequenceTheorems, FiniteSetTheorems, TLAPS

USE BbsAssumption

-----------------------------------------------------------------------------
(* Records.  Every step changes some fields of one session.                *)

Fields == DOMAIN New
Shape == DOMAIN session = Sessions /\ \A s \in Sessions : DOMAIN session[s] = Fields

\* The fields of struct bbs_session that the model has.
LEMMA FieldsAre ==
  Fields = {"at", "route", "stage", "line", "feed", "ppp", "early", "query", "query_ms",
            "pending", "user_id", "ansi", "sized", "connection_id", "last_id", "door",
            "values", "keys", "then", "moves", "heard", "broken"}
  BY DEF Fields, New

\* What Put leaves of the sessions.
LEMMA PutStep ==
  ASSUME Shape, NEW s \in Sessions, NEW ch, DOMAIN ch \subseteq Fields, Put(s, ch)
  PROVE  /\ Shape'
         /\ \A t \in Sessions : t # s => session'[t] = session[t]
         /\ \A f \in Fields : session'[s][f] = IF f \in DOMAIN ch THEN ch[f] ELSE session[s][f]
  BY DEF Put, @@, Shape

Connection == [user : Nat, by : Sessions, ended : BOOLEAN]

\* The ways record_connection leaves a session that comes to the menu as y: a row
\* of its own is there now; or the INSERT failed; or there was nothing to insert.
Inserted(s, y) ==
    /\ session[s].connection_id = 0 /\ y.user_id # 0
    /\ connections' = Append(connections, [user |-> y.user_id, by |-> s, ended |-> FALSE])
    /\ y.connection_id = Len(connections) + 1 /\ y.broken = session[s].broken
Failed(y) == y.broken /\ UNCHANGED connections
Kept(s, y) ==
    /\ session[s].connection_id # 0 \/ y.user_id = 0
    /\ y.connection_id = session[s].connection_id /\ y.broken = session[s].broken
    /\ UNCHANGED connections

Menu(s, y) == y.stage = "MAIN" /\ (Inserted(s, y) \/ Failed(y) \/ Kept(s, y))

\* record_connection and prompt_main.  The fields of the menu are the session's,
\* those that change with it aside.
LEMMA EnterMainStep ==
  ASSUME Shape, NEW s \in Sessions, NEW ch,
         DOMAIN ch \subseteq Fields \ {"stage", "connection_id", "broken"}, EnterMain(s, ch),
         connections \in Seq(Connection)
  PROVE  /\ Shape' /\ \A t \in Sessions : t # s => session'[t] = session[t]
         /\ Menu(s, session'[s])
         /\ \A f \in Fields \ {"stage", "connection_id", "broken", "last_id"} :
               session'[s][f] = IF f \in DOMAIN ch THEN ch[f] ELSE session[s][f]
  <1> DEFINE x == ch @@ session[s]
             main == [stage |-> "MAIN"] @@ ch
  <1>0. /\ x.connection_id = session[s].connection_id
        /\ x.user_id = IF "user_id" \in DOMAIN ch THEN ch["user_id"] ELSE session[s].user_id
    BY FieldsAre DEF @@, Shape
  <1>1. CASE /\ Recorded(x.connection_id, x.user_id)
             /\ connections' = Append(connections, [user |-> x.user_id, by |-> s, ended |-> FALSE])
             /\ Put(s, [connection_id |-> Len(connections'), last_id |-> Len(connections')] @@ main)
    <2> DEFINE c == [connection_id |-> Len(connections'), last_id |-> Len(connections')] @@ main
    <2>1. /\ DOMAIN c = DOMAIN ch \cup {"stage", "connection_id", "last_id"}
          /\ c["stage"] = "MAIN" /\ c["connection_id"] = Len(connections')
          /\ \A f \in DOMAIN ch \ {"stage", "connection_id", "last_id"} : c[f] = ch[f]
      BY DEF @@
    <2>2. DOMAIN c \subseteq Fields
      BY <2>1, FieldsAre
    <2> HIDE DEF c
    <2>3. /\ Shape' /\ \A t \in Sessions : t # s => session'[t] = session[t]
          /\ \A f \in Fields : session'[s][f] = IF f \in DOMAIN c THEN c[f] ELSE session[s][f]
      BY <1>1, <2>2, PutStep DEF c
    <2>4. /\ session'[s].stage = "MAIN" /\ session'[s].connection_id = Len(connections')
          /\ session'[s].broken = session[s].broken
          /\ session'[s].user_id = x.user_id
          /\ \A f \in Fields \ {"stage", "connection_id", "broken", "last_id"} :
               session'[s][f] = IF f \in DOMAIN ch THEN ch[f] ELSE session[s][f]
      BY <1>0, <2>1, <2>3, FieldsAre
    <2>5. Len(connections') = Len(connections) + 1
      BY <1>1
    <2>6. Inserted(s, session'[s])
      BY <1>0, <1>1, <2>4, <2>5 DEF Inserted, Recorded
    <2> QED BY <2>3, <2>4, <2>6 DEF Menu
  <1>2. CASE /\ Put(s, [connection_id |-> x.last_id, broken |-> TRUE] @@ main)
             /\ UNCHANGED connections
    <2> DEFINE c == [connection_id |-> x.last_id, broken |-> TRUE] @@ main
    <2>1. /\ DOMAIN c = DOMAIN ch \cup {"stage", "connection_id", "broken"}
          /\ c["stage"] = "MAIN" /\ c["broken"] = TRUE
          /\ \A f \in DOMAIN ch \ {"stage", "connection_id", "broken"} : c[f] = ch[f]
      BY DEF @@
    <2>2. DOMAIN c \subseteq Fields
      BY <2>1, FieldsAre
    <2> HIDE DEF c
    <2>3. /\ Shape' /\ \A t \in Sessions : t # s => session'[t] = session[t]
          /\ \A f \in Fields : session'[s][f] = IF f \in DOMAIN c THEN c[f] ELSE session[s][f]
      BY <1>2, <2>2, PutStep DEF c
    <2>4. /\ session'[s].stage = "MAIN" /\ session'[s].broken
          /\ \A f \in Fields \ {"stage", "connection_id", "broken", "last_id"} :
               session'[s][f] = IF f \in DOMAIN ch THEN ch[f] ELSE session[s][f]
      BY <2>1, <2>3, FieldsAre
    <2> QED BY <1>2, <2>3, <2>4 DEF Menu, Failed
  <1>3. CASE ~Recorded(x.connection_id, x.user_id) /\ Put(s, main) /\ UNCHANGED connections
    <2>1. /\ DOMAIN main = DOMAIN ch \cup {"stage"} /\ main["stage"] = "MAIN"
          /\ \A f \in DOMAIN ch \ {"stage"} : main[f] = ch[f]
      BY DEF @@
    <2>2. DOMAIN main \subseteq Fields
      BY <2>1, FieldsAre
    <2> HIDE DEF main
    <2>3. /\ Shape' /\ \A t \in Sessions : t # s => session'[t] = session[t]
          /\ \A f \in Fields :
                session'[s][f] = IF f \in DOMAIN main THEN main[f] ELSE session[s][f]
      BY <1>3, <2>2, PutStep DEF main
    <2>4. /\ session'[s].stage = "MAIN"
          /\ session'[s].connection_id = session[s].connection_id
          /\ session'[s].broken = session[s].broken
          /\ session'[s].user_id = x.user_id
          /\ \A f \in Fields \ {"stage", "connection_id", "broken", "last_id"} :
               session'[s][f] = IF f \in DOMAIN ch THEN ch[f] ELSE session[s][f]
      BY <1>0, <2>1, <2>3, FieldsAre
    <2> QED BY <1>0, <1>3, <2>3, <2>4 DEF Menu, Kept, Recorded
  <1> QED BY <1>1, <1>2, <1>3 DEF EnterMain

\* begin_terminal: the menu, or first the question for the terminal's size.
Asked(s, y) ==
    /\ y.stage = "TERM_QUERY"
    /\ y.connection_id = session[s].connection_id /\ y.broken = session[s].broken
    /\ UNCHANGED connections

\* What begin_terminal leaves of the sessions.
LEMMA BeginTerminalStep ==
  ASSUME Shape, NEW s \in Sessions, NEW ch,
         DOMAIN ch \subseteq Fields \ {"stage", "connection_id", "broken", "query", "query_ms"},
         BeginTerminal(s, ch), connections \in Seq(Connection)
  PROVE  /\ Shape' /\ \A t \in Sessions : t # s => session'[t] = session[t]
         /\ Menu(s, session'[s]) \/ Asked(s, session'[s])
         /\ session'[s].query_ms \in {session[s].query_ms, 0}
         /\ \A f \in Fields \ {"stage", "connection_id", "broken", "last_id", "query", "query_ms"} :
               session'[s][f] = IF f \in DOMAIN ch THEN ch[f] ELSE session[s][f]
  <1>1. CASE EnterMain(s, ch)
    BY <1>1, EnterMainStep, FieldsAre
  <1>2. CASE /\ Put(s, [stage |-> "TERM_QUERY", query |-> {}, query_ms |-> 0] @@ ch)
             /\ UNCHANGED connections
    <2> DEFINE c == [stage |-> "TERM_QUERY", query |-> {}, query_ms |-> 0] @@ ch
    <2>1. /\ DOMAIN c = DOMAIN ch \cup {"stage", "query", "query_ms"}
          /\ c["stage"] = "TERM_QUERY" /\ c["query_ms"] = 0
          /\ \A f \in DOMAIN ch \ {"stage", "query", "query_ms"} : c[f] = ch[f]
      BY DEF @@
    <2>2. DOMAIN c \subseteq Fields
      BY <2>1, FieldsAre
    <2> HIDE DEF c
    <2>3. /\ Shape' /\ \A t \in Sessions : t # s => session'[t] = session[t]
          /\ \A f \in Fields : session'[s][f] = IF f \in DOMAIN c THEN c[f] ELSE session[s][f]
      BY <1>2, <2>2, PutStep DEF c
    <2> QED BY <1>2, <2>1, <2>3, FieldsAre DEF Asked
  <1> QED BY <1>1, <1>2 DEF BeginTerminal

\* One session changed.
Moved(s) == Shape' /\ \A t \in Sessions : t # s => session'[t] = session[t]

\* A step that only takes a line apart from what is given.
LEMMA DoneStep ==
  ASSUME Shape, NEW s \in Sessions, NEW ch, DOMAIN ch \subseteq Fields \ {"line", "feed"},
         Put(s, ch @@ Done(s))
  PROVE  /\ Moved(s)
         /\ session'[s].line = <<>> /\ session'[s].feed = Tail(session[s].feed)
         /\ \A f \in Fields \ {"line", "feed"} :
               session'[s][f] = IF f \in DOMAIN ch THEN ch[f] ELSE session[s][f]
  <1> DEFINE c == ch @@ Done(s)
  <1>1. /\ DOMAIN c = DOMAIN ch \cup {"line", "feed"}
        /\ c["line"] = <<>> /\ c["feed"] = Tail(session[s].feed)
        /\ \A f \in DOMAIN ch : c[f] = ch[f]
    BY DEF @@, Done
  <1>2. DOMAIN c \subseteq Fields
    BY <1>1, FieldsAre
  <1> HIDE DEF c
  <1>3. /\ Moved(s)
        /\ \A f \in Fields : session'[s][f] = IF f \in DOMAIN c THEN c[f] ELSE session[s][f]
    BY <1>2, PutStep DEF c, Moved
  <1> QED BY <1>1, <1>3, FieldsAre

\* One stage after another.
LEMMA GotoStep ==
  ASSUME Shape, NEW s \in Sessions, NEW stage, Goto(s, stage)
  PROVE  /\ Moved(s)
         /\ session'[s].line = <<>> /\ session'[s].feed = Tail(session[s].feed)
         /\ session'[s].stage = stage
         /\ \A f \in Fields \ {"line", "feed", "stage"} : session'[s][f] = session[s][f]
  <1> DEFINE ch == [stage |-> stage]
  <1>1. DOMAIN ch = {"stage"} /\ ch["stage"] = stage
    OBVIOUS
  <1>2. DOMAIN ch \subseteq Fields \ {"line", "feed"}
    BY <1>1, FieldsAre
  <1>3. Put(s, ch @@ Done(s))
    BY DEF Goto
  <1> HIDE DEF ch
  <1> QED BY <1>1, <1>2, <1>3, DoneStep, FieldsAre

\* A session that is freed.
LEMMA DestroyStep ==
  ASSUME Shape, NEW s \in Sessions, NEW ch, DOMAIN ch \subseteq {"early"}, Destroy(s, ch)
  PROVE  /\ Moved(s)
         /\ session'[s].at = "gone"
         /\ session'[s].early = IF "early" \in DOMAIN ch THEN ch["early"] ELSE <<>>
         /\ \A f \in {"heard", "user_id", "broken"} : session'[s][f] = session[s][f]
         /\ \A f \in Fields \ {"at", "early", "heard", "user_id", "broken"} :
               session'[s][f] = New[f]
  <1> DEFINE n == [New EXCEPT !.at = "gone", !.heard = session[s].heard,
                       !.user_id = session[s].user_id, !.broken = session[s].broken]
             c == ch @@ n
  <1>1. /\ DOMAIN n = Fields /\ n["at"] = "gone"
        /\ \A f \in {"heard", "user_id", "broken"} : n[f] = session[s][f]
        /\ \A f \in Fields \ {"at", "heard", "user_id", "broken"} : n[f] = New[f]
    BY FieldsAre DEF Fields
  <1>2. New["early"] = <<>>
    BY DEF New
  <1> HIDE DEF n
  <1>3. /\ DOMAIN c = Fields /\ c["at"] = "gone"
        /\ \A f \in {"heard", "user_id", "broken"} : c[f] = session[s][f]
        /\ c["early"] = IF "early" \in DOMAIN ch THEN ch["early"] ELSE <<>>
        /\ \A f \in Fields \ {"at", "early", "heard", "user_id", "broken"} : c[f] = New[f]
    BY <1>1, <1>2, FieldsAre DEF @@
  <1>4. Put(s, c)
    BY DEF Destroy, n
  <1> HIDE DEF c
  <1> QED BY <1>3, <1>4, PutStep, FieldsAre DEF Moved

\* A session that is killed.
LEMMA KilledStep ==
  ASSUME Shape, NEW s \in Sessions, Killed(s)
  PROVE  /\ Moved(s)
         /\ session'[s].at = "gone" /\ session'[s].broken
         /\ \A f \in {"heard", "user_id"} : session'[s][f] = session[s][f]
         /\ \A f \in Fields \ {"at", "heard", "user_id", "broken"} : session'[s][f] = New[f]
  <1> DEFINE n == [New EXCEPT !.at = "gone", !.heard = session[s].heard,
                       !.user_id = session[s].user_id, !.broken = TRUE]
  <1>1. /\ DOMAIN n = Fields /\ n["at"] = "gone" /\ n["broken"] = TRUE
        /\ \A f \in {"heard", "user_id"} : n[f] = session[s][f]
        /\ \A f \in Fields \ {"at", "heard", "user_id", "broken"} : n[f] = New[f]
    BY FieldsAre DEF Fields
  <1>2. Put(s, n)
    BY DEF Killed
  <1> HIDE DEF n
  <1> QED BY <1>1, <1>2, PutStep, FieldsAre DEF Moved

-----------------------------------------------------------------------------
(* The invariant, by what it is about.                                     *)

Started == {"idle", "feed", "route", "load", "save"}
Thens == {"stay", "leave", "again", "won"}
User == [handle : Names, password : Seq(Token), ansi : BOOLEAN, sized : BOOLEAN]

\* What a session's fields hold.
Tagged(s) ==
    LET x == session[s] IN
    /\ x.at \in Started \cup {"none", "gone"} /\ x.route \in Routes /\ x.stage \in Stages
    /\ IF x.at = "none" THEN x.route = "SELECT" ELSE s \in DOMAIN scenario.chunks
    /\ x.query_ms \in Nat /\ x.query_ms < QueryTicks
    /\ x.pending \in Names \cup {None}
    /\ x.user_id \in 0..Len(users)
    /\ x.door \in Game \cup {"none"} /\ x.then \in Thens
    /\ x.at \in {"load", "save"} => x.stage = "DOOR"
    /\ x.stage = "DOOR" <=> x.door # "none"

Worded(s) ==
    LET x == session[s] IN
    /\ x.line \in Seq(Token) /\ Len(x.line) <= LineMax
    /\ x.feed \in Seq(Token) /\ x.heard \in Seq(Token)
    /\ x.ppp \in Seq(Token) /\ Len(x.ppp) <= PppSize

Flagged(s) == session[s].ansi \in BOOLEAN /\ session[s].sized \in BOOLEAN

\* Before the choice all that was heard is kept, as long as it may still begin a
\* frame; when it does, the frame goes to pppd; after another choice it is gone.
Early(s) ==
    LET x == session[s] IN
    /\ x.stage = "SELECT" => x.route \in {"SELECT", "PPP"}
    /\ x.stage # "SELECT" => x.route # "SELECT"
    /\ x.at = "idle" => x.route \in {"SELECT", "BBS"}
    /\ x.at # "gone" => x.early = <<>>
    /\ x.early # <<>> => x.early = x.heard /\ Prefix(x.early)
    /\ x.route = "SELECT" /\ x.at # "gone" =>
          ~Prefix(x.ppp) /\ (x.ppp = x.heard \/ Len(x.ppp) >= 2)
    /\ x.route # "SELECT" /\ x.ppp # <<>> =>
          x.at = "route" /\ x.route = "PPP" /\ x.ppp = x.heard /\ Prefix(x.ppp)

\* Past the login there is a user, before it there is none.
Somebody(s) ==
    LET x == session[s] IN
    /\ x.stage \in Inside => x.user_id # 0 /\ Handle(s) = x.pending
    /\ x.stage \notin Inside /\ x.at # "gone" => x.user_id = 0

Menus == Inside \ {"TERM_QUERY", "TERM_ASK"}

\* The row of connections a session has.
OwnRow(s) ==
    LET x == session[s] IN
    /\ x.connection_id # 0 => /\ x.connection_id \in 1..Len(connections) /\ x.stage \in Inside
                              /\ connections[x.connection_id].by = s
    /\ x.connection_id = 0 /\ x.at # "gone" =>
          \A i \in 1..Len(connections) : connections[i].by # s
    /\ x.stage \in Menus => x.connection_id # 0
    /\ \A i \in 1..Len(connections) :
          connections[i].by = s => /\ connections[i].user = x.user_id
                                   /\ connections[i].ended => x.at = "gone"

OneEach == \A i, j \in 1..Len(connections) : connections[i].by = connections[j].by => i = j
Rows == NoneBroken => OneEach /\ \A s \in Sessions : OwnRow(s)

Types == \A s \in Sessions : Tagged(s) /\ Worded(s) /\ Flagged(s)
Tables == scenario \in Scenarios /\ users \in Seq(User) /\ connections \in Seq(Connection)

IInv == /\ Shape /\ Tables /\ Types
        /\ \A s \in Sessions : Early(s) /\ Somebody(s)
        /\ Rows

-----------------------------------------------------------------------------
(* What a step has to leave alone for each part to hold after it.          *)

\* The users that are, stay who they are.
Grown ==
    /\ users' \in Seq(User) /\ Len(users) <= Len(users')
    /\ \A id \in 1..Len(users) : users'[id].handle = users[id].handle

\* The session goes on with what it has heard.
Goes(x, y) ==
    /\ y.ppp = x.ppp /\ y.heard = x.heard /\ y.early = x.early
    /\ x.at \in Started /\ y.at \in Started
    /\ y.at = "idle" => y.route \in {"SELECT", "BBS"}
    /\ x.at = "route" => y.at = "idle"
    /\ y.route = x.route \/ (x.stage # "SELECT" /\ y.route \in {"PPP", "HANGUP"})
    /\ x.stage = "SELECT" <=> y.stage = "SELECT"

\* It stays somebody's, or nobody's.
Keeps(x, y) ==
    /\ x.at # "gone" /\ y.at # "gone"
    /\ y.user_id = x.user_id
    /\ y.stage \in Inside <=> x.stage \in Inside
    /\ x.stage \in Inside => y.pending = x.pending

\* It keeps its row.
Holds(x, y) ==
    /\ y.connection_id = x.connection_id
    /\ x.broken => y.broken
    /\ y.stage \in Menus => x.stage \in Menus

\* Early depends on no other session, nor on the tables.
LEMMA EarlyGoes ==
  ASSUME NEW s \in Sessions, Early(s), Goes(session[s], session'[s])
  PROVE  Early(s)'
  BY DEF Early, Goes, Prefix, Started

\* Nor does a session change under the feet of another, whose user stays.
LEMMA SomebodyKeeps ==
  ASSUME NEW s \in Sessions, Somebody(s), Tagged(s), users \in Seq(User), Grown,
         Keeps(session[s], session'[s])
  PROVE  Somebody(s)'
  <1> DEFINE x == session[s]
             y == session'[s]
  <1>1. x.user_id \in 0..Len(users) /\ Len(users) \in Nat
    BY DEF Tagged
  <1>2. y.user_id = x.user_id
    BY DEF Keeps
  <1>3. x.user_id # 0 => users'[y.user_id].handle = users[x.user_id].handle
    BY <1>1, <1>2 DEF Grown
  <1> QED BY <1>2, <1>3 DEF Somebody, Keeps, Handle

\* The other sessions.
LEMMA Elsewhere ==
  ASSUME IInv, NEW s \in Sessions, Moved(s), UNCHANGED scenario, Grown,
         NEW t \in Sessions, t # s
  PROVE  Tagged(t)' /\ Worded(t)' /\ Flagged(t)' /\ Early(t)' /\ Somebody(t)'
  <1>0. Tagged(t) /\ Worded(t) /\ Flagged(t) /\ Early(t) /\ Somebody(t) /\ users \in Seq(User)
    BY DEF IInv, Types, Tables
  <1>1. session'[t] = session[t]
    BY DEF Moved
  <1>2. Len(users) \in Nat /\ Len(users') \in Nat /\ Len(users) <= Len(users')
    BY <1>0 DEF Grown
  <1>3. Tagged(t)'
    BY <1>0, <1>1, <1>2 DEF Tagged
  <1>4. Worded(t)'
    BY <1>0, <1>1 DEF Worded
  <1>5. Flagged(t)'
    BY <1>0, <1>1 DEF Flagged
  <1>6. Early(t)'
    BY <1>0, <1>1 DEF Early, Prefix
  <1>7. session[t].user_id \in 0..Len(users)
    BY <1>0 DEF Tagged
  <1>8. session[t].user_id # 0 => users'[session'[t].user_id].handle = users[session[t].user_id].handle
    BY <1>1, <1>2, <1>7 DEF Grown
  <1>9. Somebody(t)'
    BY <1>0, <1>1, <1>8 DEF Somebody, Handle, Tagged, Inside
  <1> QED BY <1>3, <1>4, <1>5, <1>6, <1>9

\* A broken statement stays broken.
LEMMA BrokenStays ==
  ASSUME NEW s \in Sessions, Moved(s), session[s].broken => session'[s].broken
  PROVE  NoneBroken' => NoneBroken
  BY DEF Moved, NoneBroken

\* Nobody's row changes.
LEMMA RowsKept ==
  ASSUME IInv, NEW s \in Sessions, Moved(s), UNCHANGED connections,
         Keeps(session[s], session'[s]), Holds(session[s], session'[s])
  PROVE  Rows'
  <1> SUFFICES ASSUME NoneBroken' PROVE OneEach' /\ \A t \in Sessions : OwnRow(t)'
    BY DEF Rows
  <1>1. OneEach /\ \A t \in Sessions : OwnRow(t)
    BY BrokenStays DEF Holds, IInv, Rows
  <1>2. ASSUME NEW t \in Sessions, t # s PROVE OwnRow(t)'
    BY <1>1, <1>2 DEF Moved, OwnRow
  <1>3. OwnRow(s)'
    BY <1>1 DEF OwnRow, Keeps, Holds
  <1> QED BY <1>1, <1>2, <1>3 DEF OneEach

\* Most steps.
LEMMA Ordinary ==
  ASSUME IInv, NEW s \in Sessions, Moved(s), UNCHANGED <<scenario, connections>>, Grown,
         Goes(session[s], session'[s]), Keeps(session[s], session'[s]),
         Holds(session[s], session'[s]), Tagged(s)', Worded(s)', Flagged(s)'
  PROVE  IInv'
  <1>1. Rows'
    BY RowsKept
  <1>2. Early(s)'
    BY EarlyGoes DEF IInv
  <1>3. Somebody(s)'
    BY SomebodyKeeps DEF IInv, Tables, Types
  <1>4. Shape' /\ Tables'
    BY DEF IInv, Tables, Moved, Grown
  <1>5. \A t \in Sessions : t # s => Tagged(t)' /\ Worded(t)' /\ Flagged(t)' /\ Early(t)' /\ Somebody(t)'
    BY Elsewhere
  <1> QED BY <1>1, <1>2, <1>3, <1>4, <1>5 DEF IInv, Types

\* A session that comes to the menu has a row, if the INSERT did not fail.
LEMMA RowsMenu ==
  ASSUME IInv, NEW s \in Sessions, Moved(s), Menu(s, session'[s]),
         session[s].at # "gone", session'[s].at # "gone",
         session'[s].user_id # 0, session'[s].user_id \in Nat,
         session[s].stage \in Inside => session'[s].user_id = session[s].user_id
  PROVE  Rows' /\ connections' \in Seq(Connection)
  <1> DEFINE x == session[s]
             y == session'[s]
             row == [user |-> y.user_id, by |-> s, ended |-> FALSE]
  <1>0. connections \in Seq(Connection) /\ y.stage = "MAIN" /\ y.stage \in Inside
    BY DEF IInv, Tables, Menu, Inside
  <1>1. CASE Inserted(s, y)
    <2>1. row \in Connection
      BY DEF Connection
    <2>2. connections' = Append(connections, row) /\ x.connection_id = 0
      BY <1>1 DEF Inserted
    <2> HIDE DEF row
    <2>3. connections' \in Seq(Connection)
      BY <1>0, <2>1, <2>2
    <2>4. /\ Len(connections) \in Nat /\ Len(connections') = Len(connections) + 1
          /\ connections'[Len(connections')] = row
          /\ \A i \in 1..Len(connections) : connections'[i] = connections[i]
      BY <1>0, <2>1, <2>2
    <2>5. row.user = y.user_id /\ row.by = s /\ row.ended = FALSE
      BY DEF row
    <2>6. SUFFICES ASSUME NoneBroken' PROVE OneEach' /\ \A t \in Sessions : OwnRow(t)'
      BY <2>3 DEF Rows
    <2>7. OneEach /\ \A t \in Sessions : OwnRow(t)
      BY <1>1, <2>6, BrokenStays DEF Inserted, IInv, Rows
    <2>8. \A i \in 1..Len(connections) : connections[i].by # s
      BY <2>2, <2>7 DEF OwnRow
    <2>9. OneEach'
      BY <2>4, <2>5, <2>7, <2>8 DEF OneEach
    <2>10. ASSUME NEW t \in Sessions, t # s PROVE OwnRow(t)'
      <3>1. session'[t] = session[t] /\ OwnRow(t)
        BY <2>7, <2>10 DEF Moved
      <3>2. \A i \in 1..Len(connections') : connections'[i].by = t => i \in 1..Len(connections)
        BY <2>4, <2>5, <2>10
      <3> QED BY <2>4, <3>1, <3>2 DEF OwnRow
    <2>11. OwnRow(s)'
      <3>1. y.connection_id = Len(connections')
        BY <1>1, <2>4 DEF Inserted
      <3>2. \A i \in 1..Len(connections') : connections'[i].by = s => connections'[i] = row
        BY <2>4, <2>8
      <3> QED BY <1>0, <2>4, <2>5, <3>1, <3>2 DEF OwnRow
    <2> QED BY <2>9, <2>10, <2>11
  <1>2. CASE Failed(y)
    <2>1. ~NoneBroken'
      BY <1>2 DEF Failed, NoneBroken
    <2> QED BY <1>0, <1>2, <2>1 DEF Failed, Rows
  <1>3. CASE Kept(s, y)
    <2>1. x.connection_id # 0 /\ y.connection_id = x.connection_id /\ connections' = connections
      BY <1>3 DEF Kept
    <2>2. SUFFICES ASSUME NoneBroken' PROVE OneEach' /\ \A t \in Sessions : OwnRow(t)'
      BY <1>0, <2>1 DEF Rows
    <2>3. OneEach /\ \A t \in Sessions : OwnRow(t)
      BY <1>3, <2>2, BrokenStays DEF Kept, IInv, Rows
    <2>4. ASSUME NEW t \in Sessions, t # s PROVE OwnRow(t)'
      BY <2>1, <2>3, <2>4 DEF Moved, OwnRow
    <2>5. OwnRow(s)'
      BY <1>0, <2>1, <2>3 DEF OwnRow
    <2> QED BY <2>1, <2>3, <2>4, <2>5 DEF OneEach
  <1> QED BY <1>1, <1>2, <1>3 DEF Menu

\* A step of a session preserves the invariant if it does so for that session.
LEMMA Together ==
  ASSUME IInv, NEW s \in Sessions, Moved(s), UNCHANGED scenario, Grown,
         connections' \in Seq(Connection), Rows',
         Tagged(s)', Worded(s)', Flagged(s)', Early(s)', Somebody(s)'
  PROVE  IInv'
  <1>1. Shape' /\ Tables'
    BY DEF IInv, Tables, Moved, Grown
  <1>2. \A t \in Sessions : t # s => Tagged(t)' /\ Worded(t)' /\ Flagged(t)' /\ Early(t)' /\ Somebody(t)'
    BY Elsewhere
  <1> QED BY <1>1, <1>2 DEF IInv, Types

\* The users stay.
LEMMA SameUsers ==
  ASSUME users \in Seq(User), UNCHANGED users
  PROVE  Grown
  BY DEF Grown

\* A row of users with another terminal.
LEMMA Overwritten ==
  ASSUME NEW H, NEW P, NEW A, NEW S, NEW u \in [handle : H, password : P, ansi : A, sized : S],
         NEW a \in A, NEW b \in S
  PROVE  [u EXCEPT !.ansi = a, !.sized = b] \in [handle : H, password : P, ansi : A, sized : S]
  OBVIOUS

\* A terminal that is saved changes no handle.
LEMMA TerminalSaved ==
  ASSUME users \in Seq(User), NEW s \in Sessions, NEW ansi \in BOOLEAN, NEW sized \in BOOLEAN,
         session[s].user_id \in 0..Len(users), SaveTerminal(s, ansi, sized)
  PROVE  Grown /\ Len(users') = Len(users)
  <1>1. CASE UNCHANGED users
    BY <1>1, SameUsers
  <1>2. CASE users' = [users EXCEPT ![session[s].user_id].ansi = ansi,
                                    ![session[s].user_id].sized = sized]
    <2> DEFINE i == session[s].user_id
               row == [users[i] EXCEPT !.ansi = ansi, !.sized = sized]
    <2>1. Len(users) \in Nat /\ DOMAIN users = 1..Len(users)
      OBVIOUS
    <2>2. users' = [users EXCEPT ![i] = row]
      BY <1>2
    <2>3. ASSUME i \in 1..Len(users) PROVE row \in User /\ row.handle = users[i].handle
      <3>0. users[i] \in User
        BY <2>3
      <3>1. users[i] \in [handle : Names, password : Seq(Token), ansi : BOOLEAN, sized : BOOLEAN]
        BY <3>0, Zenon DEF User
      <3>2. row \in [handle : Names, password : Seq(Token), ansi : BOOLEAN, sized : BOOLEAN]
        BY <3>1, Overwritten, Zenon
      <3>3. row \in User
        BY <3>2, Zenon DEF User
      <3> QED BY <3>1, <3>3
    <2> HIDE DEF row
    <2>4. CASE i \in 1..Len(users)
      BY <2>1, <2>2, <2>3, <2>4, ExceptSeq DEF Grown
    <2>5. CASE i = 0
      <3>1. users' = users
        BY <2>1, <2>2, <2>5
      <3> QED BY <3>1, SameUsers
    <2> QED BY <2>1, <2>4, <2>5
  <1> QED BY <1>1, <1>2 DEF SaveTerminal

\* What a session has when it takes a line.
LEMMA Spoken ==
  ASSUME IInv, NEW s \in Sessions, NEW stage, Line(s, stage)
  PROVE  /\ session[s].at = "feed" /\ session[s].stage = stage
         /\ Tail(session[s].feed) \in Seq(Token) /\ First(s) \in Token
         /\ Tagged(s) /\ Worded(s) /\ Flagged(s) /\ Early(s) /\ Somebody(s)
         /\ users \in Seq(User) /\ connections \in Seq(Connection)
  <1>1. /\ Tagged(s) /\ Worded(s) /\ Flagged(s) /\ Early(s) /\ Somebody(s)
        /\ users \in Seq(User) /\ connections \in Seq(Connection)
    BY DEF IInv, Types, Tables
  <1>2. session[s].feed \in Seq(Token) /\ session[s].line \in Seq(Token)
    BY <1>1 DEF Worded
  <1>3. session[s].at = "feed" /\ session[s].stage = stage /\ session[s].feed # <<>> /\ session[s].line # <<>>
    BY DEF Line
  <1>4. Tail(session[s].feed) \in Seq(Token) /\ Head(session[s].line) \in Token
    BY <1>2, <1>3
  <1> QED BY <1>1, <1>3, <1>4 DEF First

\* What the games and the menus may change.
Free == {"line", "feed", "stage", "pending", "route", "moves", "values", "keys", "then",
         "door", "at"}

\* A line after the choice that the session goes on from.
LEMMA Answered ==
  ASSUME IInv, NEW s \in Sessions, NEW stage \in Stages \ {"SELECT"}, Line(s, stage), Moved(s),
         UNCHANGED <<scenario, connections>>, Grown,
         session'[s].line = <<>>, session'[s].feed = Tail(session[s].feed),
         \A f \in Fields \ Free : session'[s][f] = session[s][f],
         session'[s].at \in {"feed", "load", "save"}, session'[s].stage \in Stages \ {"SELECT"},
         session'[s].stage \in Inside <=> stage \in Inside,
         session'[s].stage \in Menus => stage \in Menus,
         stage \in Inside => session'[s].pending = session[s].pending,
         session'[s].pending \in Names \cup {None},
         session'[s].route = session[s].route \/ session'[s].route \in {"PPP", "HANGUP"},
         session'[s].door \in Game \cup {"none"}, session'[s].then \in Thens,
         session'[s].at \in {"load", "save"} => session'[s].stage = "DOOR",
         session'[s].stage = "DOOR" <=> session'[s].door # "none"
  PROVE  IInv'
  <1> DEFINE x == session[s]
             y == session'[s]
  <1>1. /\ x.at = "feed" /\ x.stage = stage /\ Tail(x.feed) \in Seq(Token)
        /\ Tagged(s) /\ Worded(s) /\ Flagged(s)
    BY Spoken
  <1>2. /\ y.ppp = x.ppp /\ y.heard = x.heard /\ y.early = x.early /\ y.query_ms = x.query_ms
        /\ y.user_id = x.user_id /\ y.ansi = x.ansi /\ y.sized = x.sized
        /\ y.connection_id = x.connection_id /\ y.broken = x.broken
    BY FieldsAre DEF Free
  <1>3. Len(users) \in Nat /\ Len(users') \in Nat /\ Len(users) <= Len(users')
    BY DEF Grown, IInv, Tables
  <1>4. Tagged(s)'
    BY <1>1, <1>2, <1>3 DEF Tagged, Started, Routes
  <1>5. Worded(s)'
    BY <1>1, <1>2 DEF Worded
  <1>6. Flagged(s)'
    BY <1>1, <1>2 DEF Flagged
  <1>7. Goes(x, y)
    BY <1>1, <1>2 DEF Goes, Started
  <1>8. Keeps(x, y)
    BY <1>1, <1>2 DEF Keeps
  <1>9. Holds(x, y)
    BY <1>1, <1>2 DEF Holds
  <1> QED BY <1>4, <1>5, <1>6, <1>7, <1>8, <1>9, Ordinary

\* A line that only goes to another stage.
LEMMA Goes_on ==
  ASSUME IInv, NEW s \in Sessions, NEW stage \in Stages \ {"SELECT", "DOOR"}, Line(s, stage),
         NEW next \in Stages \ {"SELECT", "DOOR"}, Goto(s, next),
         UNCHANGED <<scenario, connections>>, Grown,
         next \in Inside <=> stage \in Inside, next \in Menus => stage \in Menus
  PROVE  IInv'
  <1> DEFINE x == session[s]
             y == session'[s]
  <1>1. x.at = "feed" /\ x.stage = stage /\ Tagged(s)
    BY Spoken
  <1>2. /\ Moved(s) /\ y.line = <<>> /\ y.feed = Tail(x.feed) /\ y.stage = next
        /\ \A f \in Fields \ {"line", "feed", "stage"} : y[f] = x[f]
    BY GotoStep DEF IInv
  <1>3. /\ y.at = x.at /\ y.pending = x.pending /\ y.route = x.route /\ y.door = x.door
        /\ y.then = x.then /\ \A f \in Fields \ Free : y[f] = x[f]
    BY <1>2, FieldsAre DEF Free
  <1>4. x.pending \in Names \cup {None} /\ x.door = "none" /\ x.then \in Thens
    BY <1>1 DEF Tagged
  <1> QED BY <1>1, <1>2, <1>3, <1>4, Answered

-----------------------------------------------------------------------------
(* The menus.                                                              *)

\* Where each stage is.
LEMMA StagesAre ==
  /\ Stages = {"SELECT", "LOGIN", "PASSWORD", "NEW_NAME", "NEW_PASSWORD"} \cup Inside
  /\ Inside = {"TERM_QUERY", "TERM_ASK", "MAIN", "TERM_MENU", "TERM_ANSI", "TERM_SIZE",
               "TERM_CHARSET", "DOORS", "DOOR"}
  /\ Menus = {"MAIN", "TERM_MENU", "TERM_ANSI", "TERM_SIZE", "TERM_CHARSET", "DOORS", "DOOR"}
  BY DEF Stages, Inside, Menus

\* The name and the name of a new user.
LEMMA NamedStep ==
  ASSUME IInv, NEW s \in Sessions, NEW stage \in {"LOGIN", "NEW_NAME"}, Line(s, stage),
         NEW next \in {"PASSWORD", "NEW_PASSWORD"},
         Put(s, [pending |-> Typed(s), stage |-> next] @@ Done(s)),
         UNCHANGED <<scenario, users, connections>>
  PROVE  IInv'
  <1> DEFINE x == session[s]
             y == session'[s]
             ch == [pending |-> Typed(s), stage |-> next]
  <1>1. x.at = "feed" /\ x.stage = stage /\ Tagged(s) /\ users \in Seq(User)
    BY Spoken
  <1>2. Typed(s) \in Names \cup {None}
    BY DEF Typed
  <1>3. DOMAIN ch = {"pending", "stage"} /\ ch["pending"] = Typed(s) /\ ch["stage"] = next
    OBVIOUS
  <1>4. DOMAIN ch \subseteq Fields \ {"line", "feed"}
    BY <1>3, FieldsAre
  <1>5. Put(s, ch @@ Done(s))
    OBVIOUS
  <1> HIDE DEF ch
  <1>6. /\ Moved(s) /\ y.line = <<>> /\ y.feed = Tail(x.feed)
        /\ \A f \in Fields \ {"line", "feed"} : y[f] = IF f \in DOMAIN ch THEN ch[f] ELSE x[f]
    BY <1>4, <1>5, DoneStep DEF IInv
  <1>7. /\ y.stage = next /\ y.pending = Typed(s)
        /\ y.at = x.at /\ y.route = x.route /\ y.door = x.door
        /\ y.then = x.then /\ \A f \in Fields \ Free : y[f] = x[f]
    BY <1>3, <1>6, FieldsAre DEF Free
  <1>8. x.door = "none" /\ x.then \in Thens
    BY <1>1 DEF Tagged
  <1>9. Grown
    BY <1>1, SameUsers
  <1> QED BY <1>1, <1>2, <1>6, <1>7, <1>8, <1>9, Answered, StagesAre

\* Login, NewName.
LEMMA LoginInv ==
  ASSUME IInv, NEW s \in Sessions, Login(s) \/ NewName(s)
  PROVE  IInv'
  <1>1. users \in Seq(User)
    BY DEF IInv, Tables
  <1>2. CASE Login(s) /\ Goto(s, "NEW_NAME")
    <2>1. Line(s, "LOGIN") /\ UNCHANGED <<scenario, users, connections>>
      BY <1>2 DEF Login
    <2> QED BY <1>1, <1>2, <2>1, SameUsers, Goes_on, StagesAre
  <1>3. CASE Login(s) /\ Put(s, [pending |-> Typed(s), stage |-> "PASSWORD"] @@ Done(s))
    <2>1. Line(s, "LOGIN") /\ UNCHANGED <<scenario, users, connections>>
      BY <1>3 DEF Login
    <2> QED BY <1>3, <2>1, NamedStep
  <1>4. CASE NewName(s)
    <2>1. /\ Line(s, "NEW_NAME") /\ UNCHANGED <<scenario, users, connections>>
          /\ Put(s, [pending |-> Typed(s), stage |-> "NEW_PASSWORD"] @@ Done(s))
      BY <1>4 DEF NewName
    <2> QED BY <2>1, NamedStep
  <1> QED BY <1>2, <1>3, <1>4 DEF Login

\* The choice of a route at the menu.
LEMMA RouteStep ==
  ASSUME IInv, NEW s \in Sessions, Line(s, "MAIN"), NEW route \in {"PPP", "HANGUP"},
         Put(s, [route |-> route] @@ Done(s)), UNCHANGED <<scenario, users, connections>>
  PROVE  IInv'
  <1> DEFINE x == session[s]
             y == session'[s]
             ch == [route |-> route]
  <1>1. x.at = "feed" /\ x.stage = "MAIN" /\ Tagged(s) /\ users \in Seq(User)
    BY Spoken
  <1>3. DOMAIN ch = {"route"} /\ ch["route"] = route
    OBVIOUS
  <1>4. DOMAIN ch \subseteq Fields \ {"line", "feed"}
    BY <1>3, FieldsAre
  <1>5. Put(s, ch @@ Done(s))
    OBVIOUS
  <1> HIDE DEF ch
  <1>6. /\ Moved(s) /\ y.line = <<>> /\ y.feed = Tail(x.feed)
        /\ \A f \in Fields \ {"line", "feed"} : y[f] = IF f \in DOMAIN ch THEN ch[f] ELSE x[f]
    BY <1>4, <1>5, DoneStep DEF IInv
  <1>7. /\ y.route = route /\ y.stage = x.stage /\ y.pending = x.pending
        /\ y.at = x.at /\ y.door = x.door
        /\ y.then = x.then /\ \A f \in Fields \ Free : y[f] = x[f]
    BY <1>3, <1>6, FieldsAre DEF Free
  <1>8. x.door = "none" /\ x.then \in Thens /\ x.pending \in Names \cup {None}
    BY <1>1 DEF Tagged
  <1>9. Grown
    BY <1>1, SameUsers
  <1> QED BY <1>1, <1>6, <1>7, <1>8, <1>9, Answered, StagesAre

\* Main, TermMenu, TermSize.
LEMMA MenuInv ==
  ASSUME IInv, NEW s \in Sessions, Main(s) \/ TermMenu(s) \/ TermSize(s)
  PROVE  IInv'
  <1>1. users \in Seq(User) /\ Tagged(s) /\ Flagged(s)
    BY DEF IInv, Tables, Types
  <1>2. CASE Main(s)
    <2>1. Line(s, "MAIN") /\ UNCHANGED <<scenario, users, connections>> /\ Grown
      BY <1>1, <1>2, SameUsers DEF Main
    <2>2. CASE \E next \in {"DOORS", "TERM_MENU", "MAIN"} : Goto(s, next)
      BY <2>1, <2>2, Goes_on, StagesAre
    <2>3. CASE \E route \in {"PPP", "HANGUP"} : Put(s, [route |-> route] @@ Done(s))
      BY <2>1, <2>3, RouteStep
    <2> QED BY <1>2, <2>2, <2>3 DEF Main
  <1>3. CASE TermMenu(s)
    <2>1. Line(s, "TERM_MENU") /\ UNCHANGED <<scenario, users, connections>> /\ Grown
      BY <1>1, <1>3, SameUsers DEF TermMenu
    <2>2. \E next \in {"TERM_ANSI", "TERM_SIZE", "TERM_CHARSET", "MAIN"} : Goto(s, next)
      BY <1>3 DEF TermMenu
    <2> QED BY <2>1, <2>2, Goes_on, StagesAre
  <1>4. CASE TermSize(s)
    <2>1. /\ Line(s, "TERM_SIZE") \/ Line(s, "TERM_CHARSET")
          /\ UNCHANGED <<scenario, connections>> /\ Goto(s, "MAIN")
          /\ SaveTerminal(s, session[s].ansi, session[s].sized) \/ UNCHANGED users
      BY <1>4 DEF TermSize
    <2>2. Grown
      BY <1>1, <2>1, SameUsers, TerminalSaved DEF Tagged, Flagged
    <2> QED BY <2>1, <2>2, Goes_on, StagesAre
  <1> QED BY <1>2, <1>3, <1>4

\* A feed's byte, its end, and the route that lets the session go on.
LEMMA ByteInv ==
  ASSUME IInv, NEW s \in Sessions, Byte(s)
  PROVE  IInv'
  <1> DEFINE x == session[s]
             y == session'[s]
             ch == Head(x.feed)
             rest == [feed |-> Tail(x.feed)]
  <1>1. /\ Tagged(s) /\ Worded(s) /\ Flagged(s) /\ Early(s) /\ users \in Seq(User)
        /\ x.at = "feed" /\ x.feed # <<>> /\ UNCHANGED <<scenario, users, connections>>
    BY DEF IInv, Types, Tables, Byte
  <1>2. /\ ch \in Token /\ Tail(x.feed) \in Seq(Token) /\ x.line \in Seq(Token)
        /\ Len(x.line) \in Nat /\ Len(x.line) <= LineMax
    BY <1>1 DEF Worded
  <1> DEFINE Took == /\ Moved(s) /\ y.feed = Tail(x.feed)
                     /\ y.line \in Seq(Token) /\ Len(y.line) <= LineMax
                     /\ \A f \in Fields \ {"line", "feed", "query"} : y[f] = x[f]
  <1>3. Took
    <2>1. CASE Put(s, [query |-> x.query \cup {ch}] @@ rest)
      <3> DEFINE c == [query |-> x.query \cup {ch}] @@ rest
      <3>1. DOMAIN c = {"query", "feed"} /\ c["feed"] = Tail(x.feed)
        BY DEF @@
      <3>2. DOMAIN c \subseteq Fields
        BY <3>1, FieldsAre
      <3> HIDE DEF c
      <3>3. Moved(s) /\ \A f \in Fields : y[f] = IF f \in DOMAIN c THEN c[f] ELSE x[f]
        BY <2>1, <3>2, PutStep DEF c, Moved, IInv
      <3> QED BY <1>2, <3>1, <3>3, FieldsAre
    <2>2. CASE Put(s, rest)
      <3>1. DOMAIN rest = {"feed"} /\ rest["feed"] = Tail(x.feed)
        OBVIOUS
      <3>2. DOMAIN rest \subseteq Fields
        BY <3>1, FieldsAre
      <3> HIDE DEF rest
      <3>3. Moved(s) /\ \A f \in Fields : y[f] = IF f \in DOMAIN rest THEN rest[f] ELSE x[f]
        BY <2>2, <3>2, PutStep DEF Moved, IInv
      <3> QED BY <1>2, <3>1, <3>3, FieldsAre
    <2>3. ASSUME NEW l \in Seq(Token), Len(l) <= LineMax, Put(s, [line |-> l] @@ rest)
          PROVE  Took
      <3> DEFINE c == [line |-> l] @@ rest
      <3>1. DOMAIN c = {"line", "feed"} /\ c["feed"] = Tail(x.feed) /\ c["line"] = l
        BY DEF @@
      <3>2. DOMAIN c \subseteq Fields
        BY <3>1, FieldsAre
      <3> HIDE DEF c
      <3>3. Moved(s) /\ \A f \in Fields : y[f] = IF f \in DOMAIN c THEN c[f] ELSE x[f]
        BY <2>3, <3>2, PutStep DEF c, Moved, IInv
      <3> QED BY <2>3, <3>1, <3>3, FieldsAre
    <2>4. CASE Put(s, [line |-> SubSeq(x.line, 1, Len(x.line) - 1)] @@ rest)
      <3> DEFINE l == SubSeq(x.line, 1, Len(x.line) - 1)
      <3>1. l \in Seq(Token) /\ Len(l) <= LineMax
        BY <1>2
      <3> QED BY <2>3, <2>4, <3>1
    <2>5. CASE Put(s, (IF HasRoom(x.line) THEN [line |-> Append(x.line, ch)] ELSE <<>>) @@ rest)
      <3>1. CASE HasRoom(x.line)
        <4>1. Append(x.line, ch) \in Seq(Token) /\ Len(Append(x.line, ch)) <= LineMax
          BY <1>2, <3>1 DEF HasRoom
        <4>2. Put(s, [line |-> Append(x.line, ch)] @@ rest)
          BY <2>5, <3>1
        <4> QED BY <2>3, <4>1, <4>2
      <3>2. CASE ~HasRoom(x.line)
        <4>1. <<>> @@ rest = rest
          BY DEF @@
        <4>2. Put(s, <<>> @@ rest)
          BY <2>5, <3>2
        <4> QED BY <2>2, <4>1, <4>2
      <3> QED BY <3>1, <3>2
    <2> QED BY <2>1, <2>2, <2>4, <2>5 DEF Byte
  <1>4. \A f \in {"at", "route", "stage", "ppp", "early", "heard", "query_ms", "pending",
                  "user_id", "ansi", "sized", "connection_id", "door", "then", "broken"} : y[f] = x[f]
    BY <1>3, FieldsAre
  <1>5. Tagged(s)'
    BY <1>1, <1>4 DEF Tagged
  <1>6. Worded(s)'
    BY <1>1, <1>2, <1>3, <1>4 DEF Worded
  <1>7. Flagged(s)'
    BY <1>1, <1>4 DEF Flagged
  <1>8. Goes(x, y) /\ Keeps(x, y) /\ Holds(x, y)
    BY <1>1, <1>4 DEF Goes, Keeps, Holds, Started
  <1> QED BY <1>1, <1>3, <1>5, <1>6, <1>7, <1>8, Ordinary, SameUsers

\* The places of a session between feeds.
LEMMA PlaceInv ==
  ASSUME IInv, NEW s \in Sessions, NEW at \in {"idle", "route"}, Put(s, [at |-> at]),
         UNCHANGED <<scenario, users, connections>>,
         \/ session[s].at = "feed" /\ at = "route"
         \/ session[s].at = "route" /\ at = "idle" /\ session[s].route \in {"SELECT", "BBS"}
  PROVE  IInv'
  <1> DEFINE x == session[s]
             y == session'[s]
             c == [at |-> at]
  <1>1. Tagged(s) /\ Worded(s) /\ Flagged(s) /\ users \in Seq(User)
    BY DEF IInv, Types, Tables
  <1>2. DOMAIN c = {"at"} /\ c["at"] = at
    OBVIOUS
  <1>3. DOMAIN c \subseteq Fields
    BY <1>2, FieldsAre
  <1>4. Put(s, c)
    OBVIOUS
  <1> HIDE DEF c
  <1>5. Moved(s) /\ \A f \in Fields : y[f] = IF f \in DOMAIN c THEN c[f] ELSE x[f]
    BY <1>3, <1>4, PutStep DEF Moved, IInv
  <1>6. /\ y.at = at
        /\ \A f \in {"route", "stage", "line", "feed", "ppp", "early", "heard", "query_ms", "pending",
                  "user_id", "ansi", "sized", "connection_id", "door", "then", "broken"} : y[f] = x[f]
    BY <1>2, <1>5, FieldsAre
  <1>7. Tagged(s)'
    BY <1>1, <1>6 DEF Tagged, Started
  <1>8. Worded(s)' /\ Flagged(s)'
    <2>1. Worded(s)'
      BY <1>1, <1>6 DEF Worded
    <2>2. Flagged(s)'
      BY <1>1, <1>6 DEF Flagged
    <2> QED BY <2>1, <2>2
  <1>9. Goes(x, y) /\ Keeps(x, y) /\ Holds(x, y)
    BY <1>6 DEF Goes, Keeps, Holds, Started
  <1> QED BY <1>1, <1>5, <1>7, <1>8, <1>9, Ordinary, SameUsers

\* A function on 1..n is a sequence.
LEMMA IsRow ==
  ASSUME NEW S, NEW n \in Nat, NEW f \in [1..n -> S]
  PROVE  f \in Seq(S) /\ Len(f) = n
  <1>1. f \in Seq(S) /\ DOMAIN f = 1..n
    OBVIOUS
  <1> QED BY <1>1

\* What the rows are after bbs_session_destroy.
LEMMA Completed ==
  ASSUME connections \in Seq(Connection), NEW id,
         connections' = [i \in 1..Len(connections) |->
                            IF i = id THEN [connections[i] EXCEPT !.ended = TRUE]
                                      ELSE connections[i]]
  PROVE  /\ connections' \in Seq(Connection) /\ Len(connections') = Len(connections)
         /\ \A i \in 1..Len(connections) :
               /\ connections'[i].by = connections[i].by
               /\ connections'[i].user = connections[i].user
               /\ i # id => connections'[i] = connections[i]
  <1> DEFINE row(i) == [connections[i] EXCEPT !.ended = TRUE]
  <1>1. Len(connections) \in Nat
    OBVIOUS
  <1>2. ASSUME NEW i \in 1..Len(connections)
        PROVE  row(i) \in Connection /\ row(i).by = connections[i].by /\ row(i).user = connections[i].user
    <2>1. connections[i] \in Connection
      OBVIOUS
    <2>2. row(i) \in Connection
      BY <2>1, Zenon DEF Connection
    <2>3. row(i).by = connections[i].by /\ row(i).user = connections[i].user
      BY <2>1 DEF Connection
    <2> QED BY <2>2, <2>3
  <1>3. \A i \in 1..Len(connections) : connections[i] \in Connection
    OBVIOUS
  <1> HIDE DEF row
  <1>4. connections' = [i \in 1..Len(connections) |-> IF i = id THEN row(i) ELSE connections[i]]
    BY DEF row
  <1>5. connections' \in Seq(Connection) /\ Len(connections') = Len(connections)
    <2>1. connections' \in [1..Len(connections) -> Connection]
      BY <1>2, <1>3, <1>4
    <2> QED BY <1>1, <2>1, IsRow
  <1> QED BY <1>1, <1>2, <1>4, <1>5

\* A session that is gone: only what it was about is left.
LEMMA GoneInv ==
  ASSUME IInv, NEW s \in Sessions, Moved(s), UNCHANGED <<scenario, users>>,
         session[s].at \in Started, session'[s].at = "gone",
         \/ session'[s].early = <<>>
         \/ session'[s].early = session[s].ppp /\ session[s].route = "PPP",
         session'[s].heard = session[s].heard, session'[s].user_id = session[s].user_id,
         session[s].broken => session'[s].broken,
         \A f \in Fields \ {"at", "early", "heard", "user_id", "broken"} : session'[s][f] = New[f],
         connections' \in Seq(Connection), Len(connections') = Len(connections),
         \A i \in 1..Len(connections) :
            /\ connections'[i].by = connections[i].by
            /\ connections'[i].user = connections[i].user
            /\ i # session[s].connection_id => connections'[i] = connections[i]
  PROVE  IInv'
  <1> DEFINE x == session[s]
             y == session'[s]
  <1>1. Tagged(s) /\ Worded(s) /\ Flagged(s) /\ Early(s) /\ users \in Seq(User)
    BY DEF IInv, Types, Tables
  <1>2. /\ New["route"] = "SELECT" /\ New["stage"] = "SELECT" /\ New["line"] = <<>>
        /\ New["feed"] = <<>> /\ New["ppp"] = <<>> /\ New["query_ms"] = 0 /\ New["pending"] = None
        /\ New["ansi"] = FALSE /\ New["sized"] = FALSE /\ New["connection_id"] = 0
        /\ New["door"] = "none" /\ New["then"] = "stay"
    BY DEF New
  <1>3. /\ y.route = "SELECT" /\ y.stage = "SELECT" /\ y.line = <<>>
        /\ y.feed = <<>> /\ y.ppp = <<>> /\ y.query_ms = 0 /\ y.pending = None
        /\ y.ansi = FALSE /\ y.sized = FALSE /\ y.connection_id = 0
        /\ y.door = "none" /\ y.then = "stay"
    BY <1>2, FieldsAre
  <1>4. Tagged(s)'
    BY <1>1, <1>3, StagesAre DEF Tagged, Routes, Thens, Started
  <1>5. Worded(s)'
    BY <1>1, <1>3 DEF Worded
  <1>6. Flagged(s)'
    BY <1>3, Zenon DEF Flagged
  <1>7. Early(s)'
    BY <1>1, <1>3 DEF Early, Prefix
  <1>8. Somebody(s)'
    BY <1>3, StagesAre DEF Somebody
  <1>9. Rows'
    <2> SUFFICES ASSUME NoneBroken' PROVE OneEach' /\ \A t \in Sessions : OwnRow(t)'
      BY DEF Rows
    <2>1. OneEach /\ \A t \in Sessions : OwnRow(t)
      BY BrokenStays DEF IInv, Rows
    <2>2. ASSUME NEW t \in Sessions, t # s PROVE OwnRow(t)'
      <3>1. session'[t] = session[t] /\ OwnRow(t)
        BY <2>1, <2>2 DEF Moved
      <3>2. x.connection_id # 0 => connections[x.connection_id].by # t
        BY <2>1, <2>2 DEF OwnRow
      <3>3. \A i \in 1..Len(connections) : connections[i].by = t => connections'[i] = connections[i]
        BY <2>1, <3>2 DEF OwnRow
      <3> QED BY <3>1, <3>3 DEF OwnRow
    <2>3. OwnRow(s)'
      BY <1>3, <2>1, StagesAre DEF OwnRow
    <2>4. OneEach'
      BY <2>1 DEF OneEach
    <2> QED BY <2>2, <2>3, <2>4
  <1> QED BY <1>1, <1>4, <1>5, <1>6, <1>7, <1>8, <1>9, Together, SameUsers

\* bbs_session_destroy.
LEMMA DestroyInv ==
  ASSUME IInv, NEW s \in Sessions, session[s].at \in Started, NEW ch, DOMAIN ch \subseteq {"early"},
         "early" \in DOMAIN ch => ch["early"] = session[s].ppp /\ session[s].route = "PPP",
         Destroy(s, ch)
  PROVE  IInv'
  <1> DEFINE x == session[s]
             y == session'[s]
  <1>1. /\ Moved(s) /\ y.at = "gone"
        /\ y.early = IF "early" \in DOMAIN ch THEN ch["early"] ELSE <<>>
        /\ y.heard = x.heard /\ y.user_id = x.user_id /\ y.broken = x.broken
        /\ \A f \in Fields \ {"at", "early", "heard", "user_id", "broken"} : y[f] = New[f]
    BY DestroyStep DEF IInv
  <1>2. connections \in Seq(Connection) /\ UNCHANGED <<scenario, users>>
    BY DEF IInv, Tables, Destroy
  <1>3. /\ connections' \in Seq(Connection) /\ Len(connections') = Len(connections)
        /\ \A i \in 1..Len(connections) :
             /\ connections'[i].by = connections[i].by
             /\ connections'[i].user = connections[i].user
             /\ i # x.connection_id => connections'[i] = connections[i]
    <2>1. CASE UNCHANGED connections
      BY <1>2, <2>1
    <2>2. CASE connections' = [i \in 1..Len(connections) |->
                                 IF i = x.connection_id THEN [connections[i] EXCEPT !.ended = TRUE]
                                                        ELSE connections[i]]
      BY <1>2, <2>2, Completed
    <2> QED BY <2>1, <2>2 DEF Destroy
  <1> QED BY <1>1, <1>2, <1>3, GoneInv

\* FeedEnds, PumpRoute, CallEnds, Killed.
LEMMA EndsInv ==
  ASSUME IInv, NEW s \in Sessions, FeedEnds(s) \/ PumpRoute(s) \/ CallEnds(s) \/ Killed(s)
  PROVE  IInv'
  <1> DEFINE x == session[s]
             y == session'[s]
  <1>1. CASE FeedEnds(s)
    BY <1>1, PlaceInv DEF FeedEnds
  <1>2. ASSUME x.at \in Started, Destroy(s, <<>>) PROVE IInv'
    <2>1. DOMAIN <<>> = {}
      OBVIOUS
    <2> QED BY <1>2, <2>1, DestroyInv
  <1>3. CASE PumpRoute(s)
    <2>1. CASE x.at = "route" /\ x.route = "PPP" /\ Destroy(s, [early |-> x.ppp])
      <3> DEFINE ch == [early |-> x.ppp]
      <3>1. DOMAIN ch = {"early"} /\ ch["early"] = x.ppp
        OBVIOUS
      <3>2. Destroy(s, ch) /\ x.at \in Started
        BY <2>1 DEF Started
      <3> HIDE DEF ch
      <3> QED BY <2>1, <3>1, <3>2, DestroyInv
    <2>2. CASE x.at = "route" /\ Destroy(s, <<>>)
      BY <1>2, <2>2 DEF Started
    <2>3. CASE /\ x.at = "route" /\ x.route \in {"SELECT", "BBS"} /\ Put(s, [at |-> "idle"])
               /\ UNCHANGED <<scenario, users, connections, games>>
      BY <2>3, PlaceInv
    <2> QED BY <1>3, <2>1, <2>2, <2>3 DEF PumpRoute
  <1>4. CASE CallEnds(s)
    BY <1>2, <1>4 DEF CallEnds, Started
  <1>5. CASE Killed(s)
    <2>1. /\ Moved(s) /\ y.at = "gone" /\ y.broken
          /\ y.heard = x.heard /\ y.user_id = x.user_id
          /\ \A f \in Fields \ {"at", "heard", "user_id", "broken"} : y[f] = New[f]
      BY <1>5, KilledStep DEF IInv
    <2>2. y.early = <<>>
      <3>1. New["early"] = <<>>
        BY DEF New
      <3> QED BY <2>1, <3>1, FieldsAre
    <2>3. /\ x.at \in Started /\ UNCHANGED <<scenario, users, connections>>
          /\ connections \in Seq(Connection)
      BY <1>5 DEF Killed, IInv, Types, Tables, Tagged
    <2> QED BY <2>1, <2>2, <2>3, GoneInv
  <1> QED BY <1>1, <1>3, <1>4, <1>5

\* Create.
LEMMA CreateInv ==
  ASSUME IInv, NEW s \in Sessions, Create(s)
  PROVE  IInv'
  <1> DEFINE x == session[s]
             y == session'[s]
             c == [at |-> "idle"]
  <1>1. Tagged(s) /\ Worded(s) /\ Flagged(s) /\ Early(s) /\ Somebody(s) /\ Tables
    BY DEF IInv, Types
  <1>2. DOMAIN c = {"at"} /\ c["at"] = "idle"
    OBVIOUS
  <1>3. DOMAIN c \subseteq Fields /\ Put(s, c)
    BY <1>2, FieldsAre DEF Create
  <1> HIDE DEF c
  <1>4. Moved(s) /\ \A f \in Fields : y[f] = IF f \in DOMAIN c THEN c[f] ELSE x[f]
    BY <1>3, PutStep DEF Moved, IInv
  <1>5. /\ y.at = "idle" /\ x.at = "none" /\ UNCHANGED <<scenario, users, connections>>
        /\ s \in DOMAIN scenario.chunks
        /\ \A f \in Fields \ {"at"} : y[f] = x[f]
    BY <1>2, <1>4, FieldsAre DEF Create
  <1>6. Tagged(s)'
    BY <1>1, <1>5, FieldsAre DEF Tagged, Started
  <1>7. Worded(s)'
    BY <1>1, <1>5, FieldsAre DEF Worded
  <1>8. Flagged(s)'
    BY <1>1, <1>5, FieldsAre DEF Flagged
  <1>9. Early(s)'
    BY <1>1, <1>5, FieldsAre DEF Early, Tagged, Prefix
  <1>10. y.at # "gone" /\ y.stage = x.stage /\ y.user_id = x.user_id /\ y.pending = x.pending
         /\ y.connection_id = x.connection_id /\ y.broken = x.broken
    BY <1>5, FieldsAre
  <1>11. Keeps(x, y) /\ Holds(x, y)
    BY <1>5, <1>10 DEF Keeps, Holds
  <1>12. Grown
    BY <1>1, <1>5, SameUsers DEF Tables
  <1>13. Somebody(s)'
    BY <1>1, <1>11, <1>12, SomebodyKeeps DEF Tables
  <1>14. Rows' /\ connections' \in Seq(Connection)
    BY <1>1, <1>4, <1>5, <1>11, RowsKept DEF Tables
  <1> QED BY <1>4, <1>5, <1>6, <1>7, <1>8, <1>9, <1>12, <1>13, <1>14, Together

-----------------------------------------------------------------------------
(* The choice of a route.                                                  *)

\* What bbs_session_feed keeps: as much of the feed as the early buffer takes.
Taken(ppp, chunk) ==
    IF Len(chunk) < PppSize - Len(ppp) THEN Len(chunk) ELSE PppSize - Len(ppp)
KeptOf(ppp, chunk) == ppp \o SubSeq(chunk, 1, Taken(ppp, chunk))

\* What is kept of what is heard tells a frame that begins from one that does
\* not: it is all of it, or more than enough (bbs.c:311).
LEMMA KeptFrame ==
  ASSUME NEW ppp \in Seq(Token), NEW heard \in Seq(Token), NEW chunk \in Seq(Token),
         Len(ppp) <= PppSize, Len(chunk) < PppSize,
         ~Prefix(ppp), ppp = heard \/ Len(ppp) >= 2
  PROVE  /\ KeptOf(ppp, chunk) \in Seq(Token) /\ Len(KeptOf(ppp, chunk)) <= PppSize
         /\ Prefix(KeptOf(ppp, chunk)) => KeptOf(ppp, chunk) = heard \o chunk
         /\ KeptOf(ppp, chunk) = heard \o chunk \/ Len(KeptOf(ppp, chunk)) >= 2
  <1> DEFINE n == Taken(ppp, chunk)
             kept == KeptOf(ppp, chunk)
  <1>1. n \in Nat /\ n <= Len(chunk) /\ n <= PppSize - Len(ppp)
    BY DEF Taken
  <1>2. kept = ppp \o SubSeq(chunk, 1, n)
    BY DEF KeptOf
  <1> HIDE DEF n, kept
  <1>3. SubSeq(chunk, 1, n) \in Seq(Token) /\ Len(SubSeq(chunk, 1, n)) = n
    BY <1>1
  <1>4. /\ kept \in Seq(Token) /\ Len(kept) = Len(ppp) + n
        /\ \A i \in 1..Len(ppp) : kept[i] = ppp[i]
    BY <1>2, <1>3
  <1>5. Len(kept) <= PppSize
    BY <1>1, <1>4
  <1>6. CASE Len(ppp) >= 2
    <2>1. ~Prefix(kept) /\ Len(kept) >= 2
      BY <1>1, <1>4, <1>6 DEF Prefix
    <2> QED BY <1>4, <1>5, <2>1 DEF kept
  <1>7. CASE ~(Len(ppp) >= 2)
    <2>1. n = Len(chunk) /\ ppp = heard
      BY <1>7 DEF n, Taken
    <2>2. SubSeq(chunk, 1, n) = chunk
      BY <1>3, <2>1
    <2>3. kept = heard \o chunk
      BY <1>2, <2>1, <2>2
    <2> QED BY <1>4, <1>5, <2>3 DEF kept
  <1> QED BY <1>6, <1>7

\* The feed a session is given, which goes on from the fields that change.
LEMMA FedInv ==
  ASSUME IInv, NEW s \in Sessions, session[s].at = "idle", UNCHANGED <<scenario, users, connections>>,
         NEW c, DOMAIN c \subseteq {"ppp", "route", "at", "heard", "feed"}, Put(s, c),
         "at" \in DOMAIN c, "ppp" \in DOMAIN c <=> session[s].stage = "SELECT",
         "ppp" \in DOMAIN c <=> "heard" \in DOMAIN c,
         "feed" \in DOMAIN c => c["feed"] \in Seq(Token),
         "heard" \in DOMAIN c => c["heard"] \in Seq(Token),
         "ppp" \in DOMAIN c => /\ c["ppp"] \in Seq(Token) /\ Len(c["ppp"]) <= PppSize
                               /\ c["ppp"] = c["heard"] \/ Len(c["ppp"]) >= 2,
         IF "route" \in DOMAIN c
         THEN /\ c["route"] = "PPP" /\ c["at"] = "route" /\ "ppp" \in DOMAIN c
              /\ c["ppp"] = c["heard"] /\ Prefix(c["ppp"])
         ELSE c["at"] = "feed" /\ ("ppp" \in DOMAIN c => ~Prefix(c["ppp"]))
  PROVE  IInv'
  <1> DEFINE x == session[s]
             y == session'[s]
  <1>1. Tagged(s) /\ Worded(s) /\ Flagged(s) /\ Early(s) /\ Somebody(s) /\ Tables
    BY DEF IInv, Types
  <1>2. Moved(s) /\ \A f \in Fields : y[f] = IF f \in DOMAIN c THEN c[f] ELSE x[f]
    <2>1. DOMAIN c \subseteq Fields
      BY FieldsAre
    <2> QED BY <2>1, PutStep DEF IInv, Moved
  <1>3. /\ y.at = c["at"] /\ y.stage = x.stage /\ y.line = x.line /\ y.early = x.early
        /\ y.query_ms = x.query_ms /\ y.pending = x.pending /\ y.user_id = x.user_id
        /\ y.ansi = x.ansi /\ y.sized = x.sized /\ y.connection_id = x.connection_id
        /\ y.door = x.door /\ y.then = x.then /\ y.broken = x.broken
        /\ y.ppp = IF "ppp" \in DOMAIN c THEN c["ppp"] ELSE x.ppp
        /\ y.heard = IF "heard" \in DOMAIN c THEN c["heard"] ELSE x.heard
        /\ y.feed = IF "feed" \in DOMAIN c THEN c["feed"] ELSE x.feed
        /\ y.route = IF "route" \in DOMAIN c THEN "PPP" ELSE x.route
    BY <1>2, FieldsAre
  <1>4. Tagged(s)'
    BY <1>1, <1>3 DEF Tagged, Started, Routes
  <1>5. Worded(s)'
    BY <1>1, <1>3 DEF Worded
  <1>6. Flagged(s)'
    BY <1>1, <1>3 DEF Flagged
  <1>7. Early(s)'
    BY <1>1, <1>3 DEF Early, Prefix
  <1>8. Keeps(x, y) /\ Holds(x, y)
    BY <1>3 DEF Keeps, Holds
  <1>9. Grown /\ connections' \in Seq(Connection)
    BY <1>1, SameUsers DEF Tables
  <1>10. Somebody(s)' /\ Rows'
    BY <1>1, <1>2, <1>8, <1>9, SomebodyKeeps, RowsKept DEF Tables
  <1> QED BY <1>2, <1>4, <1>5, <1>6, <1>7, <1>9, <1>10, Together

\* pump_ppp has bytes for the session.
LEMMA ComesInv ==
  ASSUME IInv, NEW s \in Sessions, Comes(s)
  PROVE  IInv'
  <1> DEFINE x == session[s]
  <1>1. Tagged(s) /\ Worded(s) /\ Early(s) /\ scenario \in Scenarios /\ x.at = "idle"
    BY DEF IInv, Types, Tables, Comes
  <1>2. PICK chunk \in scenario.chunks[s][x.stage] : Feed(s, chunk)
    BY DEF Comes
  <1>3. s \in DOMAIN scenario.chunks /\ x.stage \in Stages
    BY <1>1 DEF Tagged
  <1>4. chunk \in Seq(Token) /\ (x.stage = "SELECT" => Len(chunk) < PppSize)
    BY <1>1, <1>2, <1>3, ScenarioAssumption
  <1>5. UNCHANGED <<scenario, users, connections>>
    BY <1>2 DEF Feed
  <1>6. CASE x.stage # "SELECT"
    <2> DEFINE c == [feed |-> chunk, at |-> "feed"]
    <2>1. DOMAIN c = {"feed", "at"} /\ c["feed"] = chunk /\ c["at"] = "feed"
      OBVIOUS
    <2>2. Put(s, c)
      BY <1>2, <1>6 DEF Feed
    <2> HIDE DEF c
    <2> QED BY <1>1, <1>4, <1>5, <1>6, <2>1, <2>2, FedInv
  <1>7. CASE x.stage = "SELECT"
    <2> DEFINE kept == KeptOf(x.ppp, chunk)
               heard == x.heard \o chunk
    <2>1. x.route = "SELECT"
      BY <1>1, <1>7 DEF Early
    <2>2. /\ x.ppp \in Seq(Token) /\ x.heard \in Seq(Token) /\ Len(x.ppp) <= PppSize
          /\ ~Prefix(x.ppp) /\ (x.ppp = x.heard \/ Len(x.ppp) >= 2)
      BY <1>1, <2>1 DEF Early, Worded
    <2>3. /\ kept \in Seq(Token) /\ Len(kept) <= PppSize
          /\ Prefix(kept) => kept = heard
          /\ kept = heard \/ Len(kept) >= 2
      BY <1>4, <1>7, <2>2, KeptFrame
    <2>4. heard \in Seq(Token)
      BY <1>4, <2>2
    <2>5. IF Prefix(kept)
          THEN Put(s, [ppp |-> kept, route |-> "PPP", at |-> "route", heard |-> heard])
          ELSE Put(s, [ppp |-> kept, feed |-> chunk, at |-> "feed", heard |-> heard])
      BY <1>2, <1>7 DEF Feed, KeptOf, Taken
    <2> HIDE DEF kept, heard
    <2>6. CASE Prefix(kept)
      <3> DEFINE c == [ppp |-> kept, route |-> "PPP", at |-> "route", heard |-> heard]
      <3>1. /\ DOMAIN c = {"ppp", "route", "at", "heard"} /\ c["ppp"] = kept
            /\ c["route"] = "PPP" /\ c["at"] = "route" /\ c["heard"] = heard
        OBVIOUS
      <3>2. Put(s, c)
        BY <2>5, <2>6
      <3> HIDE DEF c
      <3> QED BY <1>1, <1>5, <1>7, <2>3, <2>4, <2>6, <3>1, <3>2, FedInv
    <2>7. CASE ~Prefix(kept)
      <3> DEFINE c == [ppp |-> kept, feed |-> chunk, at |-> "feed", heard |-> heard]
      <3>1. /\ DOMAIN c = {"ppp", "feed", "at", "heard"} /\ c["ppp"] = kept
            /\ c["feed"] = chunk /\ c["at"] = "feed" /\ c["heard"] = heard
        OBVIOUS
      <3>2. Put(s, c)
        BY <2>5, <2>7
      <3> HIDE DEF c
      <3> QED BY <1>1, <1>4, <1>5, <1>7, <2>3, <2>4, <2>7, <3>1, <3>2, FedInv
    <2> QED BY <2>6, <2>7
  <1> QED BY <1>6, <1>7

\* The first line chooses.
LEMMA SelectInv ==
  ASSUME IInv, NEW s \in Sessions, Select(s)
  PROVE  IInv'
  <1> DEFINE x == session[s]
             y == session'[s]
  <1>1. /\ Tagged(s) /\ Worded(s) /\ Flagged(s) /\ Early(s) /\ Somebody(s)
        /\ users \in Seq(User) /\ connections \in Seq(Connection)
        /\ x.at = "feed" /\ x.stage = "SELECT" /\ Tail(x.feed) \in Seq(Token)
        /\ UNCHANGED <<scenario, users, connections>>
    BY Spoken DEF Select
  <1>2. /\ Moved(s) /\ y.line = <<>> /\ y.feed = Tail(x.feed) /\ y.ppp = <<>>
        /\ \/ y.route = "BBS" /\ y.stage = "LOGIN"
           \/ y.route = "PPP" /\ y.stage = "SELECT"
        /\ \A f \in Fields \ {"line", "feed", "ppp", "route", "stage"} : y[f] = x[f]
    <2>1. CASE Put(s, Chosen(s) @@ [route |-> "BBS", stage |-> "LOGIN"] @@ Done(s))
      <3> DEFINE c == Chosen(s) @@ [route |-> "BBS", stage |-> "LOGIN"]
      <3>1. /\ DOMAIN c = {"ppp", "route", "stage"} /\ c["ppp"] = <<>>
            /\ c["route"] = "BBS" /\ c["stage"] = "LOGIN"
        BY DEF @@, Chosen
      <3>2. DOMAIN c \subseteq Fields \ {"line", "feed"} /\ Put(s, c @@ Done(s))
        BY <2>1, <3>1, FieldsAre
      <3> HIDE DEF c
      <3>3. /\ Moved(s) /\ y.line = <<>> /\ y.feed = Tail(x.feed)
            /\ \A f \in Fields \ {"line", "feed"} : y[f] = IF f \in DOMAIN c THEN c[f] ELSE x[f]
        BY <3>2, DoneStep DEF IInv
      <3> QED BY <3>1, <3>3, FieldsAre
    <2>2. CASE Put(s, Chosen(s) @@ [route |-> "PPP"] @@ Done(s))
      <3> DEFINE c == Chosen(s) @@ [route |-> "PPP"]
      <3>1. /\ DOMAIN c = {"ppp", "route"} /\ c["ppp"] = <<>> /\ c["route"] = "PPP"
        BY DEF @@, Chosen
      <3>2. DOMAIN c \subseteq Fields \ {"line", "feed"} /\ Put(s, c @@ Done(s))
        BY <2>2, <3>1, FieldsAre
      <3> HIDE DEF c
      <3> QED BY <1>1, <3>1, <3>2, DoneStep, FieldsAre DEF IInv
    <2> QED BY <2>1, <2>2 DEF Select
  <1>3. /\ y.at = "feed" /\ y.early = x.early /\ y.heard = x.heard
        /\ y.query_ms = x.query_ms /\ y.pending = x.pending /\ y.user_id = x.user_id
        /\ y.ansi = x.ansi /\ y.sized = x.sized /\ y.connection_id = x.connection_id
        /\ y.door = x.door /\ y.then = x.then /\ y.broken = x.broken
    BY <1>1, <1>2, FieldsAre
  <1>4. Tagged(s)'
    BY <1>1, <1>2, <1>3, StagesAre DEF Tagged, Started, Routes
  <1>5. Worded(s)'
    BY <1>1, <1>2, <1>3 DEF Worded
  <1>6. Flagged(s)'
    BY <1>1, <1>3 DEF Flagged
  <1>7. Early(s)'
    BY <1>1, <1>2, <1>3 DEF Early, Prefix
  <1>8. Keeps(x, y) /\ Holds(x, y)
    BY <1>1, <1>2, <1>3, StagesAre DEF Keeps, Holds
  <1>9. Grown /\ connections' \in Seq(Connection)
    BY <1>1, SameUsers
  <1>10. Somebody(s)' /\ Rows'
    BY <1>1, <1>2, <1>8, <1>9, SomebodyKeeps, RowsKept
  <1> QED BY <1>1, <1>2, <1>4, <1>5, <1>6, <1>7, <1>9, <1>10, Together

-----------------------------------------------------------------------------
(* The terminal and the login.                                             *)

\* What comes with prompt_main: the terminal, and the end of a line or a query.
Arrival == {"ansi", "sized", "query_ms", "line", "feed"}

\* A session that comes to the menu from inside.
LEMMA ArrivesInv ==
  ASSUME IInv, NEW s \in Sessions, session[s].at \in {"idle", "feed"}, session[s].stage \in Inside,
         session[s].stage # "DOOR", UNCHANGED scenario, Grown,
         NEW ch, DOMAIN ch \subseteq Arrival, EnterMain(s, ch),
         "ansi" \in DOMAIN ch, ch["ansi"] \in BOOLEAN, "sized" \in DOMAIN ch, ch["sized"] \in BOOLEAN,
         "query_ms" \in DOMAIN ch => ch["query_ms"] = 0,
         "line" \in DOMAIN ch => ch["line"] = <<>>,
         "feed" \in DOMAIN ch => ch["feed"] \in Seq(Token)
  PROVE  IInv'
  <1> DEFINE x == session[s]
             y == session'[s]
  <1>1. Tagged(s) /\ Worded(s) /\ Early(s) /\ Somebody(s) /\ Tables
    BY DEF IInv, Types
  <1>2. /\ Moved(s) /\ Menu(s, y)
        /\ \A f \in Fields \ {"stage", "connection_id", "broken", "last_id"} :
              y[f] = IF f \in DOMAIN ch THEN ch[f] ELSE x[f]
    <2>1. DOMAIN ch \subseteq Fields \ {"stage", "connection_id", "broken"}
      BY FieldsAre DEF Arrival
    <2> QED BY <1>1, <2>1, EnterMainStep DEF IInv, Tables, Moved
  <1>3. /\ y.at = x.at /\ y.route = x.route /\ y.ppp = x.ppp /\ y.heard = x.heard
        /\ y.early = x.early /\ y.pending = x.pending /\ y.user_id = x.user_id
        /\ y.door = x.door /\ y.then = x.then
        /\ y.ansi = ch["ansi"] /\ y.sized = ch["sized"]
        /\ y.query_ms = IF "query_ms" \in DOMAIN ch THEN ch["query_ms"] ELSE x.query_ms
        /\ y.line = IF "line" \in DOMAIN ch THEN ch["line"] ELSE x.line
        /\ y.feed = IF "feed" \in DOMAIN ch THEN ch["feed"] ELSE x.feed
    BY <1>2, FieldsAre DEF Arrival
  <1>4. y.stage = "MAIN"
    BY <1>2 DEF Menu
  <1>5. Len(users) \in Nat /\ Len(users') \in Nat /\ Len(users) <= Len(users')
    BY <1>1 DEF Grown, Tables
  <1>6. Tagged(s)'
    BY <1>1, <1>3, <1>4, <1>5, StagesAre DEF Tagged, Started
  <1>7. Worded(s)'
    <2>1. y.line = <<>> \/ y.line = x.line
      BY <1>3
    <2>2. y.feed \in Seq(Token)
      BY <1>1, <1>3 DEF Worded
    <2>3. y.ppp = x.ppp /\ y.heard = x.heard
      BY <1>3
    <2>4. Worded(s)
      BY <1>1
    <2>5. y.line \in Seq(Token) /\ Len(y.line) <= LineMax
      <3>1. CASE y.line = <<>>
        BY <3>1
      <3>2. CASE y.line = x.line
        BY <2>4, <3>2 DEF Worded
      <3> QED BY <2>1, <3>1, <3>2
    <2> QED BY <2>2, <2>3, <2>4, <2>5 DEF Worded
  <1>8. Flagged(s)'
    BY <1>3, Zenon DEF Flagged
  <1>9. Goes(x, y)
    BY <1>1, <1>3, <1>4, StagesAre DEF Goes, Early, Started
  <1>10. Early(s)'
    BY <1>1, <1>9, EarlyGoes
  <1>11. Keeps(x, y)
    BY <1>3, <1>4, StagesAre DEF Keeps
  <1>12. Somebody(s)'
    BY <1>1, <1>11, SomebodyKeeps DEF Tables
  <1>13. x.user_id # 0 /\ x.user_id \in Nat
    BY <1>1, <1>5 DEF Somebody, Tagged
  <1>14. Rows' /\ connections' \in Seq(Connection)
    BY <1>2, <1>3, <1>13, RowsMenu
  <1> QED BY <1>2, <1>6, <1>7, <1>8, <1>10, <1>12, <1>14, Together

\* The caller's answer about the terminal.
LEMMA TermAnsiInv ==
  ASSUME IInv, NEW s \in Sessions, TermAnsi(s)
  PROVE  IInv'
  <1> DEFINE x == session[s]
             yes == First(s) = "Y"
             ch == [ansi |-> yes, sized |-> TRUE] @@ Done(s)
  <1>1. /\ Line(s, "TERM_ASK") \/ Line(s, "TERM_ANSI")
        /\ SaveTerminal(s, yes, TRUE) /\ EnterMain(s, ch)
    BY DEF TermAnsi
  <1>2. /\ x.at = "feed" /\ x.stage \in {"TERM_ASK", "TERM_ANSI"} /\ Tail(x.feed) \in Seq(Token)
        /\ Tagged(s) /\ users \in Seq(User)
    BY <1>1, Spoken DEF TermAnsi
  <1>3. yes \in BOOLEAN
    OBVIOUS
  <1>4. /\ DOMAIN ch = {"ansi", "sized", "line", "feed"} /\ ch["ansi"] = yes /\ ch["sized"] = TRUE
        /\ ch["line"] = <<>> /\ ch["feed"] = Tail(x.feed)
    BY DEF @@, Done
  <1> HIDE DEF ch, yes
  <1>5. Grown
    BY <1>1, <1>2, <1>3, TerminalSaved DEF Tagged
  <1>6. ch["ansi"] \in BOOLEAN
    BY <1>3, <1>4, Zenon
  <1>7. ch["sized"] \in BOOLEAN
    BY <1>4, Zenon
  <1>8. DOMAIN ch \subseteq Arrival /\ UNCHANGED scenario
    BY <1>4 DEF Arrival, TermAnsi
  <1> QED BY <1>1, <1>2, <1>4, <1>5, <1>6, <1>7, <1>8, ArrivesInv, StagesAre

\* The tick: the query goes on, or ends in the menu or in a question.
LEMMA TickInv ==
  ASSUME IInv, NEW s \in Sessions, Tick(s)
  PROVE  IInv'
  <1> DEFINE x == session[s]
             y == session'[s]
  <1>1. /\ Tagged(s) /\ Worded(s) /\ Flagged(s) /\ Early(s) /\ users \in Seq(User)
        /\ x.at = "idle" /\ x.stage = "TERM_QUERY" /\ UNCHANGED scenario
    BY DEF IInv, Types, Tables, Tick
  <1>2. x.user_id \in 0..Len(users) /\ x.query_ms \in Nat
    BY <1>1 DEF Tagged
  <1>3. CASE /\ SaveTerminal(s, TRUE, TRUE)
             /\ EnterMain(s, [ansi |-> TRUE, sized |-> TRUE, query_ms |-> 0])
    <2> DEFINE ch == [ansi |-> TRUE, sized |-> TRUE, query_ms |-> 0]
    <2>1. /\ DOMAIN ch = {"ansi", "sized", "query_ms"} /\ ch["ansi"] = TRUE /\ ch["sized"] = TRUE
          /\ ch["query_ms"] = 0
      OBVIOUS
    <2>2. EnterMain(s, ch)
      BY <1>3
    <2>3. Grown
      BY <1>1, <1>2, <1>3, TerminalSaved
    <2> HIDE DEF ch
    <2>4. ch["ansi"] \in BOOLEAN
      BY <2>1, Zenon
    <2>5. ch["sized"] \in BOOLEAN
      BY <2>1, Zenon
    <2>6. DOMAIN ch \subseteq Arrival
      BY <2>1 DEF Arrival
    <2> QED BY <1>1, <2>1, <2>2, <2>3, <2>4, <2>5, <2>6, ArrivesInv, StagesAre
  <1>4. ASSUME NEW c, DOMAIN c \subseteq {"stage", "sized", "query_ms"}, Put(s, c),
               "stage" \in DOMAIN c => c["stage"] = "TERM_ASK",
               "sized" \in DOMAIN c => c["sized"] \in BOOLEAN,
               "query_ms" \in DOMAIN c, c["query_ms"] \in Nat, c["query_ms"] < QueryTicks,
               UNCHANGED <<users, connections>>
        PROVE  IInv'
    <2>1. Moved(s) /\ \A f \in Fields : y[f] = IF f \in DOMAIN c THEN c[f] ELSE x[f]
      <3>1. DOMAIN c \subseteq Fields
        BY <1>4, FieldsAre
      <3> QED BY <1>4, <3>1, PutStep DEF IInv, Moved
    <2>2. /\ y.stage \in {"TERM_QUERY", "TERM_ASK"} /\ y.query_ms = c["query_ms"]
          /\ \A f \in {"at", "route", "line", "feed", "ppp", "early", "heard", "pending", "user_id",
                       "ansi", "connection_id", "door", "then", "broken"} : y[f] = x[f]
      BY <1>1, <1>4, <2>1, FieldsAre
    <2>3. y.sized = IF "sized" \in DOMAIN c THEN c["sized"] ELSE x.sized
      BY <2>1, FieldsAre
    <2>4. Tagged(s)'
      BY <1>1, <1>4, <2>2, StagesAre DEF Tagged, Started
    <2>5. Worded(s)'
      BY <1>1, <2>2 DEF Worded
    <2>6. Flagged(s)'
      BY <1>1, <1>4, <2>2, <2>3 DEF Flagged
    <2>7. Goes(x, y) /\ Keeps(x, y) /\ Holds(x, y)
      BY <1>1, <2>2, StagesAre DEF Goes, Keeps, Holds, Started, Early
    <2> QED BY <1>1, <1>4, <2>1, <2>4, <2>5, <2>6, <2>7, Ordinary, SameUsers
  <1>5. CASE /\ x.query_ms + 1 < QueryTicks /\ Put(s, [query_ms |-> x.query_ms + 1])
             /\ UNCHANGED <<users, connections>>
    <2> DEFINE c == [query_ms |-> x.query_ms + 1]
    <2>1. DOMAIN c = {"query_ms"} /\ c["query_ms"] = x.query_ms + 1
      OBVIOUS
    <2>2. Put(s, c)
      BY <1>5
    <2> HIDE DEF c
    <2> QED BY <1>2, <1>4, <1>5, <2>1, <2>2
  <1>6. CASE /\ Put(s, [stage |-> "TERM_ASK", sized |-> TRUE, query_ms |-> 0])
             /\ UNCHANGED <<users, connections>>
    <2> DEFINE c == [stage |-> "TERM_ASK", sized |-> TRUE, query_ms |-> 0]
    <2>1. /\ DOMAIN c = {"stage", "sized", "query_ms"} /\ c["stage"] = "TERM_ASK"
          /\ c["sized"] = TRUE /\ c["query_ms"] = 0
      OBVIOUS
    <2>2. Put(s, c)
      BY <1>6
    <2> HIDE DEF c
    <2>3. c["sized"] \in BOOLEAN
      BY <2>1, Zenon
    <2> QED BY <1>4, <1>6, <2>1, <2>2, <2>3
  <1> QED BY <1>3, <1>5, <1>6 DEF Tick

\* A login: of the user whose handle was given.
LEMMA AdmittedInv ==
  ASSUME IInv, NEW s \in Sessions, NEW stage \in {"PASSWORD", "NEW_PASSWORD"}, Line(s, stage),
         UNCHANGED scenario, Grown,
         NEW ch, DOMAIN ch \subseteq {"user_id", "ansi", "sized", "last_id", "line", "feed"},
         "line" \in DOMAIN ch, ch["line"] = <<>>,
         "feed" \in DOMAIN ch, ch["feed"] = Tail(session[s].feed),
         "user_id" \in DOMAIN ch, ch["user_id"] \in 1..Len(users'),
         users'[ch["user_id"]].handle = session[s].pending,
         "ansi" \in DOMAIN ch => ch["ansi"] \in BOOLEAN,
         "sized" \in DOMAIN ch => ch["sized"] \in BOOLEAN,
         BeginTerminal(s, ch)
  PROVE  IInv'
  <1> DEFINE x == session[s]
             y == session'[s]
  <1>1. /\ Tagged(s) /\ Worded(s) /\ Flagged(s) /\ Early(s) /\ Somebody(s)
        /\ connections \in Seq(Connection) /\ users \in Seq(User)
        /\ x.at = "feed" /\ x.stage = stage /\ Tail(x.feed) \in Seq(Token)
    BY Spoken
  <1>2. /\ Moved(s)
        /\ Menu(s, y) \/ Asked(s, y)
        /\ y.query_ms \in {x.query_ms, 0}
        /\ \A f \in Fields \ {"stage", "connection_id", "broken", "last_id", "query", "query_ms"} :
               y[f] = IF f \in DOMAIN ch THEN ch[f] ELSE x[f]
    <2>1. DOMAIN ch \subseteq Fields \ {"stage", "connection_id", "broken", "query", "query_ms"}
      BY FieldsAre
    <2> QED BY <1>1, <2>1, BeginTerminalStep DEF IInv, Moved
  <1>3. /\ y.at = x.at /\ y.route = x.route /\ y.ppp = x.ppp /\ y.heard = x.heard
        /\ y.early = x.early /\ y.pending = x.pending /\ y.user_id = ch["user_id"]
        /\ y.door = x.door /\ y.then = x.then /\ y.line = <<>> /\ y.feed = Tail(x.feed)
    <2>1. \A f \in {"at", "route", "ppp", "heard", "early", "pending", "door", "then"} :
             /\ f \in Fields \ {"stage", "connection_id", "broken", "last_id", "query", "query_ms"}
             /\ f \notin DOMAIN ch
      BY FieldsAre
    <2>2. \A f \in {"at", "route", "ppp", "heard", "early", "pending", "door", "then"} : y[f] = x[f]
      BY <1>2, <2>1
    <2>3. \A f \in {"user_id", "line", "feed"} :
             /\ f \in Fields \ {"stage", "connection_id", "broken", "last_id", "query", "query_ms"}
             /\ f \in DOMAIN ch
      BY FieldsAre
    <2>4. \A f \in {"user_id", "line", "feed"} : y[f] = ch[f]
      BY <1>2, <2>3
    <2> HIDE DEF x, y
    <2>5. y["at"] = x["at"] /\ y["route"] = x["route"] /\ y["ppp"] = x["ppp"] /\ y["heard"] = x["heard"]
      BY <2>2
    <2>6. y["early"] = x["early"] /\ y["pending"] = x["pending"] /\ y["door"] = x["door"]
          /\ y["then"] = x["then"]
      BY <2>2
    <2>7. y["user_id"] = ch["user_id"] /\ y["line"] = ch["line"] /\ y["feed"] = ch["feed"]
      BY <2>4
    <2>8. ch["line"] = <<>> /\ ch["feed"] = Tail(x.feed)
      BY DEF x
    <2> QED BY <2>5, <2>6, <2>7, <2>8
  <1>4. /\ y.ansi = IF "ansi" \in DOMAIN ch THEN ch["ansi"] ELSE x.ansi
        /\ y.sized = IF "sized" \in DOMAIN ch THEN ch["sized"] ELSE x.sized
    BY <1>2, FieldsAre
  <1>5. y.stage \in {"MAIN", "TERM_QUERY"}
    BY <1>2 DEF Menu, Asked
  <1>6. Len(users) \in Nat /\ Len(users') \in Nat /\ Len(users) <= Len(users')
    BY <1>1 DEF Grown
  <1>7. Tagged(s)'
    BY <1>1, <1>2, <1>3, <1>5, <1>6, StagesAre DEF Tagged, Started
  <1>8. Worded(s)'
    BY <1>1, <1>3 DEF Worded
  <1>9. Flagged(s)'
    BY <1>1, <1>4 DEF Flagged
  <1>10. Goes(x, y)
    BY <1>1, <1>3, <1>5, StagesAre DEF Goes, Started
  <1>11. Early(s)'
    BY <1>1, <1>10, EarlyGoes
  <1>12. Somebody(s)'
    BY <1>3, <1>5, <1>6, StagesAre DEF Somebody, Handle
  <1>13. Rows' /\ connections' \in Seq(Connection)
    <2>1. CASE Menu(s, y)
      <3>1. x.at # "gone" /\ y.at # "gone" /\ x.stage \notin Inside
        BY <1>1, <1>3, StagesAre
      <3>2. y.user_id # 0 /\ y.user_id \in Nat
        BY <1>3, <1>6
      <3> QED BY <1>2, <2>1, <3>1, <3>2, RowsMenu
    <2>2. CASE Asked(s, y)
      <3>1. UNCHANGED connections /\ y.connection_id = x.connection_id /\ y.broken = x.broken
            /\ y.stage = "TERM_QUERY"
        BY <2>2 DEF Asked
      <3> SUFFICES ASSUME NoneBroken' PROVE OneEach' /\ \A t \in Sessions : OwnRow(t)'
        BY <1>1, <3>1 DEF Rows
      <3>2. OneEach /\ \A t \in Sessions : OwnRow(t)
        BY <1>2, <3>1, BrokenStays DEF IInv, Rows
      <3>3. ASSUME NEW t \in Sessions, t # s PROVE OwnRow(t)'
        BY <1>2, <3>1, <3>2, <3>3 DEF Moved, OwnRow
      <3>4. x.connection_id = 0 /\ \A i \in 1..Len(connections) : connections[i].by # s
        BY <1>1, <3>2, StagesAre DEF OwnRow
      <3>5. OwnRow(s)'
        BY <3>1, <3>4, StagesAre DEF OwnRow
      <3> QED BY <3>1, <3>2, <3>3, <3>5 DEF OneEach
    <2> QED BY <1>2, <2>1, <2>2
  <1> QED BY <1>2, <1>7, <1>8, <1>9, <1>11, <1>12, <1>13, Together

\* A row of users, its flags apart.
LEMMA UserFlags ==
  ASSUME users \in Seq(User), NEW id \in 1..Len(users)
  PROVE  users[id].ansi \in BOOLEAN /\ users[id].sized \in BOOLEAN
  <1>1. users[id] \in User
    OBVIOUS
  <1> QED BY <1>1, Zenon DEF User

\* The password of a user, or not.
LEMMA PasswordInv ==
  ASSUME IInv, NEW s \in Sessions, Password(s)
  PROVE  IInv'
  <1> DEFINE x == session[s]
  <1>1. Line(s, "PASSWORD") /\ UNCHANGED <<scenario, users>> /\ users \in Seq(User) /\ Grown
    BY SameUsers DEF Password, IInv, Tables
  <1>2. ASSUME NEW id \in 1..Len(users), users[id].handle = x.pending,
               BeginTerminal(s, [user_id |-> id, ansi |-> users[id].ansi,
                                 sized |-> users[id].sized] @@ Done(s))
        PROVE  IInv'
    <2> DEFINE ch == [user_id |-> id, ansi |-> users[id].ansi, sized |-> users[id].sized] @@ Done(s)
    <2>1. /\ DOMAIN ch = {"user_id", "ansi", "sized", "line", "feed"} /\ ch["user_id"] = id
          /\ ch["ansi"] = users[id].ansi /\ ch["sized"] = users[id].sized
          /\ ch["line"] = <<>> /\ ch["feed"] = Tail(x.feed)
      BY DEF @@, Done
    <2>2. BeginTerminal(s, ch)
      BY <1>2
    <2> HIDE DEF ch
    <2>3. ch["ansi"] \in BOOLEAN
      BY <1>1, <2>1, UserFlags
    <2>4. ch["sized"] \in BOOLEAN
      BY <1>1, <2>1, UserFlags
    <2> QED BY <1>1, <1>2, <2>1, <2>2, <2>3, <2>4, AdmittedInv
  <1>3. CASE Goto(s, "LOGIN") /\ UNCHANGED connections
    BY <1>1, <1>3, Goes_on, StagesAre
  <1> QED BY <1>2, <1>3 DEF Password

\* The password of a new user, whose handle is nobody's yet, or not.
LEMMA NewPasswordInv ==
  ASSUME IInv, NEW s \in Sessions, NewPassword(s)
  PROVE  IInv'
  <1> DEFINE x == session[s]
             row == [handle |-> x.pending, password |-> x.line, ansi |-> FALSE, sized |-> FALSE]
  <1>1. /\ Line(s, "NEW_PASSWORD") /\ UNCHANGED scenario /\ users \in Seq(User)
        /\ Tagged(s) /\ Worded(s)
    BY Spoken DEF NewPassword
  <1>2. CASE /\ x.pending # None /\ users' = Append(users, row)
             /\ BeginTerminal(s, [user_id |-> Len(users'), last_id |-> Len(users')] @@ Done(s))
    <2>1. x.pending \in Names /\ x.line \in Seq(Token)
      BY <1>1, <1>2 DEF Tagged, Worded
    <2>2. row \in User /\ row.handle = x.pending
      BY <2>1, Zenon DEF User
    <2> HIDE DEF row
    <2>3. /\ users' \in Seq(User) /\ Len(users) \in Nat /\ Len(users') = Len(users) + 1
          /\ users'[Len(users')] = row
          /\ \A id \in 1..Len(users) : users'[id] = users[id]
      BY <1>1, <1>2, <2>2
    <2>4. Grown
      BY <2>3 DEF Grown
    <2> DEFINE ch == [user_id |-> Len(users'), last_id |-> Len(users')] @@ Done(s)
    <2>5. /\ DOMAIN ch = {"user_id", "last_id", "line", "feed"} /\ ch["user_id"] = Len(users')
          /\ ch["line"] = <<>> /\ ch["feed"] = Tail(x.feed)
      BY DEF @@, Done
    <2>6. BeginTerminal(s, ch)
      BY <1>2
    <2> HIDE DEF ch
    <2>7. ch["user_id"] \in 1..Len(users') /\ users'[ch["user_id"]].handle = x.pending
      BY <2>2, <2>3, <2>5
    <2> QED BY <1>1, <2>4, <2>5, <2>6, <2>7, AdmittedInv
  <1>3. CASE Refuse(s) /\ UNCHANGED users
    BY <1>1, <1>3, SameUsers, Goes_on, StagesAre DEF Refuse
  <1> QED BY <1>2, <1>3 DEF NewPassword

-----------------------------------------------------------------------------
(* The doors.  What the games hold is not looked at here.                  *)

\* The doors there are.
LEMMA GamesAre == Game = {"blackjack", "hangman", "space", "dungeon", "speed"}
  BY DEF Game, Door

\* What each game makes of a line.
LEMMA InputIs ==
  ASSUME NEW v, NEW key
  PROVE  /\ Input("blackjack", v, key) = Blackjack(v, key)
         /\ Input("hangman", v, key) = Hangman(v, key)
         /\ Input("space", v, key) = Space(v, key)
         /\ Input("dungeon", v, key) = Dungeon(v, key)
         /\ Input("speed", v, key) = {Leave(v)}
  BY DEF Input

\* The outcomes of a line, by the command.
LEMMA BlackjackIs ==
  ASSUME NEW v, NEW key, NEW o \in Blackjack(v, key)
  PROVE  \/ key = "Q" /\ o = Leave(v)
         \/ key = "H" /\ o \in Hit(v)
         \/ key = "S" /\ o \in Stand(v)
         \/ key \notin {"Q", "H", "S"} /\ o = Stay(v)
  <1>1. CASE key = "Q"
    BY <1>1 DEF Blackjack
  <1>2. CASE key = "H"
    BY <1>2 DEF Blackjack
  <1>3. CASE key = "S"
    BY <1>3 DEF Blackjack
  <1>4. CASE key \notin {"Q", "H", "S"}
    BY <1>4 DEF Blackjack
  <1> QED BY <1>1, <1>2, <1>3, <1>4

\* What comes of a letter for hangman's word.
LEMMA HangmanIs ==
  ASSUME NEW v, NEW key, NEW o \in Hangman(v, key)
  PROVE  LET g == Guess(v, key)
             over == [g EXCEPT !.over = TRUE]
         IN \/ key = "Q" /\ o = Leave(v)
            \/ key # "Q" /\ v.over /\ o = Outcome(v, FALSE, "again")
            \/ /\ key # "Q" /\ ~v.over
               /\ IF g.misses >= MaxMisses THEN o = Stay(over)
                  ELSE IF Secret \subseteq g.tried THEN o = Outcome(over, FALSE, "won")
                  ELSE o = Stay(g)
  <1>1. CASE key = "Q"
    BY <1>1 DEF Hangman
  <1>2. CASE key # "Q" /\ v.over
    BY <1>2 DEF Hangman
  <1>3. CASE key # "Q" /\ ~v.over
    BY <1>3 DEF Hangman
  <1> QED BY <1>1, <1>2, <1>3

\* What comes of a command to the merchant.
LEMMA SpaceIs ==
  ASSUME NEW v, NEW key, NEW o \in Space(v, key)
  PROVE  \/ key = "Q" /\ o = Outcome(v, TRUE, "leave")
         \/ /\ key # "Q" /\ Buys(v)
            /\ o = Outcome([v EXCEPT !.credits = @ - Price(v.port), !.cargo = @ + 1], TRUE, "stay")
         \/ /\ key # "Q" /\ v.cargo > 0
            /\ o = Outcome([v EXCEPT !.credits = @ + Price(v.port), !.cargo = @ - 1], TRUE, "stay")
         \/ key # "Q" /\ \E p \in Ports : o = Outcome([v EXCEPT !.port = p], TRUE, "stay")
         \/ key # "Q" /\ o = Outcome(v, TRUE, "stay")
  <1>1. CASE key = "Q"
    BY <1>1 DEF Space
  <1>2. CASE key = "B" /\ Buys(v)
    BY <1>2 DEF Space
  <1>3. CASE key = "S" /\ v.cargo > 0
    BY <1>3 DEF Space
  <1>4. CASE key = "J"
    BY <1>4 DEF Space
  <1>5. CASE key \notin {"Q", "J"} /\ (key = "B" => ~Buys(v)) /\ (key = "S" => ~(v.cargo > 0))
    BY <1>5 DEF Space
  <1> QED BY <1>1, <1>2, <1>3, <1>4, <1>5

\* What comes of a command to the hero.
LEMMA DungeonIs ==
  ASSUME NEW v, NEW key, NEW o \in Dungeon(v, key)
  PROVE  \/ key = "Q" /\ o = Outcome(v, TRUE, "leave")
         \/ key # "Q" /\ o = Outcome([v EXCEPT !.hp = Health(v.level)], TRUE, "stay")
         \/ key # "Q" /\ o \in Explores(v)
         \/ key # "Q" /\ o = Outcome(v, TRUE, "stay")
  <1>1. CASE key = "Q"
    BY <1>1 DEF Dungeon
  <1>2. CASE key = "R"
    BY <1>2 DEF Dungeon
  <1>3. CASE key = "E"
    BY <1>3 DEF Dungeon
  <1>4. CASE key \notin {"Q", "R", "E"}
    BY <1>4 DEF Dungeon
  <1> QED BY <1>1, <1>2, <1>3, <1>4

\* A game ends a line in one of four ways.
LEMMA Outcomes ==
  ASSUME NEW game \in Game, NEW v, NEW key, NEW o \in Input(game, v, key)
  PROVE  o.then \in Thens
  <1>1. CASE game = "blackjack"
    <2>1. \A p \in Hit(v) : p.then \in {"stay", "again"}
      BY DEF Hit, Stay, Outcome
    <2>2. \A p \in Stand(v) : p.then = "again"
      BY DEF Stand, Outcome
    <2>3. o \in Blackjack(v, key)
      BY <1>1, InputIs
    <2>4. o = Leave(v) \/ o = Stay(v) => o.then \in {"leave", "stay"}
      BY DEF Leave, Stay, Outcome
    <2> QED BY <2>1, <2>2, <2>3, <2>4, BlackjackIs DEF Thens
  <1>2. CASE game = "hangman"
    <2>1. o \in Hangman(v, key)
      BY <1>2, InputIs
    <2>2. \E w : o = Leave(w) \/ o = Stay(w) \/ o = Outcome(w, FALSE, "again")
                                            \/ o = Outcome(w, FALSE, "won")
      BY <2>1, HangmanIs
    <2> QED BY <2>2 DEF Leave, Stay, Outcome, Thens
  <1>3. CASE game = "space"
    <2>1. o \in Space(v, key)
      BY <1>3, InputIs
    <2>2. \E w : o = Outcome(w, TRUE, "leave") \/ o = Outcome(w, TRUE, "stay")
      BY <2>1, SpaceIs
    <2> QED BY <2>2 DEF Outcome, Thens
  <1>4. CASE game = "dungeon"
    <2>1. o \in Dungeon(v, key)
      BY <1>4, InputIs
    <2>2. o \in Explores(v) => \E w : o = Outcome(w, TRUE, "stay")
      BY DEF Explores
    <2>3. \E w : o = Outcome(w, TRUE, "leave") \/ o = Outcome(w, TRUE, "stay")
      BY <2>1, <2>2, DungeonIs
    <2> QED BY <2>3 DEF Outcome, Thens
  <1>5. CASE game = "speed"
    <2>1. o = Leave(v)
      BY <1>5, InputIs
    <2> QED BY <2>1 DEF Leave, Outcome, Thens
  <1> QED BY <1>1, <1>2, <1>3, <1>4, <1>5, GamesAre

\* What is done after a line: the session takes the next, in the game or back at
\* the doors, or loads.
LEMMA Follows ==
  ASSUME NEW game, NEW then \in Thens
  PROVE  LET c == Follow(game, then) IN
         /\ DOMAIN c \subseteq {"at", "stage", "door", "values", "then", "keys"}
         /\ "at" \in DOMAIN c /\ c["at"] \in {"feed", "load"}
         /\ "then" \in DOMAIN c => c["then"] \in Thens
         /\ "stage" \in DOMAIN c => c["stage"] = "DOORS" /\ c["at"] = "feed"
         /\ "door" \in DOMAIN c => c["door"] = "none"
         /\ "stage" \in DOMAIN c <=> "door" \in DOMAIN c
  <1>1. CASE then = "stay"
    BY <1>1 DEF Follow
  <1>2. CASE then = "leave"
    BY <1>2 DEF Follow, DoorReturn, Thens
  <1>3. CASE then = "again"
    BY <1>3 DEF Follow, Loading, Thens
  <1>4. CASE then = "won"
    BY <1>4 DEF Follow, Thens
  <1> QED BY <1>1, <1>2, <1>3, <1>4 DEF Thens

\* A game that is opened.
LEMMA DoorsMenuInv ==
  ASSUME IInv, NEW s \in Sessions, DoorsMenu(s)
  PROVE  IInv'
  <1> DEFINE x == session[s]
             y == session'[s]
  <1>1. /\ Line(s, "DOORS") /\ UNCHANGED <<scenario, users, connections>> /\ Tagged(s)
        /\ x.at = "feed" /\ x.stage = "DOORS" /\ Grown
    BY Spoken, SameUsers DEF DoorsMenu
  <1>2. CASE \E next \in {"MAIN", "DOORS"} : Goto(s, next)
    BY <1>1, <1>2, Goes_on, StagesAre
  <1>3. ASSUME NEW g \in Game,
               Put(s, [stage |-> "DOOR", door |-> g] @@ Loading(g, "again") @@ Done(s))
        PROVE  IInv'
    <2> DEFINE c == [stage |-> "DOOR", door |-> g] @@ Loading(g, "again")
    <2>1. /\ DOMAIN c = {"stage", "door", "at", "keys", "then", "values"} /\ c["stage"] = "DOOR"
          /\ c["door"] = g /\ c["at"] = "load" /\ c["then"] = "again"
      BY DEF @@, Loading
    <2>2. DOMAIN c \subseteq Fields \ {"line", "feed"} /\ Put(s, c @@ Done(s))
      BY <1>3, <2>1, FieldsAre
    <2> HIDE DEF c
    <2>3. /\ Moved(s) /\ y.line = <<>> /\ y.feed = Tail(x.feed)
          /\ \A f \in Fields \ {"line", "feed"} : y[f] = IF f \in DOMAIN c THEN c[f] ELSE x[f]
      BY <2>2, DoneStep DEF IInv
    <2>4. /\ y.stage = "DOOR" /\ y.door = g /\ y.at = "load" /\ y.then = "again"
          /\ y.pending = x.pending /\ y.route = x.route
          /\ \A f \in Fields \ Free : y[f] = x[f]
      BY <2>1, <2>3, FieldsAre DEF Free
    <2>5. g # "none" /\ x.pending \in Names \cup {None} /\ "again" \in Thens
      BY <1>1, GamesAre DEF Tagged, Thens
    <2> QED BY <1>1, <2>3, <2>4, <2>5, Answered, StagesAre
  <1> QED BY <1>2, <1>3 DEF DoorsMenu

\* A line for a game.
LEMMA DoorInputInv ==
  ASSUME IInv, NEW s \in Sessions, DoorInput(s)
  PROVE  IInv'
  <1> DEFINE x == session[s]
             y == session'[s]
  <1>1. /\ Line(s, "DOOR") /\ UNCHANGED <<scenario, users, connections>> /\ Tagged(s)
        /\ x.at = "feed" /\ x.stage = "DOOR" /\ Grown
    BY Spoken, SameUsers DEF DoorInput
  <1>2. x.door \in Game /\ x.door # "none" /\ x.pending \in Names \cup {None} /\ x.then \in Thens
    BY <1>1, GamesAre DEF Tagged
  <1>3. PICK o \in Input(x.door, x.values, First(s)) :
          Put(s, (IF o.save THEN [at |-> "save", keys |-> Keys[x.door], then |-> o.then]
                            ELSE Follow(x.door, o.then))
                 @@ [values |-> o.values, moves |-> IF First(s) = "Q" THEN x.moves ELSE x.moves + 1]
                 @@ Done(s))
    BY DEF DoorInput
  <1>4. o.then \in Thens
    BY <1>2, <1>3, Outcomes
  <1>5. ASSUME NEW a, DOMAIN a \subseteq {"at", "stage", "door", "values", "then", "keys"},
               "at" \in DOMAIN a, a["at"] \in {"feed", "load", "save"},
               "then" \in DOMAIN a => a["then"] \in Thens,
               "stage" \in DOMAIN a => a["stage"] = "DOORS" /\ a["at"] = "feed",
               "door" \in DOMAIN a => a["door"] = "none",
               "stage" \in DOMAIN a <=> "door" \in DOMAIN a,
               NEW v, NEW m, Put(s, a @@ [values |-> v, moves |-> m] @@ Done(s))
        PROVE  IInv'
    <2> DEFINE c == a @@ [values |-> v, moves |-> m]
    <2>1. /\ DOMAIN c = DOMAIN a \cup {"values", "moves"} /\ \A f \in DOMAIN a : c[f] = a[f]
      BY DEF @@
    <2>2. DOMAIN c \subseteq Fields \ {"line", "feed"} /\ Put(s, c @@ Done(s))
      BY <1>5, <2>1, FieldsAre
    <2> HIDE DEF c
    <2>3. /\ Moved(s) /\ y.line = <<>> /\ y.feed = Tail(x.feed)
          /\ \A f \in Fields \ {"line", "feed"} : y[f] = IF f \in DOMAIN c THEN c[f] ELSE x[f]
      BY <2>2, DoneStep DEF IInv
    <2>4. /\ y.at = a["at"] /\ y.pending = x.pending /\ y.route = x.route
          /\ y.then = IF "then" \in DOMAIN a THEN a["then"] ELSE x.then
          /\ y.stage = IF "stage" \in DOMAIN a THEN a["stage"] ELSE x.stage
          /\ y.door = IF "door" \in DOMAIN a THEN a["door"] ELSE x.door
      BY <1>5, <2>1, <2>3, FieldsAre
    <2>5. \A f \in Fields \ Free : y[f] = x[f]
      BY <1>5, <2>1, <2>3, FieldsAre DEF Free
    <2>6. /\ \/ y.stage = "DOOR" /\ y.door = x.door
             \/ y.stage = "DOORS" /\ y.door = "none" /\ y.at = "feed"
          /\ y.then \in Thens /\ y.at \in {"feed", "load", "save"}
      BY <1>1, <1>2, <1>5, <2>4
    <2> QED BY <1>1, <1>2, <2>3, <2>4, <2>5, <2>6, Answered, StagesAre
  <1>6. CASE o.save
    <2> DEFINE a == [at |-> "save", keys |-> Keys[x.door], then |-> o.then]
    <2>1. DOMAIN a = {"at", "keys", "then"} /\ a["at"] = "save" /\ a["then"] = o.then
      OBVIOUS
    <2>2. Put(s, a @@ [values |-> o.values, moves |-> IF First(s) = "Q" THEN x.moves ELSE x.moves + 1]
                   @@ Done(s))
      BY <1>3, <1>6
    <2> HIDE DEF a
    <2> QED BY <1>4, <1>5, <2>1, <2>2
  <1>7. CASE ~o.save
    <2> DEFINE a == Follow(x.door, o.then)
    <2>1. Put(s, a @@ [values |-> o.values, moves |-> IF First(s) = "Q" THEN x.moves ELSE x.moves + 1]
                   @@ Done(s))
      BY <1>3, <1>7
    <2>2. /\ DOMAIN a \subseteq {"at", "stage", "door", "values", "then", "keys"}
          /\ "at" \in DOMAIN a /\ a["at"] \in {"feed", "load"}
          /\ "then" \in DOMAIN a => a["then"] \in Thens
          /\ "stage" \in DOMAIN a => a["stage"] = "DOORS" /\ a["at"] = "feed"
          /\ "door" \in DOMAIN a => a["door"] = "none"
          /\ "stage" \in DOMAIN a <=> "door" \in DOMAIN a
      BY <1>4, Follows
    <2> HIDE DEF a
    <2> QED BY <1>5, <2>1, <2>2
  <1> QED BY <1>6, <1>7

\* A key loaded or saved, and what comes after the last.
LEMMA PlayedInv ==
  ASSUME IInv, NEW s \in Sessions, session[s].at \in {"load", "save"},
         UNCHANGED <<scenario, users, connections>>,
         NEW c, DOMAIN c \subseteq {"at", "stage", "door", "values", "then", "keys", "broken"},
         "at" \in DOMAIN c => c["at"] \in {"feed", "load", "save"},
         "then" \in DOMAIN c => c["then"] \in Thens,
         "stage" \in DOMAIN c => c["stage"] = "DOORS" /\ "at" \in DOMAIN c /\ c["at"] = "feed",
         "door" \in DOMAIN c => c["door"] = "none",
         "stage" \in DOMAIN c <=> "door" \in DOMAIN c,
         "broken" \in DOMAIN c => c["broken"], Put(s, c)
  PROVE  IInv'
  <1> DEFINE x == session[s]
             y == session'[s]
  <1>1. Tagged(s) /\ Worded(s) /\ Flagged(s) /\ users \in Seq(User)
    BY DEF IInv, Types, Tables
  <1>2. x.stage = "DOOR" /\ x.door \in Game /\ x.door # "none"
    BY <1>1, GamesAre DEF Tagged
  <1>3. Moved(s) /\ \A f \in Fields : y[f] = IF f \in DOMAIN c THEN c[f] ELSE x[f]
    <2>1. DOMAIN c \subseteq Fields
      BY FieldsAre
    <2> QED BY <2>1, PutStep DEF IInv, Moved
  <1>4. \A f \in {"route", "line", "feed", "ppp", "early", "heard", "query_ms", "pending", "user_id",
                  "ansi", "sized", "connection_id"} : y[f] = x[f]
    BY <1>3, FieldsAre
  <1>5. /\ y.at \in {"feed", "load", "save"} /\ y.then \in Thens /\ (x.broken => y.broken)
        /\ \/ y.stage = "DOOR" /\ y.door = x.door
           \/ y.stage = "DOORS" /\ y.door = "none" /\ y.at = "feed"
    BY <1>1, <1>2, <1>3, FieldsAre DEF Tagged
  <1>6. Tagged(s)'
    BY <1>1, <1>2, <1>4, <1>5, StagesAre DEF Tagged, Started
  <1>7. Worded(s)'
    BY <1>1, <1>4 DEF Worded
  <1>8. Flagged(s)'
    BY <1>1, <1>4 DEF Flagged
  <1>9. Goes(x, y) /\ Keeps(x, y) /\ Holds(x, y)
    BY <1>2, <1>4, <1>5, StagesAre DEF Goes, Keeps, Holds, Started
  <1> QED BY <1>1, <1>3, <1>6, <1>7, <1>8, <1>9, Ordinary, SameUsers

\* LoadKey, Loaded, SaveKey, Saved.
LEMMA SavesInv ==
  ASSUME IInv, NEW s \in Sessions, LoadKey(s) \/ Loaded(s) \/ SaveKey(s) \/ Saved(s)
  PROVE  IInv'
  <1> DEFINE x == session[s]
  <1>1. /\ UNCHANGED <<scenario, users, connections>> /\ x.at \in {"load", "save"}
    BY DEF LoadKey, Loaded, SaveKey, Saved
  <1>2. ASSUME NEW k, NEW v, Put(s, [keys |-> k, values |-> v]) PROVE IInv'
    <2> DEFINE c == [keys |-> k, values |-> v]
    <2>1. DOMAIN c = {"keys", "values"} /\ Put(s, c)
      BY <1>2
    <2> HIDE DEF c
    <2> QED BY <1>1, <2>1, PlayedInv
  <1>3. CASE LoadKey(s)
    BY <1>2, <1>3 DEF LoadKey
  <1>4. ASSUME NEW v, Put(s, [at |-> "feed", values |-> v]) PROVE IInv'
    <2> DEFINE c == [at |-> "feed", values |-> v]
    <2>1. DOMAIN c = {"at", "values"} /\ c["at"] = "feed" /\ Put(s, c)
      BY <1>4
    <2> HIDE DEF c
    <2> QED BY <1>1, <2>1, PlayedInv
  <1>5. ASSUME NEW k, NEW v, Put(s, [at |-> "save", keys |-> k, then |-> "stay", values |-> v])
        PROVE  IInv'
    <2> DEFINE c == [at |-> "save", keys |-> k, then |-> "stay", values |-> v]
    <2>1. /\ DOMAIN c = {"at", "keys", "then", "values"} /\ c["at"] = "save" /\ c["then"] = "stay"
          /\ Put(s, c) /\ "stay" \in Thens
      BY <1>5 DEF Thens
    <2> HIDE DEF c
    <2> QED BY <1>1, <2>1, PlayedInv
  <1>6. CASE Loaded(s)
    BY <1>4, <1>5, <1>6 DEF Loaded
  <1>7. CASE SaveKey(s)
    <2>1. ASSUME NEW k, Put(s, [keys |-> k]) PROVE IInv'
      <3> DEFINE c == [keys |-> k]
      <3>1. DOMAIN c = {"keys"} /\ Put(s, c)
        BY <2>1
      <3> HIDE DEF c
      <3> QED BY <1>1, <3>1, PlayedInv
    <2>2. ASSUME NEW k, Put(s, [keys |-> k, broken |-> TRUE]) PROVE IInv'
      <3> DEFINE c == [keys |-> k, broken |-> TRUE]
      <3>1. DOMAIN c = {"keys", "broken"} /\ c["broken"] = TRUE /\ Put(s, c)
        BY <2>2
      <3> HIDE DEF c
      <3> QED BY <1>1, <3>1, PlayedInv
    <2> QED BY <1>7, <2>1, <2>2 DEF SaveKey
  <1>8. CASE Saved(s)
    <2> DEFINE c == Follow(x.door, x.then)
    <2>1. x.then \in Thens /\ Put(s, c)
      BY <1>8 DEF Saved, IInv, Types, Tagged
    <2>2. /\ DOMAIN c \subseteq {"at", "stage", "door", "values", "then", "keys"}
          /\ "at" \in DOMAIN c /\ c["at"] \in {"feed", "load"}
          /\ "then" \in DOMAIN c => c["then"] \in Thens
          /\ "stage" \in DOMAIN c => c["stage"] = "DOORS" /\ c["at"] = "feed"
          /\ "door" \in DOMAIN c => c["door"] = "none"
          /\ "stage" \in DOMAIN c <=> "door" \in DOMAIN c
      BY <2>1, Follows
    <2> HIDE DEF c
    <2> QED BY <1>1, <2>1, <2>2, PlayedInv
  <1> QED BY <1>3, <1>6, <1>7, <1>8

-----------------------------------------------------------------------------
(* The invariant.                                                          *)

\* Nobody has called.
LEMMA InitIInv == Init => IInv
  <1> SUFFICES ASSUME Init PROVE IInv
    OBVIOUS
  <1>1. scenario \in Scenarios /\ session = [s \in Sessions |-> New] /\ connections = <<>>
    BY DEF Init
  <1>2. /\ scenario.users \in Seq(Names) /\ Password0 \in Token
    BY <1>1, ScenarioAssumption
  <1>3. users \in Seq(User) /\ Len(users) \in Nat
    <2> DEFINE n == Len(scenario.users)
               row(i) == [handle |-> scenario.users[i], password |-> <<Password0>>,
                          ansi |-> FALSE, sized |-> TRUE]
    <2>1. n \in Nat /\ <<Password0>> \in Seq(Token)
      BY <1>2
    <2>2. ASSUME NEW i \in 1..n PROVE row(i) \in User
      <3>1. scenario.users[i] \in Names
        BY <1>2, <2>2
      <3> QED BY <2>1, <3>1, Zenon DEF User
    <2>3. users = [i \in 1..n |-> row(i)]
      BY DEF Init
    <2> HIDE DEF row
    <2>4. users \in [1..n -> User]
      BY <2>2, <2>3
    <2> QED BY <2>1, <2>4, IsRow
  <1>4. Shape
    BY <1>1 DEF Shape, Fields
  <1>5. Tables
    BY <1>1, <1>3 DEF Tables
  <1>6. ASSUME NEW s \in Sessions
        PROVE  /\ session[s].at = "none" /\ session[s].route = "SELECT" /\ session[s].stage = "SELECT"
               /\ session[s].line = <<>> /\ session[s].feed = <<>> /\ session[s].ppp = <<>>
               /\ session[s].early = <<>> /\ session[s].heard = <<>> /\ session[s].query_ms = 0
               /\ session[s].pending = None /\ session[s].user_id = 0
               /\ session[s].connection_id = 0 /\ session[s].door = "none" /\ session[s].then = "stay"
    BY <1>1 DEF New
  <1>7. ASSUME NEW s \in Sessions PROVE Tagged(s) /\ Worded(s) /\ Early(s) /\ Somebody(s)
    <2>1. Tagged(s)
      BY <1>3, <1>6, StagesAre DEF Tagged, Started, Routes, Thens
    <2>2. Worded(s)
      <3>1. <<>> \in Seq(Token) /\ Len(<<>>) = 0
        BY EmptySeq
      <3>2. /\ session[s].line = <<>> /\ session[s].feed = <<>> /\ session[s].heard = <<>>
            /\ session[s].ppp = <<>>
        BY <1>6
      <3> QED BY <3>1, <3>2 DEF Worded
    <2>3. Early(s)
      BY <1>6 DEF Early, Prefix
    <2>4. Somebody(s)
      BY <1>6, StagesAre DEF Somebody
    <2> QED BY <2>1, <2>2, <2>3, <2>4
  <1>9. ASSUME NEW s \in Sessions PROVE Flagged(s)
    <2>1. session[s].ansi = FALSE /\ session[s].sized = FALSE
      BY <1>1 DEF New
    <2> QED BY <2>1, Zenon DEF Flagged
  <1>10. Rows
    <2>1. Len(connections) = 0
      BY <1>1
    <2>2. ASSUME NEW s \in Sessions PROVE OwnRow(s)
      BY <1>6, <2>1, StagesAre DEF OwnRow
    <2> QED BY <2>1, <2>2 DEF Rows, OneEach
  <1> QED BY <1>4, <1>5, <1>7, <1>9, <1>10 DEF IInv, Types

\* Every step.
LEMMA NextIInv == IInv /\ [Next]_vars => IInv'
  <1> SUFFICES ASSUME IInv, [Next]_vars PROVE IInv'
    OBVIOUS
  <1>1. CASE UNCHANGED vars
    BY <1>1 DEF vars, IInv, Shape, Tables, Types, Tagged, Worded, Flagged, Early, Somebody, Handle,
                Rows, NoneBroken, OneEach, OwnRow, Prefix
  <1>2. CASE Next
    BY <1>2, CreateInv, ComesInv, EndsInv, TickInv, ByteInv, SelectInv, LoginInv, PasswordInv,
       NewPasswordInv, TermAnsiInv, MenuInv, DoorsMenuInv, DoorInputInv, SavesInv DEF Next
  <1> QED BY <1>1, <1>2

\* The inductive invariant of the sessions: what they hold, what was heard before
\* the choice, whose they are and which rows are theirs.
THEOREM Invariance == Spec => []IInv
  BY InitIInv, NextIInv, PTL DEF Spec

\* What struct bbs_session may hold (bbs.c:45).
THEOREM TypeCorrect == Spec => []TypeOK
  <1>1. IInv => TypeOK
    BY DEF IInv, Types, Tagged, Worded, TypeOK, Started
  <1> QED BY <1>1, Invariance, PTL

\* However the bytes were cut into feeds, and whatever came before, pppd gets all
\* that was heard, beginning with PPP's first frame, or nothing.
THEOREM EarlyFrameWholeAlways == Spec => []EarlyFrameWhole
  <1>1. IInv => EarlyFrameWhole
    BY DEF IInv, Early, EarlyFrameWhole
  <1> QED BY <1>1, Invariance, PTL

\* Nobody is past the login who is not a user, and the session has the right one,
\* whoever registers or logs in meanwhile.
THEOREM InsideIsSomebodyAlways == Spec => []InsideIsSomebody
  <1>1. IInv => InsideIsSomebody
    BY DEF IInv, Somebody, InsideIsSomebody
  <1> QED BY <1>1, Invariance, PTL

\* Each session at the menu has one row of connections and no row is another's.
THEOREM OneRowEachAlways == Spec => []OneRowEach
  <1>1. IInv => OneRowEach
    <2> SUFFICES ASSUME IInv, NoneBroken, NEW s \in Sessions
                 PROVE  LET x == session[s]
                            mine == {i \in 1..Len(connections) : connections[i].by = s}
                        IN /\ Cardinality(mine) <= 1
                           /\ x.connection_id # 0 => mine = {x.connection_id}
                           /\ x.stage \in {"MAIN", "DOORS", "DOOR"} => mine # {}
                           /\ \A i \in mine : connections[i].user = x.user_id
                                              /\ (connections[i].ended => x.at = "gone")
      BY DEF OneRowEach
    <2> DEFINE x == session[s]
               mine == {i \in 1..Len(connections) : connections[i].by = s}
    <2>1. OneEach /\ OwnRow(s)
      BY DEF IInv, Rows
    <2>2. x.connection_id # 0 => mine = {x.connection_id}
      BY <2>1 DEF OneEach, OwnRow
    <2>3. x.stage \in {"MAIN", "DOORS", "DOOR"} => mine # {}
      BY <2>1, <2>2, StagesAre DEF OwnRow
    <2>4. \A i \in mine : /\ connections[i].user = x.user_id
                          /\ connections[i].ended => x.at = "gone"
      BY <2>1 DEF OwnRow
    <2>5. \A i, j \in mine : i = j
      BY <2>1 DEF OneEach
    <2> HIDE DEF mine
    <2>6. Cardinality(mine) <= 1
      <3>1. CASE mine = {}
        BY <3>1, FS_EmptySet
      <3>2. mine # {} => \E i : mine = {i}
        BY <2>5
      <3>3. \A i : Cardinality({i}) = 1
        BY FS_Singleton
      <3> QED BY <3>1, <3>2, <3>3
    <2> QED BY <2>2, <2>3, <2>4, <2>6 DEF mine
  <1> QED BY <1>1, Invariance, PTL

-----------------------------------------------------------------------------
(* The invariant of the games, with that of the sessions.                  *)

OneHandle == \A i, j \in 1..Len(users) : users[i].handle = users[j].handle => i = j

\* What each game holds when the caller looks at it.
GoodHand(v) == DOMAIN v = {"credits", "you", "dealer"} /\ v.you \in 2..21 /\ v.dealer \in 1..10
GoodWord(v) ==
    /\ DOMAIN v = {"wins", "tried", "misses", "over"}
    /\ IsFiniteSet(v.tried) /\ v.misses = Cardinality(v.tried \ Secret) /\ v.misses <= MaxMisses
    /\ ~v.over => v.misses < MaxMisses /\ ~ Secret \subseteq v.tried
GoodShip(v) ==
    v \in [credits : Nat, cargo : 0..MaxCargo, port : Ports]
GoodHero(v) ==
    /\ v \in [level : Nat, xp : Nat, hp : Nat, gold : Nat]
    /\ v.xp < v.level * 50 /\ v.hp \in 1..Health(v.level)

\* The games that save after every line, so that what is saved matters.
SavedAlways == {"space", "dungeon"}
Good(game, v) == (game = "space" => GoodShip(v)) /\ (game = "dungeon" => GoodHero(v))

\* How a save ends.
Ends(game) == CASE game = "blackjack" -> {"again"}
                [] game = "hangman" -> {"stay"}
                [] game \in SavedAlways -> {"stay", "leave"}
                [] game = "speed" -> {}

KeyNames == {"credits", "wins", "cargo", "port", "level", "xp", "hp", "gold"}
\* The keys a session still has to load or to save.
Elements(q) == {q[i] : i \in 1..Len(q)}
Left(s) == Elements(session[s].keys)

\* A session's game, whatever is saved.
Holding(s) ==
    LET x == session[s] IN
    /\ x.keys \in Seq(KeyNames) /\ (x.at = "gone" => x.door = "none")
    /\ x.at \in {"load", "save"} => Left(s) \subseteq DOMAIN Fresh[x.door]
    /\ x.at = "save" => x.then \in Ends(x.door)
    /\ x.at = "load" => x.then = "again" \/ (x.then = "won" /\ x.door = "hangman")
    /\ x.door = "blackjack" /\ x.at \notin {"load", "save"} => GoodHand(x.values)
    /\ x.door = "hangman" /\ ~(x.at = "load" /\ x.then = "again") => GoodWord(x.values)

\* What the database has of a game, completed by what it starts with.
Stored(name, game) == games[name][game] @@ Fresh[game]

\* What is saved for a user whom one session plays as, none of whose statements
\* failed: in a save, the keys done are those of the game; else a good state, and
\* of the game in play, the one in play, as far as it is loaded.
Right(s, game) ==
    LET x == session[s]
        stored == Stored(Handle(s), game)
        done == DOMAIN Fresh[game] \ Left(s)
    IN IF x.door = game /\ x.at = "save"
       THEN Good(game, x.values) /\ \A k \in done : stored[k] = x.values[k]
       ELSE /\ Good(game, stored)
            /\ x.door = game /\ x.at = "load" =>
                  /\ x.values = [k \in DOMAIN Fresh[game] |-> x.values[k]]
                  /\ \A k \in done : x.values[k] = stored[k]
            /\ x.door = game /\ x.at # "load" => x.values = stored

Counted(s) ==
    session[s].user_id # 0 /\ session[s].at # "gone" /\ Alone(s) /\ ~session[s].broken

\* The table: what is saved of a game is keyed by the game's keys, and there is
\* nothing of a user whom nobody played as.
TableShape ==
    /\ DOMAIN games = Names
    /\ \A n \in Names : DOMAIN games[n] = Game
    /\ \A n \in Names, g \in SavedAlways : DOMAIN games[n][g] \subseteq DOMAIN Fresh[g]
Unplayed ==
    \A n \in Names :
        (\A t \in Sessions : session[t].user_id # 0 => Handle(t) # n) => games[n] = NoKeys

Playing ==
    /\ OneHandle /\ TableShape /\ Unplayed
    /\ \A s \in Sessions : Holding(s)
    /\ \A s \in Sessions, g \in SavedAlways : Counted(s) => Right(s, g)

GInv == IInv /\ Playing

-----------------------------------------------------------------------------
(* Steps that leave the games alone.                                       *)

\* What a game in play has in its session.
InPlay == {"door", "values", "keys", "then"}
Paused == {"none", "idle", "feed", "route"}

\* A step beside the games, of a session that is no other user's after it.
Aside(s) ==
    LET x == session[s]
        y == session'[s]
    IN /\ Moved(s) /\ UNCHANGED games
       /\ x.at \in Paused /\ y.at \in Paused
       /\ \A f \in InPlay : y[f] = x[f]
       /\ x.broken => y.broken

SameUser(s) == session'[s].user_id = session[s].user_id

\* The session is gone.
Went(s) ==
    LET x == session[s]
        y == session'[s]
    IN /\ Moved(s) /\ UNCHANGED games
       /\ y.at = "gone" /\ y.door = "none" /\ y.keys = <<>> /\ y.user_id = x.user_id

\* A step that changes other fields than those is beside the games.
LEMMA PutAside ==
  ASSUME Shape, NEW s \in Sessions, session[s].at \in Paused, UNCHANGED games, NEW c, Put(s, c),
         DOMAIN c \subseteq Fields \ (InPlay \cup {"user_id", "broken"}),
         "at" \in DOMAIN c => c["at"] \in Paused
  PROVE  Aside(s) /\ SameUser(s)
  <1>1. Moved(s) /\ \A f \in Fields : session'[s][f] = IF f \in DOMAIN c THEN c[f] ELSE session[s][f]
    BY PutStep DEF Moved
  <1> QED BY <1>1, FieldsAre DEF Aside, SameUser, InPlay, Paused

\* The same of a line.
LEMMA DoneAside ==
  ASSUME Shape, NEW s \in Sessions, session[s].at = "feed", UNCHANGED games, NEW ch,
         DOMAIN ch \subseteq {"stage", "pending", "route", "ppp"}, Put(s, ch @@ Done(s))
  PROVE  Aside(s) /\ SameUser(s)
  <1>1. /\ Moved(s)
        /\ \A f \in Fields \ {"line", "feed"} :
               session'[s][f] = IF f \in DOMAIN ch THEN ch[f] ELSE session[s][f]
    <2>1. DOMAIN ch \subseteq Fields \ {"line", "feed"}
      BY FieldsAre
    <2> QED BY <2>1, DoneStep
  <1> QED BY <1>1, FieldsAre DEF Aside, SameUser, InPlay, Paused

\* A line that leads to another stage.
LEMMA GotoAside ==
  ASSUME Shape, NEW s \in Sessions, session[s].at = "feed", UNCHANGED games, NEW stage,
         Goto(s, stage)
  PROVE  Aside(s) /\ SameUser(s)
  <1> DEFINE ch == [stage |-> stage]
  <1>1. DOMAIN ch = {"stage"} /\ Put(s, ch @@ Done(s))
    BY DEF Goto
  <1> HIDE DEF ch
  <1> QED BY <1>1, DoneAside

\* The menu is reached.
LEMMA EnterAside ==
  ASSUME Shape, NEW s \in Sessions, session[s].at \in Paused, UNCHANGED games, NEW ch,
         connections \in Seq(Connection), DOMAIN ch \subseteq Arrival, EnterMain(s, ch)
  PROVE  Aside(s) /\ SameUser(s)
  <1>1. /\ Moved(s) /\ Menu(s, session'[s])
        /\ \A f \in Fields \ {"stage", "connection_id", "broken", "last_id"} :
               session'[s][f] = IF f \in DOMAIN ch THEN ch[f] ELSE session[s][f]
    <2>1. DOMAIN ch \subseteq Fields \ {"stage", "connection_id", "broken"}
      BY FieldsAre DEF Arrival
    <2> QED BY <2>1, EnterMainStep DEF Moved
  <1>2. session[s].broken => session'[s].broken
    BY <1>1 DEF Menu, Inserted, Failed, Kept
  <1>3. \A f \in InPlay \cup {"at", "user_id"} : session'[s][f] = session[s][f]
    BY <1>1, FieldsAre DEF Arrival, InPlay
  <1> QED BY <1>1, <1>2, <1>3, FieldsAre DEF Aside, SameUser, InPlay

\* Create, Comes, FeedEnds.
LEMMA FedAside ==
  ASSUME Shape, NEW s \in Sessions, Create(s) \/ Comes(s) \/ FeedEnds(s)
  PROVE  Aside(s) /\ SameUser(s)
  <1> DEFINE x == session[s]
             y == session'[s]
  <1>1. ASSUME NEW at \in {"idle", "route"}, Put(s, [at |-> at]), x.at \in Paused, UNCHANGED games
        PROVE  Aside(s) /\ SameUser(s)
    <2> DEFINE c == [at |-> at]
    <2>1. DOMAIN c = {"at"} /\ c["at"] = at /\ Put(s, c)
      BY <1>1
    <2> HIDE DEF c
    <2> QED BY <1>1, <2>1, PutAside, FieldsAre DEF InPlay, Paused
  <1>2. CASE Create(s) \/ FeedEnds(s)
    BY <1>1, <1>2 DEF Create, FeedEnds, Paused
  <1>4. CASE Comes(s)
    <2>1. PICK chunk \in scenario.chunks[s][x.stage] : Feed(s, chunk)
      BY <1>4 DEF Comes
    <2>2. x.at = "idle" /\ UNCHANGED games
      BY <1>4, <2>1 DEF Comes, Feed
    <2>3. \/ \E k, h : Put(s, [ppp |-> k, route |-> "PPP", at |-> "route", heard |-> h])
          \/ \E k, h : Put(s, [ppp |-> k, feed |-> chunk, at |-> "feed", heard |-> h])
          \/ Put(s, [feed |-> chunk, at |-> "feed"])
      BY <2>1 DEF Feed
    <2>4. ASSUME NEW c, DOMAIN c \subseteq {"ppp", "route", "at", "heard", "feed"}, Put(s, c),
                 c["at"] \in {"route", "feed"}
          PROVE  Aside(s) /\ SameUser(s)
      BY <2>2, <2>4, PutAside, FieldsAre DEF InPlay, Paused
    <2>5. ASSUME NEW k, NEW h, Put(s, [ppp |-> k, route |-> "PPP", at |-> "route", heard |-> h])
          PROVE  Aside(s) /\ SameUser(s)
      <3> DEFINE c == [ppp |-> k, route |-> "PPP", at |-> "route", heard |-> h]
      <3>1. DOMAIN c = {"ppp", "route", "at", "heard"} /\ c["at"] = "route" /\ Put(s, c)
        BY <2>5
      <3> HIDE DEF c
      <3> QED BY <2>4, <3>1
    <2>6. ASSUME NEW k, NEW h, Put(s, [ppp |-> k, feed |-> chunk, at |-> "feed", heard |-> h])
          PROVE  Aside(s) /\ SameUser(s)
      <3> DEFINE c == [ppp |-> k, feed |-> chunk, at |-> "feed", heard |-> h]
      <3>1. DOMAIN c = {"ppp", "feed", "at", "heard"} /\ c["at"] = "feed" /\ Put(s, c)
        BY <2>6
      <3> HIDE DEF c
      <3> QED BY <2>4, <3>1
    <2>7. ASSUME Put(s, [feed |-> chunk, at |-> "feed"])
          PROVE  Aside(s) /\ SameUser(s)
      <3> DEFINE c == [feed |-> chunk, at |-> "feed"]
      <3>1. DOMAIN c = {"feed", "at"} /\ c["at"] = "feed" /\ Put(s, c)
        BY <2>7
      <3> HIDE DEF c
      <3> QED BY <2>4, <3>1
    <2> QED BY <2>3, <2>5, <2>6, <2>7
  <1> QED BY <1>2, <1>4

\* PumpRoute, CallEnds, Killed.
LEMMA EndWent ==
  ASSUME Shape, NEW s \in Sessions, PumpRoute(s) \/ CallEnds(s) \/ Killed(s)
  PROVE  (Aside(s) /\ SameUser(s)) \/ Went(s)
  <1> DEFINE x == session[s]
             y == session'[s]
  <1>0. New["door"] = "none" /\ New["keys"] = <<>>
    BY DEF New
  <1>1. ASSUME NEW ch, DOMAIN ch \subseteq {"early"}, Destroy(s, ch) PROVE Went(s)
    <2>1. /\ Moved(s) /\ y.at = "gone" /\ y.user_id = x.user_id
          /\ y.door = New["door"] /\ y.keys = New["keys"]
      BY <1>1, DestroyStep, FieldsAre
    <2> QED BY <1>0, <1>1, <2>1 DEF Went, Destroy
  <1>2. DOMAIN [early |-> x.ppp] \subseteq {"early"} /\ DOMAIN <<>> \subseteq {"early"}
    OBVIOUS
  <1>3. CASE PumpRoute(s)
    <2>1. CASE Destroy(s, [early |-> x.ppp]) \/ Destroy(s, <<>>)
      BY <1>1, <1>2, <2>1
    <2>2. CASE /\ Put(s, [at |-> "idle"]) /\ x.at = "route"
               /\ UNCHANGED <<scenario, users, connections, games>>
      <3> DEFINE c == [at |-> "idle"]
      <3>1. DOMAIN c = {"at"} /\ c["at"] = "idle" /\ Put(s, c)
        BY <2>2
      <3> HIDE DEF c
      <3> QED BY <2>2, <3>1, PutAside, FieldsAre DEF InPlay, Paused
    <2> QED BY <1>3, <2>1, <2>2 DEF PumpRoute
  <1>4. CASE CallEnds(s)
    BY <1>1, <1>2, <1>4 DEF CallEnds
  <1>5. CASE Killed(s)
    <2>1. /\ Moved(s) /\ y.at = "gone" /\ y.user_id = x.user_id
          /\ y.door = New["door"] /\ y.keys = New["keys"]
      BY <1>5, KilledStep, FieldsAre
    <2> QED BY <1>0, <1>5, <2>1 DEF Went, Killed
  <1> QED BY <1>3, <1>4, <1>5

\* A byte of a feed.
LEMMA ByteAside ==
  ASSUME Shape, NEW s \in Sessions, Byte(s)
  PROVE  Aside(s) /\ SameUser(s)
  <1> DEFINE x == session[s]
             rest == [feed |-> Tail(x.feed)]
  <1>1. x.at \in Paused /\ UNCHANGED games
    BY DEF Byte, Paused
  <1>2. ASSUME NEW c, DOMAIN c \subseteq {"query", "feed", "line"}, Put(s, c)
        PROVE  Aside(s) /\ SameUser(s)
    BY <1>1, <1>2, PutAside, FieldsAre DEF InPlay
  <1>3. ASSUME NEW a, DOMAIN a \subseteq {"query", "line"}, Put(s, a @@ rest)
        PROVE  Aside(s) /\ SameUser(s)
    <2>1. DOMAIN (a @@ rest) = DOMAIN a \cup {"feed"}
      BY DEF @@
    <2> QED BY <1>2, <1>3, <2>1
  <1>4. CASE \E q : Put(s, [query |-> q] @@ rest)
    <2>1. \A q : DOMAIN [query |-> q] \subseteq {"query", "line"}
      OBVIOUS
    <2> QED BY <1>3, <1>4, <2>1
  <1>5. CASE \E l : Put(s, [line |-> l] @@ rest)
    <2>1. \A l : DOMAIN [line |-> l] \subseteq {"query", "line"}
      OBVIOUS
    <2> QED BY <1>3, <1>5, <2>1
  <1>6. CASE Put(s, rest)
    <2>1. DOMAIN rest = {"feed"}
      OBVIOUS
    <2> QED BY <1>2, <1>6, <2>1
  <1>7. CASE Put(s, <<>> @@ rest)
    <2>1. DOMAIN <<>> \subseteq {"query", "line"}
      OBVIOUS
    <2> QED BY <1>3, <1>7, <2>1
  <1> HIDE DEF rest
  <1>8. \/ Put(s, [query |-> x.query \cup {Head(x.feed)}] @@ rest)
        \/ Put(s, rest)
        \/ Put(s, [line |-> SubSeq(x.line, 1, Len(x.line) - 1)] @@ rest)
        \/ Put(s, [line |-> Append(x.line, Head(x.feed))] @@ rest)
        \/ Put(s, <<>> @@ rest)
    BY DEF Byte, rest
  <1> QED BY <1>4, <1>5, <1>6, <1>7, <1>8

\* Lines that only lead elsewhere.
LEMMA LineAside ==
  ASSUME Shape, NEW s \in Sessions,
         \/ Select(s) \/ Login(s) \/ NewName(s) \/ Main(s) \/ TermMenu(s) \/ TermSize(s)
         \/ Password(s) /\ Goto(s, "LOGIN")
         \/ NewPassword(s) /\ Refuse(s)
  PROVE  Aside(s) /\ SameUser(s)
  <1> DEFINE x == session[s]
  <1>1. x.at = "feed" /\ UNCHANGED games
    BY DEF Select, Login, NewName, Main, TermMenu, TermSize, Password, NewPassword, Line
  <1>2. CASE \E stage : Goto(s, stage)
    BY <1>1, <1>2, GotoAside
  <1>3. CASE Select(s)
    <2>1. DOMAIN (Chosen(s) @@ [route |-> "BBS", stage |-> "LOGIN"]) = {"ppp", "route", "stage"}
      BY DEF @@, Chosen
    <2>2. DOMAIN (Chosen(s) @@ [route |-> "PPP"]) = {"ppp", "route"}
      BY DEF @@, Chosen
    <2>3. \/ Put(s, (Chosen(s) @@ [route |-> "BBS", stage |-> "LOGIN"]) @@ Done(s))
          \/ Put(s, (Chosen(s) @@ [route |-> "PPP"]) @@ Done(s))
      BY <1>3 DEF Select
    <2> QED BY <1>1, <2>1, <2>2, <2>3, DoneAside
  <1>4. CASE \E r : Put(s, [route |-> r] @@ Done(s))
    <2>1. \A r : DOMAIN [route |-> r] = {"route"}
      OBVIOUS
    <2> QED BY <1>1, <1>4, <2>1, DoneAside
  <1>5. CASE \E p, t : Put(s, [pending |-> p, stage |-> t] @@ Done(s))
    <2>1. \A p, t : DOMAIN [pending |-> p, stage |-> t] = {"pending", "stage"}
      OBVIOUS
    <2> QED BY <1>1, <1>5, <2>1, DoneAside
  <1> QED BY <1>2, <1>3, <1>4, <1>5
          DEF Login, NewName, Main, TermMenu, TermSize, Refuse

\* The terminal.
LEMMA TerminalAside ==
  ASSUME Shape, NEW s \in Sessions, connections \in Seq(Connection), Tick(s) \/ TermAnsi(s)
  PROVE  Aside(s) /\ SameUser(s)
  <1> DEFINE x == session[s]
  <1>1. x.at \in Paused /\ UNCHANGED games
    BY DEF Tick, TermAnsi, Line, Paused
  <1>2. CASE \E a : EnterMain(s, [ansi |-> a, sized |-> TRUE] @@ Done(s))
    <2>1. \A a : DOMAIN ([ansi |-> a, sized |-> TRUE] @@ Done(s)) \subseteq Arrival
      BY DEF @@, Done, Arrival
    <2> QED BY <1>1, <1>2, <2>1, EnterAside
  <1>3. CASE EnterMain(s, [ansi |-> TRUE, sized |-> TRUE, query_ms |-> 0])
    <2>1. DOMAIN [ansi |-> TRUE, sized |-> TRUE, query_ms |-> 0] \subseteq Arrival
      BY DEF Arrival
    <2> QED BY <1>1, <1>3, <2>1, EnterAside
  <1>4. CASE Put(s, [query_ms |-> x.query_ms + 1])
    <2> DEFINE c == [query_ms |-> x.query_ms + 1]
    <2>1. DOMAIN c = {"query_ms"} /\ Put(s, c)
      BY <1>4
    <2> HIDE DEF c
    <2> QED BY <1>1, <2>1, PutAside, FieldsAre DEF InPlay
  <1>5. CASE Put(s, [stage |-> "TERM_ASK", sized |-> TRUE, query_ms |-> 0])
    <2> DEFINE c == [stage |-> "TERM_ASK", sized |-> TRUE, query_ms |-> 0]
    <2>1. DOMAIN c = {"stage", "sized", "query_ms"} /\ Put(s, c)
      BY <1>5
    <2> HIDE DEF c
    <2> QED BY <1>1, <2>1, PutAside, FieldsAre DEF InPlay
  <1>6. CASE Tick(s)
    BY <1>3, <1>4, <1>5, <1>6 DEF Tick
  <1>7. CASE TermAnsi(s)
    BY <1>2, <1>7 DEF TermAnsi
  <1> QED BY <1>6, <1>7

\* Somebody logs in: a user nobody knew is at the end of the table.
Joins(s) ==
    LET y == session'[s] IN
    /\ Aside(s) /\ session[s].user_id = 0
    /\ y.user_id \in 1..Len(users')

\* A password, or a new one.
LEMMA JoinsAside ==
  ASSUME IInv, NEW s \in Sessions, Password(s) \/ NewPassword(s)
  PROVE  (Aside(s) /\ SameUser(s)) \/ Joins(s)
  <1> DEFINE x == session[s]
             y == session'[s]
  <1>1. /\ Line(s, "PASSWORD") \/ Line(s, "NEW_PASSWORD")
        /\ UNCHANGED games /\ Shape /\ connections \in Seq(Connection) /\ users \in Seq(User)
        /\ Somebody(s)
    BY DEF Password, NewPassword, IInv, Types, Tables
  <1>2. x.user_id = 0 /\ x.at = "feed"
    BY <1>1, StagesAre DEF Line, Somebody
  <1>3. ASSUME NEW ch, DOMAIN ch \subseteq {"user_id", "ansi", "sized", "last_id", "line", "feed"},
               "user_id" \in DOMAIN ch, ch["user_id"] \in 1..Len(users'), BeginTerminal(s, ch)
        PROVE  Joins(s)
    <2>1. /\ Moved(s)
          /\ Menu(s, y) \/ Asked(s, y)
          /\ \A f \in Fields \ {"stage", "connection_id", "broken", "last_id", "query", "query_ms"} :
                 y[f] = IF f \in DOMAIN ch THEN ch[f] ELSE x[f]
      <3>1. DOMAIN ch \subseteq Fields \ {"stage", "connection_id", "broken", "query", "query_ms"}
        BY <1>3, FieldsAre
      <3> QED BY <1>1, <1>3, <3>1, BeginTerminalStep DEF Moved
    <2>2. x.broken => y.broken
      BY <2>1 DEF Menu, Asked, Inserted, Failed, Kept
    <2>3. y.user_id = ch["user_id"] /\ \A f \in InPlay \cup {"at"} : y[f] = x[f]
      BY <1>3, <2>1, FieldsAre DEF InPlay
    <2> QED BY <1>1, <1>2, <1>3, <2>1, <2>2, <2>3, FieldsAre DEF Joins, Aside, Paused, InPlay
  <1>4. ASSUME NEW id \in 1..Len(users), UNCHANGED users,
               BeginTerminal(s, [user_id |-> id, ansi |-> users[id].ansi,
                                 sized |-> users[id].sized] @@ Done(s))
        PROVE  Joins(s)
    <2> DEFINE ch == [user_id |-> id, ansi |-> users[id].ansi, sized |-> users[id].sized] @@ Done(s)
    <2>1. DOMAIN ch = {"user_id", "ansi", "sized", "line", "feed"} /\ ch["user_id"] = id
      BY DEF @@, Done
    <2>2. BeginTerminal(s, ch)
      BY <1>4
    <2> HIDE DEF ch
    <2> QED BY <1>3, <1>4, <2>1, <2>2
  <1>5. ASSUME NEW row, users' = Append(users, row),
               BeginTerminal(s, [user_id |-> Len(users'), last_id |-> Len(users')] @@ Done(s))
        PROVE  Joins(s)
    <2> DEFINE ch == [user_id |-> Len(users'), last_id |-> Len(users')] @@ Done(s)
    <2>1. DOMAIN ch = {"user_id", "last_id", "line", "feed"} /\ ch["user_id"] = Len(users')
      BY DEF @@, Done
    <2>2. BeginTerminal(s, ch)
      BY <1>5
    <2>3. Len(users') \in 1..Len(users')
      <3>1. Len(users) \in Nat /\ Len(users') = Len(users) + 1
        BY <1>1, <1>5
      <3> QED BY <3>1
    <2> HIDE DEF ch
    <2> QED BY <1>3, <2>1, <2>2, <2>3
  <1>6. CASE Password(s)
    BY <1>1, <1>4, <1>6, LineAside DEF Password
  <1>7. CASE NewPassword(s)
    BY <1>1, <1>5, <1>7, LineAside DEF NewPassword
  <1> QED BY <1>6, <1>7

-----------------------------------------------------------------------------
(* Users and handles.                                                      *)

\* Users are added, one of each handle, and stay who they are.
LEMMA UsersStep ==
  ASSUME IInv, OneHandle, [Next]_vars
  PROVE  Grown /\ OneHandle'
  <1>1. users \in Seq(User) /\ Len(users) \in Nat
    BY DEF IInv, Tables
  <1>2. ASSUME Grown, Len(users') = Len(users) PROVE OneHandle'
    BY <1>1, <1>2 DEF Grown, OneHandle
  <1>3. CASE UNCHANGED users
    BY <1>1, <1>3, SameUsers DEF OneHandle
  <1>4. ASSUME NEW s \in Sessions, NEW a \in BOOLEAN, NEW b \in BOOLEAN, SaveTerminal(s, a, b)
        PROVE  Grown /\ OneHandle'
    <2>1. session[s].user_id \in 0..Len(users)
      BY DEF IInv, Types, Tagged
    <2>2. Grown /\ Len(users') = Len(users)
      BY <1>1, <1>4, <2>1, TerminalSaved
    <2> QED BY <1>2, <2>2
  <1>5. ASSUME NEW s \in Sessions, Tick(s) PROVE Grown /\ OneHandle'
    <2>1. UNCHANGED users \/ SaveTerminal(s, TRUE, TRUE)
      BY <1>5 DEF Tick
    <2> QED BY <1>3, <1>4, <2>1
  <1>6. ASSUME NEW s \in Sessions, TermAnsi(s) PROVE Grown /\ OneHandle'
    <2>1. SaveTerminal(s, First(s) = "Y", TRUE)
      BY <1>6 DEF TermAnsi
    <2> DEFINE yes == First(s) = "Y"
    <2>2. yes \in BOOLEAN
      OBVIOUS
    <2> HIDE DEF yes
    <2>3. SaveTerminal(s, yes, TRUE)
      BY <2>1 DEF yes
    <2> QED BY <1>4, <2>2, <2>3
  <1>7. ASSUME NEW s \in Sessions, TermSize(s) PROVE Grown /\ OneHandle'
    <2>1. UNCHANGED users \/ SaveTerminal(s, session[s].ansi, session[s].sized)
      BY <1>7 DEF TermSize
    <2>2. session[s].ansi \in BOOLEAN /\ session[s].sized \in BOOLEAN
      BY DEF IInv, Types, Flagged
    <2> QED BY <1>3, <1>4, <2>1, <2>2
  <1>8. ASSUME NEW s \in Sessions, NewPassword(s) PROVE Grown /\ OneHandle'
    <2> DEFINE x == session[s]
               row == [handle |-> x.pending, password |-> x.line, ansi |-> FALSE, sized |-> FALSE]
    <2>1. CASE /\ x.pending # None /\ users' = Append(users, row)
               /\ \A id \in 1..Len(users) : users[id].handle # x.pending
      <3>1. Tagged(s) /\ Worded(s)
        BY DEF IInv, Types
      <3>2. x.pending \in Names /\ x.line \in Seq(Token)
        BY <2>1, <3>1 DEF Tagged, Worded
      <3>3. row \in User /\ row.handle = x.pending
        BY <3>2, Zenon DEF User
      <3> HIDE DEF row
      <3>4. /\ users' \in Seq(User) /\ Len(users') = Len(users) + 1
            /\ users'[Len(users')] = row
            /\ \A id \in 1..Len(users) : users'[id] = users[id]
        BY <1>1, <2>1, <3>3
      <3>5. Grown
        BY <1>1, <3>4 DEF Grown
      <3>6. OneHandle'
        BY <1>1, <2>1, <3>3, <3>4 DEF OneHandle
      <3> QED BY <3>5, <3>6
    <2> QED BY <1>3, <1>8, <2>1 DEF NewPassword
  <1>9. ASSUME NEW s \in Sessions, Create(s) \/ Comes(s) \/ FeedEnds(s) \/ PumpRoute(s) \/ CallEnds(s)
                                     \/ Killed(s) \/ Byte(s) \/ Select(s) \/ Login(s) \/ NewName(s)
        PROVE  UNCHANGED users
    BY <1>9 DEF Create, Comes, Feed, FeedEnds, PumpRoute, CallEnds, Destroy, Killed, Byte, Select,
                Login, NewName
  <1>10. ASSUME NEW s \in Sessions, Password(s) \/ Main(s) \/ TermMenu(s) \/ DoorsMenu(s) \/ DoorInput(s)
                                     \/ LoadKey(s) \/ Loaded(s) \/ SaveKey(s) \/ Saved(s)
         PROVE  UNCHANGED users
    BY <1>10 DEF Password, Main, TermMenu, DoorsMenu, DoorInput, LoadKey, Loaded, SaveKey, Saved
  <1>11. CASE UNCHANGED vars
    BY <1>3, <1>11 DEF vars
  <1>12. CASE Next
    BY <1>3, <1>5, <1>6, <1>7, <1>8, <1>9, <1>10, <1>12 DEF Next
  <1> QED BY <1>11, <1>12

\* A session's handle stays.
LEMMA HandleStays ==
  ASSUME IInv, Grown, NEW t \in Sessions, session[t].user_id # 0,
         session'[t].user_id = session[t].user_id
  PROVE  Handle(t)' = Handle(t)
  <1>1. session[t].user_id \in 1..Len(users)
    BY DEF IInv, Types, Tables, Tagged
  <1> QED BY <1>1 DEF Grown, Handle

\* And is a name, of one user.
LEMMA HandleIs ==
  ASSUME IInv, NEW t \in Sessions, session[t].user_id # 0
  PROVE  session[t].user_id \in 1..Len(users) /\ Handle(t) \in Names
  <1>1. session[t].user_id \in 1..Len(users) /\ users \in Seq(User)
    BY DEF IInv, Types, Tables, Tagged
  <1>2. users[session[t].user_id] \in User
    BY <1>1
  <1>3. users[session[t].user_id].handle \in Names
    BY <1>2, Zenon DEF User
  <1> QED BY <1>1, <1>3 DEF Handle

-----------------------------------------------------------------------------
(* What each part depends on.                                              *)

\* Right depends on the game in play and on what is saved of it.
LEMMA RightStays ==
  ASSUME NEW t \in Sessions, NEW g \in SavedAlways, Right(t, g),
         \A f \in InPlay : session'[t][f] = session[t][f],
         \/ session'[t].at = session[t].at
         \/ session'[t].at \in Paused /\ session[t].at \in Paused,
         Handle(t)' = Handle(t), games'[Handle(t)][g] = games[Handle(t)][g]
  PROVE  Right(t, g)'
  <1>1. Stored(Handle(t), g)' = Stored(Handle(t), g)
    BY DEF Stored
  <1>2. Left(t)' = Left(t)
    BY DEF Left, InPlay
  <1>3. session'[t].values = session[t].values /\ session'[t].door = session[t].door
    BY DEF InPlay
  <1> QED BY <1>1, <1>2, <1>3 DEF Right, Paused

\* The other sessions, and their games.
LEMMA OtherGames ==
  ASSUME GInv, NEW s \in Sessions, Moved(s), Grown, SameUser(s) \/ session[s].user_id = 0,
         \A n \in Names : games'[n] = games[n] \/ (session[s].user_id # 0 /\ n = Handle(s)),
         NEW t \in Sessions, t # s
  PROVE  Holding(t)' /\ \A g \in SavedAlways : Counted(t)' => Right(t, g)'
  <1>1. session'[t] = session[t] /\ Holding(t) /\ IInv /\ OneHandle
    BY DEF Moved, GInv, Playing
  <1>2. Holding(t)'
    BY <1>1 DEF Holding, Left
  <1>3. ASSUME NEW g \in SavedAlways, Counted(t)' PROVE Right(t, g)'
    <2>1. session[t].user_id # 0 /\ session[t].at # "gone" /\ ~session[t].broken
      BY <1>1, <1>3 DEF Counted
    <2>2. \A u \in Sessions \ {t} : session'[u].user_id = 0 \/ session'[u].user_id # session[t].user_id
      BY <1>1, <1>3 DEF Counted, Alone
    <2>3. \A u \in Sessions \ {t} : session[u].user_id = 0 \/ session[u].user_id # session[t].user_id
      BY <1>1, <2>2 DEF Moved, SameUser
    <2>4. Counted(t)
      BY <2>1, <2>3 DEF Counted, Alone
    <2>5. Right(t, g) /\ Handle(t)' = Handle(t) /\ Handle(t) \in Names
      BY <1>1, <1>3, <2>1, <2>4, HandleStays, HandleIs DEF GInv, Playing
    <2>6. session[s].user_id # 0 => Handle(t) # Handle(s)
      BY <1>1, <2>1, <2>3, HandleIs DEF OneHandle, Handle
    <2>7. games'[Handle(t)][g] = games[Handle(t)][g]
      BY <2>5, <2>6
    <2> QED BY <1>1, <2>5, <2>7, RightStays
  <1> QED BY <1>2, <1>3

\* Nothing is saved of a user whom nobody plays as, after the step either.
LEMMA UnplayedStays ==
  ASSUME GInv, NEW s \in Sessions, Moved(s), Grown, SameUser(s) \/ session[s].user_id = 0,
         \A n \in Names : games'[n] = games[n]
                           \/ (session[s].user_id # 0 /\ SameUser(s) /\ n = Handle(s))
  PROVE  Unplayed'
  <1> SUFFICES ASSUME NEW n \in Names,
                      \A t \in Sessions : session'[t].user_id # 0 => Handle(t)' # n
               PROVE  games'[n] = NoKeys
    BY DEF Unplayed
  <1>1. IInv /\ Unplayed
    BY DEF GInv, Playing
  <1>2. ASSUME NEW t \in Sessions, session[t].user_id # 0 PROVE Handle(t) # n
    <2>1. session'[t].user_id = session[t].user_id
      BY <1>2 DEF Moved, SameUser
    <2>2. Handle(t)' = Handle(t)
      BY <1>1, <1>2, <2>1, HandleStays
    <2> QED BY <1>2, <2>1, <2>2
  <1>3. games[n] = NoKeys
    BY <1>1, <1>2 DEF Unplayed
  <1> QED BY <1>2, <1>3

\* What a game starts with is good.
LEMMA FreshGood ==
  ASSUME NEW g \in SavedAlways
  PROVE  Good(g, Fresh[g]) /\ (<<>> @@ Fresh[g]) = Fresh[g]
  <1>1. Good(g, Fresh[g])
    <2>1. CASE g = "space"
      BY <2>1, DoorsAssumption DEF Good, GoodShip, Fresh
    <2>2. CASE g = "dungeon"
      BY <2>2 DEF Good, GoodHero, Fresh, Health
    <2> QED BY <2>1, <2>2 DEF SavedAlways
  <1>2. (<<>> @@ Fresh[g]) = Fresh[g]
    <2> DEFINE f == Fresh[g]
    <2>1. f = [k \in DOMAIN f |-> f[k]]
      BY DEF Fresh, SavedAlways
    <2>2. DOMAIN <<>> = {}
      OBVIOUS
    <2> HIDE DEF f
    <2>3. (<<>> @@ f) = f
      BY <2>1, <2>2 DEF @@
    <2> QED BY <2>3 DEF f
  <1> QED BY <1>1, <1>2

\* The game of a user who is new, or whom nobody played as.
LEMMA JoinsRight ==
  ASSUME GInv, NEW s \in Sessions, Joins(s), Grown, OneHandle', NEW g \in SavedAlways, Counted(s)'
  PROVE  Right(s, g)'
  <1> DEFINE x == session[s]
             y == session'[s]
             n == users'[y.user_id].handle
  <1>1. /\ IInv /\ Unplayed /\ Tagged(s) /\ Somebody(s) /\ Moved(s) /\ UNCHANGED games
        /\ x.user_id = 0 /\ y.user_id \in 1..Len(users') /\ y.at \in Paused /\ x.at \in Paused
        /\ y.door = x.door
    BY DEF GInv, Playing, IInv, Types, Joins, Aside, InPlay
  <1>2. y.door = "none"
    BY <1>1, StagesAre DEF Tagged, Somebody
  <1>3. n \in Names
    <2>1. users'[y.user_id] \in User
      BY <1>1 DEF Grown
    <2> QED BY <2>1, Zenon DEF User
  <1>4. ASSUME NEW t \in Sessions, session[t].user_id # 0 PROVE Handle(t) # n
    <2>1. t # s /\ session'[t] = session[t] /\ session[t].user_id # y.user_id
      BY <1>1, <1>4 DEF Moved, Counted, Alone
    <2>2. Handle(t)' = Handle(t) /\ session[t].user_id \in 1..Len(users)
      BY <1>1, <1>4, <2>1, HandleStays, HandleIs
    <2>3. session[t].user_id \in 1..Len(users')
      BY <2>2 DEF Grown
    <2>4. users'[session[t].user_id].handle # n
      BY <1>1, <2>1, <2>3 DEF OneHandle
    <2> QED BY <2>1, <2>2, <2>4 DEF Handle
  <1>5. games'[n] = NoKeys
    BY <1>1, <1>3, <1>4 DEF Unplayed
  <1>6. games'[n][g] = <<>>
    BY <1>5, GamesAre DEF NoKeys, SavedAlways
  <1>7. Handle(s)' = n
    BY DEF Handle
  <1>8. Stored(Handle(s), g)' = Fresh[g]
    BY <1>6, <1>7, FreshGood DEF Stored
  <1>9. g # "none"
    BY DEF SavedAlways
  <1> QED BY <1>2, <1>8, <1>9, FreshGood DEF Right

\* The steps beside the games.
LEMMA AsideInv ==
  ASSUME GInv, NEW s \in Sessions, Aside(s), SameUser(s) \/ Joins(s), Grown, OneHandle'
  PROVE  Playing'
  <1> DEFINE x == session[s]
             y == session'[s]
  <1>1. /\ IInv /\ TableShape /\ Holding(s) /\ Moved(s) /\ UNCHANGED games
        /\ SameUser(s) \/ x.user_id = 0
        /\ y.at \in Paused /\ x.at \in Paused /\ (x.broken => y.broken)
    BY DEF GInv, Playing, Aside, Joins
  <1>2. Unplayed'
    BY <1>1, UnplayedStays
  <1>3. \A t \in Sessions : t # s => Holding(t)' /\ \A g \in SavedAlways : Counted(t)' => Right(t, g)'
    BY <1>1, OtherGames
  <1>4. y.door = x.door /\ y.values = x.values /\ y.keys = x.keys /\ y.then = x.then
    BY DEF Aside, InPlay
  <1>5. Holding(s)'
    BY <1>1, <1>4 DEF Holding, Left, Paused
  <1>6. ASSUME NEW g \in SavedAlways, Counted(s)' PROVE Right(s, g)'
    <2>1. CASE SameUser(s)
      <3>1. y.user_id = x.user_id /\ x.user_id # 0
        BY <1>6, <2>1 DEF SameUser, Counted
      <3>2. \A u \in Sessions \ {s} : session[u].user_id = 0 \/ session[u].user_id # x.user_id
        BY <1>1, <1>6, <3>1 DEF Counted, Alone, Moved
      <3>3. Counted(s)
        BY <1>1, <1>6, <3>1, <3>2 DEF Counted, Alone, Paused
      <3>4. Right(s, g) /\ Handle(s)' = Handle(s)
        BY <1>1, <3>1, <3>3, HandleStays DEF GInv, Playing
      <3> QED BY <1>1, <3>4, RightStays DEF Aside
    <2>2. CASE Joins(s)
      BY <1>6, <2>2, JoinsRight
    <2> QED BY <2>1, <2>2
  <1>7. TableShape'
    BY <1>1 DEF TableShape
  <1> QED BY <1>2, <1>3, <1>5, <1>6, <1>7 DEF Playing

\* The session is gone.
LEMMA WentInv ==
  ASSUME GInv, NEW s \in Sessions, Went(s), Grown, OneHandle'
  PROVE  Playing'
  <1> DEFINE y == session'[s]
  <1>1. /\ IInv /\ TableShape /\ Moved(s) /\ UNCHANGED games /\ SameUser(s)
        /\ y.at = "gone" /\ y.door = "none" /\ y.keys = <<>>
    BY DEF GInv, Playing, Went, SameUser
  <1>2. Unplayed'
    BY <1>1, UnplayedStays
  <1>3. \A t \in Sessions : t # s => Holding(t)' /\ \A g \in SavedAlways : Counted(t)' => Right(t, g)'
    BY <1>1, OtherGames
  <1>4. Holding(s)'
    <2>1. <<>> \in Seq(KeyNames)
      OBVIOUS
    <2> QED BY <1>1, <2>1 DEF Holding
  <1>5. ~Counted(s)'
    BY <1>1 DEF Counted
  <1>6. TableShape'
    BY <1>1 DEF TableShape
  <1> QED BY <1>2, <1>3, <1>4, <1>5, <1>6 DEF Playing

-----------------------------------------------------------------------------
(* Lines for the games.                                                    *)

\* A hand goes on with less than 22, or is over.
LEMMA HandStep ==
  ASSUME NEW v, GoodHand(v), NEW key, NEW o \in Blackjack(v, key)
  PROVE  /\ o.save => o.then = "again"
         /\ ~o.save => o.then \in {"stay", "leave"} /\ GoodHand(o.values)
  <1>1. CASE o = Leave(v) \/ o = Stay(v)
    BY <1>1 DEF Leave, Stay, Outcome
  <1>2. CASE o \in Hit(v)
    <2>1. PICK c \in Cards :
             o = IF v.you + c > 21 THEN Outcome([v EXCEPT !.credits = @ - Wager], TRUE, "again")
                                   ELSE Stay([v EXCEPT !.you = @ + c])
      BY <1>2 DEF Hit
    <2>2. c \in 1..10
      BY DoorsAssumption
    <2>3. CASE v.you + c > 21
      <3>1. \E w : o = Outcome(w, TRUE, "again")
        BY <2>1, <2>3
      <3> QED BY <3>1 DEF Outcome
    <2>4. CASE ~(v.you + c > 21)
      <3> DEFINE w == [v EXCEPT !.you = @ + c]
      <3>1. GoodHand(w)
        BY <2>2, <2>4 DEF GoodHand
      <3>2. o = Stay(w)
        BY <2>1, <2>4
      <3> HIDE DEF w
      <3> QED BY <3>1, <3>2 DEF Stay, Outcome
    <2> QED BY <2>3, <2>4
  <1>3. CASE o \in Stand(v)
    <2>1. \E w : o = Outcome(w, TRUE, "again")
      BY <1>3 DEF Stand
    <2> QED BY <2>1 DEF Outcome
  <1> QED BY <1>1, <1>2, <1>3, BlackjackIs

\* The cards that are dealt.
LEMMA DealGood ==
  ASSUME NEW credits, NEW v \in Deal(credits)
  PROVE  GoodHand(v)
  <1>1. PICK a \in Cards, b \in Cards, c \in Cards :
           v = [credits |-> credits, you |-> a + b, dealer |-> c]
    BY DEF Deal
  <1>2. a \in 1..10 /\ b \in 1..10 /\ c \in 1..10
    BY DoorsAssumption
  <1> QED BY <1>1, <1>2 DEF GoodHand

\* A guess counts once, and the word is out with the last miss or letter.
LEMMA WordStep ==
  ASSUME NEW v, GoodWord(v), NEW key, NEW o \in Hangman(v, key)
  PROVE  /\ ~o.save /\ o.then \in Thens
         /\ o.then \in {"stay", "won"} => GoodWord(o.values)
  <1> DEFINE g == Guess(v, key)
             over == [g EXCEPT !.over = TRUE]
  <1>1. /\ DOMAIN g = {"wins", "tried", "misses", "over"} /\ g.over = v.over
        /\ IsFiniteSet(g.tried) /\ g.misses = Cardinality(g.tried \ Secret)
        /\ ~v.over => g.misses <= MaxMisses
    <2>1. CASE g = v
      BY <2>1 DEF GoodWord
    <2>2. CASE /\ key \notin v.tried
               /\ g = [v EXCEPT !.tried = @ \cup {key},
                                !.misses = IF key \in Secret THEN @ ELSE @ + 1]
      <3>1. /\ DOMAIN g = {"wins", "tried", "misses", "over"} /\ g.over = v.over
            /\ g.tried = v.tried \cup {key}
            /\ g.misses = IF key \in Secret THEN v.misses ELSE v.misses + 1
        BY <2>2 DEF GoodWord
      <3>2. IsFiniteSet(g.tried)
        BY <3>1, FS_AddElement DEF GoodWord
      <3>3. IsFiniteSet(v.tried \ Secret)
        BY FS_Subset DEF GoodWord
      <3>4. Cardinality(v.tried \ Secret) \in Nat
        BY <3>3, FS_CardinalityType
      <3>5. g.misses = Cardinality(g.tried \ Secret)
        <4>1. CASE key \in Secret
          <5>1. g.tried \ Secret = v.tried \ Secret
            BY <3>1, <4>1
          <5> QED BY <3>1, <4>1, <5>1 DEF GoodWord
        <4>2. CASE key \notin Secret
          <5>1. g.tried \ Secret = (v.tried \ Secret) \cup {key} /\ key \notin v.tried \ Secret
            BY <2>2, <3>1, <4>2
          <5>2. Cardinality((v.tried \ Secret) \cup {key}) = Cardinality(v.tried \ Secret) + 1
            BY <3>3, <5>1, FS_AddElement
          <5> QED BY <3>1, <4>2, <5>1, <5>2 DEF GoodWord
        <4> QED BY <4>1, <4>2
      <3>6. ~v.over => g.misses <= MaxMisses
        BY <3>1, <3>4, DoorsAssumption DEF GoodWord
      <3> QED BY <3>1, <3>2, <3>5, <3>6
    <2> QED BY <2>1, <2>2 DEF Guess
  <1>2. /\ DOMAIN over = {"wins", "tried", "misses", "over"} /\ over.over = TRUE
        /\ over.tried = g.tried /\ over.misses = g.misses
    BY <1>1
  <1>3. ~v.over => GoodWord(over)
    BY <1>1, <1>2 DEF GoodWord
  <1> HIDE DEF g, over
  <1>4. CASE o = Leave(v) \/ o = Outcome(v, FALSE, "again")
    BY <1>4 DEF Leave, Outcome, Thens
  <1>5. CASE ~v.over /\ (o = Stay(over) \/ o = Outcome(over, FALSE, "won"))
    BY <1>3, <1>5 DEF Stay, Outcome, Thens
  <1>6. CASE /\ ~v.over /\ ~(g.misses >= MaxMisses) /\ ~(Secret \subseteq g.tried) /\ o = Stay(g)
    <2>1. GoodWord(g)
      <3>1. g.misses \in Nat
        <4>1. IsFiniteSet(g.tried \ Secret)
          BY <1>1, FS_Subset
        <4> QED BY <1>1, <4>1, FS_CardinalityType
      <3>2. g.misses < MaxMisses
        BY <1>6, <3>1, DoorsAssumption
      <3> QED BY <1>1, <1>6, <3>2 DEF GoodWord
    <2> QED BY <1>6, <2>1 DEF Stay, Outcome, Thens
  <1> QED BY <1>4, <1>5, <1>6, HangmanIs DEF g, over

\* The word that is drawn, and the win that is counted.
LEMMA WordGood ==
  /\ GoodWord(Word)
  /\ \A v, n : GoodWord(v) => GoodWord([v EXCEPT !["wins"] = n])
  <1>1. GoodWord(Word)
    <2>1. /\ DOMAIN Word = {"wins", "tried", "misses", "over"} /\ Word.tried = {} /\ Word.misses = 0
      BY DEF Word
    <2>2. ({} \ Secret) = {} /\ IsFiniteSet({}) /\ Cardinality({}) = 0
      BY FS_EmptySet
    <2> QED BY <2>1, <2>2, DoorsAssumption DEF GoodWord
  <1>2. ASSUME NEW v, NEW n, GoodWord(v) PROVE GoodWord([v EXCEPT !["wins"] = n])
    <2> DEFINE w == [v EXCEPT !["wins"] = n]
    <2>1. /\ DOMAIN w = DOMAIN v /\ w.tried = v.tried /\ w.misses = v.misses /\ w.over = v.over
      BY <1>2 DEF GoodWord
    <2> HIDE DEF w
    <2>2. GoodWord(w)
      BY <1>2, <2>1 DEF GoodWord
    <2> QED BY <2>2 DEF w
  <1> QED BY <1>1, <1>2

\* A merchant buys with what there is and carries what the ship holds.
LEMMA ShipStep ==
  ASSUME NEW v, GoodShip(v), NEW key, NEW o \in Space(v, key)
  PROVE  o.save /\ o.then \in {"stay", "leave"} /\ GoodShip(o.values)
  <1>1. /\ DOMAIN v = {"credits", "cargo", "port"} /\ v.credits \in Nat /\ v.cargo \in 0..MaxCargo
        /\ v.port \in 1..12 /\ v.port \in Ports /\ MaxCargo \in Nat
    BY DoorsAssumption DEF GoodShip
  <1>2. Price(v.port) \in Nat
    BY <1>1 DEF Price
  <1>3. ASSUME NEW w, GoodShip(w), o = Outcome(w, TRUE, "leave") \/ o = Outcome(w, TRUE, "stay")
        PROVE  o.save /\ o.then \in {"stay", "leave"} /\ GoodShip(o.values)
    BY <1>3 DEF Outcome
  <1> DEFINE Ship(n, m) == [v EXCEPT !.credits = n, !.cargo = m]
  <1>a. ASSUME NEW n \in Nat, NEW m \in 0..MaxCargo PROVE GoodShip(Ship(n, m))
    BY <1>1 DEF GoodShip
  <1> HIDE DEF Ship
  <1>4. ASSUME Buys(v) PROVE GoodShip([v EXCEPT !.credits = @ - Price(v.port), !.cargo = @ + 1])
    <2>1. v.credits - Price(v.port) \in Nat /\ v.cargo + 1 \in 0..MaxCargo
      BY <1>1, <1>2, <1>4 DEF Buys
    <2>2. GoodShip(Ship(v.credits - Price(v.port), v.cargo + 1))
      BY <1>a, <2>1
    <2> QED BY <2>2 DEF Ship
  <1>5. ASSUME v.cargo > 0 PROVE GoodShip([v EXCEPT !.credits = @ + Price(v.port), !.cargo = @ - 1])
    <2>1. v.credits + Price(v.port) \in Nat /\ v.cargo - 1 \in 0..MaxCargo
      BY <1>1, <1>2, <1>5
    <2>2. GoodShip(Ship(v.credits + Price(v.port), v.cargo - 1))
      BY <1>a, <2>1
    <2> QED BY <2>2 DEF Ship
  <1>6. ASSUME NEW p \in Ports PROVE GoodShip([v EXCEPT !.port = p])
    BY <1>1, <1>6 DEF GoodShip
  <1>7. CASE o = Outcome(v, TRUE, "leave") \/ o = Outcome(v, TRUE, "stay")
    BY <1>3, <1>7
  <1>8. CASE /\ Buys(v)
             /\ o = Outcome([v EXCEPT !.credits = @ - Price(v.port), !.cargo = @ + 1], TRUE, "stay")
    BY <1>3, <1>4, <1>8
  <1>9. CASE /\ v.cargo > 0
             /\ o = Outcome([v EXCEPT !.credits = @ + Price(v.port), !.cargo = @ - 1], TRUE, "stay")
    BY <1>3, <1>5, <1>9
  <1>10. CASE \E p \in Ports : o = Outcome([v EXCEPT !.port = p], TRUE, "stay")
    BY <1>3, <1>6, <1>10
  <1> QED BY <1>7, <1>8, <1>9, <1>10, SpaceIs

\* A hero lives, with no more health than the level gives and no level unpaid.
LEMMA ExploredGood ==
  ASSUME NEW v, GoodHero(v), NEW hit \in 1..8, NEW gain \in 4..15
  PROVE  GoodHero(Explored(v, hit, gain))
  <1> DEFINE alive == v.hp > hit
             u == IF alive
                  THEN [v EXCEPT !.hp = @ - hit, !.xp = @ + gain, !.gold = @ + gain \div 2]
                  ELSE [v EXCEPT !.hp = Health(v.level), !.gold = @ \div 2]
             w == IF u.xp >= u.level * 50 THEN [u EXCEPT !.level = @ + 1] ELSE u
  <1> DEFINE Hero == [level : Nat, xp : Nat, hp : Nat, gold : Nat]
  <1>1. /\ DOMAIN v = {"level", "xp", "hp", "gold"} /\ v.level \in Nat /\ v.xp \in Nat
        /\ v \in Hero /\ v.xp < v.level * 50 /\ v.hp \in 1..(20 + v.level * 3) /\ v.gold \in Nat
    BY DEF GoodHero, Health
  <1>2. /\ DOMAIN u = {"level", "xp", "hp", "gold"} /\ u.level = v.level /\ u.xp \in Nat
        /\ u.xp < v.level * 50 + 50 /\ u.hp \in 1..(20 + v.level * 3) /\ u.gold \in Nat
    <2>1. CASE alive
      BY <1>1, <2>1
    <2>2. CASE ~alive
      BY <1>1, <2>2 DEF Health
    <2> QED BY <2>1, <2>2
  <1>0. u \in Hero
    <2>1. CASE alive
      <3>1. v.hp - hit \in Nat /\ v.xp + gain \in Nat /\ v.gold + gain \div 2 \in Nat
        BY <1>1, <2>1
      <3> QED BY <1>1, <2>1, <3>1
    <2>2. CASE ~alive
      <3>1. Health(v.level) \in Nat /\ v.gold \div 2 \in Nat
        BY <1>1 DEF Health
      <3> QED BY <1>1, <2>2, <3>1
    <2> QED BY <2>1, <2>2
  <1> HIDE DEF u
  <1>3. GoodHero(w)
    <2>1. CASE u.xp >= u.level * 50
      <3> DEFINE z == [u EXCEPT !.level = @ + 1]
      <3>1. /\ DOMAIN z = {"level", "xp", "hp", "gold"} /\ z.level = v.level + 1 /\ z.xp = u.xp
            /\ z.hp = u.hp /\ z.gold = u.gold
        BY <1>2
      <3>2. z \in Hero
        <4>1. u.level + 1 \in Nat
          BY <1>1, <1>2
        <4> QED BY <1>0, <4>1
      <3> HIDE DEF z
      <3>3. z.xp < z.level * 50 /\ z.hp \in 1..Health(z.level)
        BY <1>1, <1>2, <3>1 DEF Health
      <3>4. GoodHero(z)
        BY <3>2, <3>3 DEF GoodHero
      <3> QED BY <2>1, <3>4 DEF z
    <2>2. CASE ~(u.xp >= u.level * 50)
      <3>1. u.xp < u.level * 50 /\ u.hp \in 1..Health(u.level)
        BY <1>1, <1>2, <2>2 DEF Health
      <3> QED BY <1>0, <2>2, <3>1 DEF GoodHero
    <2> QED BY <2>1, <2>2
  <1>4. Explored(v, hit, gain) = w
    BY DEF Explored, u
  <1> HIDE DEF w
  <1> QED BY <1>3, <1>4

\* Every command leaves a hero so.
LEMMA HeroStep ==
  ASSUME NEW v, GoodHero(v), NEW key, NEW o \in Dungeon(v, key)
  PROVE  o.save /\ o.then \in {"stay", "leave"} /\ GoodHero(o.values)
  <1>1. ASSUME NEW w, GoodHero(w), o = Outcome(w, TRUE, "leave") \/ o = Outcome(w, TRUE, "stay")
        PROVE  o.save /\ o.then \in {"stay", "leave"} /\ GoodHero(o.values)
    BY <1>1 DEF Outcome
  <1>2. GoodHero([v EXCEPT !.hp = Health(v.level)])
    BY DEF GoodHero, Health
  <1>3. CASE o = Outcome(v, TRUE, "leave") \/ o = Outcome(v, TRUE, "stay")
    BY <1>1, <1>3
  <1>4. CASE o = Outcome([v EXCEPT !.hp = Health(v.level)], TRUE, "stay")
    BY <1>1, <1>2, <1>4
  <1>5. CASE o \in Explores(v)
    <2>1. PICK h \in Hits, e \in Gains : o = Outcome(Explored(v, h, e), TRUE, "stay")
      BY <1>5 DEF Explores
    <2>2. h \in 1..8 /\ e \in 4..15
      BY DoorsAssumption
    <2> QED BY <1>1, <2>1, <2>2, ExploredGood
  <1> QED BY <1>3, <1>4, <1>5, DungeonIs


-----------------------------------------------------------------------------
(* The steps of a game.                                                    *)

\* The keys of a game are those it starts with.
LEMMA KeysAre ==
  /\ \A g \in Game : Keys[g] \in Seq(KeyNames) /\ Elements(Keys[g]) \subseteq DOMAIN Fresh[g]
  /\ \A g \in SavedAlways : Elements(Keys[g]) = DOMAIN Fresh[g] /\ Loads(g) = Keys[g]
  /\ \A g \in Game : Loads(g) \in {Keys[g], <<>>}
  <1>1. /\ Keys["blackjack"] = <<"credits">> /\ DOMAIN Fresh["blackjack"] = {"credits"}
        /\ Keys["hangman"] = <<"wins">> /\ DOMAIN Fresh["hangman"] = {"wins"}
        /\ Keys["space"] = <<"credits", "cargo", "port">>
        /\ DOMAIN Fresh["space"] = {"credits", "cargo", "port"}
        /\ Keys["dungeon"] = <<"level", "xp", "hp", "gold">>
        /\ DOMAIN Fresh["dungeon"] = {"level", "xp", "hp", "gold"}
        /\ Keys["speed"] = <<>>
    BY DEF Keys, Fresh
  <1>2. /\ Elements(<<"credits">>) = {"credits"} /\ Elements(<<"wins">>) = {"wins"}
        /\ Elements(<<"credits", "cargo", "port">>) = {"credits", "cargo", "port"}
        /\ Elements(<<"level", "xp", "hp", "gold">>) = {"level", "xp", "hp", "gold"}
        /\ Elements(<<>>) = {}
    BY DEF Elements
  <1>3. /\ <<"credits">> \in Seq(KeyNames) /\ <<"wins">> \in Seq(KeyNames) /\ <<>> \in Seq(KeyNames)
        /\ <<"credits", "cargo", "port">> \in Seq(KeyNames)
        /\ <<"level", "xp", "hp", "gold">> \in Seq(KeyNames)
    <2>1. /\ \A S : \A a \in S : <<a>> \in Seq(S)
          /\ \A S : \A a, b, c \in S : <<a, b, c>> \in Seq(S)
          /\ \A S : \A a, b, c, d \in S : <<a, b, c, d>> \in Seq(S)
          /\ \A S : <<>> \in Seq(S)
      OBVIOUS
    <2>2. \A k \in {"credits", "cargo", "port", "wins", "level", "xp", "hp", "gold"} : k \in KeyNames
      BY DEF KeyNames
    <2> QED BY <2>1, <2>2
  <1>4. \A g \in Game : Keys[g] \in Seq(KeyNames) /\ Elements(Keys[g]) \subseteq DOMAIN Fresh[g]
    BY <1>1, <1>2, <1>3, GamesAre
  <1>5. \A g \in SavedAlways : Elements(Keys[g]) = DOMAIN Fresh[g] /\ Loads(g) = Keys[g]
    BY <1>1, <1>2 DEF SavedAlways, Loads
  <1>6. \A g \in Game : Loads(g) \in {Keys[g], <<>>}
    BY DEF Loads
  <1> QED BY <1>4, <1>5, <1>6

\* A key is done, and the others are left.
LEMMA HeadTail ==
  ASSUME NEW q \in Seq(KeyNames), q # <<>>
  PROVE  /\ Tail(q) \in Seq(KeyNames) /\ Head(q) \in Elements(q)
         /\ Elements(q) = {Head(q)} \cup Elements(Tail(q))
  <1>1. /\ Len(q) \in Nat /\ Len(q) >= 1 /\ Head(q) = q[1] /\ Tail(q) \in Seq(KeyNames)
        /\ Len(Tail(q)) = Len(q) - 1 /\ \A i \in 1..(Len(q) - 1) : Tail(q)[i] = q[i + 1]
    OBVIOUS
  <1>2. ASSUME NEW k \in Elements(q) PROVE k = Head(q) \/ k \in Elements(Tail(q))
    <2>1. PICK i \in 1..Len(q) : k = q[i]
      BY <1>2 DEF Elements
    <2>2. CASE i = 1
      BY <1>1, <2>1, <2>2
    <2>3. CASE i # 1
      <3>1. i - 1 \in 1..Len(Tail(q)) /\ Tail(q)[i - 1] = q[i]
        BY <1>1, <2>1, <2>3
      <3> QED BY <2>1, <3>1 DEF Elements
    <2> QED BY <2>2, <2>3
  <1>3. ASSUME NEW k \in Elements(Tail(q)) PROVE k \in Elements(q)
    <2>1. PICK i \in 1..Len(Tail(q)) : k = Tail(q)[i]
      BY <1>3 DEF Elements
    <2>2. i + 1 \in 1..Len(q) /\ q[i + 1] = k
      BY <1>1, <2>1
    <2> QED BY <2>2 DEF Elements
  <1>4. Head(q) \in Elements(q)
    BY <1>1 DEF Elements
  <1> QED BY <1>1, <1>2, <1>3, <1>4

\* Nothing left.
LEMMA NoneLeft ==
  ASSUME NEW q \in Seq(KeyNames), q = <<>>
  PROVE  Elements(q) = {}
  BY DEF Elements

\* The session of a user takes a step of its game.
LEMMA DoorStep ==
  ASSUME GInv, NEW s \in Sessions, Moved(s), SameUser(s), UNCHANGED users,
         session[s].user_id # 0, session[s].at # "gone",
         session[s].broken => session'[s].broken,
         TableShape', \A n \in Names : games'[n] = games[n] \/ n = Handle(s), Holding(s)',
         \A g \in SavedAlways : Right(s, g) /\ Counted(s)' => Right(s, g)'
  PROVE  Playing'
  <1>1. IInv /\ users \in Seq(User) /\ OneHandle
    BY DEF GInv, Playing, IInv, Tables
  <1>2. Grown /\ OneHandle'
    BY <1>1, SameUsers DEF OneHandle
  <1>3. Unplayed'
    BY <1>2, UnplayedStays
  <1>4. \A t \in Sessions : t # s => Holding(t)' /\ \A g \in SavedAlways : Counted(t)' => Right(t, g)'
    BY <1>2, OtherGames
  <1>5. ASSUME Counted(s)' PROVE Counted(s)
    <2>1. \A u \in Sessions \ {s} : session[u].user_id = 0 \/ session[u].user_id # session[s].user_id
      BY <1>5 DEF Counted, Alone, Moved, SameUser
    <2> QED BY <1>5, <2>1 DEF Counted, Alone
  <1>6. \A g \in SavedAlways : Counted(s)' => Right(s, g)'
    BY <1>5 DEF GInv, Playing
  <1> QED BY <1>2, <1>3, <1>4, <1>6 DEF Playing

\* A game that is not played is saved as it was.
LEMMA NotPlayed ==
  ASSUME NEW s \in Sessions, NEW g \in SavedAlways, Right(s, g),
         ~(session[s].door = g /\ session[s].at = "save"), session'[s].door # g,
         Handle(s)' = Handle(s), games'[Handle(s)][g] = games[Handle(s)][g]
  PROVE  Right(s, g)'
  <1>1. Stored(Handle(s), g)' = Stored(Handle(s), g)
    BY DEF Stored
  <1>2. Good(g, Stored(Handle(s), g))
    BY DEF Right
  <1> QED BY <1>1, <1>2 DEF Right

\* What a game holds is what it starts with by its keys.
LEMMA GoodKeys ==
  ASSUME NEW g \in SavedAlways, NEW v, Good(g, v)
  PROVE  v = [k \in DOMAIN Fresh[g] |-> v[k]]
  <1>1. CASE g = "space"
    <2>1. v \in [credits : Nat, cargo : 0..MaxCargo, port : Ports]
      BY <1>1 DEF Good, GoodShip
    <2>2. DOMAIN Fresh["space"] = {"credits", "cargo", "port"}
      BY DEF Fresh
    <2> QED BY <1>1, <2>1, <2>2
  <1>2. CASE g = "dungeon"
    <2>1. v \in [level : Nat, xp : Nat, hp : Nat, gold : Nat]
      BY <1>2 DEF Good, GoodHero
    <2>2. DOMAIN Fresh["dungeon"] = {"level", "xp", "hp", "gold"}
      BY DEF Fresh
    <2> QED BY <1>2, <2>1, <2>2
  <1> QED BY <1>1, <1>2 DEF SavedAlways

\* What is saved, by keys.
LEMMA StoredIs ==
  ASSUME TableShape, NEW n \in Names, NEW g \in SavedAlways
  PROVE  /\ Stored(n, g) = [k \in DOMAIN Fresh[g] |-> Stored(n, g)[k]]
         /\ \A k \in DOMAIN Fresh[g] :
               Stored(n, g)[k] = IF k \in DOMAIN games[n][g] THEN games[n][g][k] ELSE Fresh[g][k]
  <1>1. DOMAIN games[n][g] \cup DOMAIN Fresh[g] = DOMAIN Fresh[g]
    BY DEF TableShape
  <1> QED BY <1>1 DEF Stored, @@

\* The last key is saved: what is saved is what the game holds.
LEMMA AllSaved ==
  ASSUME TableShape, NEW s \in Sessions, NEW g \in SavedAlways, Right(s, g), Handle(s) \in Names,
         session[s].door = g, session[s].at = "save", session[s].keys = <<>>
  PROVE  session[s].values = Stored(Handle(s), g) /\ Good(g, Stored(Handle(s), g))
  <1> DEFINE v == session[s].values
             w == Stored(Handle(s), g)
  <1>1. Left(s) = {}
    BY DEF Left, Elements
  <1>2. Good(g, v) /\ \A k \in DOMAIN Fresh[g] : w[k] = v[k]
    BY <1>1 DEF Right
  <1>3. v = [k \in DOMAIN Fresh[g] |-> v[k]]
    BY <1>2, GoodKeys
  <1>4. w = [k \in DOMAIN Fresh[g] |-> w[k]]
    BY StoredIs
  <1>5. v = w
    BY <1>2, <1>3, <1>4
  <1> QED BY <1>2, <1>5

\* What a session is after a line or a save of its game: v is what the game holds.
Followed(x, y, then, v) ==
    \/ /\ then = "stay" /\ y.at = "feed" /\ y.door = x.door /\ y.values = v
       /\ y.keys = x.keys /\ y.then = x.then
    \/ then = "leave" /\ y.at = "feed" /\ y.door = "none" /\ y.keys = x.keys
    \/ /\ then = "again" /\ y.at = "load" /\ y.door = x.door /\ y.values = Fresh[x.door]
       /\ y.keys = Loads(x.door) /\ y.then = "again"
    \/ /\ then = "won" /\ y.at = "load" /\ y.door = x.door /\ y.values = v
       /\ y.keys = <<"wins">> /\ y.then = "won"

\* What Follow puts, and what is put with it.
LEMMA FollowStep ==
  ASSUME Shape, NEW s \in Sessions, NEW then \in Thens, NEW a, Put(s, a),
         LET c == Follow(session[s].door, then) IN
           /\ DOMAIN c \subseteq DOMAIN a /\ \A f \in DOMAIN c : a[f] = c[f]
           /\ DOMAIN a \subseteq DOMAIN c \cup {"values", "moves", "line", "feed"}
  PROVE  /\ Moved(s) /\ SameUser(s) /\ session'[s].broken = session[s].broken
         /\ Followed(session[s], session'[s], then,
                     IF "values" \in DOMAIN a THEN a["values"] ELSE session[s].values)
  <1> DEFINE x == session[s]
             y == session'[s]
             c == Follow(x.door, then)
             v == IF "values" \in DOMAIN a THEN a["values"] ELSE x.values
  <1>1. DOMAIN c \subseteq {"at", "stage", "door", "values", "then", "keys"}
    BY Follows
  <1>2. \/ then = "stay" /\ DOMAIN c = {"at"} /\ c["at"] = "feed"
        \/ /\ then = "leave" /\ DOMAIN c = {"at", "stage", "door", "values", "then"}
           /\ c["at"] = "feed" /\ c["door"] = "none"
        \/ /\ then = "again" /\ DOMAIN c = {"at", "keys", "then", "values"} /\ c["at"] = "load"
           /\ c["keys"] = Loads(x.door) /\ c["then"] = "again" /\ c["values"] = Fresh[x.door]
        \/ /\ then = "won" /\ DOMAIN c = {"at", "keys", "then"} /\ c["at"] = "load"
           /\ c["keys"] = <<"wins">> /\ c["then"] = "won"
    <2>1. CASE then = "stay"
      BY <2>1 DEF Follow
    <2>2. CASE then = "leave"
      BY <2>2 DEF Follow, DoorReturn
    <2>3. CASE then = "again"
      BY <2>3 DEF Follow, Loading
    <2>4. CASE then = "won"
      BY <2>4 DEF Follow
    <2> QED BY <2>1, <2>2, <2>3, <2>4 DEF Thens
  <1>3. /\ DOMAIN c \subseteq DOMAIN a /\ \A f \in DOMAIN c : a[f] = c[f]
        /\ DOMAIN a \subseteq DOMAIN c \cup {"values", "moves", "line", "feed"}
    OBVIOUS
  <1> HIDE DEF c
  <1>4. Moved(s) /\ \A f \in Fields : y[f] = IF f \in DOMAIN a THEN a[f] ELSE x[f]
    <2>1. DOMAIN a \subseteq Fields
      BY <1>1, <1>3, FieldsAre
    <2> QED BY <2>1, PutStep DEF Moved
  <1>5. y.user_id = x.user_id /\ y.broken = x.broken
    BY <1>1, <1>3, <1>4, FieldsAre
  <1>6. /\ y.at = (IF "at" \in DOMAIN a THEN a["at"] ELSE x.at)
        /\ y.door = (IF "door" \in DOMAIN a THEN a["door"] ELSE x.door)
        /\ y.keys = (IF "keys" \in DOMAIN a THEN a["keys"] ELSE x.keys)
        /\ y.then = (IF "then" \in DOMAIN a THEN a["then"] ELSE x.then)
        /\ y.values = v
    BY <1>4, FieldsAre
  <1>7. Followed(x, y, then, v)
    <2>1. CASE then = "stay"
      BY <1>2, <1>3, <1>6, <2>1 DEF Followed
    <2>2. CASE then = "leave"
      BY <1>2, <1>3, <1>6, <2>2 DEF Followed
    <2>3. CASE then = "again"
      BY <1>2, <1>3, <1>6, <2>3 DEF Followed
    <2>4. CASE then = "won"
      BY <1>2, <1>3, <1>6, <2>4 DEF Followed
    <2> QED BY <2>1, <2>2, <2>3, <2>4 DEF Thens
  <1> QED BY <1>4, <1>5, <1>7 DEF SameUser

\* What follows leaves the games right, if what the game goes on with is good, and
\* of a game that saves after every line, is what is saved.
LEMMA FollowInv ==
  ASSUME GInv, NEW s \in Sessions, session[s].at # "gone", session[s].user_id # 0,
         session[s].door \in Game, UNCHANGED <<users, games>>,
         Moved(s), SameUser(s), session'[s].broken = session[s].broken,
         NEW then, NEW v, Followed(session[s], session'[s], then, v),
         then = "won" => session[s].door = "hangman",
         then = "stay" /\ session[s].door = "blackjack" => GoodHand(v),
         then \in {"stay", "won"} /\ session[s].door = "hangman" => GoodWord(v),
         session[s].door \in SavedAlways => then \in {"stay", "leave"},
         \A g \in SavedAlways :
            session[s].door = g /\ Right(s, g) =>
               Good(g, Stored(Handle(s), g)) /\ v = Stored(Handle(s), g),
         \A g \in SavedAlways :
            session[s].door # g /\ Right(s, g) => Good(g, Stored(Handle(s), g))
  PROVE  Playing'
  <1> DEFINE x == session[s]
             y == session'[s]
  <1>1. IInv /\ TableShape /\ Holding(s) /\ users \in Seq(User)
    BY DEF GInv, Playing, IInv, Tables
  <1>2. Grown /\ Handle(s)' = Handle(s)
    <2>1. Grown
      BY <1>1, SameUsers
    <2> QED BY <1>1, <2>1, HandleStays DEF SameUser
  <1>3. Holding(s)'
    <2>1. y.keys \in Seq(KeyNames)
      <3>1. x.keys \in Seq(KeyNames) /\ <<"wins">> \in Seq(KeyNames) /\ <<>> \in Seq(KeyNames)
        BY <1>1 DEF Holding, KeyNames
      <3>2. Loads(x.door) \in Seq(KeyNames)
        BY <3>1, KeysAre
      <3> QED BY <3>1, <3>2 DEF Followed
    <2>2. y.at \in {"load", "save"} => Left(s)' \subseteq DOMAIN Fresh[y.door]
      <3>1. Elements(<<>>) = {} /\ Elements(<<"wins">>) = {"wins"}
        BY DEF Elements
      <3>2. Elements(Loads(x.door)) \subseteq DOMAIN Fresh[x.door]
        BY <3>1, KeysAre
      <3>3. DOMAIN Fresh["hangman"] = {"wins"}
        BY DEF Fresh
      <3>4. CASE then = "again"
        BY <3>2, <3>4 DEF Followed, Left
      <3>5. CASE then = "won"
        BY <3>1, <3>3, <3>5 DEF Followed, Left
      <3> QED BY <3>4, <3>5 DEF Followed
    <2>3. /\ y.at \in {"feed", "load"}
          /\ y.at = "load" => y.then = "again" \/ (y.then = "won" /\ y.door = "hangman")
          /\ y.door = "blackjack" /\ y.at \notin {"load", "save"} => GoodHand(y.values)
      BY DEF Followed
    <2>4. y.door = "hangman" /\ ~(y.at = "load" /\ y.then = "again") => GoodWord(y.values)
      BY DEF Followed
    <2> QED BY <2>1, <2>2, <2>3, <2>4 DEF Holding
  <1>4. ASSUME NEW g \in SavedAlways, Right(s, g) PROVE Right(s, g)'
    <2>1. Good(g, Stored(Handle(s), g)) /\ Stored(Handle(s), g)' = Stored(Handle(s), g)
      BY <1>2, <1>4 DEF Stored
    <2>2. CASE y.door # g
      BY <2>1, <2>2 DEF Right
    <2>3. CASE y.door = g
      <3>1. x.door = g /\ then = "stay" /\ g # "none"
        BY <2>3 DEF Followed, SavedAlways
      <3>2. y.at = "feed" /\ y.values = Stored(Handle(s), g)
        BY <1>4, <3>1 DEF Followed
      <3> QED BY <2>1, <3>2 DEF Right
    <2> QED BY <2>2, <2>3
  <1>5. TableShape'
    BY <1>1 DEF TableShape
  <1> QED BY <1>1, <1>3, <1>4, <1>5, DoorStep

\* Whoever plays is somebody.
LEMMA Player ==
  ASSUME GInv, NEW s \in Sessions,
         session[s].stage \in {"DOORS", "DOOR"} \/ session[s].at \in {"load", "save"}
  PROVE  /\ session[s].user_id # 0 /\ Handle(s) \in Names /\ Holding(s) /\ TableShape /\ IInv
         /\ session[s].stage = "DOORS" => session[s].door = "none"
         /\ session[s].stage # "DOORS" => session[s].door \in Game
  <1>1. IInv /\ TableShape /\ Holding(s) /\ Tagged(s) /\ Somebody(s)
    BY DEF GInv, Playing, IInv, Types
  <1>2. session[s].stage \in {"DOORS", "DOOR"}
    BY <1>1 DEF Tagged
  <1>3. session[s].user_id # 0
    BY <1>1, <1>2, StagesAre DEF Somebody
  <1> QED BY <1>1, <1>2, <1>3, HandleIs DEF Tagged

\* A door is opened: what is saved is to be loaded.
LEMMA DoorsMenuGames ==
  ASSUME GInv, NEW s \in Sessions, DoorsMenu(s)
  PROVE  Playing'
  <1> DEFINE x == session[s]
             y == session'[s]
  <1>1. /\ x.at = "feed" /\ x.stage = "DOORS" /\ UNCHANGED <<users, games>>
        /\ IInv /\ Shape /\ OneHandle /\ users \in Seq(User)
    BY DEF DoorsMenu, Line, GInv, Playing, IInv, Tables
  <1>2. /\ x.user_id # 0 /\ Handle(s) \in Names /\ Holding(s) /\ TableShape /\ x.door = "none"
    BY <1>1, Player
  <1>3. Grown /\ OneHandle'
    BY <1>1, SameUsers DEF OneHandle
  <1>4. CASE \E stage : Goto(s, stage)
    BY <1>1, <1>3, <1>4, GotoAside, AsideInv
  <1>5. ASSUME NEW d \in Game,
               Put(s, [stage |-> "DOOR", door |-> d] @@ Loading(d, "again") @@ Done(s))
        PROVE  Playing'
    <2> DEFINE c == [stage |-> "DOOR", door |-> d] @@ Loading(d, "again")
    <2>1. /\ DOMAIN c = {"stage", "door", "at", "keys", "then", "values"} /\ c["door"] = d
          /\ c["at"] = "load" /\ c["then"] = "again" /\ c["keys"] = Loads(d)
          /\ c["values"] = Fresh[d]
      BY DEF @@, Loading
    <2>2. DOMAIN c \subseteq Fields \ {"line", "feed"} /\ Put(s, c @@ Done(s))
      BY <1>5, <2>1, FieldsAre
    <2> HIDE DEF c
    <2>3. /\ Moved(s)
          /\ \A f \in Fields \ {"line", "feed"} : y[f] = IF f \in DOMAIN c THEN c[f] ELSE x[f]
      BY <1>1, <2>2, DoneStep
    <2>4. /\ y.door = d /\ y.at = "load" /\ y.then = "again" /\ y.keys = Loads(d)
          /\ y.values = Fresh[d] /\ y.user_id = x.user_id /\ y.broken = x.broken
      BY <2>1, <2>3, FieldsAre
    <2>5. Handle(s)' = Handle(s)
      BY <1>1, <1>2, <1>3, <2>4, HandleStays
    <2>6. Holding(s)'
      <3>1. Elements(<<>>) = {} /\ <<>> \in Seq(KeyNames)
        BY DEF Elements
      <3>2. y.keys \in Seq(KeyNames) /\ Elements(y.keys) \subseteq DOMAIN Fresh[d]
        BY <2>4, <3>1, KeysAre
      <3> QED BY <2>4, <3>2 DEF Holding, Left
    <2>7. ASSUME NEW g \in SavedAlways, Right(s, g) PROVE Right(s, g)'
      <3>1. CASE d # g
        BY <1>1, <1>2, <2>4, <2>5, <2>7, <3>1, NotPlayed
      <3>2. CASE d = g
        <4>1. Good(g, Stored(Handle(s), g)) /\ Stored(Handle(s), g)' = Stored(Handle(s), g)
          BY <1>1, <2>5, <2>7 DEF Right, Stored
        <4>2. Left(s)' = DOMAIN Fresh[g]
          BY <2>4, <3>2, KeysAre DEF Left
        <4>3. y.values = [k \in DOMAIN Fresh[g] |-> y.values[k]]
          BY <2>4, <3>2, FreshGood, GoodKeys
        <4> QED BY <2>4, <3>2, <4>1, <4>2, <4>3 DEF Right
      <3> QED BY <3>1, <3>2
    <2>8. TableShape'
      BY <1>1, <1>2 DEF TableShape
    <2> QED BY <1>1, <1>2, <2>3, <2>4, <2>6, <2>7, <2>8, DoorStep DEF SameUser
  <1> QED BY <1>4, <1>5 DEF DoorsMenu

\* A game that saves after every line does so, and stays or leaves.
LEMMA SavesAlways ==
  ASSUME NEW g \in SavedAlways, NEW v, NEW key, NEW o \in Input(g, v, key)
  PROVE  o.save /\ o.then \in {"stay", "leave"} /\ (Good(g, v) => Good(g, o.values))
  <1>1. \E w : o = Outcome(w, TRUE, "leave") \/ o = Outcome(w, TRUE, "stay")
    <2>1. CASE g = "space"
      <3>1. o \in Space(v, key)
        BY <2>1, InputIs
      <3> QED BY <3>1, SpaceIs
    <2>2. CASE g = "dungeon"
      <3>1. o \in Explores(v) => \E w : o = Outcome(w, TRUE, "stay")
        BY DEF Explores
      <3>2. o \in Dungeon(v, key)
        BY <2>2, InputIs
      <3> QED BY <3>1, <3>2, DungeonIs
    <2> QED BY <2>1, <2>2 DEF SavedAlways
  <1>2. o.save /\ o.then \in {"stay", "leave"}
    BY <1>1 DEF Outcome
  <1>3. ASSUME Good(g, v) PROVE Good(g, o.values)
    <2>1. CASE g = "space"
      BY <1>3, <2>1, InputIs, ShipStep DEF Good
    <2>2. CASE g = "dungeon"
      BY <1>3, <2>2, InputIs, HeroStep DEF Good
    <2> QED BY <2>1, <2>2 DEF SavedAlways
  <1> QED BY <1>2, <1>3

\* A line for a game, which saves, or goes on without.
LEMMA DoorInputGames ==
  ASSUME GInv, NEW s \in Sessions, DoorInput(s)
  PROVE  Playing'
  <1> DEFINE x == session[s]
             y == session'[s]
             d == x.door
  <1>1. /\ x.at = "feed" /\ x.stage = "DOOR" /\ UNCHANGED <<users, games>> /\ Shape
        /\ users \in Seq(User)
    BY DEF DoorInput, Line, GInv, Playing, IInv, Tables
  <1>2. /\ x.user_id # 0 /\ Handle(s) \in Names /\ Holding(s) /\ TableShape /\ IInv /\ d \in Game
    BY <1>1, Player
  <1>3. PICK o \in Input(d, x.values, First(s)) :
          Put(s, (IF o.save THEN [at |-> "save", keys |-> Keys[d], then |-> o.then]
                            ELSE Follow(d, o.then))
                 @@ [values |-> o.values, moves |-> IF First(s) = "Q" THEN x.moves ELSE x.moves + 1]
                 @@ Done(s))
    BY DEF DoorInput
  <1> DEFINE m == IF First(s) = "Q" THEN x.moves ELSE x.moves + 1
             rest == [values |-> o.values, moves |-> m]
  <1>4. o.then \in Thens
    BY <1>2, Outcomes
  <1>5. /\ d = "blackjack" => GoodHand(x.values)
        /\ d = "hangman" => GoodWord(x.values)
    BY <1>1, <1>2 DEF Holding
  <1>6. d = "blackjack" => /\ o.save => o.then = "again"
                           /\ ~o.save => o.then \in {"stay", "leave"} /\ GoodHand(o.values)
    BY <1>5, InputIs, HandStep
  <1>7. d = "hangman" => ~o.save /\ (o.then \in {"stay", "won"} => GoodWord(o.values))
    BY <1>5, InputIs, WordStep
  <1>8. d \in SavedAlways => /\ o.save /\ o.then \in {"stay", "leave"}
                             /\ Good(d, x.values) => Good(d, o.values)
    BY SavesAlways
  <1>9. d = "speed" => ~o.save /\ o.then = "leave"
    <2>1. d = "speed" => o = Leave(x.values)
      BY InputIs
    <2> QED BY <2>1 DEF Leave, Outcome
  <1>10. CASE o.save
    <2> DEFINE c == [at |-> "save", keys |-> Keys[d], then |-> o.then] @@ rest
    <2>1. /\ DOMAIN c = {"at", "keys", "then", "values", "moves"} /\ c["at"] = "save"
          /\ c["keys"] = Keys[d] /\ c["then"] = o.then /\ c["values"] = o.values
      BY DEF @@
    <2>2. DOMAIN c \subseteq Fields \ {"line", "feed"} /\ Put(s, c @@ Done(s))
      BY <1>3, <1>10, <2>1, FieldsAre
    <2> HIDE DEF c
    <2>3. /\ Moved(s)
          /\ \A f \in Fields \ {"line", "feed"} : y[f] = IF f \in DOMAIN c THEN c[f] ELSE x[f]
      BY <1>1, <2>2, DoneStep
    <2>4. /\ y.at = "save" /\ y.keys = Keys[d] /\ y.then = o.then /\ y.values = o.values
          /\ y.door = d /\ y.user_id = x.user_id /\ y.broken = x.broken
      BY <2>1, <2>3, FieldsAre
    <2>5. d \in SavedAlways \cup {"blackjack"}
      BY <1>2, <1>7, <1>9, <1>10, GamesAre DEF SavedAlways
    <2>6. Handle(s)' = Handle(s)
      BY <1>1, <1>2, <2>4, SameUsers, HandleStays
    <2>7. Holding(s)'
      <3>1. y.keys \in Seq(KeyNames) /\ Elements(y.keys) \subseteq DOMAIN Fresh[d]
        BY <1>2, <2>4, KeysAre
      <3>2. o.then \in Ends(d)
        <4>1. CASE d = "blackjack"
          <5>1. Ends("blackjack") = {"again"}
            BY DEF Ends, SavedAlways
          <5> QED BY <1>6, <1>10, <4>1, <5>1
        <4>2. CASE d \in SavedAlways
          BY <1>8, <4>2 DEF Ends, SavedAlways
        <4> QED BY <2>5, <4>1, <4>2
      <3>3. d # "hangman"
        BY <2>5 DEF SavedAlways
      <3> QED BY <2>4, <3>1, <3>2, <3>3 DEF Holding, Left
    <2>8. ASSUME NEW g \in SavedAlways, Right(s, g) PROVE Right(s, g)'
      <3>1. CASE d # g
        BY <1>1, <2>4, <2>6, <2>8, <3>1, NotPlayed
      <3>2. CASE d = g
        <4>1. Good(g, x.values)
          BY <1>1, <2>8, <3>2 DEF Right
        <4>2. Left(s)' = DOMAIN Fresh[g]
          BY <2>4, <3>2, KeysAre DEF Left
        <4>3. Good(g, y.values)
          BY <1>8, <2>4, <3>2, <4>1
        <4> QED BY <2>4, <3>2, <4>2, <4>3 DEF Right
      <3> QED BY <3>1, <3>2
    <2>9. TableShape'
      BY <1>1, <1>2 DEF TableShape
    <2> QED BY <1>1, <1>2, <2>3, <2>4, <2>7, <2>8, <2>9, DoorStep DEF SameUser
  <1>11. CASE ~o.save
    <2> DEFINE c == Follow(d, o.then)
               a == c @@ rest @@ Done(s)
    <2>1. Put(s, a)
      BY <1>3, <1>11
    <2>2. /\ DOMAIN a = DOMAIN c \cup {"values", "moves", "line", "feed"}
          /\ \A f \in DOMAIN c : a[f] = c[f]
          /\ "values" \notin DOMAIN c => a["values"] = o.values
      BY DEF @@, Done
    <2> HIDE DEF a
    <2> DEFINE v == IF "values" \in DOMAIN a THEN a["values"] ELSE x.values
    <2>3. /\ Moved(s) /\ SameUser(s) /\ y.broken = x.broken /\ Followed(x, y, o.then, v)
      BY <1>1, <1>4, <2>1, <2>2, FollowStep
    <2>4. o.then \in {"stay", "won"} => v = o.values
      <3>1. o.then \in {"stay", "won"} => "values" \notin DOMAIN c
        <4>1. CASE o.then = "stay"
          BY <4>1 DEF Follow
        <4>2. CASE o.then = "won"
          BY <4>2 DEF Follow
        <4> QED BY <4>1, <4>2
      <3> QED BY <2>2, <3>1
    <2> HIDE DEF v, c
    <2>5. d \notin SavedAlways
      BY <1>8, <1>11
    <2>6. ASSUME NEW g \in SavedAlways, Right(s, g) PROVE Good(g, Stored(Handle(s), g))
      BY <1>1, <2>6 DEF Right
    <2>7. o.then = "won" => d = "hangman"
      <3>1. d = "blackjack" \/ d = "speed" => o.then # "won"
        BY <1>6, <1>9, <1>11
      <3> QED BY <1>2, <2>5, <3>1, GamesAre DEF SavedAlways
    <2>8. o.then = "stay" /\ d = "blackjack" => GoodHand(v)
      BY <1>6, <1>11, <2>4
    <2>9. o.then \in {"stay", "won"} /\ d = "hangman" => GoodWord(v)
      BY <1>7, <2>4
    <2> QED BY <1>1, <1>2, <2>3, <2>5, <2>6, <2>7, <2>8, <2>9, FollowInv
  <1> QED BY <1>10, <1>11

\* A key is loaded.
LEMMA LoadKeyGames ==
  ASSUME GInv, NEW s \in Sessions, LoadKey(s)
  PROVE  Playing'
  <1> DEFINE x == session[s]
             y == session'[s]
             d == x.door
             key == Head(x.keys)
             saved == games[Handle(s)][d]
             value == IF key \in DOMAIN saved THEN saved[key] ELSE Fresh[d][key]
  <1>1. /\ x.at = "load" /\ x.keys # <<>> /\ UNCHANGED <<users, games>> /\ users \in Seq(User)
        /\ Put(s, [keys |-> Tail(x.keys), values |-> [x.values EXCEPT ![key] = value]])
    BY DEF LoadKey, GInv, IInv, Tables
  <1>2. /\ x.user_id # 0 /\ Handle(s) \in Names /\ Holding(s) /\ TableShape /\ IInv /\ Shape
        /\ d \in Game /\ x.stage = "DOOR"
    <2>1. x.stage = "DOOR"
      BY <1>1 DEF GInv, IInv, Types, Tagged
    <2> QED BY <1>1, <2>1, Player DEF IInv
  <1> HIDE DEF value
  <1>3. /\ Moved(s) /\ y.keys = Tail(x.keys) /\ y.values = [x.values EXCEPT ![key] = value]
        /\ y.at = "load" /\ y.door = d /\ y.then = x.then /\ y.user_id = x.user_id
        /\ y.broken = x.broken
    <2> DEFINE c == [keys |-> Tail(x.keys), values |-> [x.values EXCEPT ![key] = value]]
    <2>1. /\ DOMAIN c = {"keys", "values"} /\ Put(s, c) /\ c["keys"] = Tail(x.keys)
          /\ c["values"] = [x.values EXCEPT ![key] = value]
      BY <1>1
    <2> HIDE DEF c
    <2>2. Moved(s) /\ \A f \in Fields : y[f] = IF f \in DOMAIN c THEN c[f] ELSE x[f]
      BY <1>2, <2>1, PutStep, FieldsAre DEF Moved
    <2> QED BY <1>1, <2>1, <2>2, FieldsAre
  <1>4. /\ y.keys \in Seq(KeyNames) /\ key \in Left(s) /\ Left(s) = {key} \cup Left(s)'
        /\ Left(s) \subseteq DOMAIN Fresh[d]
    BY <1>1, <1>2, <1>3, HeadTail DEF Holding, Left
  <1>5. Handle(s)' = Handle(s)
    BY <1>1, <1>2, <1>3, SameUsers, HandleStays
  <1>6. Holding(s)'
    <2>1. /\ y.at \in {"load", "save"} => Left(s)' \subseteq DOMAIN Fresh[y.door]
          /\ y.then = "again" \/ (y.then = "won" /\ y.door = "hangman")
      BY <1>1, <1>2, <1>3, <1>4 DEF Holding
    <2>2. ASSUME y.door = "hangman", y.then # "again" PROVE GoodWord(y.values)
      <3>1. GoodWord(x.values)
        BY <1>1, <1>2, <1>3, <2>2 DEF Holding
      <3>2. key = "wins"
        <4>1. DOMAIN Fresh["hangman"] = {"wins"}
          BY DEF Fresh
        <4> QED BY <1>3, <1>4, <2>2, <4>1
      <3> QED BY <1>3, <3>1, <3>2, WordGood
    <2> QED BY <1>3, <1>4, <2>1, <2>2 DEF Holding
  <1>7. ASSUME NEW g \in SavedAlways, Right(s, g) PROVE Right(s, g)'
    <2>1. CASE d # g
      BY <1>1, <1>3, <1>5, <1>7, <2>1, NotPlayed
    <2>2. CASE d = g
      <3> DEFINE stored == Stored(Handle(s), g)
      <3>1. /\ Good(g, stored) /\ x.values = [k \in DOMAIN Fresh[g] |-> x.values[k]]
            /\ \A k \in DOMAIN Fresh[g] \ Left(s) : x.values[k] = stored[k]
        BY <1>1, <1>7, <2>2 DEF Right
      <3>2. stored' = stored
        BY <1>1, <1>5 DEF Stored
      <3>3. key \in DOMAIN Fresh[g] /\ value = stored[key]
        <4>1. key \in DOMAIN Fresh[g]
          BY <1>4, <2>2
        <4> QED BY <1>2, <2>2, <4>1, StoredIs DEF value
      <3> HIDE DEF stored
      <3>4. DOMAIN x.values = DOMAIN Fresh[g]
        BY <3>1
      <3>5. /\ DOMAIN y.values = DOMAIN Fresh[g]
            /\ \A k \in DOMAIN Fresh[g] : y.values[k] = IF k = key THEN value ELSE x.values[k]
        BY <1>3, <3>4
      <3>6. y.values = [k \in DOMAIN Fresh[g] |-> y.values[k]]
        BY <1>3, <3>4
      <3>7. \A k \in DOMAIN Fresh[g] \ Left(s)' : y.values[k] = stored[k]
        BY <1>4, <3>1, <3>3, <3>5
      <3> QED BY <1>3, <2>2, <3>1, <3>2, <3>6, <3>7 DEF Right, stored
    <2> QED BY <2>1, <2>2
  <1>8. TableShape'
    BY <1>1, <1>2 DEF TableShape
  <1> QED BY <1>1, <1>2, <1>3, <1>6, <1>7, <1>8, DoorStep DEF SameUser

\* All the keys are loaded.
LEMMA LoadedGames ==
  ASSUME GInv, NEW s \in Sessions, Loaded(s)
  PROVE  Playing'
  <1> DEFINE x == session[s]
             y == session'[s]
             d == x.door
  <1>1. /\ x.at = "load" /\ x.keys = <<>> /\ UNCHANGED <<users, games>> /\ users \in Seq(User)
    BY DEF Loaded, GInv, IInv, Tables
  <1>2. /\ x.user_id # 0 /\ Handle(s) \in Names /\ Holding(s) /\ TableShape /\ IInv /\ Shape
        /\ d \in Game
    <2>1. x.stage = "DOOR"
      BY <1>1 DEF GInv, IInv, Types, Tagged
    <2> QED BY <1>1, <2>1, Player DEF IInv
  <1>3. Left(s) = {}
    BY <1>1 DEF Left, Elements
  <1>4. TableShape'
    BY <1>1, <1>2 DEF TableShape
  <1>5. ASSUME x.then = "again", NEW v \in Opened(d, x.values), Put(s, [at |-> "feed", values |-> v])
        PROVE  Playing'
    <2> DEFINE c == [at |-> "feed", values |-> v]
    <2>1. DOMAIN c = {"at", "values"} /\ Put(s, c) /\ c["at"] = "feed" /\ c["values"] = v
      BY <1>5
    <2> HIDE DEF c
    <2>2. Moved(s) /\ \A f \in Fields : y[f] = IF f \in DOMAIN c THEN c[f] ELSE x[f]
      BY <1>2, <2>1, PutStep, FieldsAre DEF Moved
    <2>3. /\ y.at = "feed" /\ y.values = v /\ y.keys = x.keys /\ y.door = d
          /\ y.then = x.then /\ y.user_id = x.user_id /\ y.broken = x.broken
      BY <2>1, <2>2, FieldsAre
    <2>4. /\ d = "blackjack" => GoodHand(v)
          /\ d = "hangman" => GoodWord(v)
          /\ d \in SavedAlways => v = x.values
      <3>1. CASE d = "blackjack"
        <4>1. v \in Deal(x.values.credits)
          BY <1>5, <3>1 DEF Opened
        <4> QED BY <3>1, <4>1, DealGood DEF SavedAlways
      <3>2. CASE d = "hangman"
        <4>1. v = Word
          BY <1>5, <3>2 DEF Opened
        <4> QED BY <3>2, <4>1, WordGood DEF SavedAlways
      <3>3. CASE d \notin {"blackjack", "hangman"}
        BY <1>5, <3>3 DEF Opened
      <3> QED BY <3>1, <3>2, <3>3
    <2>5. Holding(s)'
      BY <1>2, <2>3, <2>4 DEF Holding
    <2>6. Handle(s)' = Handle(s)
      BY <1>1, <1>2, <2>3, SameUsers, HandleStays
    <2>7. ASSUME NEW g \in SavedAlways, Right(s, g) PROVE Right(s, g)'
      <3>1. CASE d # g
        BY <1>1, <2>3, <2>6, <2>7, <3>1, NotPlayed
      <3>2. CASE d = g
        <4> DEFINE stored == Stored(Handle(s), g)
        <4>1. /\ Good(g, stored) /\ x.values = [k \in DOMAIN Fresh[g] |-> x.values[k]]
              /\ \A k \in DOMAIN Fresh[g] : x.values[k] = stored[k]
          BY <1>1, <1>3, <2>7, <3>2 DEF Right
        <4>2. stored' = stored
          BY <1>1, <2>6 DEF Stored
        <4>3. stored = [k \in DOMAIN Fresh[g] |-> stored[k]]
          BY <1>2, StoredIs
        <4> HIDE DEF stored
        <4>4. v = stored
          <5>1. x.values = stored
            BY <4>1, <4>3
          <5> QED BY <2>4, <3>2, <5>1
        <4> QED BY <2>3, <3>2, <4>1, <4>2, <4>4 DEF Right, stored
      <3> QED BY <3>1, <3>2
    <2> QED BY <1>1, <1>2, <1>4, <2>2, <2>3, <2>5, <2>7, DoorStep DEF SameUser
  <1>6. ASSUME x.then = "won", NEW v, v = [x.values EXCEPT !.wins = @ + 1],
               Put(s, [at |-> "save", keys |-> <<"wins">>, then |-> "stay", values |-> v])
        PROVE  Playing'
    <2> DEFINE c == [at |-> "save", keys |-> <<"wins">>, then |-> "stay", values |-> v]
    <2>1. /\ DOMAIN c = {"at", "keys", "then", "values"} /\ Put(s, c) /\ c["at"] = "save"
          /\ c["keys"] = <<"wins">> /\ c["then"] = "stay" /\ c["values"] = v
      BY <1>6
    <2> HIDE DEF c
    <2>2. Moved(s) /\ \A f \in Fields : y[f] = IF f \in DOMAIN c THEN c[f] ELSE x[f]
      BY <1>2, <2>1, PutStep, FieldsAre DEF Moved
    <2>3. /\ y.at = "save" /\ y.values = v /\ y.keys = <<"wins">> /\ y.door = d
          /\ y.then = "stay" /\ y.user_id = x.user_id /\ y.broken = x.broken
      BY <2>1, <2>2, FieldsAre
    <2>4. d = "hangman" /\ GoodWord(x.values)
      BY <1>1, <1>2, <1>6 DEF Holding
    <2>5. GoodWord(v)
      <3>1. v = [x.values EXCEPT !["wins"] = x.values["wins"] + 1]
        BY <1>6
      <3> QED BY <2>4, <3>1, WordGood
    <2>6. Holding(s)'
      <3>1. Elements(<<"wins">>) = {"wins"} /\ <<"wins">> \in Seq(KeyNames)
        BY DEF Elements, KeyNames
      <3>2. DOMAIN Fresh["hangman"] = {"wins"}
        BY DEF Fresh
      <3>3. "stay" \in Ends("hangman")
        BY DEF Ends, SavedAlways
      <3> QED BY <2>3, <2>4, <2>5, <3>1, <3>2, <3>3 DEF Holding, Left
    <2>7. Handle(s)' = Handle(s)
      BY <1>1, <1>2, <2>3, SameUsers, HandleStays
    <2>8. ASSUME NEW g \in SavedAlways, Right(s, g) PROVE Right(s, g)'
      <3>1. d # g
        BY <2>4 DEF SavedAlways
      <3> QED BY <1>1, <2>3, <2>7, <2>8, <3>1, NotPlayed
    <2> QED BY <1>1, <1>2, <1>4, <2>2, <2>3, <2>6, <2>8, DoorStep DEF SameUser
  <1> QED BY <1>5, <1>6 DEF Loaded

\* A key is saved, or not, which is not noticed.
LEMMA SaveKeyGames ==
  ASSUME GInv, NEW s \in Sessions, SaveKey(s)
  PROVE  Playing'
  <1> DEFINE x == session[s]
             y == session'[s]
             d == x.door
             key == Head(x.keys)
             n == Handle(s)
  <1>1. /\ x.at = "save" /\ x.keys # <<>> /\ UNCHANGED users /\ users \in Seq(User)
        /\ \/ /\ games' = [games EXCEPT ![n][d] = (key :> x.values[key]) @@ @]
              /\ Put(s, [keys |-> Tail(x.keys)])
           \/ /\ UNCHANGED games
              /\ Put(s, [keys |-> Tail(x.keys), broken |-> TRUE])
    BY DEF SaveKey, Unsaved, GInv, IInv, Tables
  <1>2. /\ x.user_id # 0 /\ n \in Names /\ Holding(s) /\ TableShape /\ IInv /\ Shape
        /\ d \in Game
    <2>1. x.stage = "DOOR"
      BY <1>1 DEF GInv, IInv, Types, Tagged
    <2> QED BY <1>1, <2>1, Player DEF IInv
  <1>3. /\ Moved(s) /\ y.keys = Tail(x.keys) /\ y.values = x.values
        /\ y.at = "save" /\ y.door = d /\ y.then = x.then /\ y.user_id = x.user_id
        /\ x.broken => y.broken
        /\ ~y.broken => games' = [games EXCEPT ![n][d] = (key :> x.values[key]) @@ @]
    <2>1. CASE /\ games' = [games EXCEPT ![n][d] = (key :> x.values[key]) @@ @]
               /\ Put(s, [keys |-> Tail(x.keys)])
      <3> DEFINE c == [keys |-> Tail(x.keys)]
      <3>1. DOMAIN c = {"keys"} /\ Put(s, c) /\ c["keys"] = Tail(x.keys)
        BY <2>1
      <3> HIDE DEF c
      <3>2. Moved(s) /\ \A f \in Fields : y[f] = IF f \in DOMAIN c THEN c[f] ELSE x[f]
        BY <1>2, <3>1, PutStep, FieldsAre DEF Moved
      <3>3. /\ Moved(s) /\ y.keys = Tail(x.keys) /\ y.values = x.values
            /\ y.at = "save" /\ y.door = d /\ y.then = x.then /\ y.user_id = x.user_id
            /\ y.broken = x.broken
        BY <1>1, <3>1, <3>2, FieldsAre
      <3> QED BY <2>1, <3>3
    <2>2. CASE Put(s, [keys |-> Tail(x.keys), broken |-> TRUE])
      <3> DEFINE c == [keys |-> Tail(x.keys), broken |-> TRUE]
      <3>1. DOMAIN c = {"keys", "broken"} /\ Put(s, c) /\ c["keys"] = Tail(x.keys) /\ c["broken"] = TRUE
        BY <2>2
      <3> HIDE DEF c
      <3>2. Moved(s) /\ \A f \in Fields : y[f] = IF f \in DOMAIN c THEN c[f] ELSE x[f]
        BY <1>2, <3>1, PutStep, FieldsAre DEF Moved
      <3> QED BY <1>1, <3>1, <3>2, FieldsAre
    <2> QED BY <1>1, <2>1, <2>2
  <1>4. /\ y.keys \in Seq(KeyNames) /\ key \in Left(s) /\ Left(s) = {key} \cup Left(s)'
        /\ Left(s) \subseteq DOMAIN Fresh[d]
    BY <1>1, <1>2, <1>3, HeadTail DEF Holding, Left
  <1>5. Handle(s)' = n
    BY <1>1, <1>2, <1>3, SameUsers, HandleStays
  <1>6. Holding(s)'
    <2>1. Left(s)' \subseteq DOMAIN Fresh[d]
      BY <1>4
    <2> QED BY <1>1, <1>2, <1>3, <1>4, <2>1 DEF Holding
  <1> DEFINE put == (key :> x.values[key]) @@ games[n][d]
  <1>7. /\ DOMAIN put = {key} \cup DOMAIN games[n][d]
        /\ \A k \in DOMAIN put : put[k] = IF k = key THEN x.values[key] ELSE games[n][d][k]
    BY DEF @@, :>
  <1>8. \/ UNCHANGED games /\ y.broken
        \/ games' = [games EXCEPT ![n][d] = put]
    BY <1>1, <1>3
  <1> HIDE DEF put
  <1>9. ASSUME games' = [games EXCEPT ![n][d] = put]
        PROVE  /\ DOMAIN games' = Names
               /\ \A m \in Names : DOMAIN games'[m] = Game
               /\ \A m \in Names, g \in Game :
                     games'[m][g] = IF m = n /\ g = d THEN put ELSE games[m][g]
               /\ \A m \in Names : m # n => games'[m] = games[m]
    <2>1. DOMAIN games = Names /\ \A m \in Names : DOMAIN games[m] = Game
      BY <1>2 DEF TableShape
    <2> QED BY <1>2, <1>9, <2>1
  <1>10. TableShape'
    <2>1. CASE UNCHANGED games
      BY <1>2, <2>1 DEF TableShape
    <2>2. CASE games' = [games EXCEPT ![n][d] = put]
      <3>1. ASSUME NEW m \in Names, NEW g \in SavedAlways
            PROVE  DOMAIN games'[m][g] \subseteq DOMAIN Fresh[g]
        <4>1. g \in Game
          BY GamesAre DEF SavedAlways
        <4>2. games'[m][g] = IF m = n /\ g = d THEN put ELSE games[m][g]
          BY <1>9, <2>2, <4>1
        <4>3. DOMAIN games[m][g] \subseteq DOMAIN Fresh[g]
          BY <1>2 DEF TableShape
        <4> QED BY <1>4, <1>7, <4>2, <4>3
      <3> QED BY <1>9, <2>2, <3>1 DEF TableShape
    <2> QED BY <1>8, <2>1, <2>2
  <1>11. \A m \in Names : games'[m] = games[m] \/ m = n
    BY <1>8, <1>9
  <1>12. ASSUME NEW g \in SavedAlways, Right(s, g), Counted(s)' PROVE Right(s, g)'
    <2>1. games' = [games EXCEPT ![n][d] = put] /\ g \in Game
      BY <1>8, <1>12, GamesAre DEF Counted, SavedAlways
    <2>2. CASE d # g
      <3>1. games'[n][g] = games[n][g]
        BY <1>2, <1>9, <2>1, <2>2
      <3> QED BY <1>3, <1>5, <1>12, <2>2, <3>1, NotPlayed
    <2>3. CASE d = g
      <3> DEFINE stored == Stored(n, g)
                 after == Stored(n, g)'
      <3>1. Good(g, x.values) /\ \A k \in DOMAIN Fresh[g] \ Left(s) : stored[k] = x.values[k]
        BY <1>1, <1>12, <2>3 DEF Right
      <3>2. games'[n][g] = put
        BY <1>2, <1>9, <2>1, <2>3
      <3>3. \A k \in DOMAIN Fresh[g] :
               stored[k] = IF k \in DOMAIN games[n][g] THEN games[n][g][k] ELSE Fresh[g][k]
        BY <1>2, StoredIs
      <3>4. \A k \in DOMAIN Fresh[g] : after[k] = IF k \in DOMAIN put THEN put[k] ELSE Fresh[g][k]
        <4>1. DOMAIN put \cup DOMAIN Fresh[g] = DOMAIN Fresh[g]
          BY <1>2, <1>4, <1>7, <2>3 DEF TableShape
        <4>2. after = put @@ Fresh[g]
          BY <1>5, <3>2 DEF Stored
        <4> QED BY <4>1, <4>2 DEF @@
      <3> HIDE DEF stored, after
      <3>5. ASSUME NEW k \in DOMAIN Fresh[g] \ Left(s)' PROVE after[k] = x.values[k]
        <4>1. CASE k = key
          BY <1>7, <3>4, <4>1
        <4>2. CASE k # key
          <5>1. after[k] = stored[k]
            BY <1>7, <2>3, <3>3, <3>4, <4>2
          <5>2. k \notin Left(s)
            BY <1>4, <4>2
          <5> QED BY <3>1, <5>1, <5>2
        <4> QED BY <4>1, <4>2
      <3>6. Stored(Handle(s), g)' = after
        BY <1>5 DEF after, Stored
      <3> QED BY <1>3, <2>3, <3>1, <3>5, <3>6 DEF Right
    <2> QED BY <2>2, <2>3
  <1> QED BY <1>1, <1>2, <1>3, <1>6, <1>10, <1>11, <1>12, DoorStep DEF SameUser

\* All the keys are saved.
LEMMA SavedGames ==
  ASSUME GInv, NEW s \in Sessions, Saved(s)
  PROVE  Playing'
  <1> DEFINE x == session[s]
             y == session'[s]
             d == x.door
             c == Follow(d, x.then)
  <1>1. /\ x.at = "save" /\ x.keys = <<>> /\ UNCHANGED <<users, games>> /\ Put(s, c)
    BY DEF Saved
  <1>2. /\ x.user_id # 0 /\ Handle(s) \in Names /\ Holding(s) /\ TableShape /\ IInv /\ Shape
        /\ d \in Game /\ x.then \in Thens
    <2>1. x.stage = "DOOR" /\ x.then \in Thens
      BY <1>1 DEF GInv, IInv, Types, Tagged
    <2> QED BY <1>1, <2>1, Player DEF IInv
  <1>3. DOMAIN c \subseteq DOMAIN c /\ \A f \in DOMAIN c : c[f] = c[f]
    OBVIOUS
  <1> DEFINE v == IF "values" \in DOMAIN c THEN c["values"] ELSE x.values
  <1>4. /\ Moved(s) /\ SameUser(s) /\ y.broken = x.broken /\ Followed(x, y, x.then, v)
    BY <1>1, <1>2, FollowStep
  <1>5. x.then = "stay" => v = x.values
    <2>1. x.then = "stay" => "values" \notin DOMAIN c
      BY DEF Follow
    <2> QED BY <2>1
  <1> HIDE DEF v, c
  <1>6. /\ Ends("blackjack") = {"again"} /\ Ends("hangman") = {"stay"} /\ Ends("speed") = {}
        /\ \A g \in SavedAlways : Ends(g) = {"stay", "leave"}
    BY DEF Ends, SavedAlways
  <1>7. x.then \in Ends(d)
    BY <1>1, <1>2 DEF Holding
  <1>8. /\ x.then = "won" => d = "hangman"
        /\ ~(x.then = "stay" /\ d = "blackjack")
        /\ d \in SavedAlways => x.then \in {"stay", "leave"}
    BY <1>2, <1>6, <1>7, GamesAre DEF SavedAlways
  <1>9. x.then \in {"stay", "won"} /\ d = "hangman" => GoodWord(v)
    <2>1. d = "hangman" => x.then = "stay" /\ GoodWord(x.values)
      BY <1>1, <1>2, <1>6, <1>7 DEF Holding
    <2> QED BY <1>5, <2>1
  <1>10. ASSUME NEW g \in SavedAlways, d = g, Right(s, g)
         PROVE  Good(g, Stored(Handle(s), g)) /\ x.values = Stored(Handle(s), g)
    BY <1>1, <1>2, <1>10, AllSaved
  <1>11. ASSUME NEW g \in SavedAlways, d # g, Right(s, g)
         PROVE  Good(g, Stored(Handle(s), g))
    BY <1>11 DEF Right
  <1>12. CASE x.then = "stay"
    <2>1. v = x.values
      BY <1>5, <1>12
    <2> QED BY <1>1, <1>2, <1>4, <1>8, <1>9, <1>10, <1>11, <2>1, FollowInv
  <1>13. CASE x.then # "stay"
    <2>1. Followed(x, y, x.then, x.values)
      BY <1>4, <1>6, <1>7, <1>8, <1>13, GamesAre, <1>2 DEF Followed, SavedAlways
    <2> QED BY <1>1, <1>2, <1>4, <1>8, <1>10, <1>11, <1>13, <2>1, <1>6, <1>7, FollowInv
  <1> QED BY <1>12, <1>13

-----------------------------------------------------------------------------
(* The invariant.                                                          *)

\* Nobody plays yet, and nothing is saved.
LEMMA InitPlaying == Init => Playing
  <1> SUFFICES ASSUME Init PROVE Playing
    OBVIOUS
  <1>1. /\ scenario \in Scenarios /\ session = [s \in Sessions |-> New]
        /\ games = [n \in Names |-> NoKeys]
        /\ users = [i \in 1..Len(scenario.users) |->
                       [handle |-> scenario.users[i], password |-> <<Password0>>,
                        ansi |-> FALSE, sized |-> TRUE]]
    BY DEF Init
  <1>2. OneHandle
    <2> DEFINE n == Len(scenario.users)
    <2>1. /\ scenario.users \in Seq(Names)
          /\ \A i, j \in 1..n : scenario.users[i] = scenario.users[j] => i = j
      BY <1>1, ScenarioAssumption
    <2>2. n \in Nat /\ DOMAIN users = 1..n /\ \A i \in 1..n : users[i].handle = scenario.users[i]
      BY <1>1, <2>1
    <2>3. Len(users) = n
      <3>1. users \in Seq(User)
        BY InitIInv DEF IInv, Tables
      <3> QED BY <2>2, <3>1
    <2> QED BY <2>1, <2>2, <2>3 DEF OneHandle
  <1>3. TableShape
    <2>1. \A g \in SavedAlways : NoKeys[g] = <<>> /\ DOMAIN <<>> = {}
      BY GamesAre DEF NoKeys, SavedAlways
    <2>2. DOMAIN NoKeys = Game
      BY DEF NoKeys
    <2> QED BY <1>1, <2>1, <2>2 DEF TableShape
  <1>4. ASSUME NEW s \in Sessions
        PROVE  /\ session[s].at = "none" /\ session[s].user_id = 0 /\ session[s].door = "none"
               /\ session[s].keys = <<>>
    BY <1>1 DEF New
  <1>5. Unplayed
    BY <1>1, <1>4 DEF Unplayed
  <1>6. ASSUME NEW s \in Sessions PROVE Holding(s)
    <2>1. <<>> \in Seq(KeyNames)
      OBVIOUS
    <2> QED BY <1>4, <2>1 DEF Holding
  <1>7. ASSUME NEW s \in Sessions PROVE ~Counted(s)
    BY <1>4 DEF Counted
  <1> QED BY <1>2, <1>3, <1>5, <1>6, <1>7 DEF Playing

\* Every step.
LEMMA NextPlaying == GInv /\ [Next]_vars => Playing'
  <1> SUFFICES ASSUME GInv, [Next]_vars PROVE Playing'
    OBVIOUS
  <1>1. IInv /\ Shape /\ connections \in Seq(Connection) /\ Grown /\ OneHandle'
    BY UsersStep DEF GInv, Playing, IInv, Tables
  <1>2. CASE UNCHANGED vars
    <2>1. UNCHANGED <<session, users, games>> /\ Playing
      BY <1>2 DEF vars, GInv
    <2>2. OneHandle' /\ TableShape' /\ Unplayed'
      BY <2>1 DEF Playing, OneHandle, TableShape, Unplayed, Handle
    <2>3. \A s \in Sessions : Holding(s)'
      BY <2>1 DEF Playing, Holding, Left
    <2>4. \A s \in Sessions, g \in SavedAlways : Right(s, g)' = Right(s, g)
      BY <2>1 DEF Right, Left, Stored, Handle
    <2>5. \A s \in Sessions : Counted(s)' = Counted(s)
      BY <2>1 DEF Counted, Alone
    <2> QED BY <2>1, <2>2, <2>3, <2>4, <2>5 DEF Playing
  <1>3. ASSUME NEW s \in Sessions, Create(s) \/ Comes(s) \/ FeedEnds(s) PROVE Playing'
    BY <1>1, <1>3, FedAside, AsideInv
  <1>4. ASSUME NEW s \in Sessions, PumpRoute(s) \/ CallEnds(s) \/ Killed(s) PROVE Playing'
    BY <1>1, <1>4, EndWent, AsideInv, WentInv
  <1>5. ASSUME NEW s \in Sessions, Tick(s) \/ TermAnsi(s) PROVE Playing'
    BY <1>1, <1>5, TerminalAside, AsideInv
  <1>6. ASSUME NEW s \in Sessions, Byte(s) PROVE Playing'
    BY <1>1, <1>6, ByteAside, AsideInv
  <1>7. ASSUME NEW s \in Sessions,
               Select(s) \/ Login(s) \/ NewName(s) \/ Main(s) \/ TermMenu(s) \/ TermSize(s)
        PROVE  Playing'
    BY <1>1, <1>7, LineAside, AsideInv
  <1>8. ASSUME NEW s \in Sessions, Password(s) \/ NewPassword(s) PROVE Playing'
    BY <1>1, <1>8, JoinsAside, AsideInv DEF Joins
  <1>9. CASE Next
    BY <1>3, <1>4, <1>5, <1>6, <1>7, <1>8, <1>9, DoorsMenuGames, DoorInputGames, LoadKeyGames,
       LoadedGames, SaveKeyGames, SavedGames DEF Next
  <1> QED BY <1>2, <1>9

\* The inductive invariant of the games: the sessions', and what is held and saved
\* of each game while it is loaded, played and saved.
THEOREM GamesInvariance == Spec => []GInv
  <1>1. Init => GInv
    BY InitIInv, InitPlaying DEF GInv
  <1>2. GInv /\ [Next]_vars => GInv'
    BY NextIInv, NextPlaying DEF GInv
  <1> QED BY <1>1, <1>2, PTL DEF Spec

\* Who is in a game counts, when alone with it and nothing failed.
LEMMA InGame ==
  ASSUME GInv, NEW s \in Sessions, session[s].door # "none", Alone(s), ~session[s].broken
  PROVE  Holding(s) /\ session[s].door \in Game /\ \A g \in SavedAlways : Right(s, g)
  <1>1. IInv /\ Tagged(s) /\ Somebody(s) /\ Holding(s)
    BY DEF GInv, Playing, IInv, Types
  <1>2. session[s].user_id # 0 /\ session[s].at # "gone" /\ session[s].door \in Game
    BY <1>1, StagesAre DEF Tagged, Somebody, Holding
  <1>3. Counted(s)
    BY <1>2 DEF Counted
  <1> QED BY <1>1, <1>2, <1>3 DEF GInv, Playing

\* Every game a caller looks at is in a state its rules allow (doors/blackjack.c,
\* hangman.c, space.c, dungeon.c), for any word, cards, chances and limits.
THEOREM GamesInBoundsAlways == Spec => []GamesInBounds
  <1>1. GInv => GamesInBounds
    <2> SUFFICES ASSUME GInv, NEW s \in Sessions, session[s].door # "none",
                        session[s].at \notin {"load", "save"}, Alone(s), NoneBroken
                 PROVE  InBounds(session[s].door, session[s].values)
      BY DEF GamesInBounds
    <2> DEFINE d == session[s].door
               v == session[s].values
    <2>1. Holding(s) /\ d \in Game /\ \A g \in SavedAlways : Right(s, g)
      BY InGame DEF NoneBroken
    <2>2. CASE d = "blackjack"
      <3>1. GoodHand(v)
        BY <2>1, <2>2 DEF Holding
      <3> QED BY <2>2, <3>1 DEF GoodHand, InBounds
    <2>3. CASE d = "hangman"
      <3>1. GoodWord(v)
        BY <2>1, <2>3 DEF Holding
      <3> QED BY <2>3, <3>1 DEF GoodWord, InBounds
    <2>4. ASSUME d \in SavedAlways PROVE Good(d, v)
      BY <2>1, <2>4 DEF Right
    <2>5. CASE d = "space"
      <3>1. GoodShip(v)
        BY <2>4, <2>5 DEF Good, SavedAlways
      <3> QED BY <2>5, <3>1 DEF GoodShip, InBounds
    <2>6. CASE d = "dungeon"
      <3>1. GoodHero(v)
        BY <2>4, <2>6 DEF Good, SavedAlways
      <3> QED BY <2>6, <3>1 DEF GoodHero, InBounds
    <2>7. CASE d = "speed"
      BY <2>7 DEF InBounds
    <2> QED BY <2>1, <2>2, <2>3, <2>5, <2>6, <2>7, GamesAre
  <1> QED BY <1>1, GamesInvariance, PTL

\* Between lines the database has what the merchant or the hero has: nothing is
\* lost when the call ends there.
THEOREM SavedGameAlways == Spec => []SavedGame
  <1>1. GInv => SavedGame
    <2> SUFFICES ASSUME GInv, NEW s \in Sessions, session[s].door \in {"space", "dungeon"},
                        session[s].at \notin {"load", "save"}, Alone(s), ~session[s].broken
                 PROVE  session[s].values = Stored(Handle(s), session[s].door)
      BY DEF SavedGame, Stored
    <2>1. \A g \in SavedAlways : Right(s, g)
      BY InGame
    <2> QED BY <2>1 DEF Right, SavedAlways
  <1> QED BY <1>1, GamesInvariance, PTL

====
