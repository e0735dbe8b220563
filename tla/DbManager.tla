------------------------------- MODULE DbManager -------------------------------
(***************************************************************************)
(* DbManager of digital_content_game (dbmanage.cpp) and the part of the    *)
(* sqlite wrapper under it (sqlite_modern_cpp.cpp): a server process reads *)
(* the row of a session, works on the copy, and writes it back, while the  *)
(* login server gives the rows new sessions. SQLite runs each statement as *)
(* a transaction of its own, so a statement is one step; it may fail.      *)
(***************************************************************************)
EXTENDS Naturals, FiniteSets

CONSTANTS
  Managers,   \* processes with a DbManager
  Rows,       \* of UserDb
  Sessions,   \* the tokens of the login server, each used once
  NoSession,  \* the empty string
  Values,     \* of a column
  Created,    \* the value of each column of a new user
  MaxCalls,   \* bound: the calls that a manager makes
  None        \* no user was read or written

ASSUME DbAssumption ==
  /\ NoSession \notin Sessions
  /\ Created \in Values
  /\ MaxCalls \in Nat

VARIABLES
  table,       \* UserDb
  used,        \* the tokens that the login server has given out
  user,        \* the UserDBStruct that each manager works on
  outcome,     \* how its last call ended
  called,      \* the calls it has made
  statements,  \* its prepared statements that are not finalized
  connection,  \* "open", "closed", or "zombie": the handle waits for statements
  written,     \* history: the user that the last Update of a session was given
  seen         \* history: the user as a manager's GetUser returned it, until an Update of
               \* its session

vars == <<table, used, user, outcome, called, statements, connection, written, seen>>

-------------------------------------------------------------------------------

\* rest stands for Nickname, Skill, Exp, PHp, Level and Quest, which are read and
\* written alike.
Users == [session : Sessions \cup {NoSession}, attack : Values, defence : Values, rest : Values]

Init ==
  /\ table = [r \in Rows |-> [session |-> NoSession, attack |-> Created, defence |-> Created,
                              rest |-> Created]]
  /\ used = {}
  /\ user = [m \in Managers |-> None]
  /\ outcome = [m \in Managers |-> "none"]
  /\ called = [m \in Managers |-> 0]
  /\ statements = [m \in Managers |-> 0]
  /\ connection = [m \in Managers |-> "open"]
  /\ written = [s \in Sessions \cup {NoSession} |-> None]
  /\ seen = [m \in Managers |-> None]

-------------------------------------------------------------------------------
(* The login server *)

Login(r) ==
  \E s \in Sessions \ used :
    /\ table' = [table EXCEPT ![r].session = s]
    /\ used' = used \cup {s}
    /\ UNCHANGED <<user, outcome, called, statements, connection, written, seen>>

Logout(r) ==
  /\ table[r].session # NoSession
  /\ table' = [table EXCEPT ![r].session = NoSession]
  /\ UNCHANGED <<used, user, outcome, called, statements, connection, written, seen>>

-------------------------------------------------------------------------------
(* A call: prepare, then the steps of the statement *)

Calling(m) ==
  /\ connection[m] = "open"
  /\ called[m] < MaxCalls
  /\ called' = [called EXCEPT ![m] = @ + 1]

\* prepare or a step returns an error. The statement, if there is one, is finalized
\* as the exception leaves the binder, and the transaction has changed nothing.
StatementFails(m) ==
  /\ Calling(m)
  /\ outcome' = [outcome EXCEPT ![m] = "threw"]
  /\ UNCHANGED <<table, used, user, statements, connection, written, seen>>

\* Mutant: the statement ends before its WHERE.
MatchesAll(s) == Rows

Matches(s) == {r \in Rows : table[r].session = s}

\* What GetUser's callback has left in its local user: the row it was called for
\* last, or what the default constructor leaves, empty strings and any integers.
Fetched(s) ==
  IF Matches(s) # {} THEN {table[r] : r \in Matches(s)}
  ELSE [session : {NoSession}, attack : Values, defence : Values, rest : Values]

\* Mutant: the user is returned without a look at its session.
Accepts(s, u) == TRUE

IsAnswer(s, u) == s = u.session

\* _extract sets _stmt to null when the rows are read: nobody finalizes the statement.
LeftOpen == 1

GetUser(m, s) ==
  /\ Calling(m)
  /\ \E u \in Fetched(s) :
       IF IsAnswer(s, u)
       THEN /\ user' = [user EXCEPT ![m] = u]
            /\ seen' = [seen EXCEPT ![m] = u]
            /\ outcome' = [outcome EXCEPT ![m] = "returned"]
       ELSE UNCHANGED <<user, seen>> /\ outcome' = [outcome EXCEPT ![m] = "threw"]
  /\ statements' = [statements EXCEPT ![m] = @ + LeftOpen]
  /\ UNCHANGED <<table, used, connection, written>>

\* The caller sets the fields of its copy. After its last call it may as well not.
Change(m) ==
  /\ user[m] # None
  /\ called[m] < MaxCalls
  /\ \E a, d, x \in Values :
       user' = [user EXCEPT ![m].attack = a, ![m].defence = d, ![m].rest = x]
  /\ UNCHANGED <<table, used, outcome, called, statements, connection, written, seen>>

\* Mutant: the columns of rest are left out.
UpdatedStatsOnly(row, u) == [row EXCEPT !.attack = u.defence]

\* UpdateSql: the assignment to PAttack takes PDefence, and there is none to PDefence.
Updated(row, u) == [row EXCEPT !.attack = u.defence, !.rest = u.rest]

OfSession(u, s) == u # None /\ u.session = s

\* The binder's destructor runs the statement and finalizes it. An update that
\* matches no row is no error.
Update(m) ==
  /\ user[m] # None
  /\ Calling(m)
  /\ table' = [r \in Rows |-> IF r \in Matches(user[m].session) THEN Updated(table[r], user[m])
                              ELSE table[r]]
  /\ written' = [written EXCEPT ![user[m].session] = user[m]]
  /\ seen' = [k \in Managers |-> IF OfSession(seen[k], user[m].session) THEN None ELSE seen[k]]
  /\ outcome' = [outcome EXCEPT ![m] = "returned"]
  /\ UNCHANGED <<used, user, statements, connection>>

\* ~DbManager: sqlite3_close_v2 keeps the connection while it has statements.
Close(m) ==
  /\ connection[m] = "open"
  /\ connection' = [connection EXCEPT ![m] = IF statements[m] = 0 THEN "closed" ELSE "zombie"]
  /\ UNCHANGED <<table, used, user, outcome, called, statements, written, seen>>

-------------------------------------------------------------------------------

LoginServer == \E r \in Rows : Login(r) \/ Logout(r)

Manager(m) ==
  \/ \E s \in Sessions \cup {NoSession} : GetUser(m, s)
  \/ StatementFails(m) \/ Change(m) \/ Update(m) \/ Close(m)

Next == LoginServer \/ \E m \in Managers : Manager(m)

Spec == Init /\ [][Next]_vars

-------------------------------------------------------------------------------
(* Properties *)

\* What the Update of a copy replaces is what the copy was read from: as long as the row
\* has the token of the copy, and no Update of that session has come since GetUser, the
\* row is as GetUser returned it, whatever the login server and the other sessions did.
\* GetUser gives an unknown user to who asks for the empty session, and nothing of the
\* kind holds of it: the Update of such a copy goes to every row that is logged out.
ReadsStandUntilUpdated ==
  \A m \in Managers : \A r \in Rows :
    table[r].session \in Sessions /\ OfSession(seen[m], table[r].session) => table[r] = seen[m]

\* While a session lasts its row holds what the last Update of the session wrote,
\* whichever manager made it: rest from rest, and PAttack from PDefence.
LastUpdateStands ==
  \A r \in Rows : \A s \in Sessions :
    table[r].session = s /\ written[s] # None =>
      table[r].rest = written[s].rest /\ table[r].attack = written[s].defence

\* What GetUser returns is a row of the table that has the session asked for. The one
\* exception is the code's: an empty session that no row has is answered with a user that
\* the default constructor made, whose integers nobody set.
AnswerIsStored ==
  [][\A m \in Managers : \A s \in Sessions \cup {NoSession} :
       GetUser(m, s) /\ outcome'[m] = "returned" =>
         \/ \E r \in Rows : table[r] = user'[m] /\ table[r].session = s
         \/ s = NoSession /\ \A r \in Rows : table[r].session # NoSession]_vars

\* "int PAttack; // 8" and "int PDefence; // 9" name the columns (dbmanage.h): each
\* holds what the last Update of the session was given for it.
ColumnsHoldTheirFields ==
  \A r \in Rows : \A s \in Sessions :
    table[r].session = s /\ written[s] # None =>
      table[r].attack = written[s].attack /\ table[r].defence = written[s].defence

\* "make sure we don't leak" (sqlite_modern_cpp.cpp): between calls every prepared
\* statement has been finalized.
StatementsFinalized == \A m \in Managers : statements[m] = 0

===============================================================================
