---------------------------- MODULE DbManagerProofs ----------------------------
(***************************************************************************)
(* Proofs about DbManager, for any number of managers, rows, tokens and    *)
(* calls: a row is as a copy was read from it until an Update of the       *)
(* session, while a session lasts its row holds what the session's last    *)
(* Update wrote, and what GetUser returns is stored.                       *)
(*                                                                         *)
(* The first two rest on the login server using each token once. The       *)
(* inductive invariant DbInv therefore follows the tokens: none is in a    *)
(* row, in a copy or in the history that was not given out, and no two     *)
(* rows share one, so the row of a new session starts without an update of *)
(* its own and without copies.                                             *)
(***************************************************************************)
EXTENDS DbManager, TLAPS

-------------------------------------------------------------------------------
(* The inductive invariant *)

\* Every row and every copy is a user, and the history has one of each session.
DbTypeOK ==
  /\ table \in [Rows -> Users]
  /\ used \subseteq Sessions
  /\ user \in [Managers -> Users \cup {None}]
  /\ written \in [Sessions \cup {NoSession} -> Users \cup {None}]
  /\ seen \in [Managers -> Users \cup {None}]
  /\ outcome \in [Managers -> {"none", "returned", "threw"}]

GivenOut == used \cup {NoSession}

\* Tokens come from the login server only.
TokensAreGivenOut ==
  /\ \A r \in Rows : table[r].session \in GivenOut
  /\ \A m \in Managers : user[m] # None => user[m].session \in GivenOut
  /\ \A m \in Managers : seen[m] # None => seen[m].session \in GivenOut
  /\ \A s \in Sessions : written[s] # None => s \in used

\* No token is in two rows.
OneRowEach ==
  \A r, q \in Rows : table[r].session = table[q].session /\ table[r].session \in Sessions => r = q

\* What UPDATEs and logins have to keep.
DbInv ==
  /\ DbTypeOK
  /\ TokensAreGivenOut
  /\ OneRowEach
  /\ LastUpdateStands
  /\ ReadsStandUntilUpdated

-------------------------------------------------------------------------------
(* The operators of the model *)

\* What Update makes of a row keeps its session, and has the defence for the attack.
LEMMA UpdatedRow ==
  ASSUME NEW row \in Users, NEW u \in Users
  PROVE  /\ Updated(row, u) \in Users
         /\ Updated(row, u).session = row.session
         /\ Updated(row, u).rest = u.rest /\ Updated(row, u).attack = u.defence
BY DEF Updated, Users

\* GetUser has a row of the session that it was asked for, or a user of none.
LEMMA FetchedUser ==
  ASSUME DbTypeOK, NEW s, NEW u \in Fetched(s)
  PROVE  /\ u \in Users
         /\ u.session = NoSession \/ \E r \in Rows : u = table[r] /\ table[r].session = s
BY DEF DbTypeOK, Fetched, Matches, Users

-------------------------------------------------------------------------------
(* Every step keeps the invariant *)

\* The invariant holds before the first query.
LEMMA DbInit == Init => DbInv
<1> SUFFICES ASSUME Init PROVE DbInv
  OBVIOUS
<1>1. DbTypeOK
  BY DbAssumption DEF Init, DbTypeOK, Users, DbAssumption
<1>2. TokensAreGivenOut
  BY DEF Init, TokensAreGivenOut, GivenOut
<1>3. OneRowEach
  BY DbAssumption DEF Init, OneRowEach, DbAssumption
<1>4. LastUpdateStands /\ ReadsStandUntilUpdated
  BY DEF Init, LastUpdateStands, ReadsStandUntilUpdated, OfSession
<1> QED
  BY <1>1, <1>2, <1>3, <1>4 DEF DbInv

\* A row's new session is fresh, so no update has been made in it.
LEMMA LoginStep ==
  ASSUME DbInv, NEW r \in Rows, Login(r)
  PROVE  DbInv'
<1>1. PICK s \in Sessions \ used :
        /\ table' = [table EXCEPT ![r].session = s]
        /\ used' = used \cup {s}
        /\ user' = user /\ written' = written /\ seen' = seen
        /\ outcome' = outcome
  BY DEF Login
<1>2. /\ table \in [Rows -> Users] /\ DbTypeOK /\ TokensAreGivenOut /\ OneRowEach
      /\ LastUpdateStands /\ ReadsStandUntilUpdated
  BY DEF DbInv, DbTypeOK
<1>3. table' = [table EXCEPT ![r] = [table[r] EXCEPT !.session = s]]
  BY <1>1
<1>4. /\ table'[r] \in Users /\ table'[r].session = s
      /\ \A q \in Rows \ {r} : table'[q] = table[q]
  <2>1. table'[r] = [table[r] EXCEPT !.session = s] /\ \A q \in Rows \ {r} : table'[q] = table[q]
    BY <1>2, <1>3
  <2>2. table[r] \in Users /\ s \in Sessions \cup {NoSession}
    BY <1>2
  <2> QED
    BY <2>1, <2>2 DEF Users
<1>5. DbTypeOK'
  BY <1>1, <1>2, <1>3, <1>4 DEF DbTypeOK
<1>6. TokensAreGivenOut'
  BY <1>1, <1>2, <1>4 DEF TokensAreGivenOut, GivenOut
<1>7. written[s] = None
  BY <1>1, <1>2 DEF TokensAreGivenOut
<1>8. LastUpdateStands'
  BY <1>1, <1>2, <1>4, <1>7 DEF LastUpdateStands
<1>9. s \notin GivenOut
  BY DbAssumption DEF GivenOut, DbAssumption
<1>10. OneRowEach'
  BY <1>2, <1>4, <1>9 DEF OneRowEach, TokensAreGivenOut
<1>11. \A m \in Managers : ~OfSession(seen[m], s)
  BY <1>2, <1>9 DEF TokensAreGivenOut, OfSession
<1>12. ReadsStandUntilUpdated'
  BY <1>1, <1>2, <1>4, <1>11 DEF ReadsStandUntilUpdated, OfSession
<1> QED
  BY <1>5, <1>6, <1>8, <1>10, <1>12 DEF DbInv

\* The login server takes the session from a row, whose updates stand no more.
LEMMA LogoutStep ==
  ASSUME DbInv, NEW r \in Rows, Logout(r)
  PROVE  DbInv'
<1>1. /\ table' = [table EXCEPT ![r] = [table[r] EXCEPT !.session = NoSession]]
      /\ used' = used /\ user' = user /\ written' = written /\ seen' = seen
      /\ outcome' = outcome
  BY DEF Logout
<1>2. /\ table \in [Rows -> Users] /\ DbTypeOK /\ TokensAreGivenOut /\ OneRowEach
      /\ LastUpdateStands /\ ReadsStandUntilUpdated
  BY DEF DbInv, DbTypeOK
<1>3. /\ table'[r] \in Users /\ table'[r].session = NoSession
      /\ \A q \in Rows \ {r} : table'[q] = table[q]
  <2>1. table'[r] = [table[r] EXCEPT !.session = NoSession]
        /\ \A q \in Rows \ {r} : table'[q] = table[q]
    BY <1>1, <1>2
  <2>2. table[r] \in Users /\ NoSession \in Sessions \cup {NoSession}
    BY <1>2
  <2> QED
    BY <2>1, <2>2 DEF Users
<1>4. DbTypeOK'
  BY <1>1, <1>2, <1>3 DEF DbTypeOK
<1>5. TokensAreGivenOut'
  BY <1>1, <1>2, <1>3 DEF TokensAreGivenOut, GivenOut
<1>6. LastUpdateStands'
  BY <1>1, <1>2, <1>3, DbAssumption DEF LastUpdateStands, DbAssumption
<1>7. OneRowEach'
  BY <1>2, <1>3, DbAssumption DEF OneRowEach, DbAssumption
<1>8. ReadsStandUntilUpdated'
  BY <1>1, <1>2, <1>3, DbAssumption DEF ReadsStandUntilUpdated, OfSession, DbAssumption
<1> QED
  BY <1>4, <1>5, <1>6, <1>7, <1>8 DEF DbInv

\* What GetUser returns comes from the table, with its token.
LEMMA GetUserStep ==
  ASSUME DbInv, NEW m \in Managers, NEW s \in Sessions \cup {NoSession}, GetUser(m, s)
  PROVE  DbInv'
<1>1. DbTypeOK /\ TokensAreGivenOut /\ OneRowEach /\ LastUpdateStands /\ ReadsStandUntilUpdated
  BY DEF DbInv
<1>2. PICK u \in Fetched(s) :
        \/ user' = user /\ seen' = seen
        \/ user' = [user EXCEPT ![m] = u] /\ seen' = [seen EXCEPT ![m] = u]
  BY DEF GetUser
<1>3. table' = table /\ used' = used /\ written' = written
  BY DEF GetUser
<1>4. u \in Users /\ u.session \in GivenOut
  BY <1>1, FetchedUser DEF TokensAreGivenOut, GivenOut
<1>5. DbTypeOK'
  <2>1. \E o \in {"returned", "threw"} : outcome' = [outcome EXCEPT ![m] = o]
    BY DEF GetUser
  <2> QED
    BY <1>1, <1>2, <1>3, <1>4, <2>1 DEF DbTypeOK
<1>6. TokensAreGivenOut'
  BY <1>1, <1>2, <1>3, <1>4 DEF TokensAreGivenOut, GivenOut, DbTypeOK
<1>7. LastUpdateStands'
  BY <1>1, <1>3 DEF LastUpdateStands
<1>8. OneRowEach'
  BY <1>1, <1>3 DEF OneRowEach
<1>9. ASSUME NEW r \in Rows, table[r].session \in Sessions, u.session = table[r].session
      PROVE  table[r] = u
  BY <1>1, <1>9, FetchedUser, DbAssumption DEF OneRowEach, DbAssumption
<1>10. ReadsStandUntilUpdated'
  BY <1>1, <1>2, <1>3, <1>9 DEF ReadsStandUntilUpdated, OfSession, DbTypeOK
<1> QED
  BY <1>5, <1>6, <1>7, <1>8, <1>10 DEF DbInv

\* The caller's changes leave the token of its copy alone.
LEMMA ChangeStep ==
  ASSUME DbInv, NEW m \in Managers, Change(m)
  PROVE  DbInv'
<1>1. /\ DbTypeOK /\ TokensAreGivenOut /\ OneRowEach
      /\ LastUpdateStands /\ ReadsStandUntilUpdated /\ user[m] # None
  BY DEF DbInv, Change
<1>2. PICK a \in Values, d \in Values, x \in Values :
        user' = [user EXCEPT ![m].attack = a, ![m].defence = d, ![m].rest = x]
  BY DEF Change
<1>3. table' = table /\ used' = used /\ written' = written /\ seen' = seen /\ outcome' = outcome
  BY DEF Change
<1>4. user[m] \in Users /\ user \in [Managers -> Users \cup {None}]
  BY <1>1 DEF DbTypeOK
<1>5. PICK v : v = [user[m] EXCEPT !.attack = a, !.defence = d, !.rest = x]
  OBVIOUS
<1>6. v \in Users /\ v.session = user[m].session
  BY <1>4, <1>5 DEF Users
<1>7. user' = [user EXCEPT ![m] = v]
  BY <1>2, <1>4, <1>5
<1>8. DbTypeOK'
  BY <1>1, <1>3, <1>6, <1>7 DEF DbTypeOK
<1>9. TokensAreGivenOut'
  BY <1>1, <1>3, <1>4, <1>6, <1>7 DEF TokensAreGivenOut, GivenOut
<1>10. OneRowEach' /\ LastUpdateStands' /\ ReadsStandUntilUpdated'
  BY <1>1, <1>3 DEF OneRowEach, LastUpdateStands, ReadsStandUntilUpdated, OfSession
<1> QED
  BY <1>8, <1>9, <1>10 DEF DbInv

\* Update writes to every row of its session and to no other.
LEMMA UpdateStep ==
  ASSUME DbInv, NEW m \in Managers, Update(m)
  PROVE  DbInv'
<1>1. /\ DbTypeOK /\ TokensAreGivenOut /\ OneRowEach
      /\ LastUpdateStands /\ ReadsStandUntilUpdated /\ user[m] # None
  BY DEF DbInv, Update
<1>2. PICK u : u = user[m]
  OBVIOUS
<1>3. u \in Users /\ u # None /\ u.session \in GivenOut /\ u.session \in Sessions \cup {NoSession}
  BY <1>1, <1>2 DEF DbTypeOK, TokensAreGivenOut, Users
<1>4. /\ table' = [r \in Rows |-> IF table[r].session = u.session THEN Updated(table[r], u)
                                 ELSE table[r]]
      /\ written' = [written EXCEPT ![u.session] = u]
      /\ used' = used /\ user' = user /\ outcome' = [outcome EXCEPT ![m] = "returned"]
      /\ seen' = [k \in Managers |-> IF OfSession(seen[k], u.session) THEN None ELSE seen[k]]
  BY <1>2 DEF Update, Matches
<1>5. ASSUME NEW r \in Rows
      PROVE  /\ table'[r] \in Users /\ table'[r].session = table[r].session
             /\ table[r].session = u.session =>
                  table'[r].rest = u.rest /\ table'[r].attack = u.defence
             /\ table[r].session # u.session => table'[r] = table[r]
  <2>1. table[r] \in Users
    BY <1>1 DEF DbTypeOK
  <2> QED
    BY <1>3, <1>4, <2>1, UpdatedRow
<1>6. DbTypeOK'
  BY <1>1, <1>3, <1>4, <1>5 DEF DbTypeOK
<1>7. TokensAreGivenOut'
  <2>1. \A r \in Rows : table'[r].session \in GivenOut'
    BY <1>1, <1>4, <1>5 DEF TokensAreGivenOut, GivenOut
  <2>2. \A v \in Managers : user'[v] # None => user'[v].session \in GivenOut'
    BY <1>1, <1>4 DEF TokensAreGivenOut, GivenOut
  <2>3. ASSUME NEW s \in Sessions, written'[s] # None PROVE s \in used'
    <3>1. u.session \in Sessions => u.session \in used
      BY <1>3, DbAssumption DEF GivenOut, DbAssumption
    <3>2. s # u.session => written'[s] = written[s]
      BY <1>1, <1>4 DEF DbTypeOK
    <3> QED
      BY <1>1, <1>4, <2>3, <3>1, <3>2 DEF TokensAreGivenOut
  <2>4. \A v \in Managers : seen'[v] # None => seen'[v].session \in GivenOut'
    BY <1>1, <1>4 DEF TokensAreGivenOut, GivenOut
  <2> QED
    BY <2>1, <2>2, <2>3, <2>4 DEF TokensAreGivenOut
<1>8. ASSUME NEW r \in Rows, NEW s \in Sessions, table'[r].session = s, written'[s] # None
      PROVE  table'[r].rest = written'[s].rest /\ table'[r].attack = written'[s].defence
  <2>1. CASE s = u.session
    BY <1>1, <1>3, <1>4, <1>5, <1>8, <2>1 DEF DbTypeOK
  <2>2. CASE s # u.session
    BY <1>1, <1>4, <1>5, <1>8, <2>2 DEF LastUpdateStands, DbTypeOK
  <2> QED
    BY <2>1, <2>2
<1>9. LastUpdateStands'
  BY <1>8 DEF LastUpdateStands
<1>10. OneRowEach'
  BY <1>1, <1>5 DEF OneRowEach
<1>11. ReadsStandUntilUpdated'
  <2> SUFFICES ASSUME NEW k \in Managers, NEW r \in Rows, table'[r].session \in Sessions,
                      seen'[k] # None, seen'[k].session = table'[r].session
               PROVE  table'[r] = seen'[k]
    BY DEF ReadsStandUntilUpdated, OfSession
  <2>1. seen'[k] = seen[k] /\ ~OfSession(seen[k], u.session)
    BY <1>4
  <2>2. table'[r] = table[r]
    BY <1>5, <2>1 DEF OfSession
  <2> QED
    BY <1>1, <2>1, <2>2 DEF ReadsStandUntilUpdated, OfSession
<1> QED
  BY <1>6, <1>7, <1>9, <1>10, <1>11 DEF DbInv

\* Every step of the login server and of the managers keeps the invariant.
LEMMA DbStep == DbInv /\ [Next]_vars => DbInv'
<1> SUFFICES ASSUME DbInv, [Next]_vars PROVE DbInv'
  OBVIOUS
<1> USE DEF DbInv, DbTypeOK, TokensAreGivenOut, GivenOut, OneRowEach, LastUpdateStands,
            ReadsStandUntilUpdated, OfSession
<1>1. ASSUME NEW m \in Managers, StatementFails(m) \/ Close(m) PROVE DbInv'
  BY <1>1 DEF StatementFails, Close
<1>2. CASE UNCHANGED vars
  BY <1>2 DEF vars
<1> QED
  BY <1>1, <1>2, LoginStep, LogoutStep, GetUserStep, ChangeStep, UpdateStep
  DEF Next, LoginServer, Manager

-------------------------------------------------------------------------------
(* The theorems *)

\* Tokens are never made up, and rows stand as they were last updated.
THEOREM DbInvariance == Spec => []DbInv
<1> QED
  BY DbInit, DbStep, PTL DEF Spec

\* While a session lasts, its row holds what the last Update of the session wrote.
THEOREM UpdatesStand == Spec => []LastUpdateStands
<1>1. DbInv => LastUpdateStands
  BY DEF DbInv
<1> QED
  BY <1>1, DbInvariance, PTL

\* The row that has the token of a copy is as the copy was read, until the session's next
\* Update: logins, logouts and the updates of other sessions leave it alone.
THEOREM ReadsStand == Spec => []ReadsStandUntilUpdated
<1>1. DbInv => ReadsStandUntilUpdated
  BY DEF DbInv
<1> QED
  BY <1>1, DbInvariance, PTL

\* What GetUser gives to its caller is a row of the table that has the session asked for,
\* unless the empty session was asked for and no row has it.
THEOREM AnswersAreStored == Spec => AnswerIsStored
<1> DEFINE Stored ==
      \A m \in Managers : \A s \in Sessions \cup {NoSession} :
        GetUser(m, s) /\ outcome'[m] = "returned" =>
          \/ \E r \in Rows : table[r] = user'[m] /\ table[r].session = s
          \/ s = NoSession /\ \A r \in Rows : table[r].session # NoSession
<1>1. DbInv => [Stored]_vars
  <2> SUFFICES ASSUME DbInv, NEW m \in Managers, NEW s \in Sessions \cup {NoSession},
                      GetUser(m, s), outcome'[m] = "returned"
               PROVE  \/ \E r \in Rows : table[r] = user'[m] /\ table[r].session = s
                      \/ s = NoSession /\ \A r \in Rows : table[r].session # NoSession
    OBVIOUS
  <2>1. PICK u \in Fetched(s) : user' = [user EXCEPT ![m] = u] /\ s = u.session
    BY DEF GetUser, IsAnswer, DbInv, DbTypeOK
  <2>2. user'[m] = u
    BY <2>1 DEF DbInv, DbTypeOK
  <2>3. CASE Matches(s) # {}
    BY <2>1, <2>2, <2>3 DEF Fetched, Matches
  <2>4. CASE Matches(s) = {}
    BY <2>1, <2>4 DEF Fetched, Matches
  <2> QED
    BY <2>3, <2>4
<1>2. Spec => [][Stored]_vars
  BY <1>1, DbInvariance, PTL DEF Spec
<1> QED
  BY <1>2 DEF AnswerIsStored

===============================================================================
