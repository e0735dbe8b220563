--------------------------- MODULE DummyClientMain ---------------------------
(***************************************************************************)
(* main() of DummyClient is two programs: the test client of DummyClient,  *)
(* or DoLogin of Login when DOLOGINTEST is defined. What is built is one   *)
(* of the two, and the other's state stays as it starts.                   *)
(***************************************************************************)
EXTENDS DummyClient, Login

VARIABLE build  \* "game" or "login"

mainFileVars == <<build, vars, loginVars>>

BuildInit ==
  /\ build \in {"game", "login"}
  /\ Init
  /\ LoginInit
  /\ build = "game" => password = 0
  /\ build = "login" => header = "empty"

GameBuild == build = "game" /\ Next /\ UNCHANGED <<build, loginVars>>

LoginBuild == build = "login" /\ LoginNext /\ UNCHANGED <<build, vars>>

BuildNext == GameBuild \/ LoginBuild

\* The two threads of the game build are scheduled fairly; nothing is asked of the other.
BuildSpec == BuildInit /\ [][BuildNext]_mainFileVars /\ (build = "game" => Fairness)

===============================================================================
