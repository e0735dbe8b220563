------------------------------- MODULE TaskPool -------------------------------
(***************************************************************************)
(* What the pool of digital_content_game/ThreadPool.h promises, with no    *)
(* lock, no condition variable and no thread: a task that was accepted is  *)
(* started in its turn and run once, a task that was not is refused only   *)
(* once the pool is closing, and the pool is closed only when nothing that *)
(* was accepted is left to run.                                            *)
(***************************************************************************)
EXTENDS Naturals, Sequences

CONSTANT Tasks

VARIABLES
  phase,    \* "open", then "closing", then "closed"
  queue,    \* the accepted tasks not yet started, oldest first
  running,  \* the tasks started and not finished
  done,     \* the tasks run
  refused   \* the tasks whose submission was refused

poolVars == <<phase, queue, running, done, refused>>

Queued == {queue[i] : i \in DOMAIN queue}

Fresh == Tasks \ (Queued \cup running \cup done \cup refused)

Init ==
  /\ phase = "open"
  /\ queue = <<>>
  /\ running = {}
  /\ done = {}
  /\ refused = {}

Accept(t) ==
  /\ phase = "open"
  /\ t \in Fresh
  /\ queue' = Append(queue, t)
  /\ UNCHANGED <<phase, running, done, refused>>

Refuse(t) ==
  /\ phase # "open"
  /\ t \in Fresh
  /\ refused' = refused \cup {t}
  /\ UNCHANGED <<phase, queue, running, done>>

Start ==
  /\ queue # <<>>
  /\ running' = running \cup {Head(queue)}
  /\ queue' = Tail(queue)
  /\ UNCHANGED <<phase, done, refused>>

Finish(t) ==
  /\ t \in running
  /\ running' = running \ {t}
  /\ done' = done \cup {t}
  /\ UNCHANGED <<phase, queue, refused>>

Close ==
  /\ phase = "open"
  /\ phase' = "closing"
  /\ UNCHANGED <<queue, running, done, refused>>

Closed ==
  /\ phase = "closing"
  /\ queue = <<>>
  /\ running = {}
  /\ phase' = "closed"
  /\ UNCHANGED <<queue, running, done, refused>>

Next ==
  \/ \E t \in Tasks : Accept(t) \/ Refuse(t) \/ Finish(t)
  \/ Start
  \/ Close
  \/ Closed

Spec == Init /\ [][Next]_poolVars

\* An accepted task is started and finished; a closing pool ends up closed.
FairSpec ==
  /\ Spec
  /\ WF_poolVars(Start)
  /\ \A t \in Tasks : WF_poolVars(Finish(t))
  /\ WF_poolVars(Closed)

===============================================================================
