--------------------------- MODULE OrderedBroadcast ---------------------------
(***************************************************************************)
(* What a room of digital_content_game promises its users (game_room.h:    *)
(* "broadcast data to all users"), with no thread, socket, mutex or pool:  *)
(* a room has one log, nothing enters it twice, and each user is handed    *)
(* the log from its own joining on, in order and without a gap. The next   *)
(* reply enters a log when everybody has been handed the one before.       *)
(***************************************************************************)
EXTENDS Naturals, Sequences

CONSTANTS
  Rooms,
  Sessions,
  RoomOf,   \* the room that a session joins
  Replies   \* what may be broadcast

VARIABLES
  users,     \* the members of each room, in the order in which they joined
  log,       \* what each room has broadcast
  joinedAt,  \* the length of the room's log when a session joined
  sent       \* what each session was handed

broadcastVars == <<users, log, joinedAt, sent>>

In(x, seq) == \E i \in DOMAIN seq : seq[i] = x

Init ==
  /\ users = [r \in Rooms |-> <<>>]
  /\ log = [r \in Rooms |-> <<>>]
  /\ joinedAt = [s \in Sessions |-> 0]
  /\ sent = [s \in Sessions |-> <<>>]

\* The position in the room's log up to which s was handed replies.
Position(s) == joinedAt[s] + Len(sent[s])

Join(s) ==
  /\ ~In(s, users[RoomOf[s]])
  /\ users' = [users EXCEPT ![RoomOf[s]] = Append(@, s)]
  /\ joinedAt' = [joinedAt EXCEPT ![s] = Len(log[RoomOf[s]])]
  /\ UNCHANGED <<log, sent>>

Broadcast(r, x) ==
  /\ ~In(x, log[r])
  /\ \A i \in DOMAIN users[r] : Position(users[r][i]) = Len(log[r])
  /\ log' = [log EXCEPT ![r] = Append(@, x)]
  /\ UNCHANGED <<users, joinedAt, sent>>

Deliver(s) ==
  /\ In(s, users[RoomOf[s]])
  /\ Position(s) < Len(log[RoomOf[s]])
  /\ sent' = [sent EXCEPT ![s] = Append(@, log[RoomOf[s]][Position(s) + 1])]
  /\ UNCHANGED <<users, log, joinedAt>>

Next ==
  \/ \E s \in Sessions : Join(s) \/ Deliver(s)
  \/ \E r \in Rooms : \E x \in Replies : Broadcast(r, x)

Spec == Init /\ [][Next]_broadcastVars

\* What is in the log is handed to every user in the end.
FairSpec == Spec /\ \A s \in Sessions : WF_broadcastVars(Deliver(s))

===============================================================================
