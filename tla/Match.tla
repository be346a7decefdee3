-------------------------------- MODULE Match --------------------------------
(***************************************************************************)
(* What a battle room promises, whatever happens to its connections: a     *)
(* game goes from the lobby to play to its end and never back; only the    *)
(* host starts it; a score changes only while it is played, only that of a *)
(* listed player and only to an acceptable value; a player leaves the list *)
(* only in the lobby; and the room goes away only when nobody is in it,    *)
(* after which nothing about it changes.  Any connection may be dropped in *)
(* any step.                                                               *)
(***************************************************************************)
EXTENDS Integers

CONSTANTS Clients, Users, UserOf, NoUser, MaxScore, Absent

VARIABLES phase,    \* "none", "WAITING", "PLAYING", "FINISHED" or "gone"
          members,  \* the connections in the room
          players,  \* user -> score, or Absent
          host

matchVars == <<phase, members, players, host>>

Open == phase \notin {"none", "gone"}

MatchInit ==
  /\ phase = "none"
  /\ members = {}
  /\ players = [u \in Users |-> Absent]
  /\ host = NoUser

Create(u) ==
  /\ phase = "none" /\ phase' = "WAITING"
  /\ host' = u
  /\ UNCHANGED <<members, players>>

Enter(c) ==
  /\ Open
  /\ members' \subseteq members \cup {c}
  /\ players' = IF players[UserOf[c]] = Absent
                THEN [players EXCEPT ![UserOf[c]] = 0] ELSE players
  /\ UNCHANGED <<phase, host>>

Leave(c) ==
  /\ Open /\ c \in members
  /\ members' \subseteq members \ {c}
  /\ players' = IF phase = "WAITING"
                THEN [players EXCEPT ![UserOf[c]] = Absent] ELSE players
  /\ UNCHANGED <<phase, host>>

Start(c) ==
  /\ phase = "WAITING" /\ UserOf[c] = host
  /\ phase' = "PLAYING"
  /\ members' \subseteq members
  /\ UNCHANGED <<players, host>>

Score(c, s) ==
  /\ phase = "PLAYING" /\ players[UserOf[c]] # Absent
  /\ players' = [players EXCEPT ![UserOf[c]] = s]
  /\ members' \subseteq members
  /\ UNCHANGED <<phase, host>>

Finish ==
  /\ phase = "PLAYING" /\ phase' = "FINISHED"
  /\ members' \subseteq members
  /\ UNCHANGED <<players, host>>

GoAway ==
  /\ Open /\ members = {}
  /\ phase' = "gone"
  /\ UNCHANGED <<members, players, host>>

MatchNext ==
  \/ \E u \in Users : Create(u)
  \/ \E c \in Clients : Enter(c) \/ Leave(c) \/ Start(c)
  \/ \E c \in Clients, s \in 0..MaxScore : Score(c, s)
  \/ Finish
  \/ GoAway

MatchSpec == MatchInit /\ [][MatchNext]_matchVars
==============================================================================
