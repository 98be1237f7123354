--------------------------- MODULE CommandChannel ---------------------------
(***************************************************************************)
(* What the link promises the operator.  Commands are numbered as they are *)
(* given.  One that was given is carried out once or, if it is lost, never;*)
(* carrying it out puts its setting in force, which stays until another is *)
(* carried out or the controller restarts.  What the operator is shown of  *)
(* the controller, part by part, has been in force at some time.           *)
(***************************************************************************)
EXTENDS Integers

CONSTANTS Parts,     \* of the state, shown one by one
          Unknown    \* shown of a part before anything is heard of it

VARIABLES given,     \* how many commands were given so far
          done,      \* the commands carried out
          inForce,   \* the last one carried out, 0 after a restart
          shown      \* the setting shown, by part

channelVars == <<given, done, inForce, shown>>

ChannelInit ==
  /\ given = 0
  /\ done = {}
  /\ inForce = 0
  /\ shown = [p \in Parts |-> Unknown]

Give ==
  /\ given' = given + 1
  /\ UNCHANGED <<done, inForce, shown>>

CarryOut(n) ==
  /\ n \notin done
  /\ done' = done \cup {n}
  /\ inForce' = n
  /\ UNCHANGED <<given, shown>>

Show(p) ==
  /\ \E n \in done \cup {0} : shown' = [shown EXCEPT ![p] = n]
  /\ UNCHANGED <<given, done, inForce>>

RestartController ==
  /\ inForce' = 0
  /\ UNCHANGED <<given, done, shown>>

RestartDisplay ==
  /\ shown' = [p \in Parts |-> Unknown]
  /\ UNCHANGED <<given, done, inForce>>

ChannelNext ==
  \/ Give
  \/ \E n \in 1..given : CarryOut(n)
  \/ \E p \in Parts : Show(p)
  \/ RestartController \/ RestartDisplay

ChannelSpec == ChannelInit /\ [][ChannelNext]_channelVars
=============================================================================
