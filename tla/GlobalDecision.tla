--------------------------- MODULE GlobalDecision ---------------------------
(***************************************************************************)
(* What the global transaction manager promises the DB services, without   *)
(* its table, its counters and its message channels: a transaction that    *)
(* spans several services gets one verdict, all of its services learn it   *)
(* at once and once only, and the verdict is "conflict" exactly when some  *)
(* service voted "conflict".                                               *)
(***************************************************************************)
EXTENDS Naturals, Sequences

CONSTANTS
  Txid,    \* transaction ids
  Server   \* DB services

VARIABLES
  members,  \* the services of each started transaction, {} before its start
  ballot,   \* the votes each service has cast: none, or one
  heard     \* the verdicts each service has been sent: none, or one

absVars == <<members, ballot, heard>>

AbsTypeOK ==
  /\ members \in [Txid -> SUBSET Server]
  /\ ballot \in [Txid -> [Server -> {<<>>, <<TRUE>>, <<FALSE>>}]]
  /\ heard \in [Txid -> [Server -> {<<>>, <<TRUE>>, <<FALSE>>}]]

AbsInit ==
  /\ members = [t \in Txid |-> {}]
  /\ ballot = [t \in Txid |-> [s \in Server |-> <<>>]]
  /\ heard = [t \in Txid |-> [s \in Server |-> <<>>]]

Start(t, P) ==
  /\ members[t] = {}
  /\ members' = [members EXCEPT ![t] = P]
  /\ UNCHANGED <<ballot, heard>>

Cast(s, t, isConflict) ==
  /\ s \in members[t]
  /\ ballot[t][s] = <<>>
  /\ ballot' = [ballot EXCEPT ![t][s] = <<isConflict>>]
  /\ UNCHANGED <<members, heard>>

Complete(t) == members[t] # {} /\ \A s \in members[t] : ballot[t][s] # <<>>

SomeConflict(t) == \E s \in members[t] : ballot[t][s] = <<TRUE>>

Announce(t) ==
  /\ Complete(t)
  /\ \A s \in Server : heard[t][s] = <<>>
  /\ heard' = [heard EXCEPT ![t] =
                 [s \in Server |-> IF s \in members[t] THEN <<SomeConflict(t)>>
                                                       ELSE <<>>]]
  /\ UNCHANGED <<members, ballot>>

AbsNext ==
  \/ \E t \in Txid, P \in SUBSET Server : Start(t, P)
  \/ \E s \in Server, t \in Txid, c \in BOOLEAN : Cast(s, t, c)
  \/ \E t \in Txid : Announce(t)

AbsSpec == AbsInit /\ [][AbsNext]_absVars
============================================================================
