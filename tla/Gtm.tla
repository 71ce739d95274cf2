-------------------------------- MODULE Gtm --------------------------------
(***************************************************************************)
(* The global transaction manager (transaction/gtm).  It hands out         *)
(* transaction ids, and for a transaction that spans several DB services   *)
(* it collects the local verdict of each service's DBTM and broadcasts the *)
(* global one once the last verdict is in.                                 *)
(*                                                                         *)
(* One IO thread runs the handlers (gtm.threads = 1, the shipped           *)
(* configuration), so each handler is one step.  The DBTMs are the         *)
(* environment: every DBTM has one connection to the GTM, on which its     *)
(* verdicts arrive in order, but a read takes whatever the socket holds    *)
(* and onMessage looks at the first message only.                          *)
(***************************************************************************)
EXTENDS Integers, Sequences, FiniteSets

CONSTANTS
  TransType,       \* transaction types, the first column of transactions.ini
  Server,          \* DB services; a service stands for its GTM connection
  transInfo_,      \* the services each transaction type involves
  ConnsPerServer,  \* connections the App's connList_ holds to each service:
                   \* 1 in its first transaction, one more in each later one
  MaxTxid,         \* bound: transaction ids handed out
  MaxRead,         \* bound: messages one socket read may return
  Null             \* the null pointer, and "no type yet"

Txid == 0 .. MaxTxid - 1

\* struct txidInfo.
TxidInfo == [serverNum : Int, connList_ : Seq(Server), isConflict : BOOLEAN]

\* The judgement request of a DBTM, as the GTM reads it.
GtmMsg == [txid : Txid, isLocalConflict : BOOLEAN]

ASSUME GtmAssumption ==
  /\ MaxTxid \in Nat
  /\ MaxRead \in Nat \ {0}
  /\ ConnsPerServer \in Nat \ {0}
  /\ transInfo_ \in [TransType -> SUBSET Server]
  /\ \A type \in TransType : IsFiniteSet(transInfo_[type])
  /\ Null \notin TransType
  /\ Null \notin TxidInfo

VARIABLES
  txid_,     \* the next transaction id
  table_,    \* txid -> txidInfo; operator[] of an absent key is the null pointer
  issued,    \* the type each transaction id was handed out for
  votes,     \* the verdicts each service has sent for each transaction
  inbox,     \* the verdicts on their way on each connection
  told,      \* the global verdicts sent to each service for each transaction
  up         \* FALSE once the process has died on a null pointer

vars == <<txid_, table_, issued, votes, inbox, told, up>>

\* The services that take part in transaction t.
Participants(t) ==
  IF issued[t] = Null THEN {} ELSE transInfo_[issued[t]]

Voters(info) == {info.connList_[i] : i \in DOMAIN info.connList_}

----------------------------------------------------------------------------

\* `new GTM()` value-initialises txid_ and the maps.
Init ==
  /\ txid_ = 0
  /\ table_ = [t \in Txid |-> Null]
  /\ issued = [t \in Txid |-> Null]
  /\ votes = [t \in Txid |-> [s \in Server |-> <<>>]]
  /\ inbox = [s \in Server |-> <<>>]
  /\ told = [t \in Txid |-> [s \in Server |-> <<>>]]
  /\ up = TRUE

\* Variants: one service forgotten, one too many.
NewTxidInfoShort(num) ==
  [serverNum |-> num - 1, connList_ |-> <<>>, isConflict |-> FALSE]

NewTxidInfoLong(num) ==
  [serverNum |-> num + 1, connList_ |-> <<>>, isConflict |-> FALSE]

NewTxidInfo(num) ==
  [serverNum |-> num, connList_ |-> <<>>, isConflict |-> FALSE]

\* Variant: the size test is off by one.
TableAfterGetTxidOffByOne(type) ==
  LET size == Cardinality(transInfo_[type])
  IN  IF size > 2 THEN [table_ EXCEPT ![txid_] = NewTxidInfo(size)]
                  ELSE table_

\* Only a transaction of more than one service gets an entry in table_.
TableAfterGetTxid(type) ==
  LET size == Cardinality(transInfo_[type])
  IN  IF size > 1 THEN [table_ EXCEPT ![txid_] = NewTxidInfo(size)]
                  ELSE table_

\* GTM::getTxid, for an application that starts a transaction of this type.
GetTxid(type) ==
  /\ up
  /\ txid_ < MaxTxid
  /\ table_' = TableAfterGetTxid(type)
  /\ issued' = [issued EXCEPT ![txid_] = type]
  /\ txid_' = txid_ + 1
  /\ UNCHANGED <<votes, inbox, told, up>>

\* App::commit sends the commit on every connection of connList_, and asks for
\* the global judgement unless there is exactly one connection.
NeedGlobalConflct(t) == ConnsPerServer * Cardinality(Participants(t)) # 1

\* A DBTM judges a transaction once for each commit it receives and then sends
\* its verdict (Dbtm::judgeGlobalConflict, or the conflict branch of
\* Dbtm::judgeLocalConflict).
SendVote(s, t, isLocalConflict) ==
  /\ s \in Participants(t)
  /\ NeedGlobalConflct(t)
  /\ Len(votes[t][s]) < ConnsPerServer
  /\ votes' = [votes EXCEPT ![t][s] = Append(@, isLocalConflict)]
  /\ inbox' = [inbox EXCEPT ![s] =
                 Append(@, [txid |-> t, isLocalConflict |-> isLocalConflict])]
  /\ UNCHANGED <<txid_, table_, issued, told, up>>

\* A socket read returns n messages; the first one is m and the others, taken
\* out of the buffer by retrieveAllAsString, are dropped.
Read(s, n, m) ==
  /\ up
  /\ n <= Len(inbox[s])
  /\ m = Head(inbox[s])
  /\ inbox' = [inbox EXCEPT ![s] = SubSeq(@, n + 1, Len(@))]

\* Variant: the last verdict overwrites the others.
CountOverwrites(s, m) ==
  LET info == table_[m.txid]
  IN  [serverNum  |-> info.serverNum - 1,
       connList_  |-> Append(info.connList_, s),
       isConflict |-> m.isLocalConflict]

\* The entry of m's transaction after m has been counted.
Count(s, m) ==
  LET info == table_[m.txid]
  IN  [serverNum  |-> info.serverNum - 1,
       connList_  |-> Append(info.connList_, s),
       isConflict |-> info.isConflict \/ m.isLocalConflict]

\* Variant: only the connection that sent the last verdict is answered.
BroadcastToLast(t, info) ==
  [told EXCEPT ![t] =
     [s \in Server |->
        IF s = info.connList_[Len(info.connList_)]
          THEN Append(@[s], info.isConflict) ELSE @[s]]]

\* One DbtmMsg for every occurrence of a connection in connList_.
Broadcast(t, info) ==
  [told EXCEPT ![t] =
     [s \in Server |->
        LET sends == {i \in DOMAIN info.connList_ : info.connList_[i] = s}
        IN  @[s] \o [i \in 1 .. Cardinality(sends) |-> info.isConflict]]]

\* Variant: the disjunction so far is broadcast although verdicts are missing.
JudgeConflictPendingTells(s, n, m) ==
  /\ Read(s, n, m)
  /\ table_[m.txid] # Null
  /\ Count(s, m).serverNum # 0
  /\ told' = Broadcast(m.txid, Count(s, m))
  /\ table_' = [table_ EXCEPT ![m.txid] = Count(s, m)]
  /\ UNCHANGED <<txid_, issued, votes, up>>

\* GTM::judgeConflict when verdicts are still missing afterwards ...
JudgeConflictPending(s, n, m) ==
  /\ Read(s, n, m)
  /\ table_[m.txid] # Null
  /\ Count(s, m).serverNum # 0
  /\ table_' = [table_ EXCEPT ![m.txid] = Count(s, m)]
  /\ UNCHANGED <<txid_, issued, votes, told, up>>

\* ... when this verdict is the last one ...
JudgeConflictLast(s, n, m) ==
  /\ Read(s, n, m)
  /\ table_[m.txid] # Null
  /\ Count(s, m).serverNum = 0
  /\ told' = Broadcast(m.txid, Count(s, m))
  /\ table_' = [table_ EXCEPT ![m.txid] = Null]
  /\ UNCHANGED <<txid_, issued, votes, up>>

\* ... and when table_ has no entry: info is null and is dereferenced.
JudgeConflictNull(s, n, m) ==
  /\ Read(s, n, m)
  /\ table_[m.txid] = Null
  /\ up' = FALSE
  /\ UNCHANGED <<txid_, table_, issued, votes, told>>

OnVote(s) ==
  \E n \in 1 .. MaxRead, m \in GtmMsg :
    \/ JudgeConflictPending(s, n, m)
    \/ JudgeConflictLast(s, n, m)
    \/ JudgeConflictNull(s, n, m)

Next ==
  \/ \E type \in TransType : GetTxid(type)
  \/ \E s \in Server, t \in Txid, c \in BOOLEAN : SendVote(s, t, c)
  \/ \E s \in Server : OnVote(s)

Spec == Init /\ [][Next]_vars

\* The event loop serves every readable connection again and again.
FairSpec == Spec /\ \A s \in Server : WF_vars(OnVote(s))

----------------------------------------------------------------------------

\* The variables have their types.
TypeOK ==
  /\ txid_ \in 0 .. MaxTxid
  /\ table_ \in [Txid -> TxidInfo \cup {Null}]
  /\ issued \in [Txid -> TransType \cup {Null}]
  /\ votes \in [Txid -> [Server -> Seq(BOOLEAN)]]
  /\ inbox \in [Server -> Seq(GtmMsg)]
  /\ told \in [Txid -> [Server -> Seq(BOOLEAN)]]
  /\ up \in BOOLEAN

\* judgeConflict never looks up a transaction that has no entry: no verdict
\* reaches the GTM before getTxid made the entry, nor after the last verdict
\* erased it, nor for a transaction of one service, which never had one.
NoNullInfo == up

\* A service hears a global verdict only when every service of the transaction
\* has sent its own, and the verdict is a conflict exactly when one of theirs
\* was.  The code counts messages (--serverNum), never services, and keeps
\* only the disjunction (isConflict |=); verdicts lost in a coalesced read
\* must not be made up for by others.
DecisionSound ==
  \A t \in Txid, s \in Server : \A i \in DOMAIN told[t][s] :
    /\ \A p \in Participants(t) : votes[t][p] # <<>>
    /\ told[t][s][i] <=> \E p \in Participants(t) :
                            \E j \in DOMAIN votes[t][p] : votes[t][p][j]

\* All services of a decided transaction hear the verdict, each exactly once:
\* Dbtm::solve would dereference a null transaction on a second copy.
ToldOnceAndAll ==
  \A t \in Txid :
    \/ \A s \in Server : told[t][s] = <<>>
    \/ \A s \in Server : Len(told[t][s]) = IF s \in Participants(t) THEN 1 ELSE 0

\* A step never takes back or changes a verdict that was sent, and never
\* decides two transactions: judgeConflict broadcasts for its own txid only.
VerdictsAreFinal ==
  [][\A t, u \in Txid :
       told'[t] # told[t] =>
         /\ \A s \in Server : told[t][s] = <<>>
         /\ told'[u] # told[u] => u = t]_vars

\* No two verdicts sent for a transaction differ, even when an App that reuses
\* its connections makes services vote twice and the count runs out early.
Agreement ==
  \A t \in Txid : \A s, p \in Server :
    \A i \in DOMAIN told[t][s], j \in DOMAIN told[t][p] :
      told[t][s][i] = told[t][p][j]

\* A read has dropped a verdict on t: it is neither counted nor on its way.
Dropped(t) ==
  /\ table_[t] # Null
  /\ \E s \in Participants(t) :
       /\ votes[t][s] # <<>>
       /\ s \notin Voters(table_[t])
       /\ \A i \in DOMAIN inbox[s] : inbox[s][i].txid # t

\* Once all services of a transaction of several services have sent their
\* verdicts, each of them hears the global one, unless a coalesced read took one
\* of these verdicts away.
EveryoneHears ==
  \A t \in Txid :
    (/\ Cardinality(Participants(t)) > 1
     /\ \A s \in Participants(t) : votes[t][s] # <<>>)
      ~> (Dropped(t) \/ \A s \in Participants(t) : told[t][s] # <<>>)

\* The GTM, its table and channels hidden, is the one-verdict specification.
Decision ==
  INSTANCE GlobalDecision WITH
    members <- [t \in Txid |-> IF Cardinality(Participants(t)) > 1
                                 THEN Participants(t) ELSE {}],
    ballot  <- votes,
    heard   <- told

\* Every behaviour of the GTM is one of the one-verdict specification.
ImplementsDecision == Decision!AbsSpec
============================================================================
