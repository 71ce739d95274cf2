----------------------------- MODULE GtmProofs -----------------------------
(***************************************************************************)
(* Proofs about the global transaction manager for any set of services,    *)
(* any transaction types, any number of transactions and any coalescing of *)
(* reads.  What the GTM promises it promises to applications that commit   *)
(* once per service (ConnsPerServer = 1); type correctness needs no such   *)
(* hypothesis.                                                             *)
(***************************************************************************)
EXTENDS Gtm, FiniteSetTheorems, TLAPS

----------------------------------------------------------------------------
\* The inductive invariant.

Multi(t) == Cardinality(Participants(t)) > 1

\* Ids from txid_ on have not been handed out.
Fresh == \A t \in Txid : t >= txid_ => issued[t] = Null

\* Nothing ever happens for a transaction that is not one of several services.
Quiet ==
  \A t \in Txid : ~Multi(t) =>
    /\ table_[t] = Null
    /\ \A s \in Server : votes[t][s] = <<>> /\ told[t][s] = <<>>

\* Each service votes at most once, and only where it takes part.
VotesOK ==
  \A t \in Txid, s \in Server :
    /\ votes[t][s] \in {<<>>, <<TRUE>>, <<FALSE>>}
    /\ votes[t][s] # <<>> => s \in Participants(t)

\* A vote on its way is the sender's vote, is not counted yet, and has an entry.
InboxOK ==
  \A s \in Server : \A i \in DOMAIN inbox[s] :
    LET m == inbox[s][i]
    IN  /\ votes[m.txid][s] = <<m.isLocalConflict>>
        /\ table_[m.txid] # Null
        /\ s \notin Voters(table_[m.txid])

InboxDistinct ==
  \A s \in Server : \A i, j \in DOMAIN inbox[s] :
    inbox[s][i].txid = inbox[s][j].txid => i = j

SomeConflictVote(t) == \E p \in Participants(t) : votes[t][p] = <<TRUE>>

\* An entry counts the services whose votes are in, and their disjunction.
Pending(t, info) ==
  /\ Multi(t)
  /\ Voters(info) \subseteq Participants(t)
  /\ \A i, j \in DOMAIN info.connList_ :
       info.connList_[i] = info.connList_[j] => i = j
  /\ info.serverNum + Cardinality(Voters(info)) = Cardinality(Participants(t))
  /\ info.serverNum > 0
  /\ \A s \in Voters(info) : votes[t][s] # <<>>
  /\ info.isConflict <=> \E s \in Voters(info) : votes[t][s] = <<TRUE>>
  /\ \A s \in Server : told[t][s] = <<>>

PendingOK == \A t \in Txid : table_[t] # Null => Pending(t, table_[t])

\* Without an entry the transaction is decided, and everyone knows.
Decided(t) ==
  /\ \A s \in Participants(t) : votes[t][s] # <<>>
  /\ \A s \in Participants(t) : told[t][s] = <<SomeConflictVote(t)>>
  /\ \A s \in Server \ Participants(t) : told[t][s] = <<>>

DecidedOK == \A t \in Txid : Multi(t) /\ table_[t] = Null => Decided(t)

IInv ==
  /\ TypeOK /\ up
  /\ Fresh /\ Quiet /\ VotesOK
  /\ InboxOK /\ InboxDistinct
  /\ PendingOK /\ DecidedOK

----------------------------------------------------------------------------
\* Lemmas about the operators.

\* What a read leaves behind is the suffix of the channel: SubSeq of a sequence.
LEMMA SuffixFacts ==
  ASSUME NEW S, NEW q \in Seq(S), NEW n \in Nat \ {0}, n <= Len(q)
  PROVE  /\ SubSeq(q, n + 1, Len(q)) \in Seq(S)
         /\ DOMAIN SubSeq(q, n + 1, Len(q)) = 1 .. (Len(q) - n)
         /\ \A i \in 1 .. (Len(q) - n) :
              /\ SubSeq(q, n + 1, Len(q))[i] = q[i + n]
              /\ i + n \in DOMAIN q
  OBVIOUS

\* Appending adds one position at the end.
LEMMA AppendFacts ==
  ASSUME NEW S, NEW q \in Seq(S), NEW e \in S
  PROVE  /\ Append(q, e) \in Seq(S)
         /\ DOMAIN q = 1 .. Len(q)
         /\ DOMAIN Append(q, e) = 1 .. (Len(q) + 1)
         /\ \A i \in 1 .. Len(q) : Append(q, e)[i] = q[i]
         /\ Append(q, e)[Len(q) + 1] = e
         /\ \A i \in DOMAIN Append(q, e) : i \in DOMAIN q \/ i = Len(q) + 1
         /\ Len(q) + 1 \notin DOMAIN q
  OBVIOUS

\* A sequence of one element is not empty.
LEMMA OneNotEmpty == \A x : <<x>> # <<>>
  OBVIOUS

\* A one-element sequence of a verdict is <<TRUE>> exactly for a conflict.
LEMMA OneTrue == \A b \in BOOLEAN : (<<b>> = <<TRUE>>) <=> b
  <1>1. <<FALSE>>[1] = FALSE /\ <<TRUE>>[1] = TRUE
    OBVIOUS
  <1>2. <<FALSE>> # <<TRUE>>
    BY <1>1
  <1> QED
    BY <1>2

\* n copies of a value are a sequence.
LEMMA CopiesType ==
  ASSUME NEW S, NEW n \in Nat, NEW c \in S
  PROVE  [i \in 1 .. n |-> c] \in Seq(S)
  OBVIOUS

\* The number of copies of the verdict a connection gets is a natural number.
LEMMA SendsFinite ==
  ASSUME NEW info \in TxidInfo, NEW s \in Server
  PROVE  LET sends == {i \in DOMAIN info.connList_ : info.connList_[i] = s}
         IN  IsFiniteSet(sends) /\ Cardinality(sends) \in Nat
  <1> DEFINE sends == {i \in DOMAIN info.connList_ : info.connList_[i] = s}
  <1>1. info.connList_ \in Seq(Server)
    BY DEF TxidInfo
  <1>2. DOMAIN info.connList_ = 1 .. Len(info.connList_)
        /\ Len(info.connList_) \in Nat
    BY <1>1
  <1>3. IsFiniteSet(DOMAIN info.connList_)
    BY <1>2, FS_Interval
  <1>4. IsFiniteSet(sends)
    BY <1>3, FS_Subset
  <1> QED
    BY <1>4, FS_CardinalityType

\* A broadcast appends verdicts to what each service was told.
LEMMA BroadcastType ==
  ASSUME told \in [Txid -> [Server -> Seq(BOOLEAN)]],
         NEW t \in Txid, NEW info \in TxidInfo
  PROVE  Broadcast(t, info) \in [Txid -> [Server -> Seq(BOOLEAN)]]
  <1>1. info.isConflict \in BOOLEAN
    BY DEF TxidInfo
  <1>2. SUFFICES ASSUME NEW s \in Server
        PROVE LET sends == {i \in DOMAIN info.connList_ : info.connList_[i] = s}
              IN  told[t][s] \o [i \in 1 .. Cardinality(sends) |-> info.isConflict]
                    \in Seq(BOOLEAN)
    BY DEF Broadcast
  <1> DEFINE sends == {i \in DOMAIN info.connList_ : info.connList_[i] = s}
  <1>3. Cardinality(sends) \in Nat
    BY SendsFinite
  <1>4. [i \in 1 .. Cardinality(sends) |-> info.isConflict] \in Seq(BOOLEAN)
    BY <1>1, <1>3, CopiesType
  <1> QED
    BY <1>4

\* A vote is counted in an entry of the table.
LEMMA CountType ==
  ASSUME NEW s \in Server, NEW m \in GtmMsg, table_[m.txid] \in TxidInfo
  PROVE  Count(s, m) \in TxidInfo
  BY DEF Count, TxidInfo, GtmMsg

----------------------------------------------------------------------------
\* Type correctness: Init establishes it and every action keeps it, whatever
\* the applications do (getTxid and judgeConflict build well-formed entries).
LEMMA TypeInit == Init => TypeOK
  <1> SUFFICES ASSUME Init PROVE TypeOK
    OBVIOUS
  <1>1. <<>> \in Seq(BOOLEAN) /\ <<>> \in Seq(GtmMsg)
    OBVIOUS
  <1> QED
    BY <1>1, GtmAssumption DEF Init, TypeOK

LEMMA TypeNext == TypeOK /\ [Next]_vars => TypeOK'
  <1> SUFFICES ASSUME TypeOK, [Next]_vars PROVE TypeOK'
    OBVIOUS
  <1>1. ASSUME NEW type \in TransType, GetTxid(type) PROVE TypeOK'
    <2>1. txid_ \in Txid /\ txid_' \in 0 .. MaxTxid
      BY <1>1, GtmAssumption DEF GetTxid, TypeOK, Txid
    <2>2. issued' \in [Txid -> TransType \cup {Null}]
      BY <1>1, <2>1 DEF GetTxid, TypeOK
    <2>3. Cardinality(transInfo_[type]) \in Int
      BY GtmAssumption, FS_CardinalityType
    <2>4. NewTxidInfo(Cardinality(transInfo_[type])) \in TxidInfo
      BY <2>3 DEF NewTxidInfo, TxidInfo
    <2>5. table_' \in [Txid -> TxidInfo \cup {Null}]
      BY <1>1, <2>1, <2>4 DEF GetTxid, TableAfterGetTxid, TypeOK
    <2> QED
      BY <1>1, <2>1, <2>2, <2>5 DEF GetTxid, TypeOK
  <1>2. ASSUME NEW s \in Server, NEW t \in Txid, NEW c \in BOOLEAN,
               SendVote(s, t, c)
        PROVE  TypeOK'
    <2>1. [txid |-> t, isLocalConflict |-> c] \in GtmMsg
      BY DEF GtmMsg
    <2>2. inbox' \in [Server -> Seq(GtmMsg)]
      BY <1>2, <2>1 DEF SendVote, TypeOK
    <2>3. votes' \in [Txid -> [Server -> Seq(BOOLEAN)]]
      BY <1>2 DEF SendVote, TypeOK
    <2> QED
      BY <1>2, <2>2, <2>3 DEF SendVote, TypeOK
  <1>3. ASSUME NEW s \in Server, OnVote(s) PROVE TypeOK'
    <2>1. PICK n \in 1 .. MaxRead, m \in GtmMsg :
            \/ JudgeConflictPending(s, n, m)
            \/ JudgeConflictLast(s, n, m)
            \/ JudgeConflictNull(s, n, m)
      BY <1>3 DEF OnVote
    <2>2. n \in Nat \ {0}
      BY GtmAssumption
    <2>3. m.txid \in Txid
      BY DEF GtmMsg
    <2>4. inbox' \in [Server -> Seq(GtmMsg)]
      <3>1. Read(s, n, m)
        BY <2>1 DEF JudgeConflictPending, JudgeConflictLast, JudgeConflictNull
      <3>2. SubSeq(inbox[s], n + 1, Len(inbox[s])) \in Seq(GtmMsg)
        BY <3>1, <2>2, SuffixFacts DEF Read, TypeOK
      <3> QED
        BY <3>1, <3>2 DEF Read, TypeOK
    <2>5. table_[m.txid] # Null => Count(s, m) \in TxidInfo
      BY <2>3, CountType DEF TypeOK
    <2>6. CASE JudgeConflictPending(s, n, m)
      BY <2>6, <2>3, <2>4, <2>5 DEF JudgeConflictPending, TypeOK
    <2>7. CASE JudgeConflictLast(s, n, m)
      <3>1. told' \in [Txid -> [Server -> Seq(BOOLEAN)]]
        BY <2>7, <2>3, <2>5, BroadcastType DEF JudgeConflictLast, TypeOK
      <3> QED
        BY <2>7, <2>3, <2>4, <3>1 DEF JudgeConflictLast, TypeOK
    <2>8. CASE JudgeConflictNull(s, n, m)
      BY <2>8, <2>4 DEF JudgeConflictNull, TypeOK
    <2> QED
      BY <2>1, <2>6, <2>7, <2>8
  <1>4. CASE UNCHANGED vars
    BY <1>4 DEF vars, TypeOK
  <1> QED
    BY <1>1, <1>2, <1>3, <1>4 DEF Next

\* The GTM's variables keep their types in every behaviour.
THEOREM TypeCorrect == Spec => []TypeOK
  BY TypeInit, TypeNext, PTL DEF Spec

----------------------------------------------------------------------------
\* The inductive invariant holds initially: no transaction has services yet.
LEMMA InvInit == Init => IInv
  <1> SUFFICES ASSUME Init PROVE IInv
    OBVIOUS
  <1>1. TypeOK
    BY TypeInit
  <1>2. \A t \in Txid : Participants(t) = {} /\ ~Multi(t)
    BY FS_EmptySet DEF Init, Participants, Multi
  <1>3. Fresh /\ Quiet /\ VotesOK /\ InboxOK /\ InboxDistinct
    BY <1>2 DEF Init, Fresh, Quiet, VotesOK, InboxOK, InboxDistinct
  <1>4. PendingOK /\ DecidedOK
    BY <1>2 DEF Init, PendingOK, DecidedOK
  <1> QED
    BY <1>1, <1>3, <1>4 DEF IInv, Init

\* getTxid gives a new transaction its services and, if there are several, an
\* entry without votes; it touches no other transaction.
LEMMA InvGetTxid ==
  ASSUME IInv, NEW type \in TransType, GetTxid(type)
  PROVE  IInv'
  <1>0. PICK u \in Txid : u = txid_
    BY GtmAssumption DEF IInv, GetTxid, TypeOK, Txid
  <1>1. TypeOK /\ TypeOK' /\ u \in Txid /\ issued[u] = Null /\ up'
    <2>1. TypeOK'
      BY TypeNext DEF IInv, Next
    <2> QED
      BY <1>0, <2>1, GtmAssumption DEF IInv, GetTxid, TypeOK, Txid, Fresh
  <1>2. ~Multi(u) /\ Participants(u) = {}
    BY <1>1, FS_EmptySet DEF Participants, Multi
  <1>3. /\ table_[u] = Null
        /\ \A s \in Server : votes[u][s] = <<>> /\ told[u][s] = <<>>
    BY <1>1, <1>2 DEF IInv, Quiet
  <1>4. \A t \in Txid : t # u =>
          /\ Participants(t)' = Participants(t)
          /\ Multi(t)' = Multi(t)
          /\ table_'[t] = table_[t]
    BY <1>0, <1>1 DEF GetTxid, TypeOK, Participants, Multi, TableAfterGetTxid
  <1>5. Participants(u)' = transInfo_[type]
    BY <1>0, <1>1, GtmAssumption DEF GetTxid, TypeOK, Participants
  <1>6. table_'[u] = IF Multi(u)'
                       THEN NewTxidInfo(Cardinality(transInfo_[type])) ELSE Null
    BY <1>0, <1>1, <1>3, <1>5 DEF GetTxid, TableAfterGetTxid, TypeOK, Multi
  <1>7. votes' = votes /\ told' = told /\ inbox' = inbox
    BY DEF GetTxid
  <1>8. Fresh'
    BY <1>0, <1>1 DEF IInv, Fresh, GetTxid, TypeOK, Txid
  <1>9. Quiet'
    BY <1>3, <1>4, <1>6, <1>7 DEF IInv, Quiet
  <1>10. VotesOK'
    BY <1>2, <1>4, <1>7 DEF IInv, VotesOK
  <1>11. InboxOK' /\ InboxDistinct'
    <2>1. \A s \in Server : \A i \in DOMAIN inbox[s] :
            inbox[s][i].txid \in Txid /\ inbox[s][i].txid # u
      <3> SUFFICES ASSUME NEW s \in Server, NEW i \in DOMAIN inbox[s]
                   PROVE  inbox[s][i].txid \in Txid /\ inbox[s][i].txid # u
        OBVIOUS
      <3>1. inbox[s][i] \in GtmMsg
        BY <1>1 DEF TypeOK
      <3>2. table_[inbox[s][i].txid] # Null
        BY DEF IInv, InboxOK
      <3> QED
        BY <3>1, <3>2, <1>3 DEF GtmMsg
    <2> QED
      BY <2>1, <1>4, <1>7 DEF IInv, InboxOK, InboxDistinct
  <1>12. PendingOK'
    <2> SUFFICES ASSUME NEW t \in Txid, table_'[t] # Null
                 PROVE  Pending(t, table_[t])'
      BY DEF PendingOK
    <2>1. CASE t # u
      <3>1. Pending(t, table_[t])
        BY <2>1, <1>4 DEF IInv, PendingOK
      <3> QED
        BY <2>1, <3>1, <1>4, <1>7 DEF Pending
    <2>2. CASE t = u
      <3>1. Multi(u)'
        BY <2>2, <1>6
      <3>2. PICK info : info = NewTxidInfo(Cardinality(transInfo_[type]))
                        /\ table_'[u] = info
        BY <3>1, <1>6
      <3>3. Voters(info) = {} /\ info.connList_ = <<>> /\ ~info.isConflict
            /\ info.serverNum = Cardinality(transInfo_[type])
        BY <3>2 DEF Voters, NewTxidInfo
      <3>4. Cardinality(transInfo_[type]) \in Nat /\ Cardinality({}) = 0
        BY GtmAssumption, FS_CardinalityType, FS_EmptySet
      <3>5. Cardinality(transInfo_[type]) > 1
        BY <3>1, <1>5 DEF Multi
      <3>6. Pending(u, info)'
        <4>1. \A s \in Server : told'[u][s] = <<>>
          BY <1>3, <1>7
        <4>2. info.serverNum + Cardinality(Voters(info)) = Cardinality(transInfo_[type])
          BY <3>3, <3>4
        <4>3. DOMAIN info.connList_ = {}
          BY <3>3
        <4> QED
          BY <3>1, <3>3, <3>4, <3>5, <4>1, <4>2, <4>3, <1>5 DEF Pending
      <3> QED
        BY <3>2, <3>6, <2>2
    <2> QED
      BY <2>1, <2>2
  <1>13. DecidedOK'
    <2> SUFFICES ASSUME NEW t \in Txid, Multi(t)', table_'[t] = Null
                 PROVE  Decided(t)'
      BY DEF DecidedOK
    <2>0. Cardinality(transInfo_[type]) \in Int
      BY GtmAssumption, FS_CardinalityType
    <2>1. NewTxidInfo(Cardinality(transInfo_[type])) # Null
      <3>1. NewTxidInfo(Cardinality(transInfo_[type])) \in TxidInfo
        BY <2>0 DEF NewTxidInfo, TxidInfo
      <3> QED
        BY <3>1, GtmAssumption
    <2>2. t # u
      BY <2>1, <1>6
    <2>3. Decided(t)
      BY <2>2, <1>4 DEF IInv, DecidedOK
    <2> QED
      BY <2>2, <2>3, <1>4, <1>7 DEF Decided, SomeConflictVote
  <1> QED
    BY <1>1, <1>8, <1>9, <1>10, <1>11, <1>12, <1>13 DEF IInv

\* The participants of a transaction are finitely many.
LEMMA ParticipantsFinite ==
  ASSUME TypeOK, NEW t \in Txid
  PROVE  /\ Participants(t) \subseteq Server
         /\ IsFiniteSet(Participants(t))
         /\ Cardinality(Participants(t)) \in Nat
  <1>1. Participants(t) \subseteq Server /\ IsFiniteSet(Participants(t))
    BY GtmAssumption, FS_EmptySet DEF TypeOK, Participants
  <1> QED
    BY <1>1, FS_CardinalityType

\* Only a transaction of several services needs the global judgement.
LEMMA VotersAreSeveral ==
  ASSUME ConnsPerServer = 1, TypeOK,
         NEW s \in Server, NEW t \in Txid, NEW c \in BOOLEAN, SendVote(s, t, c)
  PROVE  Multi(t)
  <1>1. Cardinality(Participants(t)) # 0
    BY ParticipantsFinite, FS_EmptySet DEF SendVote
  <1>2. Cardinality(Participants(t)) # 1
    BY ParticipantsFinite DEF SendVote, NeedGlobalConflct
  <1> QED
    BY <1>1, <1>2, ParticipantsFinite DEF Multi

\* A DBTM that judges once votes for a transaction that is still pending, and
\* has not been counted for it.
LEMMA InvSendVote ==
  ASSUME ConnsPerServer = 1, IInv,
         NEW s \in Server, NEW t \in Txid, NEW c \in BOOLEAN, SendVote(s, t, c)
  PROVE  IInv'
  <1> DEFINE msg == [txid |-> t, isLocalConflict |-> c]
  <1>1. TypeOK /\ TypeOK' /\ up'
    BY TypeNext DEF IInv, Next, SendVote
  <1>2. votes[t][s] = <<>> /\ s \in Participants(t)
    BY DEF IInv, VotesOK, SendVote
  <1>3. Multi(t)
    BY <1>1, VotersAreSeveral
  <1>4. table_[t] # Null /\ Pending(t, table_[t]) /\ s \notin Voters(table_[t])
    BY <1>2, <1>3 DEF IInv, DecidedOK, Decided, PendingOK, Pending
  <1>5. votes' = [votes EXCEPT ![t][s] = <<c>>]
    BY <1>1, <1>2 DEF SendVote, TypeOK
  <1>6. /\ \A u \in Txid, p \in Server :
             votes'[u][p] = IF u = t /\ p = s THEN <<c>> ELSE votes[u][p]
        /\ table_' = table_ /\ issued' = issued /\ told' = told /\ txid_' = txid_
    <2>1. \A u \in Txid, p \in Server :
             votes'[u][p] = IF u = t /\ p = s THEN <<c>> ELSE votes[u][p]
      BY <1>1, <1>5 DEF TypeOK
    <2> QED
      BY <2>1 DEF SendVote
  <1>7. \A u \in Txid : Participants(u)' = Participants(u) /\ Multi(u)' = Multi(u)
    BY <1>6 DEF Participants, Multi
  <1>8. \A p \in Server : inbox'[p] = IF p = s THEN Append(inbox[s], msg)
                                               ELSE inbox[p]
    BY <1>1 DEF SendVote, TypeOK
  <1>9. Fresh' /\ Quiet'
    BY <1>3, <1>6, <1>7 DEF IInv, Fresh, Quiet
  <1>10. VotesOK'
    <2> SUFFICES ASSUME NEW u \in Txid, NEW p \in Server
                 PROVE  /\ votes'[u][p] \in {<<>>, <<TRUE>>, <<FALSE>>}
                        /\ votes'[u][p] # <<>> => p \in Participants(u)'
      BY DEF VotesOK
    <2>1. Participants(u)' = Participants(u)
      BY <1>7
    <2>2. CASE u = t /\ p = s
      <3>1. votes'[u][p] = <<c>>
        BY <2>2, <1>6
      <3>2. <<c>> \in {<<TRUE>>, <<FALSE>>}
        OBVIOUS
      <3> QED
        BY <3>1, <3>2, <2>1, <2>2, <1>2
    <2>3. CASE ~(u = t /\ p = s)
      <3>1. votes'[u][p] = votes[u][p]
        BY <2>3, <1>6
      <3> QED
        BY <3>1, <2>1 DEF IInv, VotesOK
    <2> QED
      BY <2>2, <2>3
  <1>11. InboxOK' /\ InboxDistinct'
    <2>1. \A p \in Server : \A i \in DOMAIN inbox[p] :
            inbox[p][i].txid \in Txid /\ (p = s => inbox[p][i].txid # t)
      <3> SUFFICES ASSUME NEW p \in Server, NEW i \in DOMAIN inbox[p]
                   PROVE  inbox[p][i].txid \in Txid /\ (p = s => inbox[p][i].txid # t)
        OBVIOUS
      <3>1. inbox[p][i].txid \in Txid
        <4>1. inbox[p][i] \in GtmMsg
          BY <1>1 DEF TypeOK
        <4> QED
          BY <4>1 DEF GtmMsg
      <3>2. votes[inbox[p][i].txid][p] # <<>>
        <4>1. votes[inbox[p][i].txid][p] = <<inbox[p][i].isLocalConflict>>
          BY DEF IInv, InboxOK
        <4> QED
          BY <4>1, OneNotEmpty
      <3> QED
        BY <3>1, <3>2, <1>2
    <2>2. inbox[s] \in Seq(GtmMsg)
      BY <1>1 DEF TypeOK
    <2>3. /\ \A i \in DOMAIN inbox[s] : inbox'[s][i] = inbox[s][i]
          /\ inbox'[s][Len(inbox[s]) + 1] = msg
          /\ \A i \in DOMAIN inbox'[s] :
               i \in DOMAIN inbox[s] \/ i = Len(inbox[s]) + 1
          /\ Len(inbox[s]) + 1 \notin DOMAIN inbox[s]
      <3>1. msg \in GtmMsg
        BY DEF GtmMsg
      <3>2. inbox'[s] = Append(inbox[s], msg)
        BY <1>8
      <3> HIDE DEF msg
      <3> QED
        BY <2>2, <3>1, <3>2, AppendFacts
    <2>4. \A p \in Server \ {s} : inbox'[p] = inbox[p]
      BY <1>8
    <2>5. msg.txid = t /\ msg.isLocalConflict = c
      OBVIOUS
    <2>6. InboxDistinct'
      <3> HIDE DEF msg
      <3>1. \A i, j \in DOMAIN inbox'[s] :
              inbox'[s][i].txid = inbox'[s][j].txid => i = j
        BY <2>1, <2>3, <2>5 DEF IInv, InboxDistinct
      <3> QED
        BY <3>1, <2>4 DEF IInv, InboxDistinct
    <2>7. ASSUME NEW p \in Server, NEW i \in DOMAIN inbox'[p]
          PROVE  LET m == inbox'[p][i]
                 IN  /\ votes'[m.txid][p] = <<m.isLocalConflict>>
                     /\ table_'[m.txid] # Null
                     /\ p \notin Voters(table_'[m.txid])
      <3>1. CASE p = s /\ i = Len(inbox[s]) + 1
        <4> HIDE DEF msg
        <4>1. inbox'[p][i] = msg
          BY <3>1, <2>3
        <4> QED
          BY <3>1, <4>1, <2>5, <1>4, <1>6
      <3>2. CASE ~(p = s /\ i = Len(inbox[s]) + 1)
        <4>1. i \in DOMAIN inbox[p] /\ inbox'[p][i] = inbox[p][i]
          BY <3>2, <2>3, <2>4, <2>7
        <4>2. votes'[inbox[p][i].txid][p] = votes[inbox[p][i].txid][p]
          BY <4>1, <2>1, <1>6
        <4>3. /\ votes[inbox[p][i].txid][p] = <<inbox[p][i].isLocalConflict>>
              /\ table_[inbox[p][i].txid] # Null
              /\ p \notin Voters(table_[inbox[p][i].txid])
          BY <4>1 DEF IInv, InboxOK
        <4> QED
          BY <4>1, <4>2, <4>3, <1>6
      <3> QED
        BY <3>1, <3>2
    <2> QED
      BY <2>6, <2>7 DEF InboxOK, Voters
  <1>12. PendingOK'
    <2> SUFFICES ASSUME NEW u \in Txid, table_'[u] # Null
                 PROVE  Pending(u, table_[u])'
      BY DEF PendingOK
    <2>1. Pending(u, table_[u])
      BY <1>6 DEF IInv, PendingOK
    <2>2. \A p \in Voters(table_[u]) : votes'[u][p] = votes[u][p]
      BY <2>1, <1>1, <1>4, <1>6, ParticipantsFinite DEF Pending
    <2> QED
      BY <2>1, <2>2, <1>6, <1>7 DEF Pending
  <1>13. DecidedOK'
    <2> SUFFICES ASSUME NEW u \in Txid, Multi(u)', table_'[u] = Null
                 PROVE  Decided(u)'
      BY DEF DecidedOK
    <2>1. u # t /\ Decided(u)
      BY <1>4, <1>6, <1>7 DEF IInv, DecidedOK
    <2>2. \A p \in Participants(u) : votes'[u][p] = votes[u][p]
      BY <2>1, <1>1, <1>6, ParticipantsFinite
    <2> QED
      BY <2>1, <2>2, <1>6, <1>7 DEF Decided, SomeConflictVote
  <1> QED
    BY <1>1, <1>9, <1>10, <1>11, <1>12, <1>13 DEF IInv

\* The vote at the head of a channel belongs to a pending transaction that has
\* not counted it.
LEMMA HeadVote ==
  ASSUME IInv, NEW s \in Server, NEW n \in 1 .. MaxRead, NEW m \in GtmMsg,
         Read(s, n, m)
  PROVE  /\ m.txid \in Txid /\ m.isLocalConflict \in BOOLEAN
         /\ table_[m.txid] \in TxidInfo /\ table_[m.txid] # Null
         /\ Pending(m.txid, table_[m.txid])
         /\ s \notin Voters(table_[m.txid]) /\ s \in Participants(m.txid)
         /\ votes[m.txid][s] = <<m.isLocalConflict>>
  <1>1. m.txid \in Txid /\ m.isLocalConflict \in BOOLEAN
    BY DEF GtmMsg
  <1>2. inbox[s] \in Seq(GtmMsg) /\ n \in Nat \ {0} /\ n <= Len(inbox[s])
    BY GtmAssumption DEF IInv, TypeOK, Read
  <1>3. 1 \in DOMAIN inbox[s] /\ m = inbox[s][1]
    BY <1>2 DEF Read
  <1>4. /\ votes[m.txid][s] = <<m.isLocalConflict>>
        /\ table_[m.txid] # Null /\ s \notin Voters(table_[m.txid])
    BY <1>3 DEF IInv, InboxOK
  <1>5. s \in Participants(m.txid)
    BY <1>1, <1>4, OneNotEmpty DEF IInv, VotesOK
  <1>6. table_[m.txid] \in TxidInfo
    BY <1>1, <1>4 DEF IInv, TypeOK
  <1> QED
    BY <1>1, <1>4, <1>5, <1>6 DEF IInv, PendingOK

\* What is left in the channels after a read: votes that were there before, on
\* other transactions where the same sender is concerned.
LEMMA RestOfInbox ==
  ASSUME IInv, NEW s \in Server, NEW n \in 1 .. MaxRead, NEW m \in GtmMsg,
         Read(s, n, m)
  PROVE  /\ InboxDistinct'
         /\ \A p \in Server : \A i \in DOMAIN inbox'[p] :
              \E j \in DOMAIN inbox[p] :
                /\ inbox'[p][i] = inbox[p][j]
                /\ inbox[p][j].txid \in Txid
                /\ p = s => inbox[p][j].txid # m.txid
  <1>1. inbox[s] \in Seq(GtmMsg) /\ n \in Nat \ {0} /\ n <= Len(inbox[s])
    BY GtmAssumption DEF IInv, TypeOK, Read
  <1>2. /\ inbox'[s] = SubSeq(inbox[s], n + 1, Len(inbox[s]))
        /\ \A p \in Server \ {s} : inbox'[p] = inbox[p]
    BY DEF IInv, TypeOK, Read
  <1>3. /\ DOMAIN inbox'[s] = 1 .. (Len(inbox[s]) - n)
        /\ \A i \in DOMAIN inbox'[s] :
             /\ inbox'[s][i] = inbox[s][i + n]
             /\ i + n \in DOMAIN inbox[s]
    BY <1>1, <1>2, SuffixFacts
  <1>4. 1 \in DOMAIN inbox[s] /\ m = inbox[s][1]
    BY <1>1 DEF Read
  <1>5. \A p \in Server : \A j \in DOMAIN inbox[p] : inbox[p][j].txid \in Txid
    <2> SUFFICES ASSUME NEW p \in Server, NEW j \in DOMAIN inbox[p]
                 PROVE  inbox[p][j].txid \in Txid
      OBVIOUS
    <2>1. inbox[p][j] \in GtmMsg
      BY DEF IInv, TypeOK
    <2> QED
      BY <2>1 DEF GtmMsg
  <1>6. \A i \in DOMAIN inbox'[s] : i + n # 1
    BY <1>1, <1>3
  <1>7. InboxDistinct'
    <2>1. \A i, j \in DOMAIN inbox'[s] :
            inbox'[s][i].txid = inbox'[s][j].txid => i = j
      <3> SUFFICES ASSUME NEW i \in DOMAIN inbox'[s], NEW j \in DOMAIN inbox'[s],
                          inbox'[s][i].txid = inbox'[s][j].txid
                   PROVE  i = j
        OBVIOUS
      <3>1. i + n = j + n
        BY <1>3 DEF IInv, InboxDistinct
      <3>2. i \in Int /\ j \in Int
        BY <1>1, <1>3
      <3> QED
        BY <3>1, <3>2, <1>1
    <2> QED
      BY <2>1, <1>2 DEF IInv, InboxDistinct
  <1>8. ASSUME NEW p \in Server, NEW i \in DOMAIN inbox'[p]
        PROVE  \E j \in DOMAIN inbox[p] :
                 /\ inbox'[p][i] = inbox[p][j]
                 /\ inbox[p][j].txid \in Txid
                 /\ p = s => inbox[p][j].txid # m.txid
    <2>1. CASE p = s
      <3>1. i + n \in DOMAIN inbox[s] /\ i + n # 1 /\ inbox'[s][i] = inbox[s][i + n]
        BY <2>1, <1>3, <1>6, <1>8
      <3>2. inbox[s][i + n].txid # m.txid
        BY <3>1, <1>4 DEF IInv, InboxDistinct
      <3> QED
        BY <2>1, <3>1, <3>2, <1>5
    <2>2. CASE p # s
      BY <2>2, <1>2, <1>5, <1>8
    <2> QED
      BY <2>1, <2>2
  <1> QED
    BY <1>7, <1>8

\* Counting a vote adds its sender to the voters, once.
LEMMA CountFacts ==
  ASSUME IInv, NEW s \in Server, NEW n \in 1 .. MaxRead, NEW m \in GtmMsg,
         Read(s, n, m)
  PROVE  LET old == table_[m.txid]
             new == Count(s, m)
         IN  /\ new \in TxidInfo
             /\ Voters(new) = Voters(old) \cup {s}
             /\ Voters(new) \subseteq Participants(m.txid)
             /\ new.serverNum >= 0
             /\ new.serverNum + Cardinality(Voters(new))
                  = Cardinality(Participants(m.txid))
             /\ \A i, j \in DOMAIN new.connList_ :
                  new.connList_[i] = new.connList_[j] => i = j
             /\ \A p \in Voters(new) : votes[m.txid][p] # <<>>
             /\ new.isConflict <=> \E p \in Voters(new) : votes[m.txid][p] = <<TRUE>>
  <1> DEFINE old == table_[m.txid]
             new == Count(s, m)
  <1>1. /\ m.txid \in Txid /\ m.isLocalConflict \in BOOLEAN
        /\ old \in TxidInfo /\ Pending(m.txid, old)
        /\ s \notin Voters(old) /\ s \in Participants(m.txid)
        /\ votes[m.txid][s] = <<m.isLocalConflict>>
    BY HeadVote
  <1>2. new \in TxidInfo
    BY <1>1, CountType
  <1>3. /\ new.connList_ = Append(old.connList_, s)
        /\ new.serverNum = old.serverNum - 1
        /\ new.isConflict = (old.isConflict \/ m.isLocalConflict)
    BY DEF Count
  <1>4. old.connList_ \in Seq(Server) /\ old.serverNum \in Int
        /\ old.isConflict \in BOOLEAN
    BY <1>1 DEF TxidInfo
  <1> HIDE DEF new
  <1>5. /\ \A i \in DOMAIN old.connList_ :
             i \in DOMAIN new.connList_ /\ new.connList_[i] = old.connList_[i]
        /\ \A i \in DOMAIN new.connList_ :
             i \in DOMAIN old.connList_ \/ i = Len(old.connList_) + 1
        /\ Len(old.connList_) + 1 \in DOMAIN new.connList_
        /\ new.connList_[Len(old.connList_) + 1] = s
    <2>1. Len(old.connList_) + 1 \in 1 .. (Len(old.connList_) + 1)
      BY <1>4
    <2>2. DOMAIN old.connList_ \subseteq DOMAIN Append(old.connList_, s)
      BY <1>4
    <2> QED
      BY <1>3, <1>4, <2>1, <2>2, AppendFacts
  <1>6. Voters(new) = Voters(old) \cup {s}
    BY <1>5 DEF Voters
  <1>7. \A i, j \in DOMAIN new.connList_ :
          new.connList_[i] = new.connList_[j] => i = j
    <2>1. \A i \in DOMAIN old.connList_ : old.connList_[i] # s
      BY <1>1 DEF Voters
    <2>2. \A i, j \in DOMAIN old.connList_ :
            old.connList_[i] = old.connList_[j] => i = j
      BY <1>1 DEF Pending
    <2> QED
      BY <1>5, <2>1, <2>2
  <1>8. Voters(old) \subseteq Participants(m.txid)
    BY <1>1 DEF Pending
  <1>9. /\ Cardinality(Voters(old)) \in Nat
        /\ Cardinality(Voters(new)) = Cardinality(Voters(old)) + 1
    <2>1. IsFiniteSet(Voters(old))
      BY <1>1, <1>8, ParticipantsFinite, FS_Subset DEF IInv
    <2> QED
      BY <2>1, <1>1, <1>6, FS_CardinalityType, FS_AddElement
  <1>10. /\ old.serverNum > 0
         /\ old.serverNum + Cardinality(Voters(old)) = Cardinality(Participants(m.txid))
    BY <1>1 DEF Pending
  <1>11. /\ new.serverNum >= 0
         /\ new.serverNum + Cardinality(Voters(new)) = Cardinality(Participants(m.txid))
    BY <1>3, <1>4, <1>9, <1>10
  <1>12. \A p \in Voters(new) : votes[m.txid][p] # <<>>
    BY <1>1, <1>6, OneNotEmpty DEF Pending
  <1>13. (votes[m.txid][s] = <<TRUE>>) <=> m.isLocalConflict
    BY <1>1, OneTrue
  <1>14. old.isConflict <=> \E p \in Voters(old) : votes[m.txid][p] = <<TRUE>>
    BY <1>1 DEF Pending
  <1>15. new.isConflict <=> \E p \in Voters(new) : votes[m.txid][p] = <<TRUE>>
    BY <1>3, <1>6, <1>13, <1>14
  <1> QED
    BY <1>1, <1>2, <1>6, <1>7, <1>8, <1>11, <1>12, <1>15 DEF new

\* A vote that is not the last one updates the entry of its transaction.
LEMMA InvJudgePending ==
  ASSUME IInv, NEW s \in Server, NEW n \in 1 .. MaxRead, NEW m \in GtmMsg,
         JudgeConflictPending(s, n, m)
  PROVE  IInv'
  <1>0. Read(s, n, m)
    BY DEF JudgeConflictPending
  <1>1. TypeOK /\ TypeOK' /\ up'
    BY TypeNext DEF IInv, Next, OnVote, JudgeConflictPending
  <1>2. PICK t \in Txid, new \in TxidInfo : t = m.txid /\ new = Count(s, m)
    BY <1>0, HeadVote, CountFacts
  <1>3. /\ table_[t] # Null /\ Pending(t, table_[t])
        /\ s \notin Voters(table_[t]) /\ s \in Participants(t)
    BY <1>0, <1>2, HeadVote
  <1>4. /\ votes' = votes /\ told' = told /\ issued' = issued /\ txid_' = txid_
        /\ \A u \in Txid : table_'[u] = IF u = t THEN new ELSE table_[u]
        /\ new.serverNum # 0
    BY <1>1, <1>2 DEF JudgeConflictPending, TypeOK
  <1>5. \A u \in Txid : Participants(u)' = Participants(u) /\ Multi(u)' = Multi(u)
    BY <1>4 DEF Participants, Multi
  <1>6. new # Null
    BY GtmAssumption
  <1>7. /\ Voters(new) = Voters(table_[t]) \cup {s}
        /\ Voters(new) \subseteq Participants(t)
        /\ new.serverNum >= 0
        /\ new.serverNum + Cardinality(Voters(new)) = Cardinality(Participants(t))
        /\ \A i, j \in DOMAIN new.connList_ :
             new.connList_[i] = new.connList_[j] => i = j
        /\ \A p \in Voters(new) : votes[t][p] # <<>>
        /\ new.isConflict <=> \E p \in Voters(new) : votes[t][p] = <<TRUE>>
    BY <1>0, <1>2, CountFacts
  <1>8. Fresh' /\ Quiet' /\ VotesOK'
    <2>1. Fresh' /\ VotesOK'
      BY <1>4, <1>5 DEF IInv, Fresh, VotesOK
    <2>2. Multi(t)
      BY <1>3 DEF Pending
    <2>3. Quiet'
      BY <2>2, <1>4, <1>5 DEF IInv, Quiet
    <2> QED
      BY <2>1, <2>3
  <1>9. InboxDistinct'
    BY <1>0, RestOfInbox
  <1>10. InboxOK'
    <2>1. ASSUME NEW p \in Server, NEW i \in DOMAIN inbox'[p]
          PROVE  LET e == inbox'[p][i]
                 IN  /\ votes'[e.txid][p] = <<e.isLocalConflict>>
                     /\ table_'[e.txid] # Null
                     /\ p \notin Voters(table_'[e.txid])
      <3>1. PICK j \in DOMAIN inbox[p] :
              /\ inbox'[p][i] = inbox[p][j]
              /\ inbox[p][j].txid \in Txid
              /\ p = s => inbox[p][j].txid # t
        BY <1>0, <1>2, <2>1, RestOfInbox
      <3>2. /\ votes[inbox[p][j].txid][p] = <<inbox[p][j].isLocalConflict>>
            /\ table_[inbox[p][j].txid] # Null
            /\ p \notin Voters(table_[inbox[p][j].txid])
        BY DEF IInv, InboxOK
      <3> QED
        BY <3>1, <3>2, <1>4, <1>6, <1>7
    <2> QED
      BY <2>1 DEF InboxOK
  <1>11. PendingOK'
    <2> SUFFICES ASSUME NEW u \in Txid, table_'[u] # Null
                 PROVE  Pending(u, table_[u])'
      BY DEF PendingOK
    <2>1. CASE u = t
      <3>1. new.serverNum > 0
        BY <1>4, <1>7 DEF TxidInfo
      <3>2. Multi(t) /\ \A p \in Server : told[t][p] = <<>>
        BY <1>3 DEF Pending
      <3>3. Pending(t, new)'
        BY <3>1, <3>2, <1>4, <1>5, <1>7 DEF Pending
      <3> QED
        BY <2>1, <3>3, <1>4
    <2>2. CASE u # t
      <3>1. Pending(u, table_[u]) /\ table_'[u] = table_[u]
        BY <2>2, <1>4 DEF IInv, PendingOK
      <3> QED
        BY <3>1, <1>4, <1>5 DEF Pending
    <2> QED
      BY <2>1, <2>2
  <1>12. DecidedOK'
    <2> SUFFICES ASSUME NEW u \in Txid, Multi(u)', table_'[u] = Null
                 PROVE  Decided(u)'
      BY DEF DecidedOK
    <2>1. Decided(u)
      BY <1>4, <1>5, <1>6 DEF IInv, DecidedOK
    <2> QED
      BY <2>1, <1>4, <1>5 DEF Decided, SomeConflictVote
  <1> QED
    BY <1>1, <1>8, <1>9, <1>10, <1>11, <1>12 DEF IInv

\* After the last vote every participant has voted, and the broadcast tells
\* each of them the disjunction, once.
LEMMA LastVote ==
  ASSUME IInv, NEW s \in Server, NEW n \in 1 .. MaxRead, NEW m \in GtmMsg,
         JudgeConflictLast(s, n, m)
  PROVE  /\ Multi(m.txid)
         /\ Participants(m.txid) = Voters(table_[m.txid]) \cup {s}
         /\ \A p \in Server : told[m.txid][p] = <<>>
         /\ \A p \in Participants(m.txid) : votes[m.txid][p] # <<>>
         /\ \A p \in Participants(m.txid) :
              told'[m.txid][p] = <<SomeConflictVote(m.txid)>>
         /\ \A p \in Server \ Participants(m.txid) : told'[m.txid][p] = <<>>
         /\ \A u \in Txid \ {m.txid} : told'[u] = told[u]
  <1>0. Read(s, n, m)
    BY DEF JudgeConflictLast
  <1>1. PICK t \in Txid, new \in TxidInfo : t = m.txid /\ new = Count(s, m)
    BY <1>0, HeadVote, CountFacts
  <1>2. /\ Pending(t, table_[t]) /\ told \in [Txid -> [Server -> Seq(BOOLEAN)]]
    BY <1>0, <1>1, HeadVote DEF IInv, TypeOK
  <1>3. Multi(t) /\ \A p \in Server : told[t][p] = <<>>
    BY <1>2 DEF Pending
  <1>4. /\ Voters(new) = Voters(table_[t]) \cup {s}
        /\ Voters(new) \subseteq Participants(t)
        /\ new.serverNum + Cardinality(Voters(new)) = Cardinality(Participants(t))
        /\ \A i, j \in DOMAIN new.connList_ :
             new.connList_[i] = new.connList_[j] => i = j
        /\ \A p \in Voters(new) : votes[t][p] # <<>>
        /\ new.isConflict <=> \E p \in Voters(new) : votes[t][p] = <<TRUE>>
    BY <1>0, <1>1, CountFacts
  <1>5. Voters(new) = Participants(t)
    <2>1. IsFiniteSet(Participants(t)) /\ IsFiniteSet(Voters(new))
      BY <1>4, ParticipantsFinite, FS_Subset DEF IInv
    <2>2. Cardinality(Voters(new)) \in Nat
      BY <2>1, FS_CardinalityType
    <2>3. Cardinality(Voters(new)) = Cardinality(Participants(t))
      BY <2>2, <1>1, <1>4 DEF JudgeConflictLast
    <2> QED
      BY <2>1, <2>3, <1>4, FS_Subset
  <1>6. new.isConflict = SomeConflictVote(t)
    <2>1. new.isConflict \in BOOLEAN
      BY DEF TxidInfo
    <2> QED
      BY <2>1, <1>4, <1>5 DEF SomeConflictVote
  <1> DEFINE Sends(p) == {i \in DOMAIN new.connList_ : new.connList_[i] = p}
             Copies(k) == [i \in 1 .. k |-> new.isConflict]
  <1>7. told' = Broadcast(t, new)
    BY <1>1 DEF JudgeConflictLast
  <1>8. /\ \A u \in Txid \ {t} : told'[u] = told[u]
        /\ \A p \in Server : told'[t][p] = told[t][p] \o Copies(Cardinality(Sends(p)))
    BY <1>2, <1>7 DEF Broadcast
  <1>9. ASSUME NEW p \in Server
        PROVE  IF p \in Participants(t) THEN told'[t][p] = <<new.isConflict>>
                                        ELSE told'[t][p] = <<>>
    <2>1. CASE p \in Participants(t)
      <3>1. PICK i \in DOMAIN new.connList_ : new.connList_[i] = p
        BY <2>1, <1>5 DEF Voters
      <3>2. Sends(p) = {i}
        BY <3>1, <1>4
      <3>3. Cardinality(Sends(p)) = 1
        BY <3>2, FS_Singleton
      <3>4. told'[t][p] = <<>> \o Copies(1)
        BY <3>3, <1>3, <1>8
      <3>5. Copies(1) = <<new.isConflict>>
        OBVIOUS
      <3> QED
        BY <3>4, <3>5, <2>1
    <2>2. CASE p \notin Participants(t)
      <3>1. Sends(p) = {}
        BY <2>2, <1>5 DEF Voters
      <3>2. Cardinality(Sends(p)) = 0
        BY <3>1, FS_EmptySet
      <3>3. told'[t][p] = <<>> \o Copies(0)
        BY <3>2, <1>3, <1>8
      <3>4. Copies(0) = <<>>
        OBVIOUS
      <3> QED
        BY <3>3, <3>4, <2>2
    <2> QED
      BY <2>1, <2>2
  <1>10. Participants(t) \subseteq Server
    BY ParticipantsFinite DEF IInv
  <1> QED
    BY <1>1, <1>3, <1>4, <1>5, <1>6, <1>8, <1>9, <1>10

\* The last vote decides its transaction and erases the entry.
LEMMA InvJudgeLast ==
  ASSUME IInv, NEW s \in Server, NEW n \in 1 .. MaxRead, NEW m \in GtmMsg,
         JudgeConflictLast(s, n, m)
  PROVE  IInv'
  <1>0. Read(s, n, m)
    BY DEF JudgeConflictLast
  <1>1. TypeOK /\ TypeOK' /\ up'
    BY TypeNext DEF IInv, Next, OnVote, JudgeConflictLast
  <1>2. PICK t \in Txid : t = m.txid
    BY <1>0, HeadVote
  <1>3. /\ votes' = votes /\ issued' = issued /\ txid_' = txid_
        /\ \A u \in Txid : table_'[u] = IF u = t THEN Null ELSE table_[u]
    BY <1>1, <1>2 DEF JudgeConflictLast, TypeOK
  <1>4. /\ Multi(t)
        /\ Participants(t) = Voters(table_[t]) \cup {s}
        /\ \A p \in Participants(t) : votes[t][p] # <<>>
        /\ \A p \in Participants(t) : told'[t][p] = <<SomeConflictVote(t)>>
        /\ \A p \in Server \ Participants(t) : told'[t][p] = <<>>
        /\ \A u \in Txid \ {t} : told'[u] = told[u]
    BY <1>2, LastVote
  <1>5. \A u \in Txid : Participants(u)' = Participants(u) /\ Multi(u)' = Multi(u)
    BY <1>3 DEF Participants, Multi
  <1>6. Fresh' /\ VotesOK'
    BY <1>3, <1>5 DEF IInv, Fresh, VotesOK
  <1>7. Quiet'
    BY <1>3, <1>4, <1>5 DEF IInv, Quiet
  <1>8. InboxDistinct'
    BY <1>0, RestOfInbox
  <1>9. InboxOK'
    <2>1. ASSUME NEW p \in Server, NEW i \in DOMAIN inbox'[p]
          PROVE  LET e == inbox'[p][i]
                 IN  /\ votes'[e.txid][p] = <<e.isLocalConflict>>
                     /\ table_'[e.txid] # Null
                     /\ p \notin Voters(table_'[e.txid])
      <3>1. PICK j \in DOMAIN inbox[p] :
              /\ inbox'[p][i] = inbox[p][j]
              /\ inbox[p][j].txid \in Txid
              /\ p = s => inbox[p][j].txid # t
        BY <1>0, <1>2, <2>1, RestOfInbox
      <3>2. /\ votes[inbox[p][j].txid][p] = <<inbox[p][j].isLocalConflict>>
            /\ table_[inbox[p][j].txid] # Null
            /\ p \notin Voters(table_[inbox[p][j].txid])
        BY DEF IInv, InboxOK
      <3>3. inbox[p][j].txid # t
        <4>1. p \in Participants(inbox[p][j].txid)
          BY <3>1, <3>2, OneNotEmpty DEF IInv, VotesOK
        <4> QED
          BY <4>1, <3>1, <3>2, <1>4
      <3> QED
        BY <3>1, <3>2, <3>3, <1>3
    <2> QED
      BY <2>1 DEF InboxOK
  <1>10. PendingOK'
    <2> SUFFICES ASSUME NEW u \in Txid, table_'[u] # Null
                 PROVE  Pending(u, table_[u])'
      BY DEF PendingOK
    <2>1. u # t /\ table_'[u] = table_[u] /\ Pending(u, table_[u])
      BY <1>3 DEF IInv, PendingOK
    <2> QED
      BY <2>1, <1>3, <1>4, <1>5 DEF Pending
  <1>11. DecidedOK'
    <2> SUFFICES ASSUME NEW u \in Txid, Multi(u)', table_'[u] = Null
                 PROVE  Decided(u)'
      BY DEF DecidedOK
    <2>1. CASE u = t
      <3>1. Participants(t)' = Participants(t)
        BY <1>5
      <3>2. SomeConflictVote(t)' = SomeConflictVote(t)
        BY <3>1, <1>3 DEF SomeConflictVote
      <3>3. Decided(t)'
        BY <3>1, <3>2, <1>3, <1>4 DEF Decided
      <3> QED
        BY <3>3, <2>1
    <2>2. CASE u # t
      <3>1. Decided(u)
        BY <2>2, <1>3, <1>5 DEF IInv, DecidedOK
      <3>2. Participants(u)' = Participants(u)
        BY <1>5
      <3>3. SomeConflictVote(u)' = SomeConflictVote(u)
        BY <3>2, <1>3 DEF SomeConflictVote
      <3> QED
        BY <3>1, <3>2, <3>3, <2>2, <1>3, <1>4 DEF Decided
    <2> QED
      BY <2>1, <2>2
  <1> QED
    BY <1>1, <1>6, <1>7, <1>8, <1>9, <1>10, <1>11 DEF IInv

\* IInv is inductive when each service votes once per transaction.
LEMMA InvNext ==
  ASSUME ConnsPerServer = 1, IInv, [Next]_vars
  PROVE  IInv'
  <1>1. ASSUME NEW type \in TransType, GetTxid(type)
        PROVE  IInv'
    BY <1>1, InvGetTxid
  <1>2. ASSUME NEW s \in Server, NEW t \in Txid, NEW c \in BOOLEAN, SendVote(s, t, c)
        PROVE  IInv'
    BY <1>2, InvSendVote
  <1>3. ASSUME NEW s \in Server, OnVote(s)
        PROVE  IInv'
    <2>1. PICK n \in 1 .. MaxRead, m \in GtmMsg :
            \/ JudgeConflictPending(s, n, m)
            \/ JudgeConflictLast(s, n, m)
            \/ JudgeConflictNull(s, n, m)
      BY <1>3 DEF OnVote
    <2>2. ~JudgeConflictNull(s, n, m)
      BY HeadVote DEF JudgeConflictNull
    <2> QED
      BY <2>1, <2>2, InvJudgePending, InvJudgeLast
  <1>4. CASE UNCHANGED vars
    <2>1. TypeOK' /\ up'
      BY <1>4 DEF IInv, TypeOK, vars
    <2>2. \A u \in Txid : Participants(u)' = Participants(u) /\ Multi(u)' = Multi(u)
      BY <1>4 DEF Participants, Multi, vars
    <2>3. Fresh' /\ Quiet' /\ VotesOK'
      BY <1>4, <2>2 DEF IInv, Fresh, Quiet, VotesOK, vars
    <2>4. InboxOK' /\ InboxDistinct'
      <3>1. inbox' = inbox /\ votes' = votes /\ table_' = table_
        BY <1>4 DEF vars
      <3>2. InboxDistinct'
        BY <3>1 DEF IInv, InboxDistinct
      <3>3. ASSUME NEW p \in Server, NEW i \in DOMAIN inbox'[p]
            PROVE  LET e == inbox'[p][i]
                   IN  /\ votes'[e.txid][p] = <<e.isLocalConflict>>
                       /\ table_'[e.txid] # Null
                       /\ p \notin Voters(table_'[e.txid])
        BY <3>1, <3>3 DEF IInv, InboxOK
      <3> QED
        BY <3>2, <3>3 DEF InboxOK
    <2>5. PendingOK'
      BY <1>4, <2>2 DEF IInv, PendingOK, Pending, vars
    <2>6. DecidedOK'
      BY <1>4, <2>2 DEF IInv, DecidedOK, Decided, SomeConflictVote, vars
    <2> QED
      BY <2>1, <2>3, <2>4, <2>5, <2>6 DEF IInv
  <1> QED
    BY <1>1, <1>2, <1>3, <1>4 DEF Next

----------------------------------------------------------------------------
\* The theorems.

\* IInv holds in every reachable state of a GTM whose applications commit once
\* per service.
THEOREM Invariance ==
  ASSUME ConnsPerServer = 1
  PROVE  Spec => []IInv
  <1>1. Init => IInv
    BY InvInit
  <1>2. IInv /\ [Next]_vars => IInv'
    BY InvNext
  <1> QED
    BY <1>1, <1>2, PTL DEF Spec

\* judgeConflict never dereferences a null txidInfo (gtm.cc:49).
THEOREM NeverNull ==
  ASSUME ConnsPerServer = 1
  PROVE  Spec => []NoNullInfo
  <1>1. IInv => NoNullInfo
    BY DEF IInv, NoNullInfo
  <1> QED
    BY <1>1, Invariance, PTL

\* A verdict is sent only after all votes, and is their disjunction.
THEOREM Soundness ==
  ASSUME ConnsPerServer = 1
  PROVE  Spec => []DecisionSound
  <1>1. ASSUME IInv
        PROVE  DecisionSound
    <2> SUFFICES ASSUME NEW t \in Txid, NEW s \in Server, NEW i \in DOMAIN told[t][s]
                 PROVE  /\ \A p \in Participants(t) : votes[t][p] # <<>>
                        /\ told[t][s][i] <=>
                             \E p \in Participants(t) :
                               \E j \in DOMAIN votes[t][p] : votes[t][p][j]
      BY DEF DecisionSound
    <2>1. told[t][s] # <<>>
      OBVIOUS
    <2>2. Decided(t)
      BY <1>1, <2>1 DEF IInv, Quiet, PendingOK, Pending, DecidedOK
    <2>3. told[t][s] = <<SomeConflictVote(t)>>
      BY <2>1, <2>2 DEF Decided
    <2>4. told[t][s][i] = SomeConflictVote(t)
      BY <2>3
    <2>5. ASSUME NEW p \in Participants(t)
          PROVE  votes[t][p] = <<TRUE>> <=>
                   \E j \in DOMAIN votes[t][p] : votes[t][p][j]
      <3>1. votes[t][p] = <<TRUE>> \/ votes[t][p] = <<FALSE>>
        BY <1>1, <2>2, ParticipantsFinite DEF IInv, VotesOK, Decided
      <3>2. <<TRUE>>[1] = TRUE /\ <<FALSE>>[1] = FALSE
            /\ DOMAIN <<TRUE>> = {1} /\ DOMAIN <<FALSE>> = {1}
        OBVIOUS
      <3>3. <<FALSE>> # <<TRUE>>
        BY OneTrue
      <3> QED
        BY <3>1, <3>2, <3>3
    <2> QED
      BY <2>2, <2>4, <2>5 DEF Decided, SomeConflictVote
  <1> QED
    BY <1>1, Invariance, PTL

\* All services of a decided transaction hear its verdict, each once.
THEOREM OnceAndAll ==
  ASSUME ConnsPerServer = 1
  PROVE  Spec => []ToldOnceAndAll
  <1>1. ASSUME IInv
        PROVE  ToldOnceAndAll
    <2> SUFFICES ASSUME NEW t \in Txid, ~ \A s \in Server : told[t][s] = <<>>
                 PROVE  \A s \in Server :
                          Len(told[t][s]) = IF s \in Participants(t) THEN 1 ELSE 0
      BY DEF ToldOnceAndAll
    <2>1. Decided(t)
      BY <1>1 DEF IInv, Quiet, PendingOK, Pending, DecidedOK
    <2>2. Len(<<SomeConflictVote(t)>>) = 1 /\ Len(<<>>) = 0
      OBVIOUS
    <2> QED
      BY <2>1, <2>2, ParticipantsFinite DEF Decided
  <1> QED
    BY <1>1, Invariance, PTL

\* The services of transaction t as the one-verdict specification sees them.
Members(t) == IF Cardinality(Participants(t)) > 1 THEN Participants(t) ELSE {}

\* The GTM implements the one-verdict specification: handing out an id starts
\* a transaction, a DBTM's verdict is its vote, the last judgement announces.
THEOREM Refinement ==
  ASSUME ConnsPerServer = 1
  PROVE  Spec => ImplementsDecision
  <1> DEFINE M == [t \in Txid |-> Members(t)]
  <1>1. ASSUME Init
        PROVE  Decision!AbsInit
    <2>1. \A t \in Txid : Participants(t) = {}
      BY <1>1 DEF Init, Participants
    <2> QED
      BY <1>1, <2>1 DEF Init, Decision!AbsInit
  <1>2. ASSUME IInv, [Next]_vars
        PROVE  [Decision!AbsNext]_(Decision!absVars)
    <2>0. IInv'
      BY <1>2, InvNext
    <2>1. ASSUME NEW type \in TransType, GetTxid(type)
          PROVE  Decision!AbsNext \/ UNCHANGED Decision!absVars
      <3>1. PICK t \in Txid : t = txid_
        BY <1>2, <2>1, GtmAssumption DEF IInv, TypeOK, GetTxid, Txid
      <3>2. /\ issued[t] = Null
            /\ \A u \in Txid \ {t} : issued'[u] = issued[u]
            /\ votes' = votes /\ told' = told
        BY <1>2, <2>1, <3>1 DEF IInv, Fresh, TypeOK, GetTxid, Txid
      <3>3. /\ M[t] = {}
            /\ \A u \in Txid \ {t} : M'[u] = M[u]
        BY <3>2, FS_EmptySet DEF Members, Participants
      <3>4. M' = [M EXCEPT ![t] = Members(t)']
        BY <3>3
      <3>5. Members(t)' \in SUBSET Server
        BY <2>0, GtmAssumption DEF IInv, TypeOK, Members, Participants
      <3>6. Decision!Start(t, Members(t)')
        BY <3>2, <3>3, <3>4 DEF Decision!Start, Members
      <3> QED
        BY <3>5, <3>6 DEF Decision!AbsNext
    <2>2. ASSUME NEW s \in Server, NEW t \in Txid, NEW c \in BOOLEAN,
                 SendVote(s, t, c)
          PROVE  Decision!AbsNext \/ UNCHANGED Decision!absVars
      <3>1. issued' = issued /\ told' = told
        BY <2>2 DEF SendVote
      <3>2. M' = M
        BY <3>1 DEF Members, Participants
      <3>3. votes[t][s] = <<>> /\ s \in Participants(t)
        BY <1>2, <2>2 DEF IInv, VotesOK, SendVote
      <3>4. votes' = [votes EXCEPT ![t][s] = <<c>>]
        BY <1>2, <2>2, <3>3 DEF SendVote, IInv, TypeOK
      <3>5. M[t] = Participants(t)
        BY <1>2, <2>2, VotersAreSeveral DEF IInv, Members, Multi
      <3>6. Decision!Cast(s, t, c)
        BY <3>1, <3>2, <3>3, <3>4, <3>5 DEF Decision!Cast, Members
      <3> QED
        BY <3>6 DEF Decision!AbsNext
    <2>3. ASSUME NEW s \in Server, NEW n \in 1 .. MaxRead, NEW m \in GtmMsg,
                 JudgeConflictLast(s, n, m)
          PROVE  Decision!AbsNext \/ UNCHANGED Decision!absVars
      <3>1. PICK t \in Txid : t = m.txid
        BY DEF GtmMsg
      <3>2. issued' = issued /\ votes' = votes
        BY <2>3 DEF JudgeConflictLast
      <3>3. M' = M
        BY <3>2 DEF Members, Participants
      <3>4. /\ Multi(t)
            /\ \A p \in Server : told[t][p] = <<>>
            /\ \A p \in Participants(t) : votes[t][p] # <<>>
            /\ \A p \in Participants(t) : told'[t][p] = <<SomeConflictVote(t)>>
            /\ \A p \in Server \ Participants(t) : told'[t][p] = <<>>
            /\ \A u \in Txid \ {t} : told'[u] = told[u]
        <4> HIDE DEF M
        <4>0. IInv
          BY <1>2
        <4>1. /\ Multi(m.txid)
              /\ Participants(m.txid) = Voters(table_[m.txid]) \cup {s}
              /\ \A p \in Server : told[m.txid][p] = <<>>
              /\ \A p \in Participants(m.txid) : votes[m.txid][p] # <<>>
              /\ \A p \in Participants(m.txid) :
                   told'[m.txid][p] = <<SomeConflictVote(m.txid)>>
              /\ \A p \in Server \ Participants(m.txid) : told'[m.txid][p] = <<>>
              /\ \A u \in Txid \ {m.txid} : told'[u] = told[u]
          BY <4>0, <2>3, LastVote, Zenon
        <4> QED
          BY <4>1, <3>1
      <3>5. M[t] = Participants(t)
        BY <3>4 DEF Members, Multi
      <3>6. M[t] # {}
        <4>1. Participants(t) # {}
          <5>1. Cardinality(Participants(t)) > 1 /\ Cardinality({}) = 0
            BY <3>4, FS_EmptySet DEF Multi
          <5> QED
            BY <5>1
        <4> QED
          BY <4>1, <3>5
      <3>7. Decision!SomeConflict(t) = SomeConflictVote(t)
        BY <3>5 DEF Decision!SomeConflict, SomeConflictVote, Members
      <3>8. told' = [told EXCEPT ![t] =
                       [p \in Server |-> IF p \in M[t] THEN <<SomeConflictVote(t)>>
                                                       ELSE <<>>]]
        <4>1. told \in [Txid -> [Server -> Seq(BOOLEAN)]]
              /\ told' \in [Txid -> [Server -> Seq(BOOLEAN)]]
          BY <1>2, <2>0 DEF IInv, TypeOK
        <4> HIDE DEF M
        <4>2. told'[t] = [p \in Server |-> IF p \in M[t] THEN <<SomeConflictVote(t)>>
                                                         ELSE <<>>]
          <5>1. \A p \in Server : told'[t][p] = IF p \in M[t]
                                  THEN <<SomeConflictVote(t)>> ELSE <<>>
            BY <3>4, <3>5
          <5>2. told'[t] \in [Server -> Seq(BOOLEAN)]
            BY <4>1
          <5> QED
            BY <5>1, <5>2
        <4> QED
          BY <4>1, <4>2, <3>4
      <3>9. Decision!Complete(t)
        BY <3>4, <3>5, <3>6 DEF Decision!Complete, Members
      <3>10. Decision!Announce(t)
        BY <3>2, <3>3, <3>4, <3>7, <3>8, <3>9 DEF Decision!Announce, Members
      <3> QED
        BY <3>10 DEF Decision!AbsNext
    <2>4. CASE issued' = issued /\ votes' = votes /\ told' = told
      BY <2>4 DEF Decision!absVars, Participants
    <2>5. CASE Next
      BY <2>1, <2>2, <2>3, <2>4, <2>5
        DEF Next, OnVote, JudgeConflictPending, JudgeConflictNull
    <2>6. CASE UNCHANGED vars
      BY <2>4, <2>6 DEF vars
    <2> QED
      BY <1>2, <2>5, <2>6
  <1> QED
    BY <1>1, <1>2, Invariance, PTL DEF Spec, ImplementsDecision, Decision!AbsSpec
============================================================================
