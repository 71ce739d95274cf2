--------------------------- MODULE GtmReuseProofs ---------------------------
(***************************************************************************)
(* What the GTM promises to every application, one that reuses its         *)
(* connections and makes services vote several times included              *)
(* (ConnsPerServer is any number): verdicts never differ and are never     *)
(* revised.  The argument is that a transaction is silent while it has an  *)
(* entry in table_, and the one step that speaks erases the entry.         *)
(***************************************************************************)
EXTENDS GtmProofs

\* Nobody has been told anything about a transaction that is not handed out yet
\* or still has its entry.
Silent ==
  \A t \in Txid : issued[t] = Null \/ table_[t] # Null =>
    \A s \in Server : told[t][s] = <<>>

\* Only a transaction that is handed out has an entry.
Entered == \A t \in Txid : table_[t] # Null => issued[t] # Null

RInv == TypeOK /\ Fresh /\ Entered /\ Silent /\ Agreement

\* The broadcast of a transaction nobody has heard of tells every service the
\* same verdict, and leaves other transactions alone.
LEMMA FirstBroadcast ==
  ASSUME TypeOK, NEW t \in Txid, NEW info \in TxidInfo,
         \A s \in Server : told[t][s] = <<>>
  PROVE  /\ \A s \in Server : \A i \in DOMAIN Broadcast(t, info)[t][s] :
              Broadcast(t, info)[t][s][i] = info.isConflict
         /\ \A u \in Txid \ {t} : Broadcast(t, info)[u] = told[u]
  <1>1. ASSUME NEW s \in Server
        PROVE  \A i \in DOMAIN Broadcast(t, info)[t][s] :
                 Broadcast(t, info)[t][s][i] = info.isConflict
    <2> DEFINE n == Cardinality({i \in DOMAIN info.connList_ : info.connList_[i] = s})
               copies == [i \in 1 .. n |-> info.isConflict]
    <2>1. n \in Nat
      BY SendsFinite
    <2>2. copies \in Seq({info.isConflict})
      BY <2>1, CopiesType
    <2>3. Broadcast(t, info)[t][s] = <<>> \o copies
      BY DEF Broadcast, TypeOK
    <2> HIDE DEF copies
    <2>4. <<>> \o copies = copies
      BY <2>2
    <2> QED
      BY <2>2, <2>3, <2>4
  <1>2. \A u \in Txid \ {t} : Broadcast(t, info)[u] = told[u]
    BY DEF Broadcast, TypeOK
  <1> QED
    BY <1>1, <1>2

\* A step that tells anybody anything is the last vote of a transaction that is
\* still silent, and is about that transaction only.
LEMMA TellingStep ==
  ASSUME RInv, Next, told' # told
  PROVE  \E t \in Txid, c \in BOOLEAN :
           /\ table_[t] # Null
           /\ table_' = [table_ EXCEPT ![t] = Null]
           /\ UNCHANGED <<txid_, issued>>
           /\ \A s \in Server : told[t][s] = <<>>
           /\ \A s \in Server : \A i \in DOMAIN told'[t][s] : told'[t][s][i] = c
           /\ \A u \in Txid \ {t} : told'[u] = told[u]
  <1>1. PICK s \in Server, n \in 1 .. MaxRead, m \in GtmMsg :
          JudgeConflictLast(s, n, m)
    BY DEF Next, GetTxid, SendVote, OnVote, JudgeConflictPending, JudgeConflictNull
  <1>2. m.txid \in Txid
    BY DEF GtmMsg
  <1>3. table_[m.txid] # Null /\ table_[m.txid] \in TxidInfo
    BY <1>1, <1>2 DEF JudgeConflictLast, RInv, TypeOK
  <1>4. Count(s, m) \in TxidInfo /\ Count(s, m).isConflict \in BOOLEAN
    BY <1>3, CountType DEF TxidInfo
  <1>5. \A p \in Server : told[m.txid][p] = <<>>
    BY <1>2, <1>3 DEF RInv, Silent
  <1>6. told' = Broadcast(m.txid, Count(s, m))
    BY <1>1 DEF JudgeConflictLast
  <1>7. /\ \A p \in Server : \A i \in DOMAIN told'[m.txid][p] :
             told'[m.txid][p][i] = Count(s, m).isConflict
        /\ \A u \in Txid \ {m.txid} : told'[u] = told[u]
    BY <1>2, <1>4, <1>5, <1>6, FirstBroadcast DEF RInv
  <1>8. /\ table_' = [table_ EXCEPT ![m.txid] = Null]
        /\ UNCHANGED <<txid_, issued>>
    BY <1>1 DEF JudgeConflictLast
  <1> QED
    BY <1>2, <1>3, <1>4, <1>5, <1>7, <1>8

\* Every step keeps the invariant.
LEMMA RInvNext == RInv /\ [Next]_vars => RInv'
  <1> SUFFICES ASSUME RInv, [Next]_vars PROVE RInv'
    OBVIOUS
  <1>1. TypeOK'
    BY TypeNext DEF RInv
  <1>2. CASE UNCHANGED vars
    BY <1>1, <1>2 DEF vars, RInv, Fresh, Entered, Silent, Agreement
  <1>3. CASE Next /\ told' = told
    <2>1. Agreement'
      BY <1>3 DEF RInv, Agreement
    <2>2. CASE \E type \in TransType : GetTxid(type)
      <3>1. PICK type \in TransType : GetTxid(type)
        BY <2>2
      <3>2. txid_ \in Txid /\ issued[txid_] = Null
        BY <3>1, GtmAssumption DEF GetTxid, RInv, TypeOK, Fresh, Txid
      <3>3. \A t \in Txid \ {txid_} : table_'[t] = table_[t] /\ issued'[t] = issued[t]
        BY <3>1 DEF GetTxid, TableAfterGetTxid, RInv, TypeOK
      <3>4. Fresh'
        BY <3>1, <3>2, <3>3 DEF GetTxid, RInv, TypeOK, Fresh, Txid
      <3>5. Silent'
        BY <1>3, <3>2, <3>3 DEF RInv, Silent
      <3>6. issued'[txid_] # Null
        BY <3>1, <3>2, GtmAssumption DEF GetTxid, RInv, TypeOK
      <3>7. Entered'
        BY <3>3, <3>6 DEF RInv, Entered
      <3> QED
        BY <1>1, <2>1, <3>4, <3>5, <3>7 DEF RInv
    <2>3. CASE ~ \E type \in TransType : GetTxid(type)
      <3>1. /\ UNCHANGED <<txid_, issued>>
            /\ \A t \in Txid : table_'[t] # Null => table_[t] # Null
        BY <1>3, <2>3 DEF Next, SendVote, OnVote, JudgeConflictPending,
                          JudgeConflictLast, JudgeConflictNull, RInv, TypeOK, GtmMsg
      <3> QED
        BY <1>1, <1>3, <2>1, <3>1 DEF RInv, Fresh, Entered, Silent
    <2> QED
      BY <2>2, <2>3
  <1>4. CASE Next /\ told' # told
    <2>1. PICK t \in Txid, c \in BOOLEAN :
           /\ table_[t] # Null
           /\ table_' = [table_ EXCEPT ![t] = Null]
           /\ UNCHANGED <<txid_, issued>>
           /\ \A s \in Server : told[t][s] = <<>>
           /\ \A s \in Server : \A i \in DOMAIN told'[t][s] : told'[t][s][i] = c
           /\ \A u \in Txid \ {t} : told'[u] = told[u]
      BY <1>4, TellingStep
    <2>2. Fresh'
      BY <2>1 DEF RInv, Fresh
    <2>3. table_'[t] = Null /\ \A u \in Txid \ {t} : table_'[u] = table_[u]
      BY <2>1 DEF RInv, TypeOK
    <2>4. issued[t] # Null
      BY <2>1 DEF RInv, Entered
    <2>5. Silent' /\ Entered'
      BY <2>1, <2>3, <2>4 DEF RInv, Silent, Entered
    <2>6. Agreement'
      BY <2>1 DEF RInv, Agreement
    <2> QED
      BY <1>1, <2>2, <2>5, <2>6 DEF RInv
  <1> QED
    BY <1>2, <1>3, <1>4

\* Initially nothing is handed out and nobody has been told anything.
LEMMA RInvInit == Init => RInv
  <1> SUFFICES ASSUME Init PROVE RInv
    OBVIOUS
  <1>1. \A t \in Txid, s \in Server : told[t][s] = <<>> /\ DOMAIN told[t][s] = {}
    BY DEF Init
  <1> QED
    BY <1>1, TypeInit DEF Init, RInv, Fresh, Entered, Silent, Agreement

\* No two verdicts on a transaction differ, whatever makes services vote twice.
THEOREM VerdictsAgree == Spec => []Agreement
  <1>1. RInv => Agreement
    BY DEF RInv
  <1> QED
    BY <1>1, RInvInit, RInvNext, PTL DEF Spec

\* judgeConflict never revises a verdict, and a step decides one transaction.
THEOREM Finality == Spec => VerdictsAreFinal
  <1> DEFINE Final == \A t, u \in Txid :
                        told'[t] # told[t] =>
                          /\ \A s \in Server : told[t][s] = <<>>
                          /\ told'[u] # told[u] => u = t
  <1>1. ASSUME RInv, [Next]_vars
        PROVE  [Final]_vars
    <2>1. CASE told' = told
      BY <2>1
    <2>2. CASE told' # told
      <3>1. Next
        BY <1>1, <2>2 DEF vars
      <3>2. PICK t \in Txid :
              /\ \A s \in Server : told[t][s] = <<>>
              /\ \A u \in Txid \ {t} : told'[u] = told[u]
        BY <1>1, <2>2, <3>1, TellingStep
      <3> QED
        BY <3>2
    <2> QED
      BY <2>1, <2>2
  <1> QED
    BY <1>1, RInvInit, RInvNext, PTL DEF Spec, VerdictsAreFinal
============================================================================
