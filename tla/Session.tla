------------------------------ MODULE Session ------------------------------
(***************************************************************************)
(* An application, the GTM that hands out its transaction ids and the      *)
(* entity services it commits through.  A program calls startTran, add and *)
(* commit in this order, once or several times.  A patient one waits for   *)
(* the connection to the GTM before startTran, and for the id and all      *)
(* connections of the transaction before add and commit; an impatient one, *)
(* like appmain, does not.                                                 *)
(*                                                                         *)
(* Of the GTM this module takes getTxid; the verdicts are Gtm's subject.   *)
(* Messages carry the number n of the transaction they were sent in, which *)
(* the code does not see.                                                  *)
(***************************************************************************)
EXTENDS Integers, Sequences, FiniteSets, SequencesExt

CONSTANTS
  TransType, Server, transInfo_,  \* as in Gtm
  Verb,      \* first words of the statements the program adds
  MaxTran,   \* bound: transactions of the application
  MaxAdd,    \* bound: statements in each
  MaxRead,   \* bound: messages one socket read may return
  MaxMishap, \* bound: mishaps, see below
  Null

Garbage == -1

VARIABLES
  gtmConn_, txid_, connList_, conns, toGtm, toApp, status,  \* App
  esTable_, dbsConn_, toDbs, esStatus,                      \* EntityService
  nextTxid_, gtmTable_,                                     \* Gtm
  tran,      \* the program's transaction: number, whether open, statements
  typeOf,    \* history: the type of each transaction
  idOf,      \* history: the id the GTM issued for each
  mishaps    \* history: "impatient" the program does not wait, "down" a connection
             \* was lost, "dropped" a read dropped a message, "verb" a statement
             \* began with a word add does not know

A == INSTANCE App
E == INSTANCE EntityService WITH table_ <- esTable_
G == INSTANCE Gtm WITH
       txid_ <- nextTxid_, table_ <- gtmTable_, MaxTxid <- MaxTran, ConnsPerServer <- 1,
       issued <- <<>>, votes <- <<>>, inbox <- <<>>, told <- <<>>, up <- TRUE

appVars == <<gtmConn_, txid_, connList_, conns, toGtm, toApp, status>>
esVars == <<esTable_, dbsConn_, toDbs, esStatus>>
gtmVars == <<nextTxid_, gtmTable_>>
progVars == <<tran, typeOf, idOf>>
vars == <<appVars, esVars, gtmVars, progVars, mishaps>>

Init ==
  /\ A!Init(Garbage)
  /\ E!Init
  /\ nextTxid_ = 0
  /\ gtmTable_ = [t \in G!Txid |-> Null]
  /\ tran = [n |-> 0, open |-> FALSE, adds |-> 0]
  /\ typeOf = [n \in 1 .. MaxTran |-> Null]
  /\ idOf = [n \in 1 .. MaxTran |-> Null]
  /\ mishaps \in {<<>>, <<"impatient">>}

Happened(what) == what \in ToSet(mishaps)

Note(happened, what) == IF happened THEN Append(mishaps, what) ELSE mishaps

----------------------------------------------------------------------------
\* The program.

Services(n) == IF typeOf[n] = Null THEN {} ELSE transInfo_[typeOf[n]]

\* The id of the open transaction is there and its connections are made.
Ready ==
  /\ idOf[tran.n] # Null
  /\ toApp = <<>>
  /\ \A c \in DOMAIN conns : conns[c].state # "connecting"

StartTran(type) ==
  /\ ~tran.open
  /\ tran.n < MaxTran
  /\ Happened("impatient") \/ gtmConn_ # "null"
  /\ A!StartTran([type |-> type, n |-> tran.n + 1])
  /\ tran' = [n |-> tran.n + 1, open |-> TRUE, adds |-> 0]
  /\ typeOf' = [typeOf EXCEPT ![tran.n + 1] = type]
  /\ UNCHANGED <<esVars, gtmVars, idOf, mishaps>>

Add(verb, isNumber) ==
  /\ tran.open
  /\ tran.adds < MaxAdd
  /\ Happened("impatient") \/ Ready
  /\ A!Add(verb, isNumber, tran.n)
  /\ tran' = [tran EXCEPT !.adds = @ + 1]
  /\ mishaps' = Note(Cardinality(A!CmdOf(verb)) > 1, "verb")
  /\ UNCHANGED <<esVars, gtmVars, typeOf, idOf>>

Commit ==
  /\ tran.open
  /\ Happened("impatient") \/ Ready
  /\ A!Commit(tran.n)
  /\ tran' = [tran EXCEPT !.open = FALSE]
  /\ UNCHANGED <<esVars, gtmVars, typeOf, idOf, mishaps>>

----------------------------------------------------------------------------
\* The event loops.

\* The GTM reads n requests of the application and answers the first.  Only an
\* impatient program has a second request, or a second reply, on its way.
GetTxid(n) ==
  LET type == toGtm[1].type
  IN  /\ n <= Len(toGtm)
      /\ gtmTable_' = G!TableAfterGetTxid(type)
      /\ nextTxid_' = nextTxid_ + 1
      /\ toGtm' = SubSeq(toGtm, n + 1, Len(toGtm))
      /\ toApp' = Append(toApp, [txid |-> nextTxid_, list |-> transInfo_[type]])
      /\ idOf' = [idOf EXCEPT ![toGtm[1].n] = nextTxid_]
      /\ UNCHANGED <<gtmConn_, txid_, connList_, conns, status, esVars, tran, typeOf,
                     mishaps>>

AppOnMessage(n) ==
  /\ A!OnMessage(n)
  /\ UNCHANGED <<esVars, gtmVars, progVars, mishaps>>

AppOnConnection ==
  /\ \/ A!OnGtmConnection /\ mishaps' = Note(gtmConn_ = "up", "down")
     \/ \E c \in DOMAIN conns : A!OnESConnection(c) /\ UNCHANGED mishaps
     \/ \E c \in DOMAIN conns : A!OnESDisconnection(c) /\ mishaps' = Note(TRUE, "down")
  /\ UNCHANGED <<esVars, gtmVars, progVars>>

\* Service s reads n messages on connection c and looks at the first.
EsOnMessage(s, c, n) ==
  /\ conns[c].server = s
  /\ n <= Len(conns[c].out)
  /\ E!OnMessage(s, conns[c].out[1])
  /\ conns' = [conns EXCEPT ![c].out = SubSeq(@, n + 1, Len(@))]
  /\ mishaps' = Note(n > 1, "dropped")
  /\ UNCHANGED <<gtmConn_, txid_, connList_, toGtm, toApp, status, gtmVars, progVars>>

EsOnDbsConnection(s) ==
  /\ E!OnDbsConnection(s)
  /\ mishaps' = Note(dbsConn_[s] = "up", "down")
  /\ UNCHANGED <<appVars, gtmVars, progVars>>

Next ==
  /\ \/ \E type \in TransType : StartTran(type)
     \/ \E verb \in Verb, isNumber \in BOOLEAN : Add(verb, isNumber)
     \/ Commit
     \/ \E n \in 1 .. MaxRead : GetTxid(n) \/ AppOnMessage(n)
     \/ AppOnConnection
     \/ \E s \in Server, c \in DOMAIN conns, n \in 1 .. MaxRead : EsOnMessage(s, c, n)
     \/ \E s \in Server : EsOnDbsConnection(s)
  /\ status = "up"
  /\ Len(mishaps') <= MaxMishap

Spec == Init /\ [][Next]_vars

\* A service's event loop goes on as long as one of its connections is readable.
FairSpec ==
  /\ Spec
  /\ \A s \in Server :
       WF_vars(\E c \in DOMAIN conns, n \in 1 .. MaxRead : EsOnMessage(s, c, n))

----------------------------------------------------------------------------

\* The number of transactions up to n that service s took part in: connList_ has
\* gained one connection to it in each.
Uses(s, n) == Cardinality({k \in 1 .. n : s \in Services(k)})

\* App::commit and GTM::getTxid agree on which transactions are judged globally.
\* For a patient program, a commit that does without the judgement is about a
\* transaction the GTM keeps no entry for (or the GTM would wait for ever), and
\* in the first transaction, as long as no connection is lost, a commit that asks
\* for it is about one that has an entry (or the vote would find null).
JudgementAgreed ==
  ~Happened("impatient") /\ ~Happened("verb") =>
    \A s \in Server : \A i \in DOMAIN toDbs[s] :
      LET m == toDbs[s][i]
      IN  m.cmd = "kCommit" =>
            /\ ~m.needGlobal => gtmTable_[m.txid] = Null
            /\ m.needGlobal /\ m.n = 1 /\ ~Happened("down") =>
                 gtmTable_[m.txid] # Null

\* What a patient program sends in a transaction reaches the DB services under
\* the id the GTM issued for it, never under an earlier one left in txid_.
OwnTxid ==
  ~Happened("impatient") =>
    \A s \in Server : \A i \in DOMAIN toDbs[s] : toDbs[s][i].txid = idOf[toDbs[s][i].n]

\* However often the program commits and whatever the services read or lose, a
\* DB service gets at most one commit of a transaction for each transaction so
\* far that involved it (the ConnsPerServer of Gtm and DbService).
CommitsPerUse ==
  ~Happened("verb") =>
    \A s \in Server, n \in 1 .. tran.n :
      Cardinality({i \in DOMAIN toDbs[s] :
                     toDbs[s][i].cmd = "kCommit" /\ toDbs[s][i].n = n}) <= Uses(s, n)

\* Data reaches a DB service after the commit of its transaction only if the
\* service was used before: then the commit comes on a second connection, which
\* may be read before the first.
DataBeforeCommit ==
  ~Happened("verb") =>
    \A s \in Server : \A i, j \in DOMAIN toDbs[s] :
      LET m == toDbs[s][i]
      IN  /\ i < j /\ m.cmd = "kCommit"
          /\ toDbs[s][j].cmd = "kData" /\ toDbs[s][j].n = m.n
          => Uses(s, m.n) > 1

\* The commit of a patient program reaches the DB service of every service of
\* the transaction, unless a message or connection is lost or a process dies.
CommitArrives ==
  \A n \in 1 .. MaxTran :
    (tran.n = n /\ ~tran.open) ~>
      \/ \A s \in Services(n) :
           \E i \in DOMAIN toDbs[s] : toDbs[s][i].cmd = "kCommit" /\ toDbs[s][i].n = n
      \/ mishaps # <<>>
      \/ status # "up"
      \/ \E s \in Server : esStatus[s] # "up"
============================================================================
