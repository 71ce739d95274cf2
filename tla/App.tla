-------------------------------- MODULE App --------------------------------
(***************************************************************************)
(* The application client (transaction/app).  One event loop runs the      *)
(* callbacks and the calls of the program that uses the App, each in one   *)
(* step.  A connection to an entity service is a record of its peer, its   *)
(* state and what was sent on it and not read yet; its number is its       *)
(* identity.                                                               *)
(***************************************************************************)
EXTENDS Integers, Sequences, FiniteSets, SequencesExt

VARIABLES
  gtmConn_,  \* "null", "up" or "down"
  txid_,     \* the id of the last kTxid; indeterminate before the first
  connList_, \* the connections onESConnection was called for
  conns,     \* every connection to an entity service
  toGtm,     \* requests on their way to the GTM
  toApp,     \* kTxid replies on their way back
  status     \* "up", or what the process died of

kCommit == "kCommit"
DataCmd == {"kAdd", "kDelete", "kChange", "kSearch"}

\* The constructor leaves txid_ alone.
Init(garbage) ==
  /\ gtmConn_ = "null"
  /\ txid_ = garbage
  /\ connList_ = <<>>
  /\ conns = <<>>
  /\ toGtm = <<>>
  /\ toApp = <<>>
  /\ status = "up"

\* Variant: a message overtakes what was not read yet.
SendOvertaking(cs, c, msg) ==
  IF cs[c].state = "up" THEN [cs EXCEPT ![c].out = <<msg>> \o @] ELSE cs

\* send on a connection: lost unless it is up.
Send(cs, c, msg) ==
  IF cs[c].state = "up" THEN [cs EXCEPT ![c].out = Append(@, msg)] ELSE cs

\* The connection to the GTM comes up, and may go down for good.
OnGtmConnection ==
  /\ gtmConn_ # "down"
  /\ gtmConn_' = IF gtmConn_ = "null" THEN "up" ELSE "down"
  /\ UNCHANGED <<txid_, connList_, conns, toGtm, toApp, status>>

\* startTran asks the GTM for an id.  Before the connection is up gtmConn_ is
\* null and is dereferenced.
StartTran(request) ==
  /\ toGtm' = IF gtmConn_ = "up" THEN Append(toGtm, request) ELSE toGtm
  /\ status' = IF gtmConn_ = "null" THEN "nullGtmConn" ELSE status
  /\ UNCHANGED <<gtmConn_, txid_, connList_, conns, toApp>>

\* connect2ES starts a connection to each service of the list.
Connect2ES(list) ==
  [i \in 1 .. Cardinality(list) |->
     [server |-> SetToSeq(list)[i], state |-> "connecting", out |-> <<>>]]

\* Variant: only the first id is stored.
StoredTxidFirst(m) == IF conns = <<>> THEN m.txid ELSE txid_

StoredTxid(m) == m.txid

\* onMessage takes all the read returned, and looks at the first message only.
OnMessage(n) ==
  /\ gtmConn_ = "up"
  /\ n <= Len(toApp)
  /\ toApp' = SubSeq(toApp, n + 1, Len(toApp))
  /\ txid_' = StoredTxid(toApp[1])
  /\ conns' = conns \o Connect2ES(toApp[1].list)
  /\ UNCHANGED <<gtmConn_, connList_, toGtm, status>>

\* onESConnection appends the connection when it comes up ...
OnESConnection(c) ==
  /\ conns[c].state = "connecting"
  /\ conns' = [conns EXCEPT ![c].state = "up"]
  /\ connList_' = Append(connList_, c)
  /\ UNCHANGED <<gtmConn_, txid_, toGtm, toApp, status>>

\* ... and again when it goes down, with what the peer had not read.
OnESDisconnection(c) ==
  /\ conns[c].state = "up"
  /\ conns' = [conns EXCEPT ![c].state = "down", ![c].out = <<>>]
  /\ connList_' = Append(connList_, c)
  /\ UNCHANGED <<gtmConn_, txid_, toGtm, toApp, status>>

\* add's cmd: each verb has one; for any other word cmd stays uninitialised.
CmdOf(verb) ==
  CASE verb = "add"    -> {"kAdd"}
    [] verb = "delete" -> {"kDelete"}
    [] verb = "Change" -> {"kChange"}
    [] verb = "Search" -> {"kSearch"}
    [] OTHER           -> DataCmd \cup {kCommit, "other"}

\* add: the statement goes to the front of connList_.  stoi throws unless the
\* second word is a number, and front() of an empty list is undefined.
Add(verb, isNumber, n) ==
  /\ \E cmd \in CmdOf(verb) :
       LET msg == [cmd |-> cmd, txid |-> txid_, needGlobal |-> FALSE,
                   hasAttr |-> cmd \in {"kAdd", "kChange"}, n |-> n]
       IN  conns' = IF isNumber /\ connList_ # <<>> THEN Send(conns, connList_[1], msg)
                                                   ELSE conns
  /\ status' = IF ~isNumber THEN "invalidArgument"
               ELSE IF connList_ = <<>> THEN "emptyList" ELSE status
  /\ UNCHANGED <<gtmConn_, txid_, connList_, toGtm, toApp>>

\* Variant: two connections pass for one.
NeedGlobalOffByOne == Len(connList_) > 2

NeedGlobal == Len(connList_) # 1

\* Variant: the commit follows the data, to the front only.
CommitTargetsFront == IF connList_ = <<>> THEN <<>> ELSE <<connList_[1]>>

CommitTargets == connList_

\* commit: one message on each entry of connList_.
Commit(n) ==
  LET msg == [cmd |-> kCommit, txid |-> txid_, needGlobal |-> NeedGlobal,
              hasAttr |-> FALSE, n |-> n]
  IN  /\ conns' = FoldLeft(LAMBDA cs, c : Send(cs, c, msg), conns, CommitTargets)
      /\ UNCHANGED <<gtmConn_, txid_, connList_, toGtm, toApp, status>>
============================================================================
