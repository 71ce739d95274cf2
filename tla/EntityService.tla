--------------------------- MODULE EntityService ---------------------------
(***************************************************************************)
(* The entity services (transaction/entity_service), one in front of each  *)
(* DB service.  They turn the application's statements into read and write *)
(* sets and pass its commits on.  Nothing in the repository calls          *)
(* retResult, so no result comes back.                                     *)
(***************************************************************************)
EXTENDS Integers, Sequences

CONSTANT Server

VARIABLES
  table_,    \* per service: the ids an application's connection is kept for
  dbsConn_,  \* per service: "null", "up" or "down"
  toDbs,     \* per service: what it has sent to its DB service
  esStatus   \* per service: "up", or what the process died of

Init ==
  /\ table_ = [s \in Server |-> {}]
  /\ dbsConn_ = [s \in Server |-> "null"]
  /\ toDbs = [s \in Server |-> <<>>]
  /\ esStatus = [s \in Server |-> "up"]

OnDbsConnection(s) ==
  /\ esStatus[s] = "up"
  /\ dbsConn_[s] # "down"
  /\ dbsConn_' = [dbsConn_ EXCEPT ![s] = IF @ = "null" THEN "up" ELSE "down"]
  /\ UNCHANGED <<table_, toDbs, esStatus>>

\* solve: an added or deleted item is a write, anything else a read of its key.
Solved(msg) ==
  <<[cmd |-> "kData", txid |-> msg.txid, isWrite |-> msg.cmd \in {"kAdd", "kDelete"},
     needGlobal |-> FALSE, n |-> msg.n]>>

\* forward: the commit with its flag.
Forwarded(msg) ==
  <<[cmd |-> "kCommit", txid |-> msg.txid, isWrite |-> FALSE,
     needGlobal |-> msg.needGlobal, n |-> msg.n]>>

IsData(msg) == msg.cmd \in {"kAdd", "kDelete", "kChange", "kSearch"}

\* Variant: the break after solve is missing.
OutputFallsThrough(msg) ==
  CASE IsData(msg)         -> Solved(msg) \o Forwarded(msg)
    [] msg.cmd = "kCommit" -> Forwarded(msg)
    [] OTHER               -> <<>>

Output(msg) ==
  CASE IsData(msg)         -> Solved(msg)
    [] msg.cmd = "kCommit" -> Forwarded(msg)
    [] OTHER               -> <<>>

\* solve dereferences attr and val of a delete, which the application leaves
\* out; both dereference dbsConn_ before the DB service is connected.
Fault(s, msg) ==
  CASE IsData(msg) /\ msg.cmd \in {"kAdd", "kDelete"} /\ ~msg.hasAttr -> "nullAttr"
    [] Output(msg) # <<>> /\ dbsConn_[s] = "null"                     -> "nullDbsConn"
    [] OTHER                                                         -> "up"

\* onMessage, for a message of the application.
OnMessage(s, msg) ==
  /\ esStatus[s] = "up"
  /\ table_' = [table_ EXCEPT ![s] = @ \cup {msg.txid}]
  /\ esStatus' = [esStatus EXCEPT ![s] = Fault(s, msg)]
  /\ toDbs' = IF Fault(s, msg) = "up" /\ dbsConn_[s] = "up"
                THEN [toDbs EXCEPT ![s] = @ \o Output(msg)] ELSE toDbs
  /\ UNCHANGED dbsConn_
============================================================================
