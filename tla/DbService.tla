----------------------------- MODULE DbService -----------------------------
(***************************************************************************)
(* A DB service with its transaction manager (transaction/dbservice,       *)
(* base/hash.h): the IO thread that runs onMessage, the pool threads that  *)
(* run getLsn, judgeLocalConflict and solve, the two transaction maps they *)
(* share, the table wcheck of committed write keys, and the local journal. *)
(*                                                                         *)
(* The peers are the environment.  An entity service sends data and        *)
(* commits, the log service (DBTL) answers LSN requests and logs, the GTM  *)
(* answers verdicts.  Each map operation is one step; what concurrent      *)
(* access does inside an unordered_map is not modelled.                    *)
(***************************************************************************)
EXTENDS Integers, Sequences, FiniteSets, MhashOps

CONSTANTS
  Txid,            \* transaction ids, natural numbers
  Key,             \* data keys
  Bucket,          \* positions of wcheck's head array
  getPos,          \* Mhash::getPos
  Worker,          \* threads of DbService::threadPool_ (dbtm.threadnum)
  DataSets,        \* the readSet/writeSet pairs a kData message may carry
  LsnReply,        \* what the DBTL puts into the lsn field of a kLsn reply
  ConnsPerServer,  \* times an App sends a commit to this service
  LateData,        \* may a commit come before data, or without any?  App::add
                   \* sends to connList_.front() only, App::commit to all
  ReplyCallback,   \* do replies on Dbtm's two client connections reach
                   \* onMessage?  Dbtm::init registers no message callback
  BufferReuse,     \* may a freed message buffer hold another message?
  MaxData,         \* bound: kData messages per transaction
  MaxRead,         \* bound: messages one socket read may return
  Null             \* an absent vector of a message; an idle worker

ASSUME DbServiceAssumption ==
  /\ Txid \subseteq Nat
  /\ getPos \in [Key -> Bucket]
  /\ Null \notin Seq(Key)
  /\ DataSets \subseteq [readSet  : Seq(Key) \cup {Null},
                         writeSet : Seq(Key) \cup {Null}]
  /\ LsnReply \subseteq Int
  /\ ConnsPerServer \in Nat
  /\ MaxData \in Nat
  /\ MaxRead \in Nat \ {0}
  /\ {LateData, ReplyCallback, BufferReuse} \subseteq BOOLEAN

VARIABLES
  status,      \* "up", or what the process died of
  heap,        \* the struct transaction objects allocated so far
  txidTrans_,  \* DbService::txidTrans_: txid -> index into heap, 0 for null
  table_,      \* Dbtm::table_: the same, for transactions past local judgement
  esTable_,    \* DbService::table_: the txids whose ES connection is known
  wcheck,      \* the hash table: the chain of each bucket
  queue,       \* threadPool_'s task queue
  run,         \* what each pool thread is doing
  rows,        \* the MySQL table transInfo
  files,       \* txid -> contents of its log file, Null if there is none
  inbox,       \* messages on their way from each peer
  sent,        \* what the entity service has sent for each transaction
  toGtm,       \* verdicts on their way to the GTM
  toDbtl,      \* requests on their way to the DBTL
  results,     \* results sent to the entity service for each transaction
  seen         \* history: commits, LSN replies and verdicts handled, judgements
               \* begun, logs sent

processVars == <<heap, txidTrans_, table_, esTable_, wcheck, queue, run>>
journal == <<rows, files>>
wire == <<inbox, sent, toGtm, toDbtl>>
vars == <<status, processVars, journal, wire, results, seen>>

Peer == {"es", "gtm", "dbtl"}

\* Variant: the constructor forgets lsn.
NewTransactionNoLsn(t) ==
  [txid |-> t, readSet |-> <<>>, writeSet |-> <<>>,
   needGlobalConflct |-> FALSE, lsn |-> Null, alreadyCommit |-> FALSE,
   live |-> TRUE]

\* struct transaction's constructor (txid is assigned by getReadWriteSet).
NewTransaction(t) ==
  [txid |-> t, readSet |-> <<>>, writeSet |-> <<>>,
   needGlobalConflct |-> FALSE, lsn |-> -1, alreadyCommit |-> FALSE,
   live |-> TRUE]

GetLsnTask(t) == [kind |-> "getLsn", txid |-> t]
JudgeTask(o) == [kind |-> "judge", obj |-> o]

\* solve is bound to a pointer into onMessage's local string: "reads" is what
\* the pointer may find when the task runs.
SolveTask(m) == [kind |-> "solve", reads |-> {m}]

Init ==
  /\ status = "up"
  /\ heap = <<>>
  /\ txidTrans_ = [t \in Txid |-> 0]
  /\ table_ = [t \in Txid |-> 0]
  /\ esTable_ = {}
  /\ wcheck = [b \in Bucket |-> <<>>]
  /\ queue = <<>>
  /\ run = [w \in Worker |-> Null]
  /\ rows = {}
  /\ files = [t \in Txid |-> Null]
  /\ inbox = [p \in Peer |-> <<>>]
  /\ sent = [t \in Txid |-> [data |-> 0, commits |-> 0]]
  /\ toGtm = <<>>
  /\ toDbtl = <<>>
  /\ results = [t \in Txid |-> <<>>]
  /\ seen = [commit |-> {}, lsn |-> {}, verdict |-> {},
             judged |-> <<>>, logged |-> <<>>]

----------------------------------------------------------------------------
\* The peers.

EsSendData(t, d) ==
  /\ sent[t].data < MaxData
  /\ sent[t].commits = 0 \/ LateData
  /\ sent' = [sent EXCEPT ![t].data = @ + 1]
  /\ inbox' = [inbox EXCEPT !["es"] =
       Append(@, [cmd |-> "kData", txid |-> t, readSet |-> d.readSet,
                  writeSet |-> d.writeSet])]
  /\ UNCHANGED <<status, processVars, journal, toGtm, toDbtl, results, seen>>

EsSendCommit(t, needGlobal) ==
  /\ sent[t].data > 0 \/ LateData
  /\ sent[t].commits < ConnsPerServer
  /\ sent' = [sent EXCEPT ![t].commits = @ + 1]
  /\ inbox' = [inbox EXCEPT !["es"] =
       Append(@, [cmd |-> "kCommit", txid |-> t,
                  needGlobalConflict |-> needGlobal])]
  /\ UNCHANGED <<status, processVars, journal, toGtm, toDbtl, results, seen>>

DbtmMsg(cmd, t, isGlobalConflict, lsn) ==
  [cmd |-> cmd, txid |-> t, isGlobalConflict |-> isGlobalConflict, lsn |-> lsn]

\* A reply of the GTM or the DBTL, in the order they like.
Deliver(p, m) ==
  inbox' = IF ReplyCallback THEN [inbox EXCEPT ![p] = Append(@, m)] ELSE inbox

Without(s, i) == SubSeq(s, 1, i - 1) \o SubSeq(s, i + 1, Len(s))

\* The GTM answers a verdict; its answer is a conflict if the verdict was one.
GtmReply(i, others) ==
  /\ i \in DOMAIN toGtm
  /\ Deliver("gtm", DbtmMsg("kJudgeConflit", toGtm[i].txid,
                            toGtm[i].isLocalConflict \/ others, 0))
  /\ toGtm' = Without(toGtm, i)
  /\ UNCHANGED <<status, processVars, journal, sent, toDbtl, results, seen>>

\* Dbtl::solve answers an LSN request at once, and a log once its pool thread
\* has written it; Dbtl::retResult builds the reply.
DbtlReply(i, lsn) ==
  /\ i \in DOMAIN toDbtl
  /\ Deliver("dbtl", IF toDbtl[i].cmd = "kLsn"
                       THEN DbtmMsg("kLsn", toDbtl[i].txid, FALSE, lsn)
                       ELSE DbtmMsg("kTranSuccess", toDbtl[i].txid, FALSE, 0))
  /\ toDbtl' = Without(toDbtl, i)
  /\ UNCHANGED <<status, processVars, journal, sent, toGtm, results, seen>>

----------------------------------------------------------------------------
\* Results: DbService::retResult(st, t), from the IO thread or a pool thread.

\* Variant: nothing is reported.
RetNothing(st, t) == UNCHANGED <<status, results, table_, heap>>

RetResult(st, t) ==
  LET o == table_[t]
  IN  IF t \notin esTable_
        THEN /\ status' = "nullConn"
             /\ UNCHANGED <<results, table_, heap>>
      ELSE IF o # 0 /\ ~heap[o].live
        THEN /\ status' = "freed"
             /\ UNCHANGED <<results, table_, heap>>
        ELSE /\ results' = [results EXCEPT ![t] = Append(@, st)]
             /\ table_' = [table_ EXCEPT ![t] = 0]
             /\ heap' = IF o = 0 THEN heap ELSE [heap EXCEPT ![o].live = FALSE]
             /\ UNCHANGED status

----------------------------------------------------------------------------
\* The IO thread.

\* A socket read of n messages, of which onMessage handles the first.
Read(p, n, m) ==
  /\ status = "up"
  /\ n <= Len(inbox[p])
  /\ m = Head(inbox[p])
  /\ inbox' = [inbox EXCEPT ![p] = SubSeq(@, n + 1, Len(@))]
  /\ UNCHANGED <<wcheck, journal, sent, toGtm, toDbtl>>

\* onMessage's string is freed when it returns; the next message may land in
\* the memory a waiting solve task points to.
Reused(task, m) ==
  IF BufferReuse /\ task # Null /\ task.kind = "solve"
    THEN [task EXCEPT !.reads = @ \cup {m}]
    ELSE task

\* The pool after onMessage handled m and enqueued the tasks.
Enqueue(m, tasks) ==
  /\ queue' = [i \in DOMAIN queue |-> Reused(queue[i], m)] \o tasks
  /\ run' = [w \in Worker |->
               IF run[w] = Null THEN Null
                                ELSE [run[w] EXCEPT !.task = Reused(@, m)]]

\* kData: getReadWriteSet, then ask for the LSN if nobody has.  An absent
\* vector is a null pointer, and its size() dereferences it.
OnData(n, m) ==
  LET t     == m.txid
      known == txidTrans_[t] # 0
      o     == IF known THEN txidTrans_[t] ELSE Len(heap) + 1
      trans == IF known THEN heap ELSE Append(heap, NewTransaction(t))
  IN  /\ Read("es", n, m)
      /\ m.cmd = "kData"
      /\ Null \notin {m.readSet, m.writeSet}
      /\ txidTrans_' = [txidTrans_ EXCEPT ![t] = o]
      /\ esTable_' = esTable_ \cup {t}
      /\ heap' = [trans EXCEPT
                    ![o].readSet = @ \o m.readSet,
                    ![o].writeSet = @ \o m.writeSet,
                    ![o].lsn = IF @ = -1 THEN 0 ELSE @]
      /\ Enqueue(m, IF trans[o].lsn = -1 THEN <<GetLsnTask(t)>> ELSE <<>>)
      /\ UNCHANGED <<status, table_, results, seen>>

OnDataNull(n, m) ==
  /\ Read("es", n, m)
  /\ m.cmd = "kData"
  /\ Null \in {m.readSet, m.writeSet}
  /\ status' = "nullSet"
  /\ UNCHANGED <<heap, txidTrans_, table_, esTable_, queue, run, results, seen>>

\* Variants: the commit does not wait for the LSN; it leaves no mark.
LsnKnownAlways(o) == TRUE
MarkedNever(o) == heap[o].alreadyCommit

LsnKnown(o) == heap[o].lsn > 0
Marked(o) == heap[o].alreadyCommit \/ ~LsnKnown(o)

\* kCommit: judge at once if the LSN is known, otherwise leave a mark for kLsn.
OnCommit(n, m) ==
  LET o == txidTrans_[m.txid]
  IN  /\ Read("es", n, m)
      /\ m.cmd = "kCommit"
      /\ o # 0
      /\ heap' = [heap EXCEPT
                    ![o].needGlobalConflct = m.needGlobalConflict,
                    ![o].alreadyCommit = Marked(o)]
      /\ Enqueue(m, IF LsnKnown(o) THEN <<JudgeTask(o)>> ELSE <<>>)
      /\ seen' = [seen EXCEPT !.commit = @ \cup {m.txid}]
      /\ UNCHANGED <<status, txidTrans_, table_, esTable_, results>>

\* kLsn: store the LSN, judge if the commit came first.
OnLsn(n, m) ==
  LET o == txidTrans_[m.txid]
  IN  /\ Read("dbtl", n, m)
      /\ m.cmd = "kLsn"
      /\ o # 0
      /\ heap' = [heap EXCEPT ![o].lsn = m.lsn]
      /\ Enqueue(m, IF heap[o].alreadyCommit THEN <<JudgeTask(o)>> ELSE <<>>)
      /\ seen' = [seen EXCEPT !.lsn = @ \cup {m.txid}]
      /\ UNCHANGED <<status, txidTrans_, table_, esTable_, results>>

\* kCommit or kLsn of a transaction txidTrans_ does not hold: operator[] makes
\* a null entry, which is dereferenced.
OnNullTran(p, n, m) ==
  /\ Read(p, n, m)
  /\ m.cmd \in {"kCommit", "kLsn"}
  /\ txidTrans_[m.txid] = 0
  /\ status' = "nullTran"
  /\ UNCHANGED <<heap, txidTrans_, table_, esTable_, queue, run, results, seen>>

\* kJudgeConflit: hand the message to the pool, by pointer.
OnJudgeConflit(n, m) ==
  /\ Read("gtm", n, m)
  /\ m.cmd = "kJudgeConflit"
  /\ Enqueue(m, <<SolveTask(m)>>)
  /\ seen' = [seen EXCEPT !.verdict = @ \cup {<<m.txid, m.isGlobalConflict>>}]
  /\ UNCHANGED <<status, heap, txidTrans_, table_, esTable_, results>>

\* kTranSuccess, kTranFail.
OnResult(n, m) ==
  /\ Read("dbtl", n, m)
  /\ m.cmd \in {"kTranSuccess", "kTranFail"}
  /\ RetResult(m.cmd, m.txid)
  /\ Enqueue(m, <<>>)
  /\ UNCHANGED <<txidTrans_, esTable_, seen>>

OnMessage(p) ==
  \E n \in 1 .. MaxRead :
    /\ inbox[p] # <<>>
    /\ LET m == Head(inbox[p])
       IN  \/ OnData(n, m) \/ OnDataNull(n, m) \/ OnCommit(n, m) \/ OnLsn(n, m)
           \/ OnNullTran(p, n, m) \/ OnJudgeConflit(n, m) \/ OnResult(n, m)

----------------------------------------------------------------------------
\* The journal.

\* `sql += txid` appends the txid as one character, so a statement names the
\* row of a decimal digit, or is malformed and changes nothing.
SqlTxids(t) == IF t % 256 \in 48 .. 57 THEN {(t % 256) - 48} ELSE {}

SqlInsert(t) ==
  rows' = rows \cup {[txid |-> t, needLocalConflict |-> TRUE,
                      needGlobalConflict |-> TRUE]}

\* Variant: nothing is written.
WriteNothing(t) == UNCHANGED <<journal>>

\* writeToDiskAndSql: the file is opened O_RDONLY, so the write fails and the
\* file is created empty (or stays as it is); then sqlInsert.
WriteToDiskAndSql(t) ==
  /\ files' = [files EXCEPT ![t] = IF @ = Null THEN <<>> ELSE @]
  /\ SqlInsert(t)

SqlUpdateNeedLocalConflict(t) ==
  rows' = {IF r.txid \in SqlTxids(t) THEN [r EXCEPT !.needLocalConflict = FALSE]
                                     ELSE r : r \in rows}

SqlUpdateNeedGlobalConflict(t) ==
  rows' = {IF r.txid \in SqlTxids(t) THEN [r EXCEPT !.needGlobalConflict = FALSE]
                                     ELSE r : r \in rows}

\* sqlDelete also removes the log file, whose name is built correctly.
SqlDelete(t) ==
  /\ rows' = {r \in rows : r.txid \notin SqlTxids(t)}
  /\ files' = [files EXCEPT ![t] = Null]

----------------------------------------------------------------------------
\* The pool threads.

Take(w) ==
  /\ run[w] = Null
  /\ queue # <<>>
  /\ run' = [run EXCEPT ![w] = [task |-> Head(queue), pc |-> "start", i |-> 1]]
  /\ queue' = Tail(queue)
  /\ UNCHANGED <<status, heap, txidTrans_, table_, esTable_, wcheck, journal,
                 wire, results, seen>>

At(w, kind, pc) == run[w] # Null /\ run[w].task.kind = kind /\ run[w].pc = pc

Goto(w, pc) == run' = [run EXCEPT ![w].pc = pc, ![w].i = 1]

Finish(w) == run' = [run EXCEPT ![w] = Null]

GetLsn(w) ==
  /\ At(w, "getLsn", "start")
  /\ toDbtl' = Append(toDbtl, [cmd |-> "kLsn", txid |-> run[w].task.txid])
  /\ Finish(w)
  /\ UNCHANGED <<status, heap, txidTrans_, table_, esTable_, wcheck, queue,
                 journal, inbox, sent, toGtm, results, seen>>

\* A step of judgeLocalConflict on a transaction that has been deleted.
JudgeFreed(w) ==
  /\ run[w] # Null
  /\ run[w].task.kind = "judge"
  /\ ~heap[run[w].task.obj].live
  /\ status' = "freed"
  /\ UNCHANGED <<processVars, journal, wire, results, seen>>

Judging(w, pc) == At(w, "judge", pc) /\ heap[run[w].task.obj].live

JudgeStart(w) ==
  LET o == run[w].task.obj
  IN  /\ Judging(w, "start")
      /\ WriteToDiskAndSql(heap[o].txid)
      /\ Goto(w, "read")
      /\ seen' = [seen EXCEPT !.judged = Append(@, heap[o].txid)]
      /\ UNCHANGED <<status, heap, txidTrans_, table_, esTable_, wcheck, queue,
                     wire, results>>

\* One turn of the loop over the read set (pc = "read") or the write set:
\* delLessThan, then exist, on the next key.
JudgeKey(w, pc, keys) ==
  LET b     == getPos[keys[run[w].i]]
      lsn   == heap[run[w].task.obj].lsn
      chain == DelLessThan(wcheck[b], lsn)
  IN  /\ Judging(w, pc)
      /\ run[w].i <= Len(keys)
      /\ IF DelLessThanFaults(wcheck[b], lsn)
           THEN status' = "nullBucket" /\ UNCHANGED <<wcheck, run>>
           ELSE /\ wcheck' = [wcheck EXCEPT ![b] = chain]
                /\ IF Exist(chain) THEN Goto(w, "conflict")
                                   ELSE run' = [run EXCEPT ![w].i = @ + 1]
                /\ UNCHANGED status
      /\ UNCHANGED <<heap, txidTrans_, table_, esTable_, queue, journal, wire,
                     results, seen>>

JudgeKeysDone(w, pc, keys, nextPc) ==
  /\ Judging(w, pc)
  /\ run[w].i > Len(keys)
  /\ Goto(w, nextPc)
  /\ UNCHANGED <<status, heap, txidTrans_, table_, esTable_, wcheck, queue,
                 journal, wire, results, seen>>

JudgeRead(w) ==
  LET keys == heap[run[w].task.obj].readSet
  IN  JudgeKey(w, "read", keys) \/ JudgeKeysDone(w, "read", keys, "write")

\* Variant: the write set is not examined.
JudgeWriteSkipped(w) == JudgeKeysDone(w, "write", <<>>, "admit")

JudgeWrite(w) ==
  LET keys == heap[run[w].task.obj].writeSet
  IN  JudgeKey(w, "write", keys) \/ JudgeKeysDone(w, "write", keys, "admit")

\* Variant: the verdict is sent twice.
VoteTwice(t, isLocalConflict) ==
  toGtm' = toGtm \o [i \in 1 .. 2 |-> [txid |-> t,
                                       isLocalConflict |-> isLocalConflict]]

Vote(t, isLocalConflict) ==
  toGtm' = Append(toGtm, [txid |-> t, isLocalConflict |-> isLocalConflict])

\* The conflict branch: the transaction stays in txidTrans_.
JudgeConflict(w) ==
  LET tran == heap[run[w].task.obj]
  IN  /\ Judging(w, "conflict")
      /\ RetResult("kTranFail", tran.txid)
      /\ IF tran.needGlobalConflct THEN Vote(tran.txid, TRUE) ELSE UNCHANGED toGtm
      /\ Finish(w)
      /\ UNCHANGED <<txidTrans_, esTable_, wcheck, queue, journal, inbox, sent,
                     toDbtl, seen>>

SendLog(tran) ==
  /\ toDbtl' = Append(toDbtl, [cmd |-> "kLog", txid |-> tran.txid])
  /\ seen' = [seen EXCEPT !.logged =
                Append(@, [txid |-> tran.txid, data |-> tran.writeSet])]

\* cacheRWSet: the write keys enter wcheck, then sendLog.
CacheRWSet(tran) ==
  /\ wcheck' = [b \in Bucket |->
       Insert(wcheck[b],
              SelectSeq([i \in DOMAIN tran.writeSet |->
                           [key |-> tran.writeSet[i], lsn |-> tran.lsn]],
                        LAMBDA e : getPos[e.key] = b))]
  /\ SendLog(tran)

\* Variants: the transaction is not entered into table_; it is not taken out of
\* txidTrans_.
NotTabled(o) == UNCHANGED table_
NotErased(t) == UNCHANGED txidTrans_

EnterTable(o) == table_' = [table_ EXCEPT ![heap[o].txid] = o]
EraseTxidTrans(t) == txidTrans_' = [txidTrans_ EXCEPT ![t] = 0]

\* The branch without conflict.
JudgeAdmit(w) ==
  LET o    == run[w].task.obj
      tran == heap[o]
  IN  /\ Judging(w, "admit")
      /\ EnterTable(o)
      /\ EraseTxidTrans(tran.txid)
      /\ SqlUpdateNeedLocalConflict(tran.txid)
      /\ IF tran.needGlobalConflct
           THEN Vote(tran.txid, FALSE) /\ UNCHANGED <<wcheck, toDbtl, seen>>
           ELSE CacheRWSet(tran) /\ UNCHANGED toGtm
      /\ Finish(w)
      /\ UNCHANGED <<status, heap, esTable_, queue, files, inbox, sent,
                     results>>

\* Dbtm::solve on what its pointer finds.  The bytes of an ES message are no
\* DbtmMsg.
SolveGarbage(w, m) ==
  /\ At(w, "solve", "start")
  /\ m.cmd \in {"kData", "kCommit"}
  /\ status' = "freed"
  /\ UNCHANGED <<processVars, journal, wire, results, seen>>

\* The switch has one case.
SolveOther(w, m) ==
  /\ At(w, "solve", "start")
  /\ m.cmd \in {"kLsn", "kTranSuccess", "kTranFail"}
  /\ Finish(w)
  /\ UNCHANGED <<status, heap, txidTrans_, table_, esTable_, wcheck, queue,
                 journal, wire, results, seen>>

SolveNoConflict(w, m) ==
  LET o == table_[m.txid]
  IN  /\ At(w, "solve", "start")
      /\ m.cmd = "kJudgeConflit"
      /\ ~m.isGlobalConflict
      /\ IF o = 0 \/ ~heap[o].live
           THEN /\ status' = IF o = 0 THEN "nullTran" ELSE "freed"
                /\ UNCHANGED <<wcheck, toDbtl, seen, rows>>
           ELSE /\ CacheRWSet(heap[o])
                /\ SqlUpdateNeedGlobalConflict(m.txid)
                /\ UNCHANGED status
      /\ Finish(w)
      /\ UNCHANGED <<heap, txidTrans_, table_, esTable_, queue, files, inbox,
                     sent, toGtm, results>>

SolveConflict(w, m) ==
  /\ At(w, "solve", "start")
  /\ m.cmd = "kJudgeConflit"
  /\ m.isGlobalConflict
  /\ SqlDelete(m.txid)
  /\ RetResult("kTranFail", m.txid)
  /\ Finish(w)
  /\ UNCHANGED <<txidTrans_, esTable_, wcheck, queue, wire, seen>>

\* Variant: the verdict's flag is ignored.
SolveIgnoresVerdict(w) ==
  /\ At(w, "solve", "start")
  /\ \E m \in run[w].task.reads :
       SolveNoConflict(w, [m EXCEPT !.isGlobalConflict = FALSE])

Solve(w) ==
  /\ At(w, "solve", "start")
  /\ \E m \in run[w].task.reads :
       \/ SolveGarbage(w, m) \/ SolveOther(w, m)
       \/ SolveNoConflict(w, m) \/ SolveConflict(w, m)

Work(w) ==
  \/ Take(w) \/ GetLsn(w) \/ Solve(w)
  \/ JudgeStart(w) \/ JudgeRead(w) \/ JudgeWrite(w) \/ JudgeAdmit(w)
  \/ JudgeConflict(w) \/ JudgeFreed(w)

Replies ==
  \/ \E i \in DOMAIN toGtm, others \in BOOLEAN : GtmReply(i, others)
  \/ \E i \in DOMAIN toDbtl, lsn \in LsnReply : DbtlReply(i, lsn)

\* Nothing of a dead process is observed any more.
Next ==
  /\ status = "up"
  /\ \/ \E t \in Txid, d \in DataSets : EsSendData(t, d)
     \/ \E t \in Txid, g \in BOOLEAN : EsSendCommit(t, g)
     \/ Replies
     \/ \E p \in Peer : OnMessage(p)
     \/ \E w \in Worker : Work(w)

Spec == Init /\ [][Next]_vars

\* The event loop serves its connections, the pool threads run, and the peers
\* answer what they are asked.
FairSpec ==
  /\ Spec
  /\ WF_vars(status = "up" /\ Replies)
  /\ \A p \in Peer : WF_vars(status = "up" /\ OnMessage(p))
  /\ \A w \in Worker : WF_vars(status = "up" /\ Work(w))

----------------------------------------------------------------------------

DbServiceMsg ==
  [cmd : {"kData"}, txid : Txid, readSet : Seq(Key) \cup {Null},
   writeSet : Seq(Key) \cup {Null}]
    \cup [cmd : {"kCommit"}, txid : Txid, needGlobalConflict : BOOLEAN]

DbtmMsgs ==
  [cmd : {"kJudgeConflit", "kLsn", "kTranSuccess"}, txid : Txid,
   isGlobalConflict : BOOLEAN, lsn : Int]

Transaction ==
  [txid : Txid, readSet : Seq(Key), writeSet : Seq(Key),
   needGlobalConflct : BOOLEAN, lsn : Int, alreadyCommit : BOOLEAN,
   live : BOOLEAN]

IsTask(task) ==
  \/ task \in [kind : {"getLsn"}, txid : Txid]
  \/ task \in [kind : {"judge"}, obj : DOMAIN heap]
  \/ /\ DOMAIN task = {"kind", "reads"}
     /\ task.kind = "solve"
     /\ \A m \in task.reads : m \in DbServiceMsg \cup DbtmMsgs

\* The variables have their types; the maps point at allocated transactions.
TypeOK ==
  /\ status \in {"up", "nullSet", "nullTran", "nullConn", "nullBucket", "freed"}
  /\ heap \in Seq(Transaction)
  /\ txidTrans_ \in [Txid -> 0 .. Len(heap)]
  /\ table_ \in [Txid -> 0 .. Len(heap)]
  /\ esTable_ \subseteq Txid
  /\ wcheck \in [Bucket -> Seq([key : Key, lsn : Int])]
  /\ \A i \in DOMAIN queue : IsTask(queue[i])
  /\ \A w \in Worker : run[w] # Null => /\ IsTask(run[w].task)
                                        /\ run[w].i \in Nat \ {0}
  /\ inbox["es"] \in Seq(DbServiceMsg)
  /\ inbox["gtm"] \in Seq(DbtmMsgs)
  /\ inbox["dbtl"] \in Seq(DbtmMsgs)
  /\ results \in [Txid -> Seq({"kTranSuccess", "kTranFail"})]

\* With complete messages the service never follows a null transaction or ES
\* connection, nor a freed transaction: judgeLocalConflict enters a transaction
\* into Dbtm::table_ before the GTM or the DBTL can answer for it, and
\* txidTrans_ keeps it until both commit and LSN have been handled.
PointersValid == status \notin {"nullTran", "nullConn", "freed"}

\* Every transaction the IO thread can reach through txidTrans_ is alive and
\* filed under its own txid.
TxidTransLive ==
  \A t \in Txid : LET o == txidTrans_[t]
                  IN  o # 0 => heap[o].live /\ heap[o].txid = t

\* judgeLocalConflict runs at most once for a transaction, and only when both
\* its commit and its LSN have come in, in whichever order.
JudgedOnceAfterBoth ==
  \A i \in DOMAIN seen.judged :
    /\ seen.judged[i] \in seen.commit \cap seen.lsn
    /\ \A j \in DOMAIN seen.judged : seen.judged[j] = seen.judged[i] => i = j

\* The entity service gets at most one result per transaction, and success only
\* for a transaction whose log was sent and that no verdict rejected.
OneTrueResult ==
  \A t \in Txid :
    /\ Len(results[t]) <= 1
    /\ results[t] = <<"kTranSuccess">> =>
         /\ \E i \in DOMAIN seen.logged : seen.logged[i].txid = t
         /\ <<t, TRUE>> \notin seen.verdict

\* A transaction the GTM found in conflict is never logged.
VerdictObeyed ==
  \A i \in DOMAIN seen.logged : <<seen.logged[i].txid, TRUE>> \notin seen.verdict

\* Every verdict of the GTM that reaches onMessage is acted upon: a conflict is
\* reported as a failure, otherwise the log is sent.  solve is bound to a
\* pointer into a buffer that is gone by then.
VerdictActedOn ==
  \A t \in Txid :
    (\E c \in BOOLEAN : <<t, c>> \in seen.verdict) ~>
      \/ status # "up"
      \/ <<t, TRUE>> \in seen.verdict /\ results[t] = <<"kTranFail">>
      \/ /\ <<t, FALSE>> \in seen.verdict
         /\ \E i \in DOMAIN seen.logged : seen.logged[i].txid = t

\* As long as data comes before its commit, no log carries a write and wcheck
\* stays empty: delLessThan dereferences null on the empty bucket of the first
\* key it is asked about, so only transactions without keys get past it.
NothingWritten ==
  /\ \A b \in Bucket : wcheck[b] = <<>>
  /\ \A i \in DOMAIN seen.logged : seen.logged[i].data = <<>>

\* A commit is judged, or the process dies: the commit waits for the LSN.
CommitJudged ==
  \A t \in Txid :
    (t \in seen.commit) ~>
      (status # "up" \/ \E i \in DOMAIN seen.judged : seen.judged[i] = t)

\* The journal is written ahead: the log file of a transaction exists when its
\* vote is on the way to the GTM and when its log has been sent, and only a
\* conflict verdict removes it.
JournaledFirst ==
  /\ \A i \in DOMAIN toGtm : files[toGtm[i].txid] # Null
  /\ \A i \in DOMAIN seen.logged : files[seen.logged[i].txid] # Null
  /\ \A i \in DOMAIN seen.judged :
       files[seen.judged[i]] = Null => <<seen.judged[i], TRUE>> \in seen.verdict
============================================================================
