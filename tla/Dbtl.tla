-------------------------------- MODULE Dbtl --------------------------------
(***************************************************************************)
(* The log service and its log player (transaction/dbtl): the IO thread    *)
(* that runs onMessage, the pool thread that runs writeToDisk, the time    *)
(* wheel's thread that plays a log again, the tables they share and the    *)
(* one connection to the database.                                         *)
(*                                                                         *)
(* The DB service asks for LSNs and sends logs.  The database, which is    *)
(* not part of the repository, answers each log it receives with           *)
(* kExecTranSucc or kExecTranFail on a connection of its own.  A log is    *)
(* represented by the transaction it belongs to.                           *)
(***************************************************************************)
EXTENDS Integers, Sequences, FiniteSets

CONSTANTS
  Txid,         \* transaction ids
  InitLsn,      \* what the uninitialised applyLsn_ may hold
  MaxRetry,     \* ConfigManager::lpMaxRetryTime
  UseRocksDb,   \* the values ConfigManager::dbtlUseRocksDb may have
  BufferReuse,  \* may a freed message buffer hold another message?
  MaxRead,      \* bound: messages one socket read may return
  Null          \* an absent table entry; an idle thread

ASSUME DbtlAssumption ==
  /\ InitLsn \subseteq Int
  /\ MaxRetry \in Nat
  /\ MaxRead \in Nat \ {0}
  /\ UseRocksDb \subseteq BOOLEAN /\ BufferReuse \in BOOLEAN

VARIABLES
  up,            \* FALSE once the process has died
  applyLsn_,     \* the next LSN
  useRocksDb,    \* ConfigManager::dbtlUseRocksDb
  rocksDb_,      \* the logs in the RocksDB database
  logTable_,     \* txid -> the logs entered under it
  answerTable_,  \* txid -> connections that have not answered, Null if absent
  retryTable_,   \* txid -> failures per connection
  dbConnVec_,    \* the connections, each "up" or "down" callback's argument
  dbConn,        \* the connection: "none", "up" or "down"
  queue,         \* threadpool_'s tasks
  writer,        \* what the pool thread is doing
  timers,        \* txid -> timers waiting in the time wheel
  player,        \* what the time wheel's thread is doing
  inbox,         \* messages on their way from the DB service and the database
  toDb,          \* logs on their way to the database
  lsnReplies,    \* the kLsn replies sent
  results,       \* txid -> number of kTranSuccess replies sent
  asked,         \* the requests the DB service has made
  applied,       \* history: txid -> the logs the database has executed
  plays,         \* history: txid -> logs put on the connection
  lost           \* history: transactions with a message lost unread

disk == <<useRocksDb, rocksDb_>>
tables == <<logTable_, answerTable_, retryTable_>>
conns == <<dbConnVec_, dbConn>>
threads == <<queue, writer, timers, player>>
environment == <<asked, applied>>
vars == <<up, applyLsn_, disk, tables, conns, threads, inbox, toDb, lsnReplies,
          results, environment, plays, lost>>

Init ==
  /\ up = TRUE
  /\ applyLsn_ \in InitLsn
  /\ useRocksDb \in UseRocksDb
  /\ rocksDb_ = {}
  /\ logTable_ = [t \in Txid |-> <<>>]
  /\ answerTable_ = [t \in Txid |-> Null]
  /\ retryTable_ = [t \in Txid |-> <<>>]
  /\ dbConnVec_ = <<>>
  /\ dbConn = "none"
  /\ queue = <<>>
  /\ writer = Null
  /\ timers = [t \in Txid |-> 0]
  /\ player = Null
  /\ inbox = [p \in {"dbs", "db"} |-> <<>>]
  /\ toDb = <<>>
  /\ lsnReplies = <<>>
  /\ results = [t \in Txid |-> 0]
  /\ asked = {}
  /\ applied = [t \in Txid |-> <<>>]
  /\ plays = [t \in Txid |-> 0]
  /\ lost = {}

----------------------------------------------------------------------------
\* The peers.

\* A DB service asks for the LSN of a transaction, and sends its log.
Ask(cmd, t) ==
  LET m == [cmd |-> cmd, txid |-> t]
  IN  /\ cmd \in {"kLsn", "kLog"}
      /\ m \notin asked
      /\ asked' = asked \cup {m}
      /\ inbox' = [inbox EXCEPT !["dbs"] = Append(@, m)]
      /\ UNCHANGED <<disk, up, applyLsn_, tables, conns, threads, toDb, lsnReplies,
                     results, applied, plays, lost>>

\* The database executes a log, or fails to.
DbAnswer(cmd) ==
  LET log == Head(toDb)
  IN  /\ toDb # <<>>
      /\ cmd \in {"kExecTranSucc", "kExecTranFail"}
      /\ toDb' = Tail(toDb)
      /\ inbox' = [inbox EXCEPT !["db"] =
                     Append(@, [cmd |-> cmd, txid |-> log.txid, id |-> 1])]
      /\ applied' = IF cmd = "kExecTranSucc"
                      THEN [applied EXCEPT ![log.txid] = log.data]
                      ELSE applied
      /\ UNCHANGED <<disk, up, applyLsn_, tables, conns, threads, lsnReplies, results,
                     asked, plays, lost>>

\* onDbConnection is called when the connection comes up and when it goes down,
\* and enters it into dbConnVec_ both times.  TcpClient does not reconnect.
OnDbConnection(state) ==
  /\ <<dbConn, state>> \in {<<"none", "up">>, <<"up", "down">>}
  /\ dbConn' = state
  /\ dbConnVec_' = Append(dbConnVec_, state)
  /\ toDb' = IF state = "down" THEN <<>> ELSE toDb
  /\ lost' = lost \cup {log.txid : log \in {toDb[i] : i \in DOMAIN toDb \ DOMAIN toDb'}}
  /\ UNCHANGED <<disk, up, applyLsn_, tables, threads, inbox, lsnReplies, results,
                 environment, plays>>

----------------------------------------------------------------------------
\* The IO thread.

\* A socket read of n messages, of which onMessage handles the first.
Read(p, n, m) ==
  /\ n <= Len(inbox[p])
  /\ m = Head(inbox[p])
  /\ inbox' = [inbox EXCEPT ![p] = SubSeq(@, n + 1, Len(@))]
  /\ lost' = lost \cup {inbox[p][i].txid : i \in 2 .. n}

\* onMessage's string is freed when it returns; a later message may land in the
\* memory that a queued writeToDisk points into.
Reused(task, m) ==
  IF BufferReuse THEN [task EXCEPT !.reads = @ \cup {m}] ELSE task

Enqueue(m, tasks) ==
  /\ queue' = [i \in DOMAIN queue |-> Reused(queue[i], m)] \o tasks
  /\ writer' = IF writer # Null /\ writer.pc = "write"
                 THEN [writer EXCEPT !.task = Reused(@, m)] ELSE writer

\* retResult(kLsn, txid, applyLsn_++, conn): the LSN is CreateDbtmMsg's argument
\* isGlobalConflict, or left out when it is -1; lsn has its default.
OnLsn(n, m) ==
  /\ Read("dbs", n, m)
  /\ m.cmd = "kLsn"
  /\ lsnReplies' = Append(lsnReplies,
       [txid |-> m.txid, isGlobalConflict |-> applyLsn_ \notin {-1, 0}, lsn |-> 0])
  /\ applyLsn_' = applyLsn_ + 1
  /\ Enqueue(m, <<>>)
  /\ UNCHANGED <<disk, up, tables, conns, timers, player, toDb, results, environment,
                 plays>>

OnLog(n, m) ==
  /\ Read("dbs", n, m)
  /\ m.cmd = "kLog"
  /\ Enqueue(m, <<[txid |-> m.txid, reads |-> {m}]>>)
  /\ UNCHANGED <<disk, up, applyLsn_, tables, conns, timers, player, toDb, lsnReplies,
                 results, environment, plays>>

\* LogPlayer::solve.
OnExecTranSucc(n, m) ==
  /\ Read("db", n, m)
  /\ m.cmd = "kExecTranSucc"
  /\ answerTable_' = [answerTable_ EXCEPT ![m.txid] = @ \ {m.id}]
  /\ Enqueue(m, <<>>)
  /\ UNCHANGED <<disk, up, applyLsn_, logTable_, retryTable_, conns, timers, player,
                 toDb, lsnReplies, results, environment, plays>>

\* Variants: the limit is not tested; a retry is started twice; it is forgotten.
RetryTimersForever(t, time) == [timers EXCEPT ![t] = @ + 1]

RetryTimersTwice(t, time) ==
  IF time > MaxRetry THEN timers ELSE [timers EXCEPT ![t] = @ + 2]

RetryTimersNever(t, time) == timers

\* The timers after the time-th failure; the delay of 2^time seconds is any.
RetryTimers(t, time) ==
  IF time > MaxRetry THEN timers ELSE [timers EXCEPT ![t] = @ + 1]

OnExecTranFail(n, m) ==
  LET time == retryTable_[m.txid][m.id] + 1
  IN  /\ Read("db", n, m)
      /\ m.cmd = "kExecTranFail"
      /\ retryTable_' = [retryTable_ EXCEPT ![m.txid][m.id] = time]
      /\ timers' = RetryTimers(m.txid, time)
      /\ Enqueue(m, <<>>)
      /\ UNCHANGED <<disk, up, applyLsn_, logTable_, answerTable_, conns, player, toDb,
                     lsnReplies, results, environment, plays>>

OnMessage(p) ==
  \E n \in 1 .. MaxRead :
    /\ inbox[p] # <<>>
    /\ LET m == Head(inbox[p])
       IN  OnLsn(n, m) \/ OnLog(n, m) \/ OnExecTranSucc(n, m) \/ OnExecTranFail(n, m)

----------------------------------------------------------------------------
\* LogPlayer::playLog, on the pool thread or on the time wheel's.

\* Variant: retryTable_ is not resized.
PlayLogStartNoRetries(t) ==
  /\ answerTable_' = IF answerTable_[t] = Null /\ dbConnVec_ # <<>>
                       THEN [answerTable_ EXCEPT ![t] = DOMAIN dbConnVec_]
                       ELSE answerTable_
  /\ UNCHANGED retryTable_

\* It enters the connections that are to answer and builds the message ...
PlayLogStart(t) ==
  LET first == answerTable_[t] = Null
  IN  /\ retryTable_' = IF first
                          THEN [retryTable_ EXCEPT ![t] = [i \in DOMAIN dbConnVec_ |-> 0]]
                          ELSE retryTable_
      /\ answerTable_' = IF first /\ dbConnVec_ # <<>>
                           THEN [answerTable_ EXCEPT ![t] = DOMAIN dbConnVec_]
                           ELSE answerTable_

\* ... then sends it on every connection that has not answered: operator[] makes
\* an empty list where there is none, and a send on a closed connection does
\* nothing.
PlayLogSend(t, data) ==
  LET unanswered == IF answerTable_[t] = Null THEN {} ELSE answerTable_[t]
      sends      == IF dbConn = "up" THEN Cardinality(unanswered) ELSE 0
  IN  /\ answerTable_' = [answerTable_ EXCEPT ![t] = unanswered]
      /\ toDb' = toDb \o [i \in 1 .. sends |-> [txid |-> t, data |-> data]]
      /\ plays' = [plays EXCEPT ![t] = @ + sends]

----------------------------------------------------------------------------
\* The pool thread: writeToDisk.

Take ==
  /\ writer = Null
  /\ queue # <<>>
  /\ writer' = [task |-> Head(queue), pc |-> "write"]
  /\ queue' = Tail(queue)
  /\ UNCHANGED <<disk, up, applyLsn_, tables, conns, timers, player, inbox, toDb,
                 lsnReplies, results, environment, plays, lost>>

\* The data is read through a pointer into a freed buffer: it is the log that m
\* carries, if m carries one.
Reads(m) ==
  /\ writer # Null
  /\ writer.pc = "write"
  /\ m \in writer.task.reads

WriteToDisk(m) ==
  /\ Reads(m)
  /\ ~useRocksDb
  /\ m.cmd = "kLog"
  /\ logTable_' = [logTable_ EXCEPT ![writer.task.txid] = Append(@, m.txid)]
  /\ writer' = [writer EXCEPT !.pc = "play"]
  /\ UNCHANGED <<disk, up, applyLsn_, answerTable_, retryTable_, conns, queue, timers,
                 player, inbox, toDb, lsnReplies, results, environment, plays, lost>>

\* The batch is stored, or the failure is logged; the log is not played.
WriteToDiskByRocksDb(m, ok) ==
  /\ Reads(m)
  /\ useRocksDb
  /\ m.cmd = "kLog"
  /\ rocksDb_' = IF ok THEN rocksDb_ \cup {m.txid} ELSE rocksDb_
  /\ writer' = [writer EXCEPT !.pc = "reply"]
  /\ UNCHANGED <<up, applyLsn_, useRocksDb, tables, conns, queue, timers, player, inbox,
                 toDb, lsnReplies, results, environment, plays, lost>>

WriteGarbage(m) ==
  /\ Reads(m)
  /\ m.cmd # "kLog"
  /\ up' = FALSE
  /\ UNCHANGED <<disk, applyLsn_, tables, conns, threads, inbox, toDb, lsnReplies,
                 results, environment, plays, lost>>

WriterPlays ==
  /\ writer # Null
  /\ writer.pc = "play"
  /\ PlayLogStart(writer.task.txid)
  /\ writer' = [writer EXCEPT !.pc = "send"]
  /\ UNCHANGED <<disk, up, applyLsn_, logTable_, conns, queue, timers, player, inbox,
                 toDb, lsnReplies, results, environment, plays, lost>>

WriterSends ==
  /\ writer # Null
  /\ writer.pc = "send"
  /\ PlayLogSend(writer.task.txid, logTable_[writer.task.txid])
  /\ writer' = [writer EXCEPT !.pc = "reply"]
  /\ UNCHANGED <<disk, up, applyLsn_, logTable_, retryTable_, conns, queue, timers,
                 player, inbox, lsnReplies, results, environment, lost>>

\* Variant: the reply is sent and the task is not finished.
RetResultTwice ==
  /\ writer # Null
  /\ writer.pc = "reply"
  /\ results' = [results EXCEPT ![writer.task.txid] = @ + 1]
  /\ UNCHANGED <<disk, up, applyLsn_, tables, conns, threads, inbox, toDb, lsnReplies,
                 environment, plays, lost>>

\* retResult(kTranSuccess, ...).
RetResult ==
  /\ writer # Null
  /\ writer.pc = "reply"
  /\ results' = [results EXCEPT ![writer.task.txid] = @ + 1]
  /\ writer' = Null
  /\ UNCHANGED <<disk, up, applyLsn_, tables, conns, queue, timers, player, inbox, toDb,
                 lsnReplies, environment, plays, lost>>

Write ==
  \/ Take \/ WriterPlays \/ WriterSends \/ RetResult
  \/ \E m \in (IF writer = Null THEN {} ELSE writer.task.reads) :
       \/ WriteToDisk(m) \/ WriteGarbage(m)
       \/ \E ok \in BOOLEAN : WriteToDiskByRocksDb(m, ok)

----------------------------------------------------------------------------
\* The time wheel's thread.

TimerFires(t) ==
  /\ player = Null
  /\ timers[t] > 0
  /\ timers' = [timers EXCEPT ![t] = @ - 1]
  /\ player' = [txid |-> t, data |-> logTable_[t]]
  /\ PlayLogStart(t)
  /\ UNCHANGED <<disk, up, applyLsn_, logTable_, conns, queue, writer, inbox, toDb,
                 lsnReplies, results, environment, plays, lost>>

TimerSends ==
  /\ player # Null
  /\ PlayLogSend(player.txid, player.data)
  /\ player' = Null
  /\ UNCHANGED <<disk, up, applyLsn_, logTable_, retryTable_, conns, queue, writer,
                 timers, inbox, lsnReplies, results, environment, lost>>

TimeWheel == TimerSends \/ \E t \in Txid : TimerFires(t)

Next ==
  /\ up
  /\ \/ \E cmd \in {"kLsn", "kLog"}, t \in Txid : Ask(cmd, t)
     \/ \E cmd \in {"kExecTranSucc", "kExecTranFail"} : DbAnswer(cmd)
     \/ \E state \in {"up", "down"} : OnDbConnection(state)
     \/ \E p \in {"dbs", "db"} : OnMessage(p)
     \/ Write
     \/ TimeWheel

Spec == Init /\ [][Next]_vars

\* The threads run, the database is connected and answers.
FairSpec ==
  /\ Spec
  /\ \A p \in {"dbs", "db"} : WF_vars(up /\ OnMessage(p))
  /\ WF_vars(up /\ Write)
  /\ WF_vars(up /\ TimeWheel)
  /\ WF_vars(up /\ OnDbConnection("up"))
  /\ WF_vars(up /\ \E cmd \in {"kExecTranSucc", "kExecTranFail"} : DbAnswer(cmd))

----------------------------------------------------------------------------

\* The variables have their types, and a failure counter exists for every
\* answer that can still come.
TypeOK ==
  /\ up \in BOOLEAN
  /\ applyLsn_ \in Int
  /\ rocksDb_ \subseteq Txid
  /\ logTable_ \in [Txid -> Seq(Txid)]
  /\ \A t \in Txid : answerTable_[t] # Null => answerTable_[t] \subseteq DOMAIN dbConnVec_
  /\ retryTable_ \in [Txid -> Seq(Nat)]
  /\ dbConnVec_ \in Seq({"up", "down"})
  /\ dbConn \in {"none", "up", "down"}
  /\ timers \in [Txid -> Nat]
  /\ results \in [Txid -> Nat]
  /\ plays \in [Txid -> Nat]
  /\ \A i \in DOMAIN inbox["db"] :
       inbox["db"][i].id \in DOMAIN retryTable_[inbox["db"][i].txid]

Count(seq, t) == Cardinality({i \in DOMAIN seq : seq[i].txid = t})

\* The places where the play of a log can be: with a thread, in a timer, on its
\* way to the database or on its way back as an answer.
InFlight(t) ==
  Count(toDb, t) + Count(inbox["db"], t) + timers[t]
    + (IF player # Null /\ player.txid = t THEN 1 ELSE 0)
    + (IF writer # Null /\ writer.task.txid = t /\ writer.pc \in {"play", "send"} THEN 1 ELSE 0)

\* A log is in one place at a time: playLog sends it once per call, an answer
\* starts at most one timer, and a timer plays it once.
OnePlayInFlight == \A t \in Txid : InFlight(t) <= 1

\* A log is put on the connection at most once and once more per permitted
\* retry, and never again once the database has executed it.
RetriesBounded ==
  \A t \in Txid :
    /\ plays[t] <= MaxRetry + 1
    /\ applied[t] # <<>> => timers[t] = 0 /\ Count(toDb, t) = 0

\* The DB service is told of success at most once per log it sent, and without
\* RocksDB only after the log was entered into logTable_ and handed to the log
\* player.
OneReplyPerLog ==
  \A t \in Txid :
    /\ results[t] <= IF [cmd |-> "kLog", txid |-> t] \in asked THEN 1 ELSE 0
    /\ results[t] > 0 /\ ~useRocksDb => logTable_[t] # <<>> /\ answerTable_[t] # Null

\* A log that was sent once is executed, unless the retries are used up, the
\* connection or a message is lost, or the process dies.
PlayedUntilDone ==
  \A t \in Txid :
    (plays[t] > 0) ~> \/ applied[t] # <<>>
                      \/ \E i \in DOMAIN retryTable_[t] : retryTable_[t][i] > MaxRetry
                      \/ dbConn = "down" \/ t \in lost \/ ~up

\* A transaction reported as successful is executed by the database, unless the
\* retries are used up, the connection or a message is lost, or the process
\* dies.
SuccessIsExecuted ==
  \A t \in Txid :
    (results[t] > 0) ~> \/ applied[t] # <<>>
                        \/ \E i \in DOMAIN retryTable_[t] : retryTable_[t][i] > MaxRetry
                        \/ dbConn = "down" \/ t \in lost \/ ~up
=============================================================================
