---------------------------- MODULE MCDbService ----------------------------
(***************************************************************************)
(* Instances of DbService for TLC.  The transaction ids 0 and 48 are 48    *)
(* apart: the character of 48 is the digit 0.                              *)
(***************************************************************************)
EXTENDS DbService

MCTxid == {0, 48}
MCOneTxid == {48}
MCKey == {"k1"}
MCBucket == {0}
MCgetPos == [k \in MCKey |-> 0]

\* kData with both vectors present: no key, one key read, one key written.
EmptyData == [readSet |-> <<>>, writeSet |-> <<>>]
ReadData == [readSet |-> <<"k1">>, writeSet |-> <<>>]
WriteData == [readSet |-> <<>>, writeSet |-> <<"k1">>]

MCComplete == {EmptyData, ReadData, WriteData}
MCWrites == {EmptyData, WriteData}
MCKeyless == {EmptyData}

\* kData as the entity service builds it: one vector is left out.
MCEntityService ==
  {[readSet |-> <<"k1">>, writeSet |-> Null], [readSet |-> Null, writeSet |-> <<"k1">>]}

MCEvery == MCComplete \cup MCEntityService
============================================================================
