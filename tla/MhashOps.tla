------------------------------ MODULE MhashOps ------------------------------
(***************************************************************************)
(* The operations of base/hash.h on one bucket.  A bucket is the sequence  *)
(* of [key, lsn] entries of its chain, <<>> when head[pos] is null.        *)
(***************************************************************************)
EXTENDS Integers, Sequences

\* The first entry of the chain delLessThan leaves alone, 0 if there is none.
FirstKept(chain, lsn) ==
  LET kept == {i \in DOMAIN chain : chain[i].lsn >= lsn}
  IN  IF kept = {} THEN 0 ELSE CHOOSE i \in kept : \A j \in kept : i <= j

\* Mhash::delLessThan walks the chain until an entry has a large enough LSN.
\* It never asks for null: on an empty bucket, or past the last entry of a
\* chain of smaller LSNs, it dereferences null.
DelLessThanFaults(chain, lsn) == FirstKept(chain, lsn) = 0

DelLessThan(chain, lsn) == SubSeq(chain, FirstKept(chain, lsn), Len(chain))

\* Mhash::exist looks at the bucket, not at the keys in it.
Exist(chain) == chain # <<>>

\* Mhash::insert, once for each entry: it goes to the end of the chain.
Insert(chain, entries) == chain \o entries
=============================================================================
