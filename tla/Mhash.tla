------------------------------- MODULE Mhash -------------------------------
(***************************************************************************)
(* The hash table of committed write keys (base/hash.h) with its growth.   *)
(* rehash calls insert, which may call rehash again, so a call stack is    *)
(* part of the state and every turn of rehash's loop is a step.  One       *)
(* thread uses the table.                                                  *)
(***************************************************************************)
EXTENDS MhashOps, FiniteSets, SequencesExt

CONSTANTS
  Key,        \* data keys
  hash,       \* std::hash<std::string>
  primeNum,   \* the sizes the table can have
  Lsn,        \* log sequence numbers; later writes have larger ones
  Preload,    \* bound: the table starts with this many entries of one key ...
  PreloadKey, \* ... this one
  MaxCopies   \* bound: further entries inserted under each key

Entry == [key : Key, lsn : Lsn]

ASSUME MhashAssumption ==
  /\ hash \in [Key -> Nat]
  /\ Lsn \subseteq Int
  /\ primeNum \in Seq(Nat \ {0}) /\ primeNum # <<>>
  /\ \A i \in 2 .. Len(primeNum) : primeNum[i - 1] < primeNum[i]
  /\ Preload \in 0 .. primeNum[1] - 2 /\ PreloadKey \in Key
  /\ MaxCopies \in [Key -> Nat]

VARIABLES
  head,       \* position -> its chain
  numPoint_,  \* index of the table's size, from 0 as in the code
  sum_,       \* the entry count that decides when to grow
  stack,      \* the active calls of rehash: old array t and loop index i
  status,     \* "up", or what the process died of
  lsn,        \* history: the LSN of the last insert
  copies,     \* history: the number of inserts under each key
  live        \* history: the entries inserted and not deleted, each with its number

vars == <<head, numPoint_, sum_, stack, status, lsn, copies, live>>

Size(point) == primeNum[point + 1]

Empty(size) == [pos \in 0 .. size - 1 |-> <<>>]

\* The constructor's empty table, and the one that results from it when one key
\* has been inserted Preload times.
Init ==
  /\ numPoint_ = 0
  /\ lsn \in Lsn
  /\ \E n \in {0, Preload} :
       LET e == [key |-> PreloadKey, lsn |-> lsn]
       IN  /\ head = [Empty(Size(0)) EXCEPT ![hash[PreloadKey] % Size(0)] =
                        [i \in 1 .. n |-> e]]
           /\ live = [x \in Entry |-> IF x = e THEN n ELSE 0]
           /\ sum_ = n
  /\ stack = <<>>
  /\ status = "up"
  /\ copies = [k \in Key |-> 0]

getPos(key) == hash[key] % Size(numPoint_)

\* Variant: the remainder is taken by one less than the size.
ChainPosShort(chain) == hash[chain[1].key] % (Size(numPoint_) - 1)

\* getPos(info): a chain goes where its first entry belongs.
ChainPos(chain) == getPos(chain[1].key)

\* Variant: the table grows one entry later.
FullLate(sum) == sum = Size(numPoint_)

Full(sum) == sum = Size(numPoint_) - 1

\* insert(info): the chain that begins with info goes to the end of the chain
\* at its position, and counts as one entry.  rehash begins if the table is
\* full; calls are the callers' frames.
InsertChain(chain, calls) ==
  LET filled == [head EXCEPT ![ChainPos(chain)] = Insert(@, chain)]
      grow   == Full(sum_ + 1)
  IN  /\ sum_' = sum_ + 1
      /\ numPoint_' = IF grow THEN numPoint_ + 1 ELSE numPoint_
      /\ head' = IF grow THEN Empty(Size(numPoint_ + 1)) ELSE filled
      /\ stack' = IF grow THEN Append(calls, [t |-> filled, i |-> 0]) ELSE calls

\* insert(k, l).
InsertKey(k, l) ==
  LET e == [key |-> k, lsn |-> l]
  IN  /\ stack = <<>>
      /\ copies[k] < MaxCopies[k]
      /\ lsn <= l
      /\ InsertChain(<<e>>, <<>>)
      /\ lsn' = l
      /\ copies' = [copies EXCEPT ![k] = @ + 1]
      /\ live' = [live EXCEPT ![e] = @ + 1]
      /\ UNCHANGED status

\* Variant: only the first entry of each chain is moved.
MovedFirstOnly(chain) == SubSeq(chain, 1, 1)

\* rehash hands over the head of a chain, and its tail hangs on it.
Moved(chain) == chain

Frame == stack[Len(stack)]

\* Variant: the loop runs over the new table's positions.
BoundNew == Size(numPoint_)

\* The loop's bound is read anew in each turn, after nested calls changed it.
Bound == Size(numPoint_ - 1)

\* The next position whose turn of the loop does anything.
Turn == CHOOSE i \in Frame.i .. Bound :
          /\ i = Bound \/ i \notin DOMAIN Frame.t \/ Frame.t[i] # <<>>
          /\ \A j \in Frame.i .. i - 1 : Frame.t[j] = <<>>

\* rehash's loop: a chain is moved, t is read past its end, or the loop is over.
RehashMove ==
  /\ stack # <<>>
  /\ Turn < Bound /\ Turn \in DOMAIN Frame.t
  /\ InsertChain(Moved(Frame.t[Turn]), [stack EXCEPT ![Len(stack)].i = Turn + 1])
  /\ UNCHANGED <<status, lsn, copies, live>>

RehashOverrun ==
  /\ stack # <<>>
  /\ Turn < Bound /\ Turn \notin DOMAIN Frame.t
  /\ status' = "outOfBounds"
  /\ UNCHANGED <<head, numPoint_, sum_, stack, lsn, copies, live>>

RehashReturn ==
  /\ stack # <<>>
  /\ Turn = Bound
  /\ stack' = Front(stack)
  /\ UNCHANGED <<head, numPoint_, sum_, status, lsn, copies, live>>

\* delLessThan(k, l); the entries it passes are deleted and counted off.
DelLessThanKey(k, l) ==
  LET chain == head[getPos(k)]
      rest  == DelLessThan(chain, l)
      n     == Len(chain) - Len(rest)
  IN  /\ stack = <<>>
      /\ ~DelLessThanFaults(chain, l)
      /\ n > 0
      /\ head' = [head EXCEPT ![getPos(k)] = rest]
      /\ sum_' = sum_ - n
      /\ live' = [e \in Entry |->
                   live[e] - Cardinality({i \in 1 .. n : chain[i] = e})]
      /\ UNCHANGED <<numPoint_, stack, status, lsn, copies>>

DelLessThanNull(k, l) ==
  /\ stack = <<>>
  /\ DelLessThanFaults(head[getPos(k)], l)
  /\ status' = "nullBucket"
  /\ UNCHANGED <<head, numPoint_, sum_, stack, lsn, copies, live>>

Rehash == RehashMove \/ RehashOverrun \/ RehashReturn

Next ==
  /\ status = "up"
  /\ \/ Rehash
     \/ \E k \in Key, l \in Lsn :
          InsertKey(k, l) \/ DelLessThanKey(k, l) \/ DelLessThanNull(k, l)

Spec == Init /\ [][Next]_vars

----------------------------------------------------------------------------

\* The number of times a table holds each entry.
Entries(table) ==
  [e \in Entry |->
     Cardinality({p \in UNION {{<<pos, i>> : i \in DOMAIN table[pos]} : pos \in DOMAIN table} :
                    table[p[1]][p[2]] = e})]

\* Growing loses nothing and duplicates nothing: between two calls the chains
\* hold the entries that were inserted and not deleted, each as often.
NothingLost == stack = <<>> => Entries(head) = live

Held(k) == \E l \in Lsn : live[[key |-> k, lsn |-> l]] > 0

Collides(k) ==
  \E other \in {j \in Key \ {k} : copies[j] > 0 \/ j = PreloadKey}, p \in 0 .. numPoint_ :
    hash[other] % Size(p) = hash[k] % Size(p)

\* exist misses a key in the table only after a growth, and only a key that has
\* shared a position with another: a chain moves with its first entry.
MissedOnlyIfCollides ==
  stack = <<>> =>
    \A k \in Key :
      Held(k) /\ (numPoint_ = 0 \/ ~Collides(k)) => Exist(head[getPos(k)])

\* insert tests the count for equality with the limit, which works because the
\* count can never be past it, nested growth and deletions included.
BelowLimit == sum_ < Size(numPoint_) - 1

\* rehash reads past its old array only when the chains it moves, each counted
\* as a new entry, fill the new table up to its limit.
OverrunNeedsChains ==
  status = "outOfBounds" =>
    \E j \in DOMAIN stack :
      LET t == stack[j].t
          n == Cardinality({pos \in DOMAIN t : t[pos] # <<>>})
      IN  \E i \in 2 .. Len(primeNum) :
            primeNum[i - 1] = Cardinality(DOMAIN t) /\ primeNum[i] <= primeNum[i - 1] + n
============================================================================
