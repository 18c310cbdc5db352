---------------------------- MODULE PgStoreProofs ----------------------------
(***************************************************************************)
(* Proofs about PgStore, for every pool, every number of readers and any   *)
(* payloads: the pool gives each caller one place, and a rebuild nobody    *)
(* reads beside is one transaction, although it never asks for one         *)
(* connection.                                                             *)
(***************************************************************************)
EXTENDS PgStore, FiniteSetTheorems, SequenceTheorems, TLAPS

------------------------------------------------------------------------------
(* The pool.                                                               *)

PoolRecords ==
    [opened : SUBSET Conns, idle : Seq(Conns), busy : [Conns -> Callers \cup {None}],
     queue : Seq(Callers)]

Idles(p) ==
    /\ \A c \in Conns : c \notin p.opened => p.busy[c] = None
    /\ \A i \in DOMAIN p.idle : p.idle[i] \in p.opened /\ p.busy[p.idle[i]] = None
    /\ \A c \in p.opened : p.busy[c] = None => \E i \in DOMAIN p.idle : p.idle[i] = c
    /\ \A i, j \in DOMAIN p.idle : p.idle[i] = p.idle[j] => i = j
    /\ p.queue # <<>> => p.idle = <<>> /\ p.opened = Conns

\* Nobody is in the pool twice.
Once(p) ==
    /\ \A c, d \in Conns : p.busy[c] = p.busy[d] /\ p.busy[c] # None => c = d
    /\ \A i, j \in DOMAIN p.queue : p.queue[i] = p.queue[j] => i = j
    /\ \A c \in Conns, i \in DOMAIN p.queue : p.busy[c] # p.queue[i]

PoolOK(p) == p \in PoolRecords /\ Idles(p) /\ Once(p)

Holds(p, x) ==
    (\E c \in Conns : p.busy[c] = x) \/ (\E i \in DOMAIN p.queue : p.queue[i] = x)

\* The last member of a sequence, and what comes before it.
LEMMA Ends ==
    ASSUME NEW S, NEW s \in Seq(S)
    PROVE  /\ Len(s) \in Nat /\ DOMAIN s = 1..Len(s)
           /\ s # <<>> => /\ Last(s) \in S /\ Last(s) = s[Len(s)] /\ Len(s) \in 1..Len(s)
                          /\ Front(s) \in Seq(S) /\ Len(Front(s)) = Len(s) - 1
                          /\ \A i \in 1..(Len(s) - 1) : Front(s)[i] = s[i]
  <1>1. Len(s) \in Nat /\ DOMAIN s = 1..Len(s)
    BY LenProperties
  <1>2. ASSUME s # <<>>
        PROVE  /\ Last(s) \in S /\ Last(s) = s[Len(s)] /\ Len(s) \in 1..Len(s)
               /\ Front(s) \in Seq(S) /\ Len(Front(s)) = Len(s) - 1
               /\ \A i \in 1..(Len(s) - 1) : Front(s)[i] = s[i]
    <2>1. Len(s) # 0
      BY <1>2, EmptySeq
    <2> QED BY <1>1, <2>1 DEF Last, Front
  <1> QED BY <1>1, <1>2

\* What is appended is last.
LEMMA LastOfAppend ==
    ASSUME NEW S, NEW s \in Seq(S), NEW e \in S
    PROVE  Last(Append(s, e)) = e
  <1>1. Len(Append(s, e)) = Len(s) + 1 /\ Append(s, e)[Len(s) + 1] = e
    BY AppendProperties
  <1> QED BY <1>1 DEF Last

\* The five updates of a pool.
Taken(p, s, c, x)  == [p EXCEPT !.idle = s, !.busy[c] = x]
Opened(p, o, c, x) == [p EXCEPT !.opened = o, !.busy[c] = x]
Served(p, c, x, s) == [p EXCEPT !.busy[c] = x, !.queue = s]
Idled(p, c, s)     == [p EXCEPT !.busy[c] = None, !.idle = s]

\* What the three ways of Acquire leave in each field.
LEMMA TakesIdle ==
    ASSUME NEW p \in PoolRecords, NEW x \in Callers, NEW s \in Seq(Conns), NEW c \in Conns,
           NEW q, q = Taken(p, s, c, x)
    PROVE  /\ q.opened = p.opened /\ q.queue = p.queue
           /\ q.idle = s /\ q.busy = [p.busy EXCEPT ![c] = x] /\ q \in PoolRecords
  BY DEF PoolRecords, Taken

LEMMA Opens ==
    ASSUME NEW p \in PoolRecords, NEW x \in Callers, NEW c \in Conns, NEW o \in SUBSET Conns,
           NEW q, q = Opened(p, o, c, x)
    PROVE  /\ q.opened = o /\ q.queue = p.queue
           /\ q.idle = p.idle /\ q.busy = [p.busy EXCEPT ![c] = x] /\ q \in PoolRecords
  BY DEF PoolRecords, Opened

LEMMA Queues ==
    ASSUME NEW p \in PoolRecords, NEW s \in Seq(Callers), NEW q, q = [p EXCEPT !.queue = s]
    PROVE  /\ q.opened = p.opened /\ q.queue = s
           /\ q.idle = p.idle /\ q.busy = p.busy /\ q \in PoolRecords
  BY DEF PoolRecords

\* A caller that acquires gets one place; the others keep theirs.
LEMMA Acquired ==
    ASSUME NEW p, PoolOK(p), NEW x \in Callers, ~Holds(p, x)
    PROVE  /\ PoolOK(Acquire(p, x))
           /\ \A y \in Callers : Holds(Acquire(p, x), y) <=> Holds(p, y) \/ y = x
           /\ p.opened \subseteq Acquire(p, x).opened
           /\ \A c \in Conns : p.busy[c] # None => Acquire(p, x).busy[c] = p.busy[c]
  <1> DEFINE q == Acquire(p, x)
             Good == /\ PoolOK(q) /\ \A y \in Callers : Holds(q, y) <=> Holds(p, y) \/ y = x
                     /\ p.opened \subseteq q.opened
                     /\ \A c \in Conns : p.busy[c] # None => q.busy[c] = p.busy[c]
  <1>0. x # None /\ None \notin Callers
    BY PgAssumption
  <1>a. /\ p.opened \subseteq Conns /\ p.idle \in Seq(Conns) /\ p.queue \in Seq(Callers)
        /\ p.busy \in [Conns -> Callers \cup {None}]
    BY DEF PoolOK, PoolRecords
  <1>1. CASE p.idle # <<>>
    <2>1. q = Taken(p, Front(p.idle), Last(p.idle), x)
      BY <1>1 DEF Acquire, Taken
    <2>b. Last(p.idle) \in Conns /\ Front(p.idle) \in Seq(Conns)
      BY <1>1, <1>a, Ends
    <2>2. /\ q.opened = p.opened /\ q.queue = p.queue
          /\ q.idle = Front(p.idle) /\ q.busy = [p.busy EXCEPT ![Last(p.idle)] = x]
          /\ q \in PoolRecords
      BY <2>1, <2>b, TakesIdle DEF PoolOK
    <2>3. /\ Last(p.idle) = p.idle[Len(p.idle)] /\ Len(p.idle) \in Nat \ {0}
          /\ DOMAIN p.idle = 1..Len(p.idle) /\ DOMAIN q.idle = 1..(Len(p.idle) - 1)
          /\ \A i \in DOMAIN q.idle : q.idle[i] = p.idle[i]
      <3>1. /\ Last(p.idle) = p.idle[Len(p.idle)] /\ DOMAIN p.idle = 1..Len(p.idle)
            /\ Len(p.idle) \in Nat /\ Len(p.idle) \in 1..Len(p.idle)
            /\ Len(q.idle) = Len(p.idle) - 1
            /\ \A i \in 1..(Len(p.idle) - 1) : q.idle[i] = p.idle[i]
        BY <1>1, <1>a, <2>2, Ends
      <3>2. DOMAIN q.idle = 1..Len(q.idle)
        BY <2>2, <2>b, Ends
      <3> HIDE DEF q
      <3> QED BY <3>1, <3>2
    <2>4. Last(p.idle) \in p.opened /\ p.busy[Last(p.idle)] = None /\ p.queue = <<>>
      <3>1. Len(p.idle) \in DOMAIN p.idle
        BY <2>3
      <3> QED BY <1>1, <2>3, <3>1 DEF PoolOK, Idles
    <2> HIDE DEF q
    <2>5. Idles(q)
      <3>1. \A c \in q.opened : q.busy[c] = None => \E i \in DOMAIN q.idle : q.idle[i] = c
        <4> SUFFICES ASSUME NEW c \in q.opened, q.busy[c] = None
                     PROVE  \E i \in DOMAIN q.idle : q.idle[i] = c
          OBVIOUS
        <4>1. p.busy[c] = None /\ c # Last(p.idle)
          BY <1>0, <1>a, <2>2
        <4>2. PICK i \in DOMAIN p.idle : p.idle[i] = c
          BY <2>2, <4>1 DEF PoolOK, Idles
        <4>3. i \in DOMAIN q.idle
          BY <2>3, <4>1, <4>2
        <4> QED BY <2>3, <4>2, <4>3
      <3>2. \A i \in DOMAIN q.idle : i \in DOMAIN p.idle /\ p.idle[i] # Last(p.idle)
        <4>1. \A i \in DOMAIN q.idle : i \in DOMAIN p.idle /\ i # Len(p.idle)
          BY <2>3
        <4>2. Len(p.idle) \in DOMAIN p.idle
          BY <2>3
        <4> QED BY <2>3, <4>1, <4>2 DEF PoolOK, Idles
      <3> QED BY <1>a, <2>2, <2>3, <2>4, <3>1, <3>2 DEF PoolOK, Idles
    <2>6. Once(q)
      BY <1>0, <1>a, <2>2, <2>4 DEF PoolOK, Once, Holds
    <2>7. \A y \in Callers : Holds(q, y) <=> Holds(p, y) \/ y = x
      BY <1>0, <1>a, <2>2, <2>4 DEF Holds
    <2> QED BY <1>a, <2>2, <2>4, <2>5, <2>6, <2>7 DEF PoolOK, q
  <1>2. CASE p.idle = <<>> /\ p.opened # Conns
    <2> DEFINE c == CHOOSE c \in Conns \ p.opened : TRUE
    <2>1. c \in Conns /\ c \notin p.opened
      BY <1>2, <1>a
    <2>2. q = Opened(p, p.opened \cup {c}, c, x)
      BY <1>2 DEF Acquire, Opened
    <2> HIDE DEF c
    <2>3. /\ q.opened = p.opened \cup {c} /\ q.queue = p.queue
          /\ q.idle = p.idle /\ q.busy = [p.busy EXCEPT ![c] = x] /\ q \in PoolRecords
      BY <1>a, <2>1, <2>2, Opens DEF PoolOK
    <2>4. p.busy[c] = None /\ p.queue = <<>>
      BY <1>2, <2>1 DEF PoolOK, Idles
    <2> HIDE DEF q
    <2>5. Idles(q)
      BY <1>0, <1>a, <2>1, <2>3, <2>4 DEF PoolOK, Idles
    <2>6. Once(q)
      BY <1>0, <1>a, <2>1, <2>3, <2>4 DEF PoolOK, Once, Holds
    <2>7. \A y \in Callers : Holds(q, y) <=> Holds(p, y) \/ y = x
      BY <1>0, <1>a, <2>1, <2>3, <2>4 DEF Holds
    <2> QED BY <1>a, <2>3, <2>4, <2>5, <2>6, <2>7 DEF PoolOK, q
  <1>3. CASE p.idle = <<>> /\ p.opened = Conns
    <2>1. q = [p EXCEPT !.queue = Append(p.queue, x)] /\ Append(p.queue, x) \in Seq(Callers)
      BY <1>3, <1>a, AppendProperties DEF Acquire
    <2>2. /\ q.opened = p.opened /\ q.queue = Append(p.queue, x)
          /\ q.idle = p.idle /\ q.busy = p.busy /\ q \in PoolRecords
      BY <2>1, Queues DEF PoolOK
    <2>3. /\ DOMAIN p.queue = 1..Len(p.queue) /\ DOMAIN q.queue = 1..(Len(p.queue) + 1)
          /\ Len(p.queue) \in Nat
          /\ \A i \in DOMAIN p.queue : q.queue[i] = p.queue[i]
          /\ q.queue[Len(p.queue) + 1] = x
      BY <1>a, <2>2, AppendProperties, LenProperties
    <2> HIDE DEF q
    <2>4. Idles(q)
      BY <1>3, <2>2 DEF PoolOK, Idles
    <2>5. \A i \in DOMAIN q.queue : i \in DOMAIN p.queue \/ i = Len(p.queue) + 1
      BY <2>3
    <2>6. Once(q)
      BY <1>a, <2>2, <2>3, <2>5 DEF PoolOK, Once, Holds
    <2>7. \A y \in Callers : Holds(q, y) <=> Holds(p, y) \/ y = x
      BY <2>2, <2>3, <2>5 DEF Holds
    <2> QED BY <2>2, <2>4, <2>6, <2>7 DEF PoolOK, q
  <1> QED BY <1>1, <1>2, <1>3

\* A connection given back goes to the first in the queue; its caller has no place.
LEMMA Released ==
    ASSUME NEW p, PoolOK(p), NEW c \in Conns, p.busy[c] # None
    PROVE  /\ PoolOK(Release(p, c))
           /\ \A y \in Callers : Holds(Release(p, c), y) <=> Holds(p, y) /\ y # p.busy[c]
           /\ Release(p, c).opened = p.opened
           /\ \A d \in Conns \ {c} : Release(p, c).busy[d] = p.busy[d]
  <1> DEFINE q == Release(p, c)
  <1>0. None \notin Callers
    BY PgAssumption
  <1>a. /\ p.opened \subseteq Conns /\ p.idle \in Seq(Conns) /\ p.queue \in Seq(Callers)
        /\ p.busy \in [Conns -> Callers \cup {None}] /\ c \in p.opened
    BY DEF PoolOK, PoolRecords, Idles
  <1>1. CASE p.queue # <<>>
    <2>1. PICK x \in Callers, r \in Seq(Callers) :
                 x = Head(p.queue) /\ r = Tail(p.queue) /\ q = Served(p, c, x, r)
      BY <1>1, <1>a, HeadTailProperties DEF Release, Served
    <2> HIDE DEF q
    <2>a. /\ q.opened = p.opened /\ q.idle = p.idle /\ q \in PoolRecords
          /\ q.queue = r /\ q.busy = [p.busy EXCEPT ![c] = x]
      <3>1. p \in PoolRecords /\ x \in Callers /\ r \in Seq(Callers) /\ c \in Conns
        BY DEF PoolOK
      <3>2. q = Served(p, c, x, r)
        BY <2>1
      <3> QED BY <3>1, <3>2 DEF Served, PoolRecords
    <2>2. /\ q.opened = p.opened /\ q.idle = p.idle /\ q \in PoolRecords
          /\ q.queue = Tail(p.queue) /\ q.busy = [p.busy EXCEPT ![c] = Head(p.queue)]
      BY <2>1, <2>a
    <2>3. /\ Len(p.queue) \in Nat \ {0} /\ DOMAIN p.queue = 1..Len(p.queue)
          /\ DOMAIN q.queue = 1..(Len(p.queue) - 1)
          /\ \A i \in DOMAIN q.queue : q.queue[i] = p.queue[i + 1]
          /\ Head(p.queue) = p.queue[1] /\ Head(p.queue) \in Callers
      <3>1. /\ q.queue \in Seq(Callers) /\ Len(q.queue) = Len(p.queue) - 1
            /\ \A i \in 1..Len(q.queue) : q.queue[i] = p.queue[i + 1]
            /\ Head(p.queue) \in Callers
        BY <1>1, <1>a, <2>2, HeadTailProperties
      <3>2. Len(p.queue) \in Nat \ {0} /\ DOMAIN p.queue = 1..Len(p.queue)
        BY <1>1, <1>a, LenProperties, EmptySeq
      <3>3. DOMAIN q.queue = 1..Len(q.queue)
        BY <3>1, LenProperties
      <3>4. Head(p.queue) = p.queue[1]
        BY <1>1, <1>a, EmptySeq
      <3>5. DOMAIN q.queue = 1..(Len(p.queue) - 1)
            /\ \A i \in DOMAIN q.queue : q.queue[i] = p.queue[i + 1]
        BY <3>1, <3>3
      <3>6. Head(p.queue) \in Callers
        BY <3>1
      <3>7. Len(p.queue) \in Nat \ {0} /\ DOMAIN p.queue = 1..Len(p.queue)
        BY <3>2
      <3> HIDE <3>1, <3>2, <3>3
      <3> QED BY <3>4, <3>5, <3>6, <3>7, Zenon
    <2>4. Idles(q)
      BY <1>0, <1>1, <1>a, <2>2, <2>3 DEF PoolOK, Idles
    <2>5. \A i \in DOMAIN q.queue : i + 1 \in DOMAIN p.queue /\ i + 1 # 1
      BY <2>3
    <2>6. 1 \in DOMAIN p.queue /\ \A i \in DOMAIN p.queue : i # 1 => i - 1 \in DOMAIN q.queue
                                                             /\ (i - 1) + 1 = i
      BY <2>3
    <2>7. Once(q)
      <3>1. \A d \in Conns : q.busy[d] = IF d = c THEN p.queue[1] ELSE p.busy[d]
        BY <1>a, <2>2, <2>3
      <3>2. \A d, e \in Conns : q.busy[d] = q.busy[e] /\ q.busy[d] # None => d = e
        BY <2>6, <3>1 DEF PoolOK, Once
      <3>3. \A i, j \in DOMAIN q.queue : q.queue[i] = q.queue[j] => i = j
        <4> SUFFICES ASSUME NEW i \in DOMAIN q.queue, NEW j \in DOMAIN q.queue,
                            q.queue[i] = q.queue[j]
                     PROVE  i = j
          OBVIOUS
        <4>1. p.queue[i + 1] = p.queue[j + 1] /\ i + 1 \in DOMAIN p.queue /\ j + 1 \in DOMAIN p.queue
          BY <2>3, <2>5
        <4>2. i + 1 = j + 1
          BY <4>1 DEF PoolOK, Once
        <4> QED BY <2>3, <4>2
      <3>4. ASSUME NEW d \in Conns, NEW i \in DOMAIN q.queue PROVE q.busy[d] # q.queue[i]
        <4>1. q.queue[i] = p.queue[i + 1] /\ i + 1 \in DOMAIN p.queue /\ i + 1 # 1
          BY <2>3, <2>5
        <4> QED BY <2>6, <3>1, <4>1 DEF PoolOK, Once
      <3> QED BY <3>2, <3>3, <3>4 DEF Once
    <2>8. ASSUME NEW y \in Callers PROVE Holds(q, y) <=> Holds(p, y) /\ y # p.busy[c]
      <3>1. \A d \in Conns : q.busy[d] = IF d = c THEN p.queue[1] ELSE p.busy[d]
        BY <1>a, <2>2, <2>3
      <3>2. ASSUME Holds(q, y) PROVE Holds(p, y) /\ y # p.busy[c]
        <4>1. ASSUME NEW d \in Conns, q.busy[d] = y PROVE Holds(p, y) /\ y # p.busy[c]
          BY <1>0, <2>6, <3>1, <4>1 DEF PoolOK, Once, Holds
        <4>2. ASSUME NEW i \in DOMAIN q.queue, q.queue[i] = y PROVE Holds(p, y) /\ y # p.busy[c]
          <5>1. i + 1 \in DOMAIN p.queue /\ p.queue[i + 1] = y
            BY <2>3, <2>5, <4>2
          <5> QED BY <5>1 DEF PoolOK, Once, Holds
        <4> QED BY <3>2, <4>1, <4>2 DEF Holds
      <3>3. ASSUME Holds(p, y), y # p.busy[c] PROVE Holds(q, y)
        <4>1. ASSUME NEW d \in Conns, p.busy[d] = y PROVE Holds(q, y)
          BY <3>1, <3>3, <4>1 DEF Holds
        <4>2. ASSUME NEW i \in DOMAIN p.queue, p.queue[i] = y PROVE Holds(q, y)
          BY <2>3, <2>6, <3>1, <4>2 DEF Holds
        <4> QED BY <3>3, <4>1, <4>2 DEF Holds
      <3> QED BY <3>2, <3>3
    <2> QED BY <1>a, <2>2, <2>4, <2>7, <2>8 DEF PoolOK, q
  <1>2. CASE p.queue = <<>>
    <2>1. PICK r \in Seq(Conns) : r = Append(p.idle, c) /\ q = Idled(p, c, r)
      BY <1>2, <1>a, AppendProperties DEF Release, Idled
    <2> HIDE DEF q
    <2>2. /\ q.opened = p.opened /\ q.idle = Append(p.idle, c) /\ q \in PoolRecords
          /\ q.queue = p.queue /\ q.busy = [p.busy EXCEPT ![c] = None]
      <3>1. /\ q.opened = p.opened /\ q.idle = r /\ q \in PoolRecords
            /\ q.queue = p.queue /\ q.busy = [p.busy EXCEPT ![c] = None]
        <4>1. p \in PoolRecords /\ r \in Seq(Conns) /\ c \in Conns
          BY DEF PoolOK
        <4>2. q = Idled(p, c, r)
          BY <2>1
        <4> QED BY <4>1, <4>2 DEF Idled, PoolRecords
      <3> QED BY <2>1, <3>1
    <2>3. /\ DOMAIN p.idle = 1..Len(p.idle) /\ DOMAIN q.idle = 1..(Len(p.idle) + 1)
          /\ Len(p.idle) \in Nat
          /\ \A i \in DOMAIN p.idle : q.idle[i] = p.idle[i]
          /\ q.idle[Len(p.idle) + 1] = c
      BY <1>a, <2>2, AppendProperties, LenProperties
    <2>4. /\ \A i \in DOMAIN q.idle : i \in DOMAIN p.idle \/ i = Len(p.idle) + 1
          /\ \A i \in DOMAIN p.idle : i \in DOMAIN q.idle /\ p.idle[i] # c
          /\ Len(p.idle) + 1 \in DOMAIN q.idle
      BY <2>3 DEF PoolOK, Idles
    <2>5. Idles(q)
      BY <1>2, <1>a, <2>2, <2>3, <2>4 DEF PoolOK, Idles
    <2>6. Once(q)
      <3>1. \A d \in Conns : q.busy[d] = IF d = c THEN None ELSE p.busy[d]
        BY <1>a, <2>2
      <3>2. DOMAIN q.queue = {}
        BY <1>2, <2>2, EmptySeq
      <3> QED BY <3>1, <3>2 DEF PoolOK, Once
    <2>7. \A y \in Callers : Holds(q, y) <=> Holds(p, y) /\ y # p.busy[c]
      BY <1>0, <1>2, <1>a, <2>2, EmptySeq DEF PoolOK, Once, Holds
    <2> QED BY <1>a, <2>2, <2>5, <2>6, <2>7 DEF PoolOK, q
  <1> QED BY <1>1, <1>2

\* A pool is its fields.
LEMMA SameFields ==
    ASSUME NEW p \in PoolRecords, NEW q \in PoolRecords,
           p.opened = q.opened, p.idle = q.idle, p.busy = q.busy, p.queue = q.queue
    PROVE  p = q
  <1>1. /\ p = [opened |-> p.opened, idle |-> p.idle, busy |-> p.busy, queue |-> p.queue]
        /\ q = [opened |-> q.opened, idle |-> q.idle, busy |-> q.busy, queue |-> q.queue]
    BY DEF PoolRecords
  <1> QED BY <1>1

\* A connection in use that is gone: one who waits gets another in its place.
LEMMA Dropped ==
    ASSUME NEW p, PoolOK(p), NEW c \in Conns, p.busy[c] # None
    PROVE  /\ PoolOK(Drop(p, c))
           /\ \A y \in Callers : Holds(Drop(p, c), y) <=> Holds(p, y) /\ y # p.busy[c]
           /\ p.opened \ {c} \subseteq Drop(p, c).opened
           /\ \A d \in Conns \ {c} : Drop(p, c).busy[d] = p.busy[d]
  <1> DEFINE q == Drop(p, c)
             rest == [p EXCEPT !.opened = @ \ {c}, !.busy[c] = None]
  <1>0. None \notin Callers
    BY PgAssumption
  <1>a. /\ p.opened \subseteq Conns /\ p.idle \in Seq(Conns) /\ p.queue \in Seq(Callers)
        /\ p.busy \in [Conns -> Callers \cup {None}] /\ c \in p.opened /\ p \in PoolRecords
    BY DEF PoolOK, PoolRecords, Idles
  <1>b. /\ rest.opened = p.opened \ {c} /\ rest.idle = p.idle /\ rest.queue = p.queue
        /\ rest.busy = [p.busy EXCEPT ![c] = None] /\ rest \in PoolRecords
    BY <1>a DEF PoolRecords
  <1>1. CASE p.queue # <<>>
    <2>1. p.idle = <<>> /\ p.opened = Conns
      BY <1>1 DEF PoolOK, Idles
    <2>2. PICK h \in Callers, t \in Seq(Callers) : h = Head(p.queue) /\ t = Tail(p.queue)
      BY <1>1, <1>a, HeadTailProperties
    <2> DEFINE less == [rest EXCEPT !.queue = t]
    <2>3. /\ less.opened = Conns \ {c} /\ less.idle = <<>> /\ less.queue = t
          /\ less.busy = [p.busy EXCEPT ![c] = None] /\ less \in PoolRecords
      BY <1>b, <2>1 DEF PoolRecords
    <2>4. q = Acquire(less, h)
      BY <1>1, <1>b, <2>2 DEF Drop
    <2>5. \A d : d \in Conns \ less.opened <=> d = c
      BY <2>3
    <2>6. (CHOOSE d \in Conns \ less.opened : TRUE) = c
      BY <2>5
    <2>7. less.opened # Conns
      BY <2>5
    <2> HIDE DEF less
    <2>8. q = [less EXCEPT !.opened = @ \cup {c}, !.busy[c] = h]
      BY <2>3, <2>4, <2>6, <2>7 DEF Acquire
    <2>9. q = Release(p, c)
      <3>1. Release(p, c) = [p EXCEPT !.busy[c] = h, !.queue = t]
        BY <1>1, <2>2 DEF Release
      <3>2. (Conns \ {c}) \cup {c} = Conns
        OBVIOUS
      <3>3. [[p.busy EXCEPT ![c] = None] EXCEPT ![c] = h] = [p.busy EXCEPT ![c] = h]
        BY <1>a
      <3> HIDE DEF q
      <3>4. /\ q.opened = Conns /\ q.idle = <<>> /\ q.queue = t
            /\ q.busy = [p.busy EXCEPT ![c] = h] /\ q \in PoolRecords
        BY <1>a, <2>3, <2>8, <3>2, <3>3 DEF PoolRecords
      <3>5. PICK u : u = [p EXCEPT !.busy[c] = h, !.queue = t]
        OBVIOUS
      <3>6. /\ u.opened = Conns /\ u.idle = <<>> /\ u.queue = t
            /\ u.busy = [p.busy EXCEPT ![c] = h] /\ u \in PoolRecords
        BY <1>a, <2>1, <3>5 DEF PoolRecords
      <3>7. q = u
        BY <3>4, <3>6, SameFields
      <3> QED BY <3>1, <3>5, <3>7
    <2>10. /\ PoolOK(Release(p, c))
           /\ \A y \in Callers : Holds(Release(p, c), y) <=> Holds(p, y) /\ y # p.busy[c]
           /\ Release(p, c).opened = p.opened
           /\ \A d \in Conns \ {c} : Release(p, c).busy[d] = p.busy[d]
      BY Released
    <2> QED BY <2>9, <2>10
  <1>2. CASE p.queue = <<>>
    <2>1. q = rest
      BY <1>2, <1>b DEF Drop
    <2> HIDE DEF q, rest
    <2>2. \A d \in Conns : q.busy[d] = IF d = c THEN None ELSE p.busy[d]
      BY <1>a, <1>b, <2>1
    <2>3. DOMAIN q.queue = {} /\ DOMAIN p.queue = {}
      BY <1>2, <1>b, <2>1, EmptySeq
    <2>4. \A i \in DOMAIN p.idle : p.idle[i] # c
      BY DEF PoolOK, Idles
    <2>5. Idles(q)
      BY <1>0, <1>2, <1>a, <1>b, <2>1, <2>2, <2>4 DEF PoolOK, Idles
    <2>6. Once(q)
      BY <2>2, <2>3 DEF PoolOK, Once
    <2>7. \A y \in Callers : Holds(q, y) <=> Holds(p, y) /\ y # p.busy[c]
      BY <1>0, <1>a, <2>2, <2>3 DEF PoolOK, Once, Holds
    <2> QED BY <1>b, <2>1, <2>2, <2>5, <2>6, <2>7 DEF PoolOK, q
  <1> QED BY <1>1, <1>2

WithoutIdle(p, i) == [p EXCEPT !.opened = @ \ {p.idle[i]}, !.idle = RemoveAt(@, i)]

\* A connection that stays idle is closed; nobody has it.
LEMMA ClosesIdle ==
    ASSUME NEW p, PoolOK(p), NEW i \in DOMAIN p.idle, NEW q,
           q = WithoutIdle(p, i)
    PROVE  PoolOK(q) /\ q.opened = p.opened \ {p.idle[i]} /\ q.busy = p.busy /\ q.queue = p.queue
  <1>1. /\ p.opened \subseteq Conns /\ p.idle \in Seq(Conns) /\ p \in PoolRecords
        /\ DOMAIN p.idle = 1..Len(p.idle) /\ Len(p.idle) \in Nat
    BY LenProperties DEF PoolOK, PoolRecords
  <1> DEFINE r == RemoveAt(p.idle, i)
  <1>2. /\ r \in Seq(Conns) /\ Len(r) = Len(p.idle) - 1
        /\ \A k \in 1..(Len(p.idle) - 1) : r[k] = IF k < i THEN p.idle[k] ELSE p.idle[k + 1]
    <2>1. /\ SubSeq(p.idle, 1, i - 1) \in Seq(Conns) /\ Len(SubSeq(p.idle, 1, i - 1)) = i - 1
          /\ \A k \in 1..(i - 1) : SubSeq(p.idle, 1, i - 1)[k] = p.idle[k]
      BY <1>1
    <2>2. /\ SubSeq(p.idle, i + 1, Len(p.idle)) \in Seq(Conns)
          /\ Len(SubSeq(p.idle, i + 1, Len(p.idle))) = Len(p.idle) - i
          /\ \A k \in 1..(Len(p.idle) - i) : SubSeq(p.idle, i + 1, Len(p.idle))[k] = p.idle[k + i]
      BY <1>1
    <2> DEFINE a == SubSeq(p.idle, 1, i - 1)
               b == SubSeq(p.idle, i + 1, Len(p.idle))
    <2>3. r = a \o b
      BY DEF RemoveAt
    <2> HIDE DEF a, b, r
    <2>4. a \in Seq(Conns) /\ b \in Seq(Conns)
      BY <2>1, <2>2 DEF a, b
    <2>5. /\ r \in Seq(Conns) /\ Len(r) = Len(a) + Len(b)
          /\ \A k \in 1..(Len(a) + Len(b)) : r[k] = IF k <= Len(a) THEN a[k] ELSE b[k - Len(a)]
      BY <2>3, <2>4, ConcatProperties
    <2>6. i \in 1..Len(p.idle)
      BY <1>1
    <2>7. Len(a) = i - 1 /\ \A k \in 1..(i - 1) : a[k] = p.idle[k]
      BY <2>1 DEF a
    <2>8. Len(b) = Len(p.idle) - i /\ \A k \in 1..(Len(p.idle) - i) : b[k] = p.idle[k + i]
      BY <2>2 DEF b
    <2>9. Len(a) + Len(b) = Len(p.idle) - 1
      BY <1>1, <2>6, <2>7, <2>8
    <2>10. ASSUME NEW k \in 1..(Len(p.idle) - 1)
           PROVE  r[k] = IF k < i THEN p.idle[k] ELSE p.idle[k + 1]
      <3>1. CASE k < i
        <4>1. k \in 1..(i - 1) /\ k \in 1..(Len(a) + Len(b)) /\ k <= Len(a)
          BY <1>1, <2>6, <2>7, <2>9, <3>1
        <4>2. r[k] = a[k] /\ a[k] = p.idle[k]
          BY <2>5, <2>7, <4>1
        <4> QED BY <3>1, <4>2
      <3>2. CASE ~(k < i)
        <4>1. /\ k \in 1..(Len(a) + Len(b)) /\ ~(k <= Len(a)) /\ k - Len(a) = k - i + 1
              /\ k - i + 1 \in 1..(Len(p.idle) - i) /\ (k - i + 1) + i = k + 1
          BY <1>1, <2>6, <2>7, <2>9, <3>2
        <4>2. r[k] = b[k - i + 1] /\ b[k - i + 1] = p.idle[(k - i + 1) + i]
          BY <2>5, <2>8, <4>1
        <4> QED BY <3>2, <4>1, <4>2
      <3> QED BY <3>1, <3>2
    <2> QED BY <2>5, <2>9, <2>10
  <1> HIDE DEF r
  <1>3. /\ q.opened = p.opened \ {p.idle[i]} /\ q.idle = r /\ q.queue = p.queue
        /\ q.busy = p.busy /\ q \in PoolRecords
    BY <1>1, <1>2 DEF PoolRecords, r, WithoutIdle
  <1>4. DOMAIN q.idle = 1..(Len(p.idle) - 1)
    BY <1>2, <1>3, LenProperties
  <1>5. Idles(q)
    <2>1. \A c \in Conns : c \notin q.opened => q.busy[c] = None
      BY <1>3 DEF PoolOK, Idles
    <2>2. ASSUME NEW k \in DOMAIN q.idle
          PROVE  \E j \in DOMAIN p.idle : /\ j = (IF k < i THEN k ELSE k + 1) /\ j # i
                                          /\ q.idle[k] = p.idle[j]
      <3>1. CASE k < i
        <4>1. k \in DOMAIN p.idle /\ q.idle[k] = p.idle[k] /\ k # i
          BY <1>1, <1>2, <1>3, <1>4, <3>1
        <4> QED BY <3>1, <4>1
      <3>2. CASE ~(k < i)
        <4>1. k + 1 \in DOMAIN p.idle /\ k + 1 # i /\ k \in 1..(Len(p.idle) - 1)
          BY <1>1, <1>4, <3>2
        <4>2. q.idle[k] = p.idle[k + 1]
          BY <1>2, <1>3, <3>2, <4>1
        <4> QED BY <3>2, <4>1, <4>2
      <3> QED BY <3>1, <3>2
    <2>3. \A k \in DOMAIN q.idle : q.idle[k] \in q.opened /\ q.busy[q.idle[k]] = None
      BY <1>3, <2>2 DEF PoolOK, Idles
    <2>4. ASSUME NEW c \in q.opened, q.busy[c] = None PROVE \E k \in DOMAIN q.idle : q.idle[k] = c
      <3>1. PICK j \in DOMAIN p.idle : p.idle[j] = c
        BY <1>3, <2>4 DEF PoolOK, Idles
      <3>2. j # i
        BY <1>3, <3>1
      <3>3. PICK k \in 1..(Len(p.idle) - 1) : j = IF k < i THEN k ELSE k + 1
        <4>1. CASE j < i
          BY <1>1, <4>1
        <4>2. CASE j > i
          <5>1. j - 1 \in 1..(Len(p.idle) - 1) /\ ~(j - 1 < i) /\ (j - 1) + 1 = j
            BY <1>1, <4>2
          <5> QED BY <5>1
        <4> QED BY <1>1, <3>2, <4>1, <4>2
      <3> QED BY <1>2, <1>3, <1>4, <3>1, <3>3
    <2>5. ASSUME NEW k \in DOMAIN q.idle, NEW l \in DOMAIN q.idle, q.idle[k] = q.idle[l]
          PROVE  k = l
      <3>1. PICK j \in DOMAIN p.idle : j = (IF k < i THEN k ELSE k + 1) /\ q.idle[k] = p.idle[j]
        BY <2>2
      <3>2. PICK m \in DOMAIN p.idle : m = (IF l < i THEN l ELSE l + 1) /\ q.idle[l] = p.idle[m]
        BY <2>2
      <3>3. j = m
        BY <2>5, <3>1, <3>2 DEF PoolOK, Idles
      <3> QED BY <1>1, <1>4, <3>1, <3>2, <3>3
    <2>6. p.queue = <<>>
      <3>1. p.idle # <<>>
        BY <1>1, EmptySeq
      <3> QED BY <3>1 DEF PoolOK, Idles
    <2> QED BY <1>3, <2>1, <2>3, <2>4, <2>5, <2>6 DEF Idles
  <1>6. Once(q)
    BY <1>3 DEF PoolOK, Once
  <1> QED BY <1>3, <1>5, <1>6 DEF PoolOK

\* The connection given back last is taken first.
LEMMA SameConnection ==
    ASSUME NEW p, PoolOK(p), NEW c \in Conns, p.busy[c] # None, p.queue = <<>>, NEW x \in Callers
    PROVE  Acquire(Release(p, c), x).busy[c] = x
  <1> DEFINE q == Release(p, c)
  <1>1. /\ p.idle \in Seq(Conns) /\ p \in PoolRecords /\ p.busy \in [Conns -> Callers \cup {None}]
    BY DEF PoolOK, PoolRecords
  <1>2. q = [p EXCEPT !.busy[c] = None, !.idle = Append(p.idle, c)]
    BY DEF Release
  <1>a. PICK r \in Seq(Conns) : r = Append(p.idle, c) /\ Last(r) = c /\ r # <<>>
    <2>1. Append(p.idle, c) \in Seq(Conns) /\ Append(p.idle, c) # <<>>
      BY <1>1, AppendProperties
    <2>2. Last(Append(p.idle, c)) = c
      BY <1>1, LastOfAppend
    <2> QED BY <2>1, <2>2
  <1> HIDE DEF q
  <1>3. q.idle = r /\ q.busy = [p.busy EXCEPT ![c] = None] /\ q \in PoolRecords
    <2>1. q = [p EXCEPT !.busy[c] = None, !.idle = r] /\ r \in Seq(Conns)
      BY <1>2, <1>a
    <2> QED BY <1>1, <2>1 DEF PoolRecords
  <1>4. Last(q.idle) = c /\ q.idle # <<>>
    BY <1>3, <1>a
  <1>5. Acquire(q, x) = [q EXCEPT !.idle = Front(@), !.busy[c] = x]
    BY <1>4 DEF Acquire
  <1> QED BY <1>1, <1>3, <1>5 DEF q, PoolRecords

------------------------------------------------------------------------------
(* The callers.                                                            *)

Counts == Nat \cup {Cardinality(S) : S \in SUBSET AllRows}
Jobs ==
    [pc : {"idle", "init", "query", "rename", "metadata"}, todo : Seq(Statements),
     got : Seq(Counts), payload : Payloads]

\* What is left of a rebuild whose next statement is the k-th.
From(p, k) == SubSeq(fullRebuild(p), k, Len(fullRebuild(p)))
Undo == <<Statement("rollback", <<>>)>>

RefreshJob(j) ==
    /\ j.pc = "idle" => j = NoJob
    /\ j.pc = "init" => j.todo = fullRebuild(j.payload)
    /\ j.pc = "query" =>
        j.todo = Undo \/ \E k \in 1..Len(fullRebuild(j.payload)) : j.todo = From(j.payload, k)

ReaderJob(j) ==
    /\ j.pc \in {"idle", "init", "query"} /\ (j.pc = "idle" => j = NoJob)
    /\ j.pc = "init" => j.todo = getCounts /\ j.got = <<>>
    /\ j.pc = "query" => \/ j.todo = getCounts /\ j.got = <<>>
                         \/ j.todo = Tail(getCounts) /\ Len(j.got) = 1

Create == [NoJob EXCEPT !.pc = "query", !.todo = <<Statement("create", <<>>)>>]

\* Who is in the pool has a statement to run, and all but the one that creates
\* the schema have awaited it.
CallersOK(p, j, promise) ==
    /\ PoolOK(p) /\ j \in [Callers -> Jobs]
    /\ promise \in {"none", "pending", "resolved", "rejected"}
    /\ \A x \in Callers : Holds(p, x) <=> j[x].pc = "query"
    /\ RefreshJob(j["refresh"]) /\ \A x \in Readers : ReaderJob(j[x])
    /\ j["initSchema"] = IF promise = "pending" THEN Create ELSE NoJob
    /\ \A x \in Readers \cup {"refresh"} : j[x].pc = "query" => promise = "resolved"

CallersInv == CallersOK(pool, job, initPromise)

------------------------------------------------------------------------------
(* The transactions.                                                       *)

Transactions ==
    [status : {"none", "open"}, deleted : SUBSET AllRows, inserted : SUBSET AllRows]

\* No row is deleted by two transactions, whatever connections they began on.
TxOK(r, t, opened) ==
    /\ r \subseteq AllRows /\ t \in [Conns -> Transactions]
    /\ \A c \in Conns : t[c].deleted \subseteq r /\ (t[c].status = "none" => t[c] = NoTx)
    /\ \A c, d \in Conns : c # d => t[c].deleted \cap t[d].deleted = {}
    /\ \A c \in Conns \ opened : t[c] = NoTx

TxInv == TxOK(rows, tx, pool.opened)

RestInv ==
    /\ index \in Nat /\ metadata \in Nat \cup {None}
    /\ bootstrapState \in {"ready", "failed"} /\ {tainted, cut} \subseteq BOOLEAN

------------------------------------------------------------------------------
(* A rebuild nobody reads beside.                                          *)

Closed == \A c \in Conns : tx[c] = NoTx

DeletedBefore(k) ==
    IF k = 2 THEN {} ELSE IF k = 3 THEN InTable("edges", rows) ELSE rows
InsertedBefore(p, k) == {fullRebuild(p)[i].row : i \in 4..(k - 1)}

\* Before the k-th statement of a rebuild: one connection has done the others,
\* and the rebuild has it.
Reached(p, k) ==
    \/ k = 1 /\ Closed
    \/ /\ k > 1
       /\ \E c \in Conns :
            /\ pool.busy[c] = "refresh" /\ \A d \in Conns \ {c} : tx[d] = NoTx
            /\ tx[c] = [status |-> "open", deleted |-> DeletedBefore(k),
                        inserted |-> InsertedBefore(p, k)]

Quiet ==
    LET j == job["refresh"]
    IN  /\ j.pc = "idle" \/ \A x \in Readers : job[x].pc = "idle"
        /\ j.pc # "query" => Closed
        /\ j.pc = "query" =>
            \/ j.todo = Undo /\ Closed
            \/ \E k \in 1..Len(fullRebuild(j.payload)) :
                  j.todo = From(j.payload, k) /\ Reached(j.payload, k)
        /\ j.pc = "rename" => rows = Rows(j.payload)
        /\ \A x \in Readers : job[x].pc = "query" /\ job[x].todo = Tail(getCounts)
                              /\ job[x].got[1] > 0 => InTable("nodes", rows) # {}

QuietInv == ~tainted => Quiet

\* Outside the turn that writes both, the metadata tells what the index holds,
\* unless that turn was cut off between the two.
EvidenceInv ==
    LET j == job["refresh"]
    IN  /\ j.pc = "metadata" => index = j.payload.documents
        /\ j.pc # "metadata" /\ ~cut => metadata \in {None, index}

Inv == CallersInv /\ TxInv /\ RestInv /\ QuietInv /\ EvidenceInv /\ ReadyIsGrounded

------------------------------------------------------------------------------
(* The statements of a rebuild.                                            *)

\* The statements that are written out in the module.
LEMMA StatementTypes ==
    /\ \A v \in {"create", "begin", "commit", "rollback", "count nodes", "count edges",
                 "delete edges", "delete nodes"} : Statement(v, <<>>) \in Statements
    /\ \A r \in AllRows : Statement("insert", r) \in Statements
    /\ \A s \in Statements : s.verb = "insert" => s.row \in AllRows
    /\ \A v, r : Statement(v, r).verb = v /\ Statement(v, r).row = r
  <1>1. \A v, r : Statement(v, r).verb = v /\ Statement(v, r).row = r
    BY DEF Statement
  <1>2. \A v \in {"create", "begin", "commit", "rollback", "count nodes", "count edges",
                  "delete edges", "delete nodes"} : Statement(v, <<>>) \in Statements
    BY DEF Statements
  <1>3. \A r \in AllRows : Statement("insert", r) \in Statements
    BY DEF Statements
  <1>4. ASSUME NEW s \in Statements, s.verb = "insert" PROVE s.row \in AllRows
    <2>1. CASE \E v \in {"create", "begin", "commit", "rollback", "count nodes", "count edges",
                         "delete edges", "delete nodes"} : s = Statement(v, <<>>)
      BY <1>1, <1>4, <2>1
    <2>2. CASE \E r \in AllRows : s = Statement("insert", r)
      BY <1>1, <2>2
    <2> QED BY <2>1, <2>2 DEF Statements
  <1> QED BY <1>1, <1>2, <1>3, <1>4

\* What a concatenation holds, and where.
LEMMA Concatenation ==
    ASSUME NEW S, NEW a \in Seq(S), NEW b \in Seq(S), NEW s, s = a \o b
    PROVE  /\ s \in Seq(S) /\ Len(s) = Len(a) + Len(b)
           /\ DOMAIN s = 1..Len(s) /\ DOMAIN a = 1..Len(a) /\ DOMAIN b = 1..Len(b)
           /\ Len(a) \in Nat /\ Len(b) \in Nat
           /\ \A i \in DOMAIN a : i \in DOMAIN s /\ s[i] = a[i]
           /\ \A i \in DOMAIN b : i + Len(a) \in DOMAIN s /\ s[i + Len(a)] = b[i]
           /\ \A i \in DOMAIN s : \/ i \in DOMAIN a
                                  \/ i - Len(a) \in DOMAIN b /\ (i - Len(a)) + Len(a) = i
  <1>1. /\ DOMAIN a = 1..Len(a) /\ DOMAIN b = 1..Len(b) /\ Len(a) \in Nat /\ Len(b) \in Nat
    BY LenProperties
  <1>2. /\ s \in Seq(S) /\ Len(s) = Len(a) + Len(b)
        /\ \A i \in 1..(Len(a) + Len(b)) : s[i] = IF i <= Len(a) THEN a[i] ELSE b[i - Len(a)]
    BY ConcatProperties
  <1>3. DOMAIN s = 1..Len(s)
    BY <1>2, LenProperties
  <1>4. \A i \in DOMAIN a : i \in DOMAIN s /\ s[i] = a[i]
    BY <1>1, <1>2, <1>3
  <1>5. \A i \in DOMAIN b : i + Len(a) \in DOMAIN s /\ s[i + Len(a)] = b[i]
    <2> SUFFICES ASSUME NEW i \in DOMAIN b PROVE i + Len(a) \in DOMAIN s /\ s[i + Len(a)] = b[i]
      OBVIOUS
    <2>1. i + Len(a) \in 1..(Len(a) + Len(b)) /\ ~(i + Len(a) <= Len(a)) /\ (i + Len(a)) - Len(a) = i
      BY <1>1
    <2>2. s[i + Len(a)] = b[(i + Len(a)) - Len(a)]
      BY <1>2, <2>1
    <2> QED BY <1>2, <1>3, <2>1, <2>2
  <1>6. \A i \in DOMAIN s : \/ i \in DOMAIN a
                            \/ i - Len(a) \in DOMAIN b /\ (i - Len(a)) + Len(a) = i
    BY <1>1, <1>2, <1>3
  <1> QED BY <1>1, <1>2, <1>3, <1>4, <1>5, <1>6

\* The inserts of a payload are those of its rows.
LEMMA InsertsRows ==
    ASSUME NEW p \in Payloads
    PROVE  /\ Inserts(p) \in Seq(Statements)
           /\ \A i \in DOMAIN Inserts(p) : Inserts(p)[i].verb = "insert"
           /\ {Inserts(p)[i].row : i \in DOMAIN Inserts(p)} = Rows(p)
  <1> DEFINE a == [i \in DOMAIN p.nodes |-> Statement("insert", <<"nodes", p.nodes[i]>>)]
             b == [i \in DOMAIN p.edges |-> Statement("insert", <<"edges", p.edges[i]>>)]
             s == a \o b
  <1>1. /\ DOMAIN p.nodes = 1..Len(p.nodes) /\ Len(p.nodes) \in Nat
        /\ DOMAIN p.edges = 1..Len(p.edges) /\ Len(p.edges) \in Nat
    BY PgAssumption, LenProperties
  <1>2. Rows(p) \subseteq AllRows
    BY DEF AllRows
  <1>3. /\ \A i \in DOMAIN p.nodes : <<"nodes", p.nodes[i]>> \in Rows(p)
        /\ \A i \in DOMAIN p.edges : <<"edges", p.edges[i]>> \in Rows(p)
        /\ \A r \in Rows(p) : \/ \E i \in DOMAIN p.nodes : r = <<"nodes", p.nodes[i]>>
                              \/ \E i \in DOMAIN p.edges : r = <<"edges", p.edges[i]>>
    BY DEF Rows, NodeRows, EdgeRows
  <1>4. /\ a \in [1..Len(p.nodes) -> Statements] /\ b \in [1..Len(p.edges) -> Statements]
        /\ \A i \in DOMAIN p.nodes : a[i].verb = "insert" /\ a[i].row = <<"nodes", p.nodes[i]>>
        /\ \A i \in DOMAIN p.edges : b[i].verb = "insert" /\ b[i].row = <<"edges", p.edges[i]>>
    BY <1>1, <1>2, <1>3, StatementTypes
  <1>a. Inserts(p) = s
    BY DEF Inserts
  <1> HIDE DEF a, b
  <1>5. a \in Seq(Statements) /\ b \in Seq(Statements)
        /\ DOMAIN a = DOMAIN p.nodes /\ DOMAIN b = DOMAIN p.edges
    BY <1>1, <1>4
  <1>6. /\ s \in Seq(Statements) /\ \A i \in DOMAIN a : i \in DOMAIN s /\ s[i] = a[i]
        /\ \A i \in DOMAIN b : i + Len(a) \in DOMAIN s /\ s[i + Len(a)] = b[i]
        /\ \A i \in DOMAIN s : \/ i \in DOMAIN a
                               \/ i - Len(a) \in DOMAIN b /\ (i - Len(a)) + Len(a) = i
    BY <1>5, Concatenation
  <1> HIDE DEF s
  <1>7. \A i \in DOMAIN s : (\E k \in DOMAIN a : s[i] = a[k]) \/ (\E k \in DOMAIN b : s[i] = b[k])
    BY <1>6
  <1>8. \A i \in DOMAIN s : s[i].verb = "insert" /\ s[i].row \in Rows(p)
    <2>1. ASSUME NEW k \in DOMAIN a PROVE a[k].verb = "insert" /\ a[k].row \in Rows(p)
      <3>1. k \in DOMAIN p.nodes
        BY <1>5
      <3>2. a[k].verb = "insert" /\ a[k].row = <<"nodes", p.nodes[k]>>
        BY <1>4, <3>1
      <3> QED BY <1>3, <3>1, <3>2
    <2>2. ASSUME NEW k \in DOMAIN b PROVE b[k].verb = "insert" /\ b[k].row \in Rows(p)
      <3>1. k \in DOMAIN p.edges
        BY <1>5
      <3>2. b[k].verb = "insert" /\ b[k].row = <<"edges", p.edges[k]>>
        BY <1>4, <3>1
      <3> QED BY <1>3, <3>1, <3>2
    <2> QED BY <1>7, <2>1, <2>2, Zenon
  <1>9. \A r \in Rows(p) : \E i \in DOMAIN s : s[i].row = r
    <2> SUFFICES ASSUME NEW r \in Rows(p) PROVE \E i \in DOMAIN s : s[i].row = r
      OBVIOUS
    <2>1. CASE \E i \in DOMAIN p.nodes : r = <<"nodes", p.nodes[i]>>
      <3>1. PICK i \in DOMAIN a : a[i].row = r
        BY <1>4, <1>5, <2>1
      <3> QED BY <1>6, <3>1
    <2>2. CASE \E i \in DOMAIN p.edges : r = <<"edges", p.edges[i]>>
      <3>1. PICK i \in DOMAIN b : b[i].row = r
        BY <1>4, <1>5, <2>2
      <3> QED BY <1>6, <3>1
    <2> QED BY <1>3, <2>1, <2>2
  <1>10. {s[i].row : i \in DOMAIN s} = Rows(p)
    BY <1>8, <1>9
  <1> QED BY <1>a, <1>6, <1>8, <1>10

\* A rebuild begins, deletes the edges, then the nodes, inserts and commits.
LEMMA Script ==
    ASSUME NEW p \in Payloads
    PROVE  LET l == fullRebuild(p)
           IN  /\ l \in Seq(Statements) /\ Len(l) \in Nat /\ Len(l) >= 4
               /\ l[1].verb = "begin" /\ l[2].verb = "delete edges" /\ l[3].verb = "delete nodes"
               /\ l[Len(l)].verb = "commit"
               /\ \A i \in 4..(Len(l) - 1) : l[i].verb = "insert"
               /\ {l[i].row : i \in 4..(Len(l) - 1)} = Rows(p)
  <1>1. PICK s \in Seq(Statements) :
            /\ s = Inserts(p) /\ \A i \in DOMAIN s : s[i].verb = "insert"
            /\ {s[i].row : i \in DOMAIN s} = Rows(p)
    BY InsertsRows
  <1>2. PICK h \in Seq(Statements) :
            /\ h = Begin \o Deletes /\ Len(h) = 3 /\ h[1].verb = "begin"
            /\ h[2].verb = "delete edges" /\ h[3].verb = "delete nodes"
    <2>1. PICK u \in Statements, v \in Statements, w \in Statements :
              /\ u = Statement("begin", <<>>) /\ v = Statement("delete edges", <<>>)
              /\ w = Statement("delete nodes", <<>>)
      BY StatementTypes
    <2>2. u.verb = "begin" /\ v.verb = "delete edges" /\ w.verb = "delete nodes"
      BY <2>1, StatementTypes
    <2>3. PICK h : h = <<u>> \o <<v, w>>
      OBVIOUS
    <2>4. h \in Seq(Statements) /\ Len(h) = 3 /\ h[1] = u /\ h[2] = v /\ h[3] = w
      BY <2>3
    <2>5. h = Begin \o Deletes
      BY <2>1, <2>3 DEF Begin, Deletes
    <2> QED BY <2>2, <2>4, <2>5
  <1>3. PICK e \in Seq(Statements) : e = Commit /\ Len(e) = 1 /\ e[1].verb = "commit"
    <2>1. PICK u \in Statements : u = Statement("commit", <<>>)
      BY StatementTypes
    <2>2. PICK e : e = <<u>>
      OBVIOUS
    <2>3. e \in Seq(Statements) /\ Len(e) = 1 /\ e[1] = u
      BY <2>2
    <2>4. e = Commit /\ u.verb = "commit"
      BY <2>1, <2>2, StatementTypes DEF Commit
    <2> QED BY <2>3, <2>4
  <1>4. PICK g : g = h \o s
    OBVIOUS
  <1>5. PICK l : l = g \o e
    OBVIOUS
  <1>6. l = fullRebuild(p)
    BY <1>1, <1>2, <1>3, <1>4, <1>5 DEF fullRebuild
  <1>7. /\ g \in Seq(Statements) /\ Len(g) = Len(s) + 3 /\ Len(s) \in Nat
        /\ DOMAIN s = 1..Len(s) /\ DOMAIN g = 1..(Len(s) + 3)
        /\ g[1] = h[1] /\ g[2] = h[2] /\ g[3] = h[3]
        /\ \A i \in DOMAIN s : i + 3 \in DOMAIN g /\ g[i + 3] = s[i]
    <2>1. /\ g \in Seq(Statements) /\ Len(g) = Len(h) + Len(s) /\ Len(s) \in Nat
          /\ DOMAIN s = 1..Len(s) /\ DOMAIN g = 1..Len(g) /\ DOMAIN h = 1..Len(h)
          /\ \A i \in DOMAIN h : i \in DOMAIN g /\ g[i] = h[i]
          /\ \A i \in DOMAIN s : i + Len(h) \in DOMAIN g /\ g[i + Len(h)] = s[i]
      BY <1>4, Concatenation
    <2>a. DOMAIN h = 1..3
      BY <1>2, <2>1
    <2>b. 1 \in DOMAIN h /\ 2 \in DOMAIN h /\ 3 \in DOMAIN h
      BY <2>a
    <2>2. Len(h) = 3 /\ 1 \in DOMAIN h /\ 2 \in DOMAIN h /\ 3 \in DOMAIN h
      BY <1>2, <2>b, Zenon
    <2>3. g[1] = h[1] /\ g[2] = h[2] /\ g[3] = h[3]
      BY <2>1, <2>2
    <2>4. \A i \in DOMAIN s : i + 3 \in DOMAIN g /\ g[i + 3] = s[i]
      BY <2>1, <2>2
    <2>5. DOMAIN g = 1..(Len(s) + 3) /\ Len(g) = Len(s) + 3
      BY <2>1, <2>2
    <2> QED BY <2>1, <2>3, <2>4, <2>5
  <1>8. /\ l \in Seq(Statements) /\ Len(l) = Len(s) + 4
        /\ \A i \in DOMAIN g : l[i] = g[i]
        /\ l[Len(s) + 4] = e[1]
    <2>1. /\ l \in Seq(Statements) /\ Len(l) = Len(g) + Len(e) /\ DOMAIN e = 1..Len(e)
          /\ \A i \in DOMAIN g : i \in DOMAIN l /\ l[i] = g[i]
          /\ \A i \in DOMAIN e : i + Len(g) \in DOMAIN l /\ l[i + Len(g)] = e[i]
      <3>1. g \in Seq(Statements) /\ e \in Seq(Statements)
        BY <1>7
      <3> QED BY <1>5, <3>1, Concatenation
    <2>2. 1 \in DOMAIN e /\ 1 + Len(g) = Len(s) + 4 /\ Len(g) + Len(e) = Len(s) + 4
      BY <1>3, <1>7, <2>1
    <2> QED BY <2>1, <2>2
  <1>9. l[1] = h[1] /\ l[2] = h[2] /\ l[3] = h[3]
    <2>1. 1 \in DOMAIN g /\ 2 \in DOMAIN g /\ 3 \in DOMAIN g
      BY <1>7
    <2> QED BY <1>7, <1>8, <2>1
  <1>10. \A i \in DOMAIN s : i + 3 \in 4..(Len(l) - 1) /\ l[i + 3] = s[i]
    BY <1>7, <1>8
  <1>11. \A i \in 4..(Len(l) - 1) : \E k \in DOMAIN s : l[i] = s[k]
    <2> SUFFICES ASSUME NEW i \in 4..(Len(l) - 1) PROVE \E k \in DOMAIN s : l[i] = s[k]
      OBVIOUS
    <2>1. i - 3 \in DOMAIN s /\ (i - 3) + 3 = i
      BY <1>7, <1>8
    <2>2. l[(i - 3) + 3] = s[i - 3]
      BY <1>10, <2>1
    <2> QED BY <2>1, <2>2
  <1>12. {l[i].row : i \in 4..(Len(l) - 1)} = {s[i].row : i \in DOMAIN s}
    <2>1. \A i \in 4..(Len(l) - 1) : \E k \in DOMAIN s : l[i].row = s[k].row
      BY <1>11
    <2>2. \A k \in DOMAIN s : \E i \in 4..(Len(l) - 1) : l[i].row = s[k].row
      BY <1>10
    <2>3. ASSUME NEW r
          PROVE  (\E i \in 4..(Len(l) - 1) : r = l[i].row) <=> (\E i \in DOMAIN s : r = s[i].row)
      BY <2>1, <2>2, Zenon
    <2> QED BY <2>3
  <1>13. \A i \in 4..(Len(l) - 1) : l[i].verb = "insert"
    BY <1>1, <1>11
  <1>14. Len(l) \in Nat /\ Len(l) >= 4 /\ l[Len(l)].verb = "commit"
    BY <1>3, <1>7, <1>8
  <1>15. l[1].verb = "begin" /\ l[2].verb = "delete edges" /\ l[3].verb = "delete nodes"
    BY <1>2, <1>9
  <1>16. {l[i].row : i \in 4..(Len(l) - 1)} = Rows(p) /\ l \in Seq(Statements)
    BY <1>1, <1>8, <1>12
  <1> QED BY <1>6, <1>13, <1>14, <1>15, <1>16

\* No statement but the last of a rebuild is a commit.
LEMMA CommitIsLast ==
    ASSUME NEW p \in Payloads, NEW k \in 1..Len(fullRebuild(p)), fullRebuild(p)[k].verb = "commit"
    PROVE  k = Len(fullRebuild(p)) /\ k >= 4 /\ k \in Nat /\ k # 2 /\ k # 3 /\ k > 1
  <1>1. PICK l : /\ l = fullRebuild(p) /\ Len(l) \in Nat /\ Len(l) >= 4
                 /\ l[1].verb = "begin" /\ l[2].verb = "delete edges" /\ l[3].verb = "delete nodes"
                 /\ \A i \in 4..(Len(l) - 1) : l[i].verb = "insert"
    BY Script
  <1>2. k \in 1..Len(l) /\ l[k].verb = "commit"
    BY <1>1
  <1>3. k # 1 /\ k # 2 /\ k # 3 /\ k \notin 4..(Len(l) - 1)
    BY <1>1, <1>2
  <1>4. PICK n \in Nat : n = Len(l)
    BY <1>1
  <1>5. n >= 4 /\ k \in 1..n /\ k \notin 4..(n - 1) /\ k # 1 /\ k # 2 /\ k # 3
    BY <1>1, <1>2, <1>3, <1>4
  <1>6. k = n /\ k \in Nat /\ k >= 4
    BY <1>5
  <1>7. k # 2 /\ k # 3 /\ k > 1
    BY <1>6
  <1> QED BY <1>1, <1>4, <1>6, <1>7

\* The statements left of a sequence of them.
LEMMA LeftOf ==
    ASSUME NEW S, NEW l \in Seq(S), NEW k \in 1..Len(l)
    PROVE  /\ SubSeq(l, k, Len(l)) \in Seq(S) /\ SubSeq(l, k, Len(l)) # <<>>
           /\ Head(SubSeq(l, k, Len(l))) = l[k] /\ l[k] \in S
           /\ Tail(SubSeq(l, k, Len(l))) = SubSeq(l, k + 1, Len(l))
           /\ Tail(SubSeq(l, k, Len(l))) = <<>> <=> k = Len(l)
  <1>1. Len(l) \in Nat /\ k \in Int /\ k >= 1 /\ k <= Len(l)
    BY LenProperties
  <1> DEFINE t == SubSeq(l, k, Len(l))
             u == SubSeq(l, k + 1, Len(l))
  <1>2. t \in Seq(S) /\ Len(t) = Len(l) - k + 1 /\ \A i \in 1..(Len(l) - k + 1) : t[i] = l[k + i - 1]
    BY <1>1
  <1>3. u \in Seq(S) /\ Len(u) = Len(l) - k /\ \A i \in 1..(Len(l) - k) : u[i] = l[k + i]
    BY <1>1
  <1> HIDE DEF t, u
  <1>4. t # <<>> /\ Len(t) \in Nat
    BY <1>1, <1>2, EmptySeq
  <1>5. Tail(t) \in Seq(S) /\ Len(Tail(t)) = Len(t) - 1
        /\ \A i \in 1..(Len(t) - 1) : Tail(t)[i] = t[i + 1]
    BY <1>2, <1>4, HeadTailProperties
  <1>6. Tail(t) = u
    <2>a. Len(t) = Len(l) - k + 1 /\ Len(u) = Len(l) - k /\ Len(Tail(t)) = Len(t) - 1
      BY <1>2, <1>3, <1>5
    <2>1. Len(Tail(t)) = Len(u)
      BY <1>1, <2>a
    <2>2. ASSUME NEW i \in 1..Len(u) PROVE Tail(t)[i] = u[i]
      <3>1. i \in 1..(Len(t) - 1) /\ i + 1 \in 1..(Len(l) - k + 1) /\ k + (i + 1) - 1 = k + i
        BY <1>1, <2>a
      <3>2. i \in 1..(Len(l) - k)
        BY <2>a
      <3>3. u[i] = l[k + i]
        BY <1>3, <3>2
      <3>4. t[i + 1] = l[k + (i + 1) - 1]
        BY <1>2, <3>1
      <3>5. Tail(t)[i] = t[i + 1]
        BY <1>5, <3>1
      <3> QED BY <3>1, <3>3, <3>4, <3>5
    <2> QED BY <1>3, <1>5, <2>1, <2>2, SeqEqual
  <1>7. Head(t) = l[k]
    <2>1. Head(t) = t[1]
      BY <1>2, <1>4
    <2>2. 1 \in 1..(Len(l) - k + 1) /\ k + 1 - 1 = k
      BY <1>1
    <2> QED BY <1>2, <2>1, <2>2
  <1>8. u = <<>> <=> k = Len(l)
    BY <1>1, <1>3, EmptySeq
  <1> QED BY <1>2, <1>4, <1>6, <1>7, <1>8, ElementOfSeq DEF t, u

------------------------------------------------------------------------------
(* The callers and the pool, step by step.                                 *)

\* The jobs that are written out in the module.
LEMMA JobValues ==
    /\ NoJob \in Jobs /\ NoJob.pc = "idle" /\ NoJob.todo = <<>> /\ NoJob.payload = First
    /\ Create \in Jobs /\ Create.pc = "query"
    /\ Create.todo # <<>> /\ Tail(Create.todo) = <<>> /\ Head(Create.todo).verb = "create"
    /\ getCounts \in Seq(Statements) /\ getCounts # <<>> /\ Head(getCounts).verb = "count nodes"
    /\ Tail(getCounts) \in Seq(Statements) /\ Tail(getCounts) # <<>>
    /\ getCounts # Tail(getCounts)
    /\ Head(Tail(getCounts)).verb = "count edges" /\ Tail(Tail(getCounts)) = <<>>
    /\ Undo \in Seq(Statements) /\ Undo # <<>> /\ Tail(Undo) = <<>> /\ Head(Undo).verb = "rollback"
  <1>1. <<>> \in Seq(Statements) /\ <<>> \in Seq(Counts) /\ First \in Payloads
    BY PgAssumption, EmptySeq
  <1>2. NoJob \in Jobs /\ NoJob.pc = "idle" /\ NoJob.todo = <<>> /\ NoJob.payload = First
    BY <1>1 DEF NoJob, Jobs
  <1>3. PICK u \in Statements, v \in Statements, w \in Statements, r \in Statements :
            /\ u = Statement("count nodes", <<>>) /\ v = Statement("count edges", <<>>)
            /\ w = Statement("create", <<>>) /\ r = Statement("rollback", <<>>)
    BY StatementTypes
  <1>4. u.verb = "count nodes" /\ v.verb = "count edges" /\ w.verb = "create" /\ r.verb = "rollback"
    BY <1>3, StatementTypes
  <1>5. getCounts = <<u, v>> /\ Undo = <<r>>
    BY <1>3 DEF getCounts, Undo
  <1>6. Create = [pc |-> "query", todo |-> <<w>>, got |-> <<>>, payload |-> First]
    <2>1. PICK e, t : e = <<>> /\ t = <<w>>
      OBVIOUS
    <2>2. NoJob = [pc |-> "idle", todo |-> e, got |-> e, payload |-> First]
      BY <2>1 DEF NoJob
    <2>3. Create = [NoJob EXCEPT !.pc = "query", !.todo = t]
      BY <1>3, <2>1 DEF Create
    <2>4. Create = [pc |-> "query", todo |-> t, got |-> e, payload |-> First]
      BY <2>2, <2>3
    <2> QED BY <2>1, <2>4
  <1>7. /\ <<u, v>> \in Seq(Statements) /\ <<u, v>> # <<>> /\ Head(<<u, v>>) = u
        /\ Tail(<<u, v>>) = <<v>> /\ <<v>> \in Seq(Statements) /\ <<v>> # <<>>
        /\ Head(<<v>>) = v /\ Tail(<<v>>) = <<>> /\ Len(<<u, v>>) = 2 /\ Len(<<v>>) = 1
    OBVIOUS
  <1>8. /\ <<w>> \in Seq(Statements) /\ <<w>> # <<>> /\ Head(<<w>>) = w /\ Tail(<<w>>) = <<>>
    OBVIOUS
  <1>9. /\ <<r>> \in Seq(Statements) /\ <<r>> # <<>> /\ Head(<<r>>) = r /\ Tail(<<r>>) = <<>>
    OBVIOUS
  <1>10. Create \in Jobs /\ Create.pc = "query" /\ Create.todo = <<w>>
    BY <1>1, <1>6, <1>8 DEF Jobs
  <1> HIDE <1>3
  <1> QED BY <1>2, <1>4, <1>5, <1>7, <1>8, <1>9, <1>10

\* A job from its fields.
LEMMA JobOf ==
    ASSUME NEW w \in {"idle", "init", "query", "rename", "metadata"}, NEW t \in Seq(Statements),
           NEW e \in Seq(Counts), NEW p \in Payloads, NEW j,
           j = [pc |-> w, todo |-> t, got |-> e, payload |-> p]
    PROVE  j \in Jobs /\ j.pc = w /\ j.todo = t /\ j.payload = p /\ j.got = e
  BY DEF Jobs

NewJob(w, t, p) == [NoJob EXCEPT !.pc = w, !.todo = t, !.payload = p]

\* A caller that has just started.
LEMMA Fresh ==
    ASSUME NEW w \in {"init", "query"}, NEW t \in Seq(Statements), NEW p \in Payloads, NEW j,
           j = NewJob(w, t, p)
    PROVE  j \in Jobs /\ j.pc = w /\ j.todo = t /\ j.payload = p /\ j.got = <<>>
  <1>1. PICK e \in Seq(Counts) : e = <<>>
    BY EmptySeq
  <1>2. PICK v : v = [pc |-> w, todo |-> t, got |-> e, payload |-> p]
    OBVIOUS
  <1>3. v \in Jobs /\ v.pc = w /\ v.todo = t /\ v.payload = p /\ v.got = e
    BY <1>2, JobOf
  <1>4. v = NewJob(w, t, p)
    <2>1. PICK n : n = [pc |-> "idle", todo |-> e, got |-> e, payload |-> First]
      OBVIOUS
    <2>2. NoJob = n
      BY <1>1, <2>1 DEF NoJob
    <2>3. NewJob(w, t, p) = [n EXCEPT !.pc = w, !.todo = t, !.payload = p]
      BY <2>2 DEF NewJob
    <2>4. [n EXCEPT !.pc = w, !.todo = t, !.payload = p] = v
      <3>1. [n EXCEPT !.pc = w] = [pc |-> w, todo |-> e, got |-> e, payload |-> First]
        BY <2>1
      <3>2. PICK m : m = [pc |-> w, todo |-> e, got |-> e, payload |-> First]
        OBVIOUS
      <3>3. [m EXCEPT !.todo = t] = [pc |-> w, todo |-> t, got |-> e, payload |-> First]
        BY <3>2
      <3>4. PICK k : k = [pc |-> w, todo |-> t, got |-> e, payload |-> First]
        OBVIOUS
      <3>5. [k EXCEPT !.payload = p] = v
        BY <1>2, <3>4
      <3> QED BY <3>1, <3>2, <3>3, <3>4, <3>5, Zenon
    <2> QED BY <2>3, <2>4
  <1> QED BY <1>1, <1>3, <1>4

\* A reader or the refresh goes on.
LEMMA OneMoves ==
    ASSUME NEW p, NEW j, NEW i, CallersOK(p, j, i), NEW x \in Readers \cup {"refresh"},
           NEW v \in Jobs, IF x = "refresh" THEN RefreshJob(v) ELSE ReaderJob(v),
           v.pc = "query" => i = "resolved",
           NEW q, PoolOK(q),
           \A y \in Callers : Holds(q, y) <=> IF y = x THEN v.pc = "query" ELSE Holds(p, y),
           NEW k, k = [j EXCEPT ![x] = v]
    PROVE  CallersOK(q, k, i)
  <1>1. x \in Callers /\ "refresh" \in Callers /\ "initSchema" \in Callers /\ Readers \subseteq Callers
        /\ "refresh" \notin Readers /\ "initSchema" \notin Readers /\ x # "initSchema"
    BY PgAssumption DEF Callers
  <1>2. /\ k \in [Callers -> Jobs] /\ k[x] = v
        /\ \A y \in Callers : y # x => k[y] = j[y]
    BY <1>1 DEF CallersOK
  <1>3. \A y \in Callers : Holds(q, y) <=> k[y].pc = "query"
    BY <1>1, <1>2 DEF CallersOK
  <1>4. RefreshJob(k["refresh"]) /\ \A y \in Readers : ReaderJob(k[y])
    BY <1>1, <1>2 DEF CallersOK
  <1>5. k["initSchema"] = IF i = "pending" THEN Create ELSE NoJob
    BY <1>1, <1>2 DEF CallersOK
  <1>6. \A y \in Readers \cup {"refresh"} : k[y].pc = "query" => i = "resolved"
    BY <1>1, <1>2 DEF CallersOK
  <1> QED BY <1>2, <1>3, <1>4, <1>5, <1>6 DEF CallersOK

\* The schema is asked for.
LEMMA SchemaAsked ==
    ASSUME NEW p, NEW j, NEW i, CallersOK(p, j, i), i # "resolved",
           NEW q, PoolOK(q), \A y \in Callers : Holds(q, y) <=> Holds(p, y) \/ y = "initSchema",
           NEW k, k = [j EXCEPT !["initSchema"] = Create]
    PROVE  CallersOK(q, k, "pending")
  <1>1. /\ "refresh" \in Callers /\ "initSchema" \in Callers /\ Readers \subseteq Callers
        /\ "refresh" \notin Readers /\ "initSchema" \notin Readers
    BY PgAssumption DEF Callers
  <1>2. Create \in Jobs /\ Create.pc = "query"
    BY JobValues
  <1>3. /\ k \in [Callers -> Jobs] /\ k["initSchema"] = Create
        /\ \A y \in Callers : y # "initSchema" => k[y] = j[y]
    BY <1>1, <1>2 DEF CallersOK
  <1>4. \A y \in Callers : Holds(q, y) <=> k[y].pc = "query"
    BY <1>1, <1>2, <1>3 DEF CallersOK
  <1>5. RefreshJob(k["refresh"]) /\ \A y \in Readers : ReaderJob(k[y])
    BY <1>1, <1>3 DEF CallersOK
  <1>6. \A y \in Readers \cup {"refresh"} : k[y].pc # "query"
    BY <1>1, <1>3 DEF CallersOK
  <1> QED BY <1>3, <1>4, <1>5, <1>6 DEF CallersOK

\* The schema is created, or not.
LEMMA SchemaDone ==
    ASSUME NEW p, NEW j, NEW i, CallersOK(p, j, i), i # "resolved",
           NEW h \in {"resolved", "rejected"},
           NEW q, PoolOK(q), \A y \in Callers : Holds(q, y) <=> Holds(p, y) /\ y # "initSchema",
           NEW k, k = [j EXCEPT !["initSchema"] = NoJob]
    PROVE  CallersOK(q, k, h)
  <1>1. /\ "refresh" \in Callers /\ "initSchema" \in Callers /\ Readers \subseteq Callers
        /\ "refresh" \notin Readers /\ "initSchema" \notin Readers
    BY PgAssumption DEF Callers
  <1>2. NoJob \in Jobs /\ NoJob.pc = "idle"
    BY JobValues
  <1>3. /\ k \in [Callers -> Jobs] /\ k["initSchema"] = NoJob
        /\ \A y \in Callers : y # "initSchema" => k[y] = j[y]
    BY <1>1, <1>2 DEF CallersOK
  <1>4. \A y \in Callers : Holds(q, y) <=> k[y].pc = "query"
    BY <1>1, <1>2, <1>3 DEF CallersOK
  <1>5. RefreshJob(k["refresh"]) /\ \A y \in Readers : ReaderJob(k[y])
    BY <1>1, <1>3 DEF CallersOK
  <1>6. \A y \in Readers \cup {"refresh"} : k[y].pc # "query"
    BY <1>1, <1>3 DEF CallersOK
  <1> QED BY <1>3, <1>4, <1>5, <1>6 DEF CallersOK

\* What the steps make of a job.
At(j, w)       == [j EXCEPT !.pc = w]
After(j, t, e) == [j EXCEPT !.todo = t, !.got = e]
Undone(j)      == [j EXCEPT !.todo = Undo]
Committed(j)   == [j EXCEPT !.pc = "rename", !.todo = <<>>]

\* What each step of a caller leaves in each field of its job.
LEMMA JobSteps ==
    ASSUME NEW j \in Jobs
    PROVE  /\ \A w \in {"idle", "init", "query", "rename", "metadata"} :
                /\ At(j, w) \in Jobs /\ At(j, w).pc = w /\ At(j, w).todo = j.todo
                /\ At(j, w).got = j.got /\ At(j, w).payload = j.payload
           /\ \A t \in Seq(Statements), e \in Seq(Counts) :
                /\ After(j, t, e) \in Jobs /\ After(j, t, e).pc = j.pc /\ After(j, t, e).todo = t
                /\ After(j, t, e).got = e /\ After(j, t, e).payload = j.payload
           /\ Undone(j) \in Jobs /\ Undone(j).pc = j.pc /\ Undone(j).todo = Undo
           /\ Undone(j).payload = j.payload
           /\ Committed(j) \in Jobs /\ Committed(j).pc = "rename" /\ Committed(j).todo = <<>>
           /\ Committed(j).payload = j.payload
  <1>1. \A w \in {"idle", "init", "query", "rename", "metadata"} :
            /\ At(j, w) \in Jobs /\ At(j, w).pc = w /\ At(j, w).todo = j.todo
            /\ At(j, w).got = j.got /\ At(j, w).payload = j.payload
    BY DEF Jobs, At
  <1>2. ASSUME NEW t \in Seq(Statements), NEW e \in Seq(Counts)
        PROVE  /\ After(j, t, e) \in Jobs /\ After(j, t, e).pc = j.pc /\ After(j, t, e).todo = t
               /\ After(j, t, e).got = e /\ After(j, t, e).payload = j.payload
    BY DEF Jobs, After
  <1>3. PICK u \in Seq(Statements), e \in Seq(Statements) : u = Undo /\ e = <<>>
    BY JobValues, EmptySeq
  <1>4. PICK v : v = [j EXCEPT !.todo = u]
    OBVIOUS
  <1>5. v \in Jobs /\ v.pc = j.pc /\ v.todo = u /\ v.payload = j.payload
    BY <1>4 DEF Jobs
  <1>6. PICK w : w = [j EXCEPT !.pc = "rename", !.todo = e]
    OBVIOUS
  <1>7. w \in Jobs /\ w.pc = "rename" /\ w.todo = e /\ w.payload = j.payload
    BY <1>6 DEF Jobs
  <1>8. Undone(j) = v /\ Committed(j) = w
    BY <1>3, <1>4, <1>6 DEF Undone, Committed
  <1> QED BY <1>1, <1>2, <1>3, <1>5, <1>7, <1>8

\* The names of the callers differ.
LEMMA Names ==
    /\ "refresh" \in Callers /\ "initSchema" \in Callers /\ Readers \subseteq Callers
    /\ "refresh" \notin Readers /\ "initSchema" \notin Readers /\ None \notin Callers
    /\ Callers = Readers \cup {"refresh", "initSchema"}
  BY PgAssumption DEF Callers

\* A script's end.
LEMMA ScriptStep ==
    ASSUME NEW p \in Payloads, NEW k \in 1..Len(fullRebuild(p))
    PROVE  /\ From(p, k) \in Seq(Statements) /\ From(p, k) # <<>>
           /\ Head(From(p, k)) = fullRebuild(p)[k] /\ fullRebuild(p)[k] \in Statements
           /\ Tail(From(p, k)) = From(p, k + 1)
           /\ Tail(From(p, k)) = <<>> <=> k = Len(fullRebuild(p))
           /\ Tail(From(p, k)) # <<>> => k + 1 \in 1..Len(fullRebuild(p))
           /\ From(p, 1) = fullRebuild(p) /\ 1 \in 1..Len(fullRebuild(p))
  <1>1. PICK l \in Seq(Statements) : l = fullRebuild(p) /\ Len(l) \in Nat /\ Len(l) >= 4
    BY Script
  <1>2. k \in 1..Len(l)
    BY <1>1
  <1>3. /\ SubSeq(l, k, Len(l)) \in Seq(Statements) /\ SubSeq(l, k, Len(l)) # <<>>
        /\ Head(SubSeq(l, k, Len(l))) = l[k] /\ l[k] \in Statements
        /\ Tail(SubSeq(l, k, Len(l))) = SubSeq(l, k + 1, Len(l))
        /\ Tail(SubSeq(l, k, Len(l))) = <<>> <=> k = Len(l)
    BY <1>2, LeftOf
  <1>4. SubSeq(l, 1, Len(l)) = l
    BY SubSeqFull
  <1>5. k # Len(l) => k + 1 \in 1..Len(l)
    BY <1>1, <1>2
  <1>6. 1 \in 1..Len(l)
    BY <1>1
  <1>7. \A i : From(p, i) = SubSeq(l, i, Len(l))
    BY <1>1 DEF From
  <1> HIDE <1>1
  <1>8. /\ From(p, k) \in Seq(Statements) /\ From(p, k) # <<>>
        /\ Head(From(p, k)) = l[k] /\ l[k] \in Statements
        /\ Tail(From(p, k)) = From(p, k + 1)
        /\ Tail(From(p, k)) = <<>> <=> k = Len(l)
        /\ From(p, 1) = l
    BY <1>3, <1>4, <1>7
  <1>9. Tail(From(p, k)) # <<>> => k + 1 \in 1..Len(l)
    BY <1>5, <1>8
  <1> QED BY <1>1, <1>6, <1>8, <1>9

\* Who has a connection has a statement to run.
LEMMA BusyOne ==
    ASSUME CallersInv, NEW c \in Conns, pool.busy[c] # None, NEW x, x = pool.busy[c]
    PROVE  /\ PoolOK(pool) /\ x \in Callers /\ Holds(pool, x)
           /\ job[x] \in Jobs /\ job[x].pc = "query"
           /\ x = "initSchema" => initPromise = "pending" /\ job[x] = Create
           /\ x # "initSchema" => x \in Readers \cup {"refresh"} /\ initPromise = "resolved"
           /\ x = "refresh" => RefreshJob(job[x])
           /\ x \in Readers => ReaderJob(job[x])
           /\ job[x].todo \in Seq(Statements) /\ job[x].todo # <<>>
           /\ Head(job[x].todo) \in Statements /\ Tail(job[x].todo) \in Seq(Statements)
  <1>1. PoolOK(pool) /\ x \in Callers /\ Holds(pool, x)
    BY DEF CallersInv, CallersOK, PoolOK, PoolRecords, Holds
  <1>2. job[x] \in Jobs /\ job[x].pc = "query"
    BY <1>1 DEF CallersInv, CallersOK
  <1>3. x = "initSchema" => initPromise = "pending" /\ job[x] = Create
    BY <1>2, JobValues DEF CallersInv, CallersOK
  <1>4. x # "initSchema" => x \in Readers \cup {"refresh"} /\ initPromise = "resolved"
    BY <1>1, <1>2, Names DEF CallersInv, CallersOK
  <1>5. /\ x = "refresh" => RefreshJob(job[x])
        /\ x \in Readers => ReaderJob(job[x])
    BY DEF CallersInv, CallersOK
  <1>6. job[x].todo \in Seq(Statements) /\ job[x].payload \in Payloads
    BY <1>2 DEF Jobs
  <1>7. job[x].todo # <<>>
    <2>1. CASE x = "initSchema"
      BY <1>3, <2>1, JobValues
    <2>2. CASE x = "refresh"
      BY <1>2, <1>5, <1>6, <2>2, JobValues, ScriptStep DEF RefreshJob
    <2>3. CASE x \in Readers
      BY <1>2, <1>5, <2>3, JobValues DEF ReaderJob
    <2> QED BY <1>4, <2>1, <2>2, <2>3
  <1>8. Head(job[x].todo) \in Statements /\ Tail(job[x].todo) \in Seq(Statements)
    BY <1>6, <1>7, HeadTailProperties
  <1> QED BY <1>1, <1>2, <1>3, <1>4, <1>5, <1>6, <1>7, <1>8

\* ensureInit: the caller runs, or awaits the schema.
LEMMA Started ==
    ASSUME CallersInv, NEW x \in Readers \cup {"refresh"}, job[x] = NoJob,
           NEW t \in Seq(Statements), NEW p \in Payloads,
           t = IF x = "refresh" THEN fullRebuild(p) ELSE getCounts,
           Start(x, t, p)
    PROVE  /\ CallersInv' /\ pool.opened \subseteq pool'.opened
           /\ \A y \in Readers \cup {"refresh"} : y # x => job'[y] = job[y]
           /\ job'[x].pc \in {"init", "query"} /\ job'[x].todo = t /\ job'[x].payload = p
           /\ job'[x].got = <<>>
           /\ \A c \in Conns : pool.busy[c] # None => pool'.busy[c] = pool.busy[c]
  <1>0. /\ PoolOK(pool) /\ x \in Callers /\ x # "initSchema" /\ job \in [Callers -> Jobs]
        /\ ~Holds(pool, x) /\ CallersOK(pool, job, initPromise)
        /\ (initPromise # "pending" => ~Holds(pool, "initSchema"))
    BY Names, JobValues DEF CallersInv, CallersOK
  <1>a. ASSUME NEW w \in {"init", "query"}, NEW f, f = NewJob(w, t, p)
        PROVE  /\ f \in Jobs /\ f.pc = w /\ f.todo = t /\ f.payload = p /\ f.got = <<>>
               /\ IF x = "refresh" THEN RefreshJob(f) ELSE ReaderJob(f)
    <2>1. f \in Jobs /\ f.pc = w /\ f.todo = t /\ f.payload = p /\ f.got = <<>>
      BY <1>a, Fresh
    <2>2. CASE x = "refresh"
      <3>1. t = From(p, 1) /\ 1 \in 1..Len(fullRebuild(p))
        <4>1. Len(fullRebuild(p)) \in Nat /\ Len(fullRebuild(p)) >= 4
          BY Script
        <4>2. 1 \in 1..Len(fullRebuild(p))
          BY <4>1
        <4> QED BY <2>2, <4>2, ScriptStep
      <3> QED BY <2>1, <2>2, <3>1 DEF RefreshJob
    <2>3. CASE x # "refresh"
      BY <2>1, <2>3 DEF ReaderJob
    <2> QED BY <2>1, <2>2, <2>3
  <1>1. CASE initPromise = "resolved"
    <2>1. PICK f : f = NewJob("query", t, p)
      OBVIOUS
    <2>2. job' = [job EXCEPT ![x] = f] /\ pool' = Acquire(pool, x) /\ initPromise' = initPromise
      BY <1>1, <2>1 DEF Start, NewJob
    <2>3. /\ f \in Jobs /\ f.pc = "query" /\ f.todo = t /\ f.payload = p /\ f.got = <<>>
          /\ IF x = "refresh" THEN RefreshJob(f) ELSE ReaderJob(f)
      BY <1>a, <2>1
    <2>4. /\ PoolOK(pool') /\ pool.opened \subseteq pool'.opened
          /\ \A y \in Callers : Holds(pool', y) <=> Holds(pool, y) \/ y = x
          /\ \A c \in Conns : pool.busy[c] # None => pool'.busy[c] = pool.busy[c]
      BY <1>0, <2>2, Acquired
    <2>5. \A y \in Callers : Holds(pool', y) <=> IF y = x THEN f.pc = "query" ELSE Holds(pool, y)
      BY <2>3, <2>4
    <2>6. CallersOK(pool', job', initPromise)
      BY <1>0, <1>1, <2>2, <2>3, <2>4, <2>5, OneMoves
    <2>7. job'[x] = f /\ \A y \in Callers : y # x => job'[y] = job[y]
      BY <1>0, <2>2
    <2> QED BY <2>2, <2>3, <2>4, <2>6, <2>7, Names DEF CallersInv
  <1>2. CASE initPromise # "resolved"
    <2>1. PICK f : f = NewJob("init", t, p)
      OBVIOUS
    <2>2. PICK k : k = [job EXCEPT ![x] = f]
      OBVIOUS
    <2>3. /\ f \in Jobs /\ f.pc = "init" /\ f.todo = t /\ f.payload = p /\ f.got = <<>>
          /\ IF x = "refresh" THEN RefreshJob(f) ELSE ReaderJob(f)
      BY <1>a, <2>1
    <2>4. \A y \in Callers : Holds(pool, y) <=> IF y = x THEN f.pc = "query" ELSE Holds(pool, y)
      BY <1>0, <2>3
    <2>5. CallersOK(pool, k, initPromise)
      BY <1>0, <2>2, <2>3, <2>4, OneMoves
    <2>6. k[x] = f /\ \A y \in Callers : y # x => k[y] = job[y]
      BY <1>0, <2>2
    <2>7. CASE initPromise = "none"
      <3>1. /\ job' = [k EXCEPT !["initSchema"] = Create] /\ initPromise' = "pending"
            /\ pool' = Acquire(pool, "initSchema")
        BY <1>2, <2>1, <2>2, <2>7 DEF Start, NewJob, Create
      <3>2. /\ PoolOK(pool') /\ pool.opened \subseteq pool'.opened
            /\ \A y \in Callers : Holds(pool', y) <=> Holds(pool, y) \/ y = "initSchema"
            /\ \A c \in Conns : pool.busy[c] # None => pool'.busy[c] = pool.busy[c]
        BY <1>0, <2>7, <3>1, Acquired, Names
      <3>3. CallersOK(pool', job', "pending")
        BY <1>2, <2>5, <3>1, <3>2, SchemaAsked
      <3>4. k \in [Callers -> Jobs]
        BY <2>5 DEF CallersOK
      <3>5. \A y \in Callers : y # "initSchema" => job'[y] = k[y]
        BY <3>1, <3>4
      <3>6. job'[x] = f /\ \A y \in Callers : y # x /\ y # "initSchema" => job'[y] = job[y]
        BY <1>0, <2>6, <3>5
      <3> QED BY <2>3, <3>1, <3>2, <3>3, <3>6, Names DEF CallersInv
    <2>8. CASE initPromise # "none"
      <3>1. job' = k /\ pool' = pool /\ initPromise' = initPromise
        BY <1>2, <2>1, <2>2, <2>8 DEF Start, NewJob
      <3> QED BY <2>3, <2>5, <2>6, <3>1, Names DEF CallersInv
    <2> QED BY <2>7, <2>8
  <1> QED BY <1>1, <1>2

\* An error: the refresh rolls back if it has begun, every other caller is done.
LEMMA Threw ==
    ASSUME CallersInv, NEW c \in Conns, pool.busy[c] # None, NEW x, x = pool.busy[c],
           Throw(x, Drop(pool, c))
    PROVE  /\ CallersInv' /\ pool.opened \ {c} \subseteq pool'.opened
           /\ \A y \in Readers \cup {"refresh"} : y # x => job'[y] = job[y]
           /\ \/ job'[x] = NoJob
              \/ x = "refresh" /\ job'[x].pc = "query" /\ job'[x].todo = Undo
  <1> DEFINE p == Drop(pool, c)
             undo == x = "refresh" /\ Head(job[x].todo).verb \notin {"begin", "rollback"}
  <1>0. /\ PoolOK(pool) /\ x \in Callers /\ job \in [Callers -> Jobs] /\ job[x] \in Jobs
        /\ job[x].pc = "query" /\ CallersOK(pool, job, initPromise)
        /\ x = "initSchema" => initPromise = "pending"
        /\ x # "initSchema" => x \in Readers \cup {"refresh"} /\ initPromise = "resolved"
    BY BusyOne DEF CallersInv, CallersOK
  <1>1. /\ PoolOK(p) /\ \A y \in Callers : Holds(p, y) <=> Holds(pool, y) /\ y # x
        /\ pool.opened \ {c} \subseteq p.opened
    BY <1>0, Dropped
  <1>2. /\ pool' = IF undo THEN Acquire(p, x) ELSE p
        /\ job' = [job EXCEPT ![x] = IF undo THEN Undone(job[x]) ELSE NoJob]
        /\ initPromise' = IF x = "initSchema" THEN "rejected" ELSE initPromise
    BY <1>0 DEF Throw, Undone, Undo
  <1> HIDE DEF p
  <1>3. CASE undo
    <2>1. PICK v : v = Undone(job[x])
      OBVIOUS
    <2>2. v \in Jobs /\ v.pc = "query" /\ v.todo = Undo
      BY <1>0, <2>1, JobSteps
    <2>3. RefreshJob(v) /\ x = "refresh" /\ x # "initSchema"
      BY <1>3, <2>2, Names DEF RefreshJob
    <2>4. /\ PoolOK(pool') /\ \A y \in Callers : Holds(pool', y) <=> Holds(p, y) \/ y = x
          /\ p.opened \subseteq pool'.opened
      BY <1>0, <1>1, <1>2, <1>3, Acquired
    <2>5. \A y \in Callers : Holds(pool', y) <=> IF y = x THEN v.pc = "query" ELSE Holds(pool, y)
      BY <1>1, <2>2, <2>4
    <2>6. job' = [job EXCEPT ![x] = v] /\ initPromise' = initPromise
      BY <1>2, <1>3, <2>1, <2>3
    <2>7. CallersOK(pool', job', initPromise)
      BY <1>0, <2>2, <2>3, <2>4, <2>5, <2>6, OneMoves
    <2>8. job'[x] = v /\ \A y \in Callers : y # x => job'[y] = job[y]
      BY <1>0, <2>6
    <2> QED BY <1>1, <2>2, <2>3, <2>4, <2>6, <2>7, <2>8, Names DEF CallersInv
  <1>4. CASE ~undo
    <2>1. pool' = p /\ job' = [job EXCEPT ![x] = NoJob]
      BY <1>2, <1>4
    <2>2. job'[x] = NoJob /\ \A y \in Callers : y # x => job'[y] = job[y]
      BY <1>0, <2>1
    <2>3. CallersInv'
      <3>1. CASE x = "initSchema"
        <4>1. initPromise' = "rejected" /\ initPromise # "resolved"
          BY <1>0, <1>2, <3>1
        <4>2. \A y \in Callers : Holds(pool', y) <=> Holds(pool, y) /\ y # "initSchema"
          BY <1>1, <2>1, <3>1
        <4>3. job' = [job EXCEPT !["initSchema"] = NoJob] /\ PoolOK(pool')
          BY <1>1, <2>1, <3>1
        <4>4. CallersOK(pool', job', "rejected")
          BY <1>0, <4>1, <4>2, <4>3, SchemaDone
        <4> QED BY <4>1, <4>4 DEF CallersInv
      <3>2. CASE x # "initSchema"
        <4>1. NoJob \in Jobs /\ NoJob.pc = "idle" /\ RefreshJob(NoJob) /\ ReaderJob(NoJob)
          BY JobValues DEF RefreshJob, ReaderJob
        <4>2. \A y \in Callers : Holds(pool', y) <=> IF y = x THEN NoJob.pc = "query"
                                                              ELSE Holds(pool, y)
          BY <1>1, <2>1, <4>1
        <4>3. x \in Readers \cup {"refresh"} /\ PoolOK(pool')
          BY <1>0, <1>1, <2>1, <3>2
        <4>4. CallersOK(pool', job', initPromise)
          BY <1>0, <2>1, <4>1, <4>2, <4>3, OneMoves
        <4> QED BY <1>2, <3>2, <4>4 DEF CallersInv
      <3> QED BY <3>1, <3>2
    <2> QED BY <1>1, <2>1, <2>2, <2>3, Names
  <1> QED BY <1>3, <1>4

\* A statement is answered: the caller runs the next one, or is done.
LEMMA Continued ==
    ASSUME CallersInv, NEW c \in Conns, pool.busy[c] # None, NEW x, x = pool.busy[c],
           NEW v \in Counts, Continue(x, c, v)
    PROVE  /\ CallersInv' /\ pool.opened \subseteq pool'.opened
           /\ \A y \in Readers \cup {"refresh"} : y # x => job'[y] = job[y]
           /\ IF Tail(job[x].todo) # <<>>
              THEN /\ job'[x].pc = "query" /\ job'[x].todo = Tail(job[x].todo)
                   /\ job'[x].payload = job[x].payload
                   /\ job'[x].got = (IF x \in Readers THEN Append(job[x].got, v) ELSE <<>>)
                   /\ pool' = Acquire(Release(pool, c), x)
              ELSE IF x = "refresh" /\ Head(job[x].todo).verb = "commit"
              THEN job'[x].pc = "rename" /\ job'[x].payload = job[x].payload
              ELSE job'[x] = NoJob
  <1> DEFINE p == Release(pool, c)
  <1>0. /\ PoolOK(pool) /\ x \in Callers /\ job \in [Callers -> Jobs] /\ job[x] \in Jobs
        /\ job[x].pc = "query" /\ CallersOK(pool, job, initPromise)
        /\ x = "initSchema" => initPromise = "pending" /\ job[x] = Create
        /\ x # "initSchema" => x \in Readers \cup {"refresh"} /\ initPromise = "resolved"
        /\ x = "refresh" => RefreshJob(job[x])
        /\ x \in Readers => ReaderJob(job[x])
        /\ Tail(job[x].todo) \in Seq(Statements)
    BY BusyOne DEF CallersInv, CallersOK
  <1>1. /\ PoolOK(p) /\ \A y \in Callers : Holds(p, y) <=> Holds(pool, y) /\ y # x
        /\ pool.opened = p.opened
    BY <1>0, Released
  <1>2. CASE Tail(job[x].todo) # <<>>
    <2>1. PICK t \in Seq(Statements) : t = Tail(job[x].todo)
      BY <1>0
    <2>2. job[x].got \in Seq(Counts) /\ job[x].payload \in Payloads
      BY <1>0 DEF Jobs
    <2>3. PICK e \in Seq(Counts) : e = IF x \in Readers THEN Append(job[x].got, v) ELSE <<>>
      BY <2>2, EmptySeq, AppendProperties
    <2>4. PICK f : f = After(job[x], t, e)
      OBVIOUS
    <2>5. /\ job' = [job EXCEPT ![x] = f] /\ pool' = Acquire(p, x) /\ initPromise' = initPromise
      BY <1>2, <2>1, <2>3, <2>4 DEF Continue, After
    <2>6. f \in Jobs /\ f.pc = "query" /\ f.todo = t /\ f.got = e /\ f.payload = job[x].payload
      <3>1. PICK j \in Jobs : j = job[x]
        BY <1>0
      <3>2. f = After(j, t, e)
        BY <2>4, <3>1
      <3>3. \A a \in Seq(Statements), b \in Seq(Counts) :
                /\ After(j, a, b) \in Jobs /\ After(j, a, b).pc = j.pc /\ After(j, a, b).todo = a
                /\ After(j, a, b).got = b /\ After(j, a, b).payload = j.payload
        BY JobSteps
      <3>4. f \in Jobs /\ f.pc = j.pc /\ f.todo = t /\ f.got = e /\ f.payload = j.payload
        BY <3>2, <3>3, Zenon
      <3> QED BY <1>0, <3>1, <3>4
    <2> HIDE DEF p
    <2>7. x # "initSchema" /\ x \in Readers \cup {"refresh"} /\ initPromise = "resolved"
      BY <1>0, <1>2, JobValues
    <2>8. IF x = "refresh" THEN RefreshJob(f) ELSE ReaderJob(f)
      <3>1. CASE x = "refresh"
        <4>1. job[x].todo # Undo
          BY <1>2, JobValues
        <4>2. PICK k \in 1..Len(fullRebuild(job[x].payload)) : job[x].todo = From(job[x].payload, k)
          BY <1>0, <3>1, <4>1 DEF RefreshJob
        <4>3. t = From(job[x].payload, k + 1) /\ k + 1 \in 1..Len(fullRebuild(job[x].payload))
          <5>1. PICK q \in Payloads : q = job[x].payload
            BY <2>2
          <5>2. k \in 1..Len(fullRebuild(q)) /\ job[x].todo = From(q, k)
            BY <4>2, <5>1
          <5>3. Tail(From(q, k)) # <<>>
            BY <1>2, <5>2
          <5>4. Tail(From(q, k)) = From(q, k + 1) /\ k + 1 \in 1..Len(fullRebuild(q))
            BY <5>2, <5>3, ScriptStep
          <5> QED BY <2>1, <5>1, <5>2, <5>4
        <4> QED BY <2>6, <3>1, <4>3 DEF RefreshJob
      <3>2. CASE x \in Readers
        <4>1. t = Tail(getCounts) /\ job[x].got = <<>>
          BY <1>0, <1>2, <2>1, <3>2, JobValues DEF ReaderJob
        <4>2. PICK g \in Seq(Counts) : g = <<>>
          BY EmptySeq
        <4>3. Len(e) = 1
          <5>1. e = Append(g, v)
            BY <2>3, <3>2, <4>1, <4>2
          <5>2. Len(g) = 0
            BY <4>2, EmptySeq
          <5>3. Len(e) = Len(g) + 1
            BY <5>1, AppendProperties
          <5> QED BY <5>2, <5>3
        <4> QED BY <2>6, <3>2, <4>1, <4>3, Names DEF ReaderJob
      <3> QED BY <2>7, <3>1, <3>2
    <2>9. /\ PoolOK(pool') /\ \A y \in Callers : Holds(pool', y) <=> Holds(p, y) \/ y = x
          /\ p.opened \subseteq pool'.opened
      BY <1>0, <1>1, <2>5, Acquired
    <2>10. \A y \in Callers : Holds(pool', y) <=> IF y = x THEN f.pc = "query" ELSE Holds(pool, y)
      BY <1>1, <2>6, <2>9
    <2>11. CallersOK(pool', job', initPromise)
      BY <1>0, <2>5, <2>6, <2>7, <2>8, <2>9, <2>10, OneMoves
    <2>12. job'[x] = f /\ \A y \in Callers : y # x => job'[y] = job[y]
      BY <1>0, <2>5
    <2>13. CallersInv' /\ pool.opened \subseteq pool'.opened
           /\ \A y \in Readers \cup {"refresh"} : y # x => job'[y] = job[y]
      BY <1>1, <2>5, <2>9, <2>11, <2>12, Names DEF CallersInv
    <2> QED BY <1>2, <2>1, <2>3, <2>5, <2>6, <2>12, <2>13 DEF p
  <1>3. CASE Tail(job[x].todo) = <<>>
    <2>1. PICK f : f = IF x = "refresh" /\ Head(job[x].todo).verb = "commit"
                       THEN Committed(job[x]) ELSE NoJob
      OBVIOUS
    <2>2. /\ job' = [job EXCEPT ![x] = f] /\ pool' = p
          /\ initPromise' = IF x = "initSchema" THEN "resolved" ELSE initPromise
      BY <1>3, <2>1 DEF Continue, Committed, stored
    <2> HIDE DEF p
    <2>3. f \in Jobs /\ f.pc # "query"
          /\ IF x = "refresh" /\ Head(job[x].todo).verb = "commit"
             THEN f.pc = "rename" /\ f.payload = job[x].payload
             ELSE f = NoJob
      BY <1>0, <2>1, JobSteps, JobValues
    <2>4. job'[x] = f /\ \A y \in Callers : y # x => job'[y] = job[y]
      BY <1>0, <2>2
    <2>5. \A y \in Callers : Holds(pool', y) <=> IF y = x THEN f.pc = "query" ELSE Holds(pool, y)
      BY <1>1, <2>2, <2>3
    <2>6. CallersInv'
      <3>1. CASE x = "initSchema"
        <4>1. initPromise' = "resolved" /\ initPromise # "resolved"
          BY <1>0, <2>2, <3>1
        <4>2. \A y \in Callers : Holds(pool', y) <=> Holds(pool, y) /\ y # "initSchema"
          BY <1>1, <2>2, <3>1
        <4>3. job' = [job EXCEPT !["initSchema"] = NoJob] /\ PoolOK(pool')
          BY <1>1, <2>2, <2>3, <3>1
        <4>4. CallersOK(pool', job', "resolved")
          BY <1>0, <4>1, <4>2, <4>3, SchemaDone
        <4> QED BY <4>1, <4>4 DEF CallersInv
      <3>2. CASE x # "initSchema"
        <4>1. x \in Readers \cup {"refresh"} /\ PoolOK(pool') /\ initPromise' = initPromise
          BY <1>0, <1>1, <2>2, <3>2
        <4>2. IF x = "refresh" THEN RefreshJob(f) ELSE ReaderJob(f)
          BY <2>3, JobValues DEF RefreshJob, ReaderJob
        <4>3. CallersOK(pool', job', initPromise)
          BY <1>0, <2>2, <2>3, <2>5, <4>1, <4>2, OneMoves
        <4> QED BY <4>1, <4>3 DEF CallersInv
      <3> QED BY <3>1, <3>2
    <2>7. pool.opened \subseteq pool'.opened
          /\ \A y \in Readers \cup {"refresh"} : y # x => job'[y] = job[y]
      BY <1>1, <2>2, <2>4, Names
    <2> QED BY <1>3, <2>3, <2>4, <2>6, <2>7
  <1> QED BY <1>2, <1>3

------------------------------------------------------------------------------
(* The callers, in every state.                                            *)

\* At first nobody is in the pool.
LEMMA CallersInit == Init => CallersInv
  <1> SUFFICES ASSUME Init PROVE CallersInv
    OBVIOUS
  <1>1. /\ pool.opened = {} /\ pool.idle = <<>> /\ pool.queue = <<>>
        /\ pool.busy = [c \in Conns |-> None] /\ pool \in PoolRecords
    <2>1. <<>> \in Seq(Conns) /\ <<>> \in Seq(Callers)
      BY EmptySeq
    <2> QED BY <2>1 DEF Init, EmptyPool, PoolRecords
  <1>2. DOMAIN pool.idle = {} /\ DOMAIN pool.queue = {}
    BY <1>1, EmptySeq
  <1>3. PoolOK(pool)
    BY <1>1, <1>2 DEF PoolOK, Idles, Once
  <1>4. \A x \in Callers : ~Holds(pool, x)
    BY <1>1, <1>2, Names DEF Holds
  <1>5. job \in [Callers -> Jobs] /\ \A x \in Callers : job[x] = NoJob
    BY JobValues DEF Init
  <1>6. NoJob.pc = "idle" /\ RefreshJob(NoJob) /\ ReaderJob(NoJob)
    BY JobValues DEF RefreshJob, ReaderJob
  <1>7. initPromise = "none"
    BY DEF Init
  <1> QED BY <1>3, <1>4, <1>5, <1>6, <1>7, Names DEF CallersInv, CallersOK

\* After a restart nobody is in the pool.
LEMMA CallersCrash ==
    ASSUME CallersInv, Crash
    PROVE  CallersInv'
  <1>1. /\ pool'.opened = {} /\ pool'.idle = <<>> /\ pool'.queue = <<>>
        /\ pool'.busy = [c \in Conns |-> None] /\ pool' \in PoolRecords
    <2>1. <<>> \in Seq(Conns) /\ <<>> \in Seq(Callers)
      BY EmptySeq
    <2> QED BY <2>1 DEF Crash, EmptyPool, PoolRecords
  <1>2. DOMAIN pool'.idle = {} /\ DOMAIN pool'.queue = {}
    BY <1>1, EmptySeq
  <1>3. PoolOK(pool')
    BY <1>1, <1>2 DEF PoolOK, Idles, Once
  <1>4. \A x \in Callers : ~Holds(pool', x)
    BY <1>1, <1>2, Names DEF Holds
  <1>5. job' \in [Callers -> Jobs] /\ \A x \in Callers : job'[x] = NoJob
    BY JobValues DEF Crash
  <1>6. NoJob.pc = "idle" /\ RefreshJob(NoJob) /\ ReaderJob(NoJob)
    BY JobValues DEF RefreshJob, ReaderJob
  <1>7. initPromise' = "none"
    BY DEF Crash
  <1> QED BY <1>3, <1>4, <1>5, <1>6, <1>7, Names DEF CallersInv, CallersOK

\* The schema is there: the caller runs. It is not: the caller is done.
LEMMA CallersInitialised ==
    ASSUME CallersInv, NEW x \in Readers \cup {"refresh"}, Initialised(x)
    PROVE  /\ CallersInv' /\ pool.opened \subseteq pool'.opened
           /\ \A y \in Readers \cup {"refresh"} : y # x => job'[y] = job[y]
           /\ \A c \in Conns : pool.busy[c] # None => pool'.busy[c] = pool.busy[c]
           /\ job[x].pc = "init"
           /\ \/ job'[x] = NoJob
              \/ /\ job'[x].pc = "query" /\ job'[x].todo = job[x].todo
                 /\ job'[x].payload = job[x].payload /\ job'[x].got = job[x].got
  <1>0. /\ PoolOK(pool) /\ x \in Callers /\ x # "initSchema" /\ job \in [Callers -> Jobs]
        /\ job[x] \in Jobs /\ ~Holds(pool, x) /\ CallersOK(pool, job, initPromise)
        /\ job[x].pc = "init" /\ initPromise' = initPromise
    BY Names DEF CallersInv, CallersOK, Initialised
  <1>1. CASE initPromise = "resolved"
    <2>1. PICK f : f = At(job[x], "query")
      OBVIOUS
    <2>2. job' = [job EXCEPT ![x] = f] /\ pool' = Acquire(pool, x)
      BY <1>1, <2>1 DEF Initialised, At
    <2>3. /\ f \in Jobs /\ f.pc = "query" /\ f.todo = job[x].todo /\ f.payload = job[x].payload
          /\ f.got = job[x].got
      BY <1>0, <2>1, JobSteps
    <2>4. IF x = "refresh" THEN RefreshJob(f) ELSE ReaderJob(f)
      <3>1. CASE x = "refresh"
        <4>1. PICK p \in Payloads : p = job[x].payload
          BY <1>0 DEF Jobs
        <4>2. f.todo = fullRebuild(p)
          BY <1>0, <2>3, <3>1, <4>1 DEF CallersOK, RefreshJob
        <4>3. 1 \in 1..Len(fullRebuild(p))
          <5>1. Len(fullRebuild(p)) \in Nat /\ Len(fullRebuild(p)) >= 4
            BY Script
          <5> QED BY <5>1
        <4>4. f.todo = From(p, 1)
          BY <4>2, <4>3, ScriptStep
        <4> QED BY <2>3, <3>1, <4>1, <4>3, <4>4 DEF RefreshJob
      <3>2. CASE x # "refresh"
        <4>1. ReaderJob(job[x]) /\ x \in Readers
          BY <1>0, <3>2 DEF CallersOK
        <4>2. f.todo = getCounts
          BY <1>0, <2>3, <4>1 DEF ReaderJob
        <4>3. f.got = <<>>
          BY <1>0, <2>3, <4>1 DEF ReaderJob
        <4> QED BY <2>3, <3>2, <4>2, <4>3 DEF ReaderJob
      <3> QED BY <3>1, <3>2
    <2>5. /\ PoolOK(pool') /\ pool.opened \subseteq pool'.opened
          /\ \A y \in Callers : Holds(pool', y) <=> Holds(pool, y) \/ y = x
          /\ \A c \in Conns : pool.busy[c] # None => pool'.busy[c] = pool.busy[c]
      BY <1>0, <2>2, Acquired
    <2>6. \A y \in Callers : Holds(pool', y) <=> IF y = x THEN f.pc = "query" ELSE Holds(pool, y)
      BY <2>3, <2>5
    <2>7. CallersOK(pool', job', initPromise)
      BY <1>0, <1>1, <2>2, <2>3, <2>4, <2>5, <2>6, OneMoves
    <2>8. job'[x] = f /\ \A y \in Callers : y # x => job'[y] = job[y]
      BY <1>0, <2>2
    <2> QED BY <1>0, <2>3, <2>5, <2>7, <2>8, Names DEF CallersInv
  <1>2. CASE initPromise # "resolved"
    <2>1. job' = [job EXCEPT ![x] = NoJob] /\ pool' = pool
      BY <1>2 DEF Initialised
    <2>2. NoJob \in Jobs /\ NoJob.pc = "idle" /\ RefreshJob(NoJob) /\ ReaderJob(NoJob)
      BY JobValues DEF RefreshJob, ReaderJob
    <2>3. \A y \in Callers : Holds(pool, y) <=> IF y = x THEN NoJob.pc = "query" ELSE Holds(pool, y)
      BY <1>0, <2>2
    <2>4. CallersOK(pool, job', initPromise)
      BY <1>0, <2>1, <2>2, <2>3, OneMoves
    <2>5. job'[x] = NoJob /\ \A y \in Callers : y # x => job'[y] = job[y]
      BY <1>0, <2>1
    <2> QED BY <1>0, <2>1, <2>4, <2>5, Names DEF CallersInv
  <1> QED BY <1>1, <1>2

\* Closing an idle connection disturbs no caller.
LEMMA CallersIdleClosed ==
    ASSUME CallersInv, NEW c \in Conns, IdleClosed(c)
    PROVE  /\ CallersInv' /\ pool'.opened = pool.opened \ {c} /\ pool.busy[c] = None
           /\ pool'.busy = pool.busy
  <1>1. PICK i \in DOMAIN pool.idle : pool.idle[i] = c /\ pool' = WithoutIdle(pool, i)
    BY DEF IdleClosed, WithoutIdle
  <1>2. PoolOK(pool) /\ CallersOK(pool, job, initPromise)
    BY DEF CallersInv, CallersOK
  <1>3. /\ PoolOK(pool') /\ pool'.opened = pool.opened \ {pool.idle[i]}
        /\ pool'.busy = pool.busy /\ pool'.queue = pool.queue
    BY <1>1, <1>2, ClosesIdle
  <1>4. \A x : Holds(pool', x) <=> Holds(pool, x)
    BY <1>3 DEF Holds
  <1>5. pool.busy[c] = None
    BY <1>1, <1>2 DEF PoolOK, Idles
  <1>6. job' = job /\ initPromise' = initPromise
    BY DEF IdleClosed
  <1>7. CallersOK(pool', job', initPromise')
    BY <1>2, <1>3, <1>4, <1>6 DEF CallersOK
  <1> QED BY <1>1, <1>3, <1>5, <1>7 DEF CallersInv

\* The evidence is written, or is not: the refresh alone goes on.
LEMMA CallersEvidence ==
    ASSUME CallersInv, RenameIndex \/ WriteIndexMetadata \/ ReindexFails
    PROVE  /\ CallersInv' /\ pool' = pool
           /\ \A y \in Readers : job'[y] = job[y]
           /\ job["refresh"].pc \in {"rename", "metadata"}
           /\ job'["refresh"].pc \in {"metadata", "idle"}
           /\ job'["refresh"].pc = "idle" => job'["refresh"] = NoJob
           /\ job["refresh"].payload \in Payloads
  <1>0. /\ CallersOK(pool, job, initPromise) /\ job \in [Callers -> Jobs] /\ PoolOK(pool)
        /\ job["refresh"] \in Jobs /\ job["refresh"].pc \in {"rename", "metadata"}
        /\ pool' = pool /\ initPromise' = initPromise
    BY Names DEF CallersInv, CallersOK, RenameIndex, WriteIndexMetadata, ReindexFails
  <1>1. PICK f \in Jobs : /\ job' = [job EXCEPT !["refresh"] = f]
                          /\ f.pc \in {"metadata", "idle"} /\ (f.pc = "idle" => f = NoJob)
    <2>1. CASE RenameIndex
      <3>1. PICK f : f = At(job["refresh"], "metadata")
        OBVIOUS
      <3>2. f \in Jobs /\ f.pc = "metadata"
        BY <1>0, <3>1, JobSteps
      <3>3. job' = [job EXCEPT !["refresh"] = f]
        BY <2>1, <3>1 DEF RenameIndex, At
      <3> QED BY <3>2, <3>3
    <2>2. CASE WriteIndexMetadata \/ ReindexFails
      BY <2>2, JobValues DEF WriteIndexMetadata, ReindexFails
    <2> QED BY <2>1, <2>2
  <1>2. RefreshJob(f)
    BY <1>1 DEF RefreshJob
  <1>3. \A y \in Callers : Holds(pool, y) <=> IF y = "refresh" THEN f.pc = "query"
                                                               ELSE Holds(pool, y)
    BY <1>0, <1>1 DEF CallersOK
  <1>4. CallersOK(pool, job', initPromise)
    BY <1>0, <1>1, <1>2, <1>3, OneMoves
  <1>5. job'["refresh"] = f /\ \A y \in Readers : job'[y] = job[y]
    BY <1>0, <1>1, Names
  <1>6. job["refresh"].payload \in Payloads
    BY <1>0 DEF Jobs
  <1> QED BY <1>0, <1>1, <1>4, <1>5, <1>6 DEF CallersInv

------------------------------------------------------------------------------
(* The transactions, step by step.                                         *)

\* A connection without a transaction.
LEMMA NoTxValue ==
    NoTx \in Transactions /\ NoTx.status = "none" /\ NoTx.deleted = {} /\ NoTx.inserted = {}
  BY DEF NoTx, Transactions

\* A transaction ends, with its rows or without.
LEMMA TxEnds ==
    ASSUME NEW r, NEW t, NEW o, TxOK(r, t, o), NEW c \in Conns,
           NEW q, q = r \/ q = (r \ t[c].deleted) \cup t[c].inserted,
           NEW u, u = [t EXCEPT ![c] = NoTx], NEW n, o \ {c} \subseteq n
    PROVE  TxOK(q, u, n)
  <1>1. u \in [Conns -> Transactions] /\ u[c] = NoTx /\ \A d \in Conns : d # c => u[d] = t[d]
    BY NoTxValue DEF TxOK
  <1>2. t[c].inserted \subseteq AllRows
    BY DEF TxOK, Transactions
  <1>3. q \subseteq AllRows
    BY <1>2 DEF TxOK
  <1>4. \A d \in Conns : u[d].deleted \subseteq q /\ (u[d].status = "none" => u[d] = NoTx)
    BY <1>1, NoTxValue DEF TxOK
  <1>5. \A d, e \in Conns : d # e => u[d].deleted \cap u[e].deleted = {}
    BY <1>1, NoTxValue DEF TxOK
  <1>6. \A d \in Conns \ n : u[d] = NoTx
    BY <1>1 DEF TxOK
  <1> QED BY <1>1, <1>3, <1>4, <1>5, <1>6 DEF TxOK

\* A connection more has no transaction.
LEMMA TxOpens ==
    ASSUME NEW r, NEW t, NEW o, TxOK(r, t, o), NEW n, o \subseteq n
    PROVE  TxOK(r, t, n)
  BY DEF TxOK

\* What a statement makes of a transaction.
Begun(t)            == [t EXCEPT !.status = "open"]
Deleting(t, table)  == [t EXCEPT !.deleted = @ \cup InTable(table, rows),
                                 !.inserted = @ \ InTable(table, @)]
Inserting(t, row)   == [t EXCEPT !.inserted = @ \cup {row}]

\* What each statement leaves in each field of its transaction.
LEMMA TxSteps ==
    ASSUME NEW t \in Transactions, rows \subseteq AllRows
    PROVE  /\ Begun(t) \in Transactions /\ Begun(t).status = "open"
           /\ Begun(t).deleted = t.deleted /\ Begun(t).inserted = t.inserted
           /\ \A table : /\ Deleting(t, table) \in Transactions
                         /\ Deleting(t, table).status = t.status
                         /\ Deleting(t, table).deleted = t.deleted \cup InTable(table, rows)
                         /\ Deleting(t, table).inserted = t.inserted \ InTable(table, t.inserted)
           /\ \A row \in AllRows : /\ Inserting(t, row) \in Transactions
                                   /\ Inserting(t, row).status = t.status
                                   /\ Inserting(t, row).deleted = t.deleted
                                   /\ Inserting(t, row).inserted = t.inserted \cup {row}
  <1>1. /\ Begun(t) \in Transactions /\ Begun(t).status = "open"
        /\ Begun(t).deleted = t.deleted /\ Begun(t).inserted = t.inserted
    BY DEF Transactions, Begun
  <1>2. ASSUME NEW table
        PROVE  /\ Deleting(t, table) \in Transactions
               /\ Deleting(t, table).status = t.status
               /\ Deleting(t, table).deleted = t.deleted \cup InTable(table, rows)
               /\ Deleting(t, table).inserted = t.inserted \ InTable(table, t.inserted)
    <2>1. PICK a, b : a = InTable(table, rows) /\ b = InTable(table, t.inserted)
      OBVIOUS
    <2>2. a \subseteq AllRows
      BY <2>1 DEF InTable
    <2>3. PICK f : f = [t EXCEPT !.deleted = @ \cup a, !.inserted = @ \ b]
      OBVIOUS
    <2>4. f = Deleting(t, table)
      BY <2>1, <2>3 DEF Deleting
    <2>5. /\ f \in Transactions /\ f.status = t.status
          /\ f.deleted = t.deleted \cup a /\ f.inserted = t.inserted \ b
      BY <2>2, <2>3 DEF Transactions
    <2> QED BY <2>1, <2>4, <2>5
  <1>3. \A row \in AllRows : /\ Inserting(t, row) \in Transactions
                             /\ Inserting(t, row).status = t.status
                             /\ Inserting(t, row).deleted = t.deleted
                             /\ Inserting(t, row).inserted = t.inserted \cup {row}
    BY DEF Transactions, Inserting
  <1> QED BY <1>1, <1>2, <1>3

\* Execute, as what it makes of the rows and of the connection's transaction.
LEMMA Executes ==
    ASSUME tx \in [Conns -> Transactions], NEW c \in Conns, NEW s \in Statements, Execute(c, s)
    PROVE  /\ s.verb = "begin" => rows' = rows /\ tx' = [tx EXCEPT ![c] = Begun(tx[c])]
           /\ s.verb = "delete edges" =>
                IF tx[c].status = "open"
                THEN rows' = rows /\ tx' = [tx EXCEPT ![c] = Deleting(tx[c], "edges")]
                ELSE rows' = rows \ InTable("edges", rows) /\ tx' = tx
           /\ s.verb = "delete nodes" =>
                IF tx[c].status = "open"
                THEN rows' = rows /\ tx' = [tx EXCEPT ![c] = Deleting(tx[c], "nodes")]
                ELSE rows' = rows \ InTable("nodes", rows) /\ tx' = tx
           /\ s.verb = "insert" =>
                IF tx[c].status = "open"
                THEN rows' = rows /\ tx' = [tx EXCEPT ![c] = Inserting(tx[c], s.row)]
                ELSE rows' = rows \cup {s.row} /\ tx' = tx
           /\ s.verb = "commit" => rows' = Visible(c) /\ tx' = [tx EXCEPT ![c] = NoTx]
           /\ s.verb = "rollback" => rows' = rows /\ tx' = [tx EXCEPT ![c] = NoTx]
           /\ s.verb \notin {"begin", "delete edges", "delete nodes", "insert", "commit",
                             "rollback"} => rows' = rows /\ tx' = tx
  <1>1. s.verb = "begin" => rows' = rows /\ tx' = [tx EXCEPT ![c] = Begun(tx[c])]
    BY DEF Execute, Begun
  <1>2. ASSUME NEW table, Delete(c, table)
        PROVE  IF tx[c].status = "open"
               THEN rows' = rows /\ tx' = [tx EXCEPT ![c] = Deleting(tx[c], table)]
               ELSE rows' = rows \ InTable(table, rows) /\ tx' = tx
    <2>1. CASE tx[c].status = "open"
      <3>1. PICK a, b : a = InTable(table, rows) /\ b = InTable(table, tx[c].inserted)
        OBVIOUS
      <3>2. PICK f : f = [tx[c] EXCEPT !.deleted = @ \cup InTable(table, rows)]
        OBVIOUS
      <3>3. f.inserted = tx[c].inserted
        BY <3>2 DEF Transactions
      <3>4. PICK u : u = [tx EXCEPT ![c] = f]
        OBVIOUS
      <3>5. u[c] = f
        BY <3>4
      <3>6. tx' = [u EXCEPT ![c] = [u[c] EXCEPT !.inserted = tx[c].inserted
                                                           \ InTable(table, tx[c].inserted)]]
        BY <1>2, <2>1, <3>2, <3>4 DEF Delete
      <3>7. [u[c] EXCEPT !.inserted = tx[c].inserted \ InTable(table, tx[c].inserted)]
            = [f EXCEPT !.inserted = @ \ b]
        BY <3>1, <3>3, <3>5
      <3>8. PICK g : g = [f EXCEPT !.inserted = @ \ b]
        OBVIOUS
      <3>9. tx' = [tx EXCEPT ![c] = g]
        <4>1. tx' = [u EXCEPT ![c] = g]
          BY <3>6, <3>7, <3>8
        <4> QED BY <3>4, <4>1
      <3>10. Deleting(tx[c], table) = g
        BY <3>1, <3>2, <3>3, <3>8 DEF Deleting
      <3> QED BY <1>2, <2>1, <3>9, <3>10 DEF Delete
    <2>2. CASE tx[c].status # "open"
      BY <1>2, <2>2 DEF Delete
    <2> QED BY <2>1, <2>2
  <1>3. s.verb = "delete edges" => Delete(c, "edges")
    BY DEF Execute
  <1>4. s.verb = "delete nodes" => Delete(c, "nodes")
    BY DEF Execute
  <1>5. s.verb = "insert" =>
            IF tx[c].status = "open"
            THEN rows' = rows /\ tx' = [tx EXCEPT ![c] = Inserting(tx[c], s.row)]
            ELSE rows' = rows \cup {s.row} /\ tx' = tx
    BY DEF Execute, Insert, Inserting
  <1>6. /\ s.verb = "commit" => rows' = Visible(c) /\ tx' = [tx EXCEPT ![c] = NoTx]
        /\ s.verb = "rollback" => rows' = rows /\ tx' = [tx EXCEPT ![c] = NoTx]
    BY DEF Execute
  <1>7. s.verb \notin {"begin", "delete edges", "delete nodes", "insert", "commit", "rollback"}
            => rows' = rows /\ tx' = tx
    BY DEF Execute
  <1> QED BY <1>1, <1>2, <1>3, <1>4, <1>5, <1>6, <1>7

\* A statement that did not have to wait leaves the transactions apart.
LEMMA TxExecutes ==
    ASSUME TxInv, NEW c \in Conns, c \in pool.opened, NEW s \in Statements,
           ~Waits(c, s), Execute(c, s)
    PROVE  TxOK(rows', tx', pool.opened)
  <1>0. /\ rows \subseteq AllRows /\ tx \in [Conns -> Transactions] /\ tx[c] \in Transactions
    BY DEF TxInv, TxOK
  <1>1. ASSUME NEW f \in Transactions, f.status = "open", f.deleted \subseteq rows,
               \A d \in Conns \ {c} : f.deleted \cap tx[d].deleted = {},
               rows' = rows, tx' = [tx EXCEPT ![c] = f]
        PROVE  TxOK(rows', tx', pool.opened)
    <2>1. tx' \in [Conns -> Transactions] /\ tx'[c] = f /\ \A d \in Conns : d # c => tx'[d] = tx[d]
      BY <1>0, <1>1
    <2>2. \A d \in Conns : tx'[d].deleted \subseteq rows /\ (tx'[d].status = "none" => tx'[d] = NoTx)
      BY <1>1, <2>1 DEF TxInv, TxOK
    <2>3. \A d, e \in Conns : d # e => tx'[d].deleted \cap tx'[e].deleted = {}
      BY <1>1, <2>1 DEF TxInv, TxOK
    <2>4. \A d \in Conns \ pool.opened : tx'[d] = NoTx
      BY <2>1 DEF TxInv, TxOK
    <2> QED BY <1>0, <1>1, <2>1, <2>2, <2>3, <2>4 DEF TxOK
  <1>2. CASE s.verb = "begin"
    <2>1. PICK f : f = Begun(tx[c])
      OBVIOUS
    <2>2. /\ f \in Transactions /\ f.status = "open" /\ f.deleted = tx[c].deleted
          /\ rows' = rows /\ tx' = [tx EXCEPT ![c] = f]
      BY <1>0, <1>2, <2>1, TxSteps, Executes
    <2> QED BY <1>1, <2>2 DEF TxInv, TxOK
  <1>3. ASSUME NEW table, ~\E d \in Conns \ {c} : InTable(table, tx[d].deleted) # {},
               IF tx[c].status = "open"
               THEN rows' = rows /\ tx' = [tx EXCEPT ![c] = Deleting(tx[c], table)]
               ELSE rows' = rows \ InTable(table, rows) /\ tx' = tx
        PROVE  TxOK(rows', tx', pool.opened)
    <2>1. \A d \in Conns \ {c} : InTable(table, rows) \cap tx[d].deleted = {}
      BY <1>3 DEF InTable
    <2>2. CASE tx[c].status = "open"
      <3>1. PICK f : f = Deleting(tx[c], table)
        OBVIOUS
      <3>2. /\ f \in Transactions /\ f.status = "open"
            /\ f.deleted = tx[c].deleted \cup InTable(table, rows)
        BY <1>0, <2>2, <3>1, TxSteps
      <3>3. f.deleted \subseteq rows /\ \A d \in Conns \ {c} : f.deleted \cap tx[d].deleted = {}
        BY <2>1, <3>2 DEF TxInv, TxOK, InTable
      <3> QED BY <1>1, <1>3, <2>2, <3>1, <3>2, <3>3
    <2>3. CASE tx[c].status # "open"
      <3>1. tx[c].deleted = {}
        BY <1>0, <2>3, NoTxValue DEF TxInv, TxOK, Transactions
      <3>2. \A d \in Conns : tx[d].deleted \subseteq rows \ InTable(table, rows)
        BY <2>1, <3>1 DEF TxInv, TxOK
      <3> QED BY <1>3, <2>3, <3>2 DEF TxInv, TxOK
    <2> QED BY <2>2, <2>3
  <1>4. CASE s.verb = "delete edges"
    BY <1>0, <1>3, <1>4, Executes DEF Waits
  <1>5. CASE s.verb = "delete nodes"
    BY <1>0, <1>3, <1>5, Executes DEF Waits
  <1>6. CASE s.verb = "insert"
    <2>0. s.row \in AllRows
      BY <1>6, StatementTypes
    <2>1. CASE tx[c].status = "open"
      <3>1. PICK f : f = Inserting(tx[c], s.row)
        OBVIOUS
      <3>2. /\ f \in Transactions /\ f.status = "open" /\ f.deleted = tx[c].deleted
        BY <1>0, <2>0, <2>1, <3>1, TxSteps
      <3>3. rows' = rows /\ tx' = [tx EXCEPT ![c] = f]
        BY <1>0, <1>6, <2>1, <3>1, Executes
      <3> QED BY <1>1, <3>2, <3>3 DEF TxInv, TxOK
    <2>2. CASE tx[c].status # "open"
      <3>1. rows' = rows \cup {s.row} /\ tx' = tx
        BY <1>0, <1>6, <2>2, Executes
      <3> QED BY <2>0, <3>1 DEF TxInv, TxOK
    <2> QED BY <2>1, <2>2
  <1>7. CASE s.verb \in {"commit", "rollback"}
    <2>1. tx' = [tx EXCEPT ![c] = NoTx]
          /\ (rows' = rows \/ rows' = (rows \ tx[c].deleted) \cup tx[c].inserted)
      BY <1>0, <1>7, Executes DEF Visible
    <2> QED BY <2>1, TxEnds DEF TxInv
  <1>8. CASE s.verb \notin {"begin", "delete edges", "delete nodes", "insert", "commit", "rollback"}
    BY <1>0, <1>8, Executes DEF TxInv
  <1> QED BY <1>2, <1>4, <1>5, <1>6, <1>7, <1>8

------------------------------------------------------------------------------
(* A rebuild nobody reads beside, step by step.                            *)

\* A count is a number, of a finite set or not.
LEMMA CountTypes ==
    ASSUME TxInv, NEW c \in Conns, NEW s
    PROVE  Count(c, s) \in Counts
  <1>1. \A table : InTable(table, Visible(c)) \in SUBSET AllRows
    BY DEF TxInv, TxOK, Transactions, Visible, InTable
  <1>2. \A S \in SUBSET AllRows : Cardinality(S) \in Counts
    BY DEF Counts
  <1>3. 0 \in Counts
    BY DEF Counts
  <1> QED BY <1>1, <1>2, <1>3 DEF Count

\* A transaction that is not there sees the rows that are committed.
LEMMA SeesCommitted ==
    ASSUME NEW c \in Conns, tx[c] = NoTx
    PROVE  Visible(c) = rows
  BY NoTxValue DEF Visible

\* What is counted is there.
LEMMA OnlyCounted ==
    ASSUME NEW S, Cardinality(S) > 0
    PROVE  S # {}
  BY FS_EmptySet

\* Nobody waits for a connection while an undisturbed rebuild has one.
LEMMA NobodyWaits ==
    ASSUME CallersInv, Quiet, NEW c \in Conns, pool.busy[c] = "refresh"
    PROVE  pool.queue = <<>> /\ PoolOK(pool) /\ job["refresh"].pc = "query"
           /\ job["refresh"].payload \in Payloads /\ \A x \in Readers : job[x].pc = "idle"
  <1>1. /\ PoolOK(pool) /\ job["refresh"].pc = "query" /\ initPromise = "resolved"
        /\ job["refresh"] \in Jobs
    BY BusyOne, Names
  <1>2. \A x \in Readers : job[x].pc = "idle"
    BY <1>1 DEF Quiet
  <1>3. job["initSchema"].pc # "query"
    BY <1>1, JobValues DEF CallersInv, CallersOK
  <1>4. ASSUME NEW i \in DOMAIN pool.queue PROVE FALSE
    <2>1. pool.queue[i] \in Callers
      <3>1. pool.queue \in Seq(Callers)
        BY <1>1 DEF PoolOK, PoolRecords
      <3> QED BY <3>1, ElementOfSeq, LenProperties
    <2>2. job[pool.queue[i]].pc = "query"
      BY <2>1 DEF CallersInv, CallersOK, Holds
    <2>3. pool.queue[i] = "refresh"
      BY <1>2, <1>3, <2>1, <2>2, Names
    <2> QED BY <1>1, <2>3 DEF PoolOK, Once
  <1>5. pool.queue = <<>>
    <2>1. pool.queue \in Seq(Callers)
      BY <1>1 DEF PoolOK, PoolRecords
    <2>2. DOMAIN pool.queue = 1..Len(pool.queue) /\ Len(pool.queue) \in Nat
      BY <2>1, LenProperties
    <2>3. Len(pool.queue) = 0
      <3>1. Len(pool.queue) # 0 => 1 \in 1..Len(pool.queue)
        BY <2>2
      <3> QED BY <1>4, <2>2, <3>1
    <2> QED BY <2>1, <2>3, EmptySeq
  <1>6. job["refresh"].payload \in Payloads
    BY <1>1 DEF Jobs
  <1> QED BY <1>1, <1>2, <1>5, <1>6

\* What the rows of a rebuild's inserts amount to.
LEMMA InsertsBefore ==
    ASSUME NEW p \in Payloads, NEW k \in 1..Len(fullRebuild(p))
    PROVE  /\ k <= 4 => InsertedBefore(p, k) = {}
           /\ k >= 4 => InsertedBefore(p, k + 1) = InsertedBefore(p, k) \cup {fullRebuild(p)[k].row}
           /\ InsertedBefore(p, Len(fullRebuild(p))) = Rows(p)
  <1>1. PICK l : l = fullRebuild(p) /\ Len(l) \in Nat /\ k \in 1..Len(l)
                 /\ {l[i].row : i \in 4..(Len(l) - 1)} = Rows(p)
    BY Script
  <1>2. \A n : InsertedBefore(p, n) = {l[i].row : i \in 4..(n - 1)}
    BY <1>1 DEF InsertedBefore
  <1>3. k <= 4 => 4..(k - 1) = {}
    BY <1>1
  <1>4. k <= 4 => {l[i].row : i \in 4..(k - 1)} = {}
    BY <1>3
  <1>5. k >= 4 => 4..((k + 1) - 1) = (4..(k - 1)) \cup {k}
    BY <1>1
  <1>6. k >= 4 => {l[i].row : i \in 4..((k + 1) - 1)} = {l[i].row : i \in 4..(k - 1)} \cup {l[k].row}
    BY <1>5
  <1> QED BY <1>1, <1>2, <1>4, <1>6

\* A row is a node or an edge.
LEMMA TwoTables ==
    ASSUME rows \subseteq AllRows
    PROVE  InTable("edges", rows) \cup InTable("nodes", rows) = rows
  <1>1. \A r \in AllRows : r[1] = "nodes" \/ r[1] = "edges"
    BY DEF AllRows, Rows, NodeRows, EdgeRows
  <1> QED BY <1>1 DEF InTable

\* The connection of a rebuild that has begun.
LEMMA ItsConnection ==
    ASSUME CallersInv, TxInv, NEW c \in Conns, pool.busy[c] = "refresh", NEW p, NEW k, k > 1,
           Reached(p, k), k \in Nat
    PROVE  /\ \A d \in Conns \ {c} : tx[d] = NoTx
           /\ tx[c].status = "open" /\ tx[c].deleted = DeletedBefore(k)
           /\ tx[c].inserted = InsertedBefore(p, k)
  <1>1. PICK d \in Conns :
            /\ pool.busy[d] = "refresh" /\ \A e \in Conns \ {d} : tx[e] = NoTx
            /\ tx[d] = [status |-> "open", deleted |-> DeletedBefore(k),
                        inserted |-> InsertedBefore(p, k)]
    BY DEF Reached
  <1>2. d = c
    BY <1>1, Names DEF CallersInv, CallersOK, PoolOK, Once
  <1> QED BY <1>1, <1>2

\* A rebuild's statement is executed: what is committed changes at its commit only,
\* to the rows of its payload.
LEMMA RebuildAnswered ==
    ASSUME CallersInv, TxInv, Quiet, NEW c \in Conns, pool.busy[c] = "refresh",
           NEW s, s = Head(job["refresh"].todo), NEW v \in Counts,
           Execute(c, s), Continue("refresh", c, v)
    PROVE  Quiet' /\ (rows' # rows => rows' = Rows(job["refresh"].payload))
  <1>0. /\ PoolOK(pool) /\ pool.queue = <<>> /\ job["refresh"].pc = "query" /\ s \in Statements
        /\ job["refresh"].payload \in Payloads /\ \A x \in Readers : job[x].pc = "idle"
        /\ rows \subseteq AllRows /\ tx \in [Conns -> Transactions] /\ tx[c] \in Transactions
    BY NobodyWaits, BusyOne, Names DEF TxInv, TxOK
  <1>1. /\ \A y \in Readers : job'[y] = job[y]
        /\ IF Tail(job["refresh"].todo) # <<>>
           THEN /\ job'["refresh"].pc = "query" /\ job'["refresh"].todo = Tail(job["refresh"].todo)
                /\ job'["refresh"].payload = job["refresh"].payload
                /\ pool' = Acquire(Release(pool, c), "refresh")
           ELSE IF s.verb = "commit"
           THEN job'["refresh"].pc = "rename" /\ job'["refresh"].payload = job["refresh"].payload
           ELSE job'["refresh"] = NoJob
    BY Continued, Names
  <1>2. \A x \in Readers : job'[x].pc = "idle"
    BY <1>0, <1>1
  <1>3. CASE job["refresh"].todo = Undo /\ (\A d \in Conns : tx[d] = NoTx)
    <2>1. s.verb = "rollback" /\ Tail(job["refresh"].todo) = <<>>
      BY <1>3, JobValues
    <2>2. rows' = rows /\ tx' = [tx EXCEPT ![c] = NoTx]
      BY <1>0, <2>1, Executes
    <2>3. Closed'
      BY <1>0, <1>3, <2>2 DEF Closed
    <2>4. job'["refresh"] = NoJob
      BY <1>1, <2>1
    <2> QED BY <1>2, <2>2, <2>3, <2>4, JobValues DEF Quiet
  <1>4. ASSUME NEW p \in Payloads, p = job["refresh"].payload,
               NEW k \in 1..Len(fullRebuild(p)), job["refresh"].todo = From(p, k), Reached(p, k)
        PROVE  Quiet' /\ (rows' # rows => rows' = Rows(p))
    <2>1. PICK l \in Seq(Statements) :
              /\ l = fullRebuild(p) /\ Len(l) \in Nat /\ Len(l) >= 4 /\ k \in 1..Len(l)
              /\ l[1].verb = "begin" /\ l[2].verb = "delete edges" /\ l[3].verb = "delete nodes"
              /\ l[Len(l)].verb = "commit"
              /\ \A i \in 4..(Len(l) - 1) : l[i].verb = "insert"
      BY Script
    <2>a. PICK n \in Nat : n = Len(l) /\ n >= 4 /\ k \in Nat /\ k >= 1 /\ k <= n
      <3>1. PICK n : n = Len(l)
        OBVIOUS
      <3>2. n \in Nat /\ n >= 4 /\ k \in 1..n
        BY <2>1, <3>1, Zenon
      <3>3. k \in Nat /\ k >= 1 /\ k <= n
        BY <3>2
      <3> QED BY <3>1, <3>2, <3>3
    <2>b. \A i \in Nat : i >= 1 /\ i <= n => i \in 1..Len(fullRebuild(p))
      <3>1. Len(fullRebuild(p)) = n
        BY <2>1, <2>a, Zenon
      <3>2. \A i \in Nat : i >= 1 /\ i <= n => i \in 1..n
        OBVIOUS
      <3> QED BY <3>1, <3>2
    <2>2. /\ s = l[k] /\ Tail(job["refresh"].todo) = From(p, k + 1)
          /\ (Tail(job["refresh"].todo) = <<>> <=> k = n)
      <3>1. /\ Head(From(p, k)) = fullRebuild(p)[k] /\ Tail(From(p, k)) = From(p, k + 1)
            /\ Tail(From(p, k)) = <<>> <=> k = Len(fullRebuild(p))
        BY ScriptStep
      <3>2. fullRebuild(p) = l /\ Len(l) = n
        BY <2>1, <2>a
      <3> QED BY <1>4, <3>1, <3>2, Zenon
    <2>c. /\ k = 1 => s.verb = "begin"
          /\ k = 2 => s.verb = "delete edges"
          /\ k = 3 => s.verb = "delete nodes"
          /\ k = n => s.verb = "commit"
          /\ k >= 4 /\ k < n => s.verb = "insert"
      <3>1. k >= 4 /\ k < n => k \in 4..(Len(l) - 1)
        BY <2>a
      <3> QED BY <2>1, <2>a, <2>2, <3>1
    <2>3. k > 1 => /\ \A d \in Conns \ {c} : tx[d] = NoTx
                   /\ tx[c].status = "open" /\ tx[c].deleted = DeletedBefore(k)
                   /\ tx[c].inserted = InsertedBefore(p, k)
      BY <1>4, ItsConnection
    <2>4. /\ k <= 4 => InsertedBefore(p, k) = {}
          /\ k >= 4 => InsertedBefore(p, k + 1) = InsertedBefore(p, k) \cup {l[k].row}
          /\ InsertedBefore(p, n) = Rows(p)
      BY <2>1, <2>a, InsertsBefore
    <2>5. CASE k = n
      <3>1. s.verb = "commit" /\ k > 1 /\ k # 2 /\ k # 3
        <4>1. k = n => k > 1 /\ k # 2 /\ k # 3
          BY <2>a
        <4> QED BY <2>c, <2>5, <4>1
      <3>2. rows' = Visible(c) /\ tx' = [tx EXCEPT ![c] = NoTx]
        BY <1>0, <3>1, Executes
      <3>3. tx[c].deleted = rows /\ tx[c].inserted = Rows(p)
        BY <2>3, <2>4, <2>5, <3>1 DEF DeletedBefore
      <3>4. rows' = Rows(p)
        BY <3>2, <3>3 DEF Visible
      <3>5. Closed'
        BY <1>0, <2>3, <3>1, <3>2 DEF Closed
      <3>6. job'["refresh"].pc = "rename" /\ job'["refresh"].payload = p
        BY <1>1, <1>4, <2>2, <2>5, <3>1
      <3> QED BY <1>2, <3>4, <3>5, <3>6 DEF Quiet
    <2>6. CASE k # n
      <3>1. /\ job'["refresh"].pc = "query" /\ job'["refresh"].todo = From(p, k + 1)
            /\ job'["refresh"].payload = p /\ pool' = Acquire(Release(pool, c), "refresh")
        BY <1>1, <1>4, <2>2, <2>6
      <3>2. pool'.busy[c] = "refresh"
        BY <1>0, <3>1, SameConnection, Names
      <3>3. k + 1 \in Nat /\ k + 1 >= 1 /\ k + 1 <= n /\ k + 1 > 1 /\ k < n /\ k \in Nat
        BY <2>a, <2>6
      <3>4. ASSUME NEW f \in Transactions, f.status = "open",
                   rows' = rows, tx' = [tx EXCEPT ![c] = f], \A d \in Conns \ {c} : tx[d] = NoTx,
                   f.deleted = DeletedBefore(k + 1), f.inserted = InsertedBefore(p, k + 1)
            PROVE  Quiet' /\ (rows' # rows => rows' = Rows(p))
        <4>1. tx'[c] = f /\ \A d \in Conns \ {c} : tx'[d] = NoTx
          BY <1>0, <3>4
        <4>2. f = [status |-> "open", deleted |-> DeletedBefore(k + 1),
                   inserted |-> InsertedBefore(p, k + 1)]
          BY <3>4 DEF Transactions
        <4>3. DeletedBefore(k + 1)' = DeletedBefore(k + 1)
          BY <3>4 DEF DeletedBefore, InTable
        <4>4. Reached(p, k + 1)'
          BY <3>2, <3>3, <4>1, <4>2, <4>3 DEF Reached
        <4>5. k + 1 \in 1..Len(fullRebuild(p))
          BY <2>b, <3>3
        <4> QED BY <1>2, <3>1, <3>4, <4>4, <4>5 DEF Quiet
      <3>5. CASE k = 1
        <4>1. PICK f : f = Begun(tx[c])
          OBVIOUS
        <4>2. s.verb = "begin" /\ \A d \in Conns : tx[d] = NoTx
          BY <1>4, <2>c, <3>5 DEF Reached, Closed
        <4>3. /\ f \in Transactions /\ f.status = "open" /\ f.deleted = {} /\ f.inserted = {}
              /\ rows' = rows /\ tx' = [tx EXCEPT ![c] = f]
          BY <1>0, <4>1, <4>2, TxSteps, Executes, NoTxValue
        <4>4. DeletedBefore(k + 1) = {} /\ InsertedBefore(p, k + 1) = {}
          <5>1. k + 1 = 2
            BY <3>5
          <5>2. 2 \in 1..Len(fullRebuild(p))
            BY <2>a, <2>b
          <5> QED BY <5>1, <5>2, InsertsBefore DEF DeletedBefore
        <4> QED BY <3>4, <4>2, <4>3, <4>4
      <3>6. CASE k = 2
        <4>1. PICK f : f = Deleting(tx[c], "edges")
          OBVIOUS
        <4>2. s.verb = "delete edges"
          BY <2>c, <3>6
        <4>3. tx[c].status = "open" /\ tx[c].deleted = {} /\ tx[c].inserted = {}
              /\ \A d \in Conns \ {c} : tx[d] = NoTx
          BY <2>3, <2>4, <3>6 DEF DeletedBefore
        <4>4. /\ f \in Transactions /\ f.status = "open" /\ f.deleted = InTable("edges", rows)
              /\ f.inserted = {} /\ rows' = rows /\ tx' = [tx EXCEPT ![c] = f]
          <5>1. rows' = rows /\ tx' = [tx EXCEPT ![c] = f]
            BY <1>0, <4>1, <4>2, <4>3, Executes
          <5>2. \A table : /\ Deleting(tx[c], table) \in Transactions
                           /\ Deleting(tx[c], table).status = tx[c].status
                           /\ Deleting(tx[c], table).deleted = tx[c].deleted \cup InTable(table, rows)
                           /\ Deleting(tx[c], table).inserted
                                = tx[c].inserted \ InTable(table, tx[c].inserted)
            BY <1>0, TxSteps
          <5> QED BY <4>1, <4>3, <5>1, <5>2
        <4>5. DeletedBefore(k + 1) = InTable("edges", rows) /\ InsertedBefore(p, k + 1) = {}
          <5>1. k + 1 = 3
            BY <3>6
          <5>2. 3 \in 1..Len(fullRebuild(p))
            BY <2>a, <2>b
          <5> QED BY <5>1, <5>2, InsertsBefore DEF DeletedBefore
        <4> QED BY <3>4, <4>3, <4>4, <4>5
      <3>7. CASE k = 3
        <4>1. PICK f : f = Deleting(tx[c], "nodes")
          OBVIOUS
        <4>2. s.verb = "delete nodes"
          BY <2>c, <3>7
        <4>3. tx[c].status = "open" /\ tx[c].deleted = InTable("edges", rows)
              /\ tx[c].inserted = {} /\ \A d \in Conns \ {c} : tx[d] = NoTx
          BY <2>3, <2>4, <3>7 DEF DeletedBefore
        <4>4. /\ f \in Transactions /\ f.status = "open"
              /\ f.deleted = InTable("edges", rows) \cup InTable("nodes", rows)
              /\ f.inserted = {} /\ rows' = rows /\ tx' = [tx EXCEPT ![c] = f]
          <5>1. rows' = rows /\ tx' = [tx EXCEPT ![c] = f]
            BY <1>0, <4>1, <4>2, <4>3, Executes
          <5>2. \A table : /\ Deleting(tx[c], table) \in Transactions
                           /\ Deleting(tx[c], table).status = tx[c].status
                           /\ Deleting(tx[c], table).deleted = tx[c].deleted \cup InTable(table, rows)
                           /\ Deleting(tx[c], table).inserted
                                = tx[c].inserted \ InTable(table, tx[c].inserted)
            BY <1>0, TxSteps
          <5> QED BY <4>1, <4>3, <5>1, <5>2
        <4>5. InTable("edges", rows) \cup InTable("nodes", rows) = rows
          BY <1>0, TwoTables
        <4>6. DeletedBefore(k + 1) = rows /\ InsertedBefore(p, k + 1) = {}
          <5>1. k + 1 = 4
            BY <3>7
          <5>2. 4 \in 1..Len(fullRebuild(p))
            BY <2>a, <2>b
          <5> QED BY <5>1, <5>2, InsertsBefore DEF DeletedBefore
        <4> QED BY <3>4, <4>3, <4>4, <4>5, <4>6
      <3>8. CASE k >= 4
        <4>1. PICK f : f = Inserting(tx[c], s.row)
          OBVIOUS
        <4>2. k > 1 /\ k # 2 /\ k # 3 /\ k + 1 # 2 /\ k + 1 # 3
          BY <3>3, <3>8
        <4>3. s.verb = "insert" /\ s.row \in AllRows
          BY <1>0, <2>c, <3>3, <3>8, StatementTypes
        <4>4. tx[c].status = "open" /\ tx[c].deleted = rows /\ tx[c].inserted = InsertedBefore(p, k)
              /\ \A d \in Conns \ {c} : tx[d] = NoTx
          BY <2>3, <4>2 DEF DeletedBefore
        <4>5. /\ f \in Transactions /\ f.status = "open" /\ f.deleted = rows
              /\ f.inserted = InsertedBefore(p, k) \cup {s.row}
              /\ rows' = rows /\ tx' = [tx EXCEPT ![c] = f]
          <5>1. rows' = rows /\ tx' = [tx EXCEPT ![c] = f]
            BY <1>0, <4>1, <4>3, <4>4, Executes
          <5>2. \A row \in AllRows : /\ Inserting(tx[c], row) \in Transactions
                                     /\ Inserting(tx[c], row).status = tx[c].status
                                     /\ Inserting(tx[c], row).deleted = tx[c].deleted
                                     /\ Inserting(tx[c], row).inserted = tx[c].inserted \cup {row}
            BY <1>0, TxSteps
          <5> QED BY <4>1, <4>3, <4>4, <5>1, <5>2
        <4>6. DeletedBefore(k + 1) = rows /\ InsertedBefore(p, k + 1) = InsertedBefore(p, k) \cup {s.row}
          BY <2>2, <2>4, <3>8, <4>2 DEF DeletedBefore
        <4> QED BY <3>4, <4>4, <4>5, <4>6
      <3> QED BY <3>3, <3>5, <3>6, <3>7, <3>8
    <2> QED BY <2>5, <2>6
  <1> QED BY <1>0, <1>3, <1>4 DEF Quiet, Closed

\* A reader counts. Where it reads beside no rebuild it counts what is committed,
\* and no row goes between its two counts.
LEMMA ReaderAnswered ==
    ASSUME CallersInv, TxInv, NEW c \in Conns, pool.busy[c] \in Readers, NEW x, x = pool.busy[c],
           NEW s, s = Head(job[x].todo), Execute(c, s), Continue(x, c, Count(c, s))
    PROVE  /\ rows' = rows /\ tx' = tx /\ job'["refresh"] = job["refresh"]
           /\ Quiet => Quiet'
  <1>0. /\ x \in Readers /\ x # "refresh" /\ pool.busy[c] # None /\ job[x].pc = "query"
        /\ ReaderJob(job[x]) /\ s \in Statements /\ tx \in [Conns -> Transactions]
    BY BusyOne, Names DEF TxInv, TxOK
  <1>1. PICK v \in Counts : v = Count(c, s)
    BY CountTypes
  <1>2. /\ \A y \in Readers \cup {"refresh"} : y # x => job'[y] = job[y]
        /\ IF Tail(job[x].todo) # <<>>
           THEN /\ job'[x].pc = "query" /\ job'[x].todo = Tail(job[x].todo)
                /\ job'[x].got = Append(job[x].got, v)
           ELSE job'[x] = NoJob
    BY <1>0, <1>1, Continued
  <1>3. s.verb \in {"count nodes", "count edges"} /\ (job[x].todo = getCounts => s.verb = "count nodes")
    BY <1>0, JobValues DEF ReaderJob
  <1>4. rows' = rows /\ tx' = tx
    BY <1>0, <1>3, Executes
  <1>5. job'["refresh"] = job["refresh"]
    BY <1>0, <1>2
  <1>6. ASSUME Quiet PROVE Quiet'
    <2>1. job["refresh"].pc = "idle" /\ Closed
      BY <1>0, <1>6, JobValues DEF Quiet
    <2>2. Closed'
      BY <1>4, <2>1 DEF Closed
    <2>3. ASSUME NEW y \in Readers, job'[y].pc = "query", job'[y].todo = Tail(getCounts),
                 job'[y].got[1] > 0
          PROVE  InTable("nodes", rows') # {}
      <3>1. CASE y # x
        BY <1>2, <1>4, <1>6, <2>3, <3>1 DEF Quiet
      <3>2. CASE y = x
        <4>1. Tail(job[x].todo) # <<>>
          BY <1>2, <2>3, <3>2, JobValues
        <4>2. job[x].todo = getCounts /\ job[x].got = <<>>
          BY <1>0, <4>1, JobValues DEF ReaderJob
        <4>3. job'[x].got = Append(<<>>, v)
          BY <1>2, <4>1, <4>2
        <4>4. Append(<<>>, v)[1] = v
          OBVIOUS
        <4>5. v = Cardinality(InTable("nodes", rows))
          BY <1>1, <1>3, <2>1, <4>2, SeesCommitted DEF Count, Closed
        <4>6. Cardinality(InTable("nodes", rows)) > 0
          BY <2>3, <3>2, <4>3, <4>4, <4>5
        <4> QED BY <1>4, <4>6, OnlyCounted
      <3> QED BY <3>1, <3>2
    <2> QED BY <1>5, <2>1, <2>2, <2>3 DEF Quiet
  <1> QED BY <1>4, <1>5, <1>6

\* Who leaves the files alone, and the refresh outside the turn that writes them.
LEMMA EvidenceKept ==
    ASSUME EvidenceInv, UNCHANGED <<index, metadata, cut>>,
           \/ job'["refresh"] = job["refresh"]
           \/ job["refresh"].pc # "metadata" /\ job'["refresh"].pc # "metadata"
    PROVE  EvidenceInv'
  BY DEF EvidenceInv

\* GET /ready answers from two counts that no rebuild came between, of a graph
\* that holds something, and from an index that does.
LEMMA ReaderGrounded ==
    ASSUME ReadyIsGrounded, CallersInv, TxInv, RestInv, QuietInv, EvidenceInv, Free,
           NEW c \in Conns, pool.busy[c] # None, NEW x, x = pool.busy[c],
           NEW s, s = Head(job[x].todo), Continue(x, c, Count(c, s))
    PROVE  ReadyIsGrounded'
  <1>0. x # "initSchema" => x \in Readers \cup {"refresh"}
    BY BusyOne
  <1>1. CASE answers' = answers
    BY <1>1 DEF ReadyIsGrounded
  <1>2. CASE answers' # answers
    <2>1. /\ x \in Readers /\ Tail(job[x].todo) = <<>>
          /\ answers' = answers \cup {ready(Append(job[x].got, Count(c, s)))}
      BY <1>2 DEF Continue
    <2>2. /\ job[x].pc = "query" /\ ReaderJob(job[x]) /\ job[x] \in Jobs
      BY <2>1, BusyOne
    <2>3. job[x].todo = Tail(getCounts) /\ Len(job[x].got) = 1 /\ job[x].got \in Seq(Counts)
      BY <2>1, <2>2, JobValues DEF ReaderJob, Jobs
    <2>4. s.verb = "count edges"
      BY <2>3, JobValues
    <2>5. PICK v \in Counts : v = Count(c, s)
      BY CountTypes
    <2>6. PICK r : r = Append(job[x].got, v)
      OBVIOUS
    <2>7. r[1] = job[x].got[1] /\ r[2] = v
      BY <2>3, <2>6, AppendProperties
    <2>8. PICK a : a = ready(r)
      OBVIOUS
    <2>9. ASSUME a.ready, ~a.tainted PROVE a.graph
      <3>1. ~tainted /\ r[1] > 0 /\ r[2] > 0
        BY <2>8, <2>9 DEF ready, dbOk
      <3>2. Quiet
        BY <3>1 DEF QuietInv
      <3>3. job["refresh"].pc = "idle" /\ Closed
        BY <2>1, <2>2, <3>2 DEF Quiet
      <3>4. InTable("nodes", rows) # {}
        BY <2>1, <2>2, <2>3, <2>7, <3>1, <3>2 DEF Quiet
      <3>5. Count(c, s) = Cardinality(InTable("edges", rows))
        BY <2>4, <3>3, SeesCommitted DEF Count, Closed
      <3>6. InTable("edges", rows) # {}
        BY <2>5, <2>7, <3>1, <3>5, OnlyCounted
      <3> QED BY <2>8, <3>4, <3>6 DEF ready
    <2>10. ASSUME a.ready, ~a.cut PROVE a.evidence
      <3>1. ~cut /\ getDocumentCount > 0
        BY <2>8, <2>10 DEF ready
      <3>2. metadata \in {None, index}
        BY <3>1 DEF EvidenceInv, Free
      <3>3. index > 0
        BY <3>1, <3>2 DEF getDocumentCount
      <3> QED BY <2>8, <3>3 DEF ready
    <2>11. a.tainted \in BOOLEAN /\ a.cut \in BOOLEAN
      BY <2>8 DEF ready, RestInv
    <2> QED BY <2>1, <2>5, <2>6, <2>8, <2>9, <2>10, <2>11 DEF ReadyIsGrounded
  <1> QED BY <1>1, <1>2

\* Who creates the schema changes no row.
LEMMA SchemaAnswered ==
    ASSUME CallersInv, TxInv, NEW c \in Conns, pool.busy[c] = "initSchema",
           NEW s, s = Head(job["initSchema"].todo), Execute(c, s),
           Continue("initSchema", c, Count(c, s))
    PROVE  /\ rows' = rows /\ tx' = tx /\ job'["refresh"] = job["refresh"]
           /\ Quiet => Quiet'
  <1>0. /\ job["initSchema"] = Create /\ s \in Statements /\ tx \in [Conns -> Transactions]
        /\ initPromise = "pending" /\ pool.busy[c] # None
    BY BusyOne, Names DEF TxInv, TxOK
  <1>1. s.verb = "create"
    BY <1>0, JobValues
  <1>2. rows' = rows /\ tx' = tx
    BY <1>0, <1>1, Executes
  <1>3. \A y \in Readers \cup {"refresh"} : job'[y] = job[y]
    BY <1>0, CountTypes, Continued, Names
  <1>4. job["refresh"].pc # "query"
    BY <1>0 DEF CallersInv, CallersOK
  <1> QED BY <1>2, <1>3, <1>4 DEF Quiet, Closed

\* A connection is lost, or its insert refused: its transaction is gone, or it was
\* committed whole.
LEMMA QuietThrew ==
    ASSUME CallersInv, TxInv, Quiet, NEW c \in Conns, pool.busy[c] # None, NEW x, x = pool.busy[c],
           Throw(x, Drop(pool, c)), tx' = [tx EXCEPT ![c] = NoTx],
           rows' = rows \/ (Head(job[x].todo).verb = "commit" /\ rows' = Visible(c))
    PROVE  Quiet' /\ (rows' # rows => rows' = Rows(job["refresh"].payload))
  <1>0. /\ x \in Callers /\ job[x].pc = "query" /\ tx \in [Conns -> Transactions]
        /\ \A d \in Conns : tx'[d] = IF d = c THEN NoTx ELSE tx[d]
    BY BusyOne DEF TxInv, TxOK
  <1>1. /\ \A y \in Readers \cup {"refresh"} : y # x => job'[y] = job[y]
        /\ \/ job'[x] = NoJob
           \/ x = "refresh" /\ job'[x].pc = "query" /\ job'[x].todo = Undo
    BY Threw
  <1>2. CASE x = "refresh"
    <2>1. /\ job["refresh"].payload \in Payloads /\ \A y \in Readers : job[y].pc = "idle"
      BY <1>2, NobodyWaits
    <2>2. ASSUME NEW k, k > 1, k \in Nat, Reached(job["refresh"].payload, k)
          PROVE  \A d \in Conns \ {c} : tx[d] = NoTx
      BY <1>2, <2>2, ItsConnection
    <2>3. Closed'
      <3>1. CASE Closed
        BY <1>0, <3>1 DEF Closed
      <3>2. CASE \E k \in 1..Len(fullRebuild(job["refresh"].payload)) :
                    Reached(job["refresh"].payload, k)
        <4>1. PICK k \in 1..Len(fullRebuild(job["refresh"].payload)) :
                    Reached(job["refresh"].payload, k)
          BY <3>2
        <4>2. k \in Nat /\ (k = 1 \/ k > 1)
          <5>1. PICK n \in Nat : n = Len(fullRebuild(job["refresh"].payload))
            BY <2>1, Script
          <5>2. k \in 1..n
            BY <5>1
          <5> QED BY <5>2
        <4>3. k > 1 => \A d \in Conns \ {c} : tx[d] = NoTx
          BY <2>2, <4>1, <4>2
        <4>4. k = 1 => Closed
          BY <4>1 DEF Reached
        <4> QED BY <1>0, <4>2, <4>3, <4>4 DEF Closed
      <3> QED BY <1>0, <1>2, <3>1, <3>2 DEF Quiet
    <2>4. ASSUME rows' # rows PROVE rows' = Rows(job["refresh"].payload)
      <3>1. Head(job["refresh"].todo).verb = "commit" /\ rows' = Visible(c)
        BY <1>2, <2>4
      <3>2. job["refresh"].todo # Undo
        BY <3>1, JobValues
      <3>a. PICK p \in Payloads : p = job["refresh"].payload
        BY <2>1
      <3>3. PICK k \in 1..Len(fullRebuild(p)) : job["refresh"].todo = From(p, k) /\ Reached(p, k)
        BY <1>0, <1>2, <3>2, <3>a DEF Quiet
      <3>4. fullRebuild(p)[k].verb = "commit"
        BY <3>1, <3>a, <3>3, ScriptStep
      <3>5. k = Len(fullRebuild(p)) /\ k >= 4 /\ k \in Nat /\ k # 2 /\ k # 3 /\ k > 1
        BY <3>4, CommitIsLast
      <3>6. tx[c].deleted = DeletedBefore(k) /\ tx[c].inserted = InsertedBefore(p, k)
        BY <1>2, <3>a, <3>3, <3>5, ItsConnection
      <3>7. tx[c].deleted = rows /\ tx[c].inserted = Rows(p)
        BY <3>5, <3>6, InsertsBefore DEF DeletedBefore
      <3> QED BY <3>1, <3>a, <3>7 DEF Visible
    <2>5. \A y \in Readers : job'[y].pc = "idle"
      BY <1>1, <1>2, <2>1, Names
    <2> QED BY <1>1, <1>2, <2>3, <2>4, <2>5, JobValues DEF Quiet
  <1>3. CASE x \in Readers
    <2>1. job["refresh"].pc = "idle" /\ Closed /\ ReaderJob(job[x]) /\ x # "refresh"
      BY <1>0, <1>3, Names, BusyOne, JobValues DEF Quiet
    <2>2. Head(job[x].todo).verb \in {"count nodes", "count edges"}
      BY <1>0, <2>1, JobValues DEF ReaderJob
    <2>3. rows' = rows /\ job'["refresh"] = job["refresh"] /\ job'[x] = NoJob
      BY <1>1, <2>1, <2>2
    <2>4. Closed'
      BY <1>0, <2>1 DEF Closed
    <2>5. \A y \in Readers : job'[y] = job[y] \/ job'[y].pc = "idle"
      BY <1>1, <2>3, JobValues
    <2> QED BY <2>1, <2>3, <2>4, <2>5 DEF Quiet
  <1>4. CASE x = "initSchema"
    <2>1. job[x] = Create /\ initPromise = "pending"
      BY <1>4, BusyOne
    <2>2. Head(job[x].todo).verb = "create" /\ job["refresh"].pc # "query"
      BY <2>1, JobValues DEF CallersInv, CallersOK
    <2>3. rows' = rows /\ \A y \in Readers \cup {"refresh"} : job'[y] = job[y]
      BY <1>1, <1>4, <2>2, Names
    <2>4. Closed'
      BY <1>0, <2>2 DEF Quiet, Closed
    <2> QED BY <2>2, <2>3, <2>4 DEF Quiet
  <1> QED BY <1>0, <1>2, <1>3, <1>4, Names

------------------------------------------------------------------------------
(* The invariant, action by action.                                        *)

OneStep ==
    ~tainted => /\ rows' # rows => rows' = Rows(job["refresh"].payload)
                /\ job'["refresh"].pc = "rename" => rows' = Rows(job'["refresh"].payload)

\* A rebuild begins with its first statement.
LEMMA FromTheFirst ==
    ASSUME NEW p \in Payloads
    PROVE  fullRebuild(p) = From(p, 1) /\ 1 \in 1..Len(fullRebuild(p))
  <1>1. PICK n \in Nat : n = Len(fullRebuild(p)) /\ n >= 4
    BY Script
  <1>2. 1 \in 1..n
    BY <1>1
  <1>3. 1 \in 1..Len(fullRebuild(p))
    BY <1>1, <1>2
  <1> QED BY <1>3, ScriptStep

\* StartRebuild: a rebuild beside no read finds no transaction open.
LEMMA RebuildStarts ==
    ASSUME Inv, StartRebuild
    PROVE  Inv' /\ OneStep
  <1>1. PICK p \in Payloads : Start("refresh", fullRebuild(p), p)
    BY DEF StartRebuild
  <1>2. /\ job["refresh"] = NoJob /\ rows' = rows /\ tx' = tx /\ index' = index
        /\ metadata' = metadata /\ bootstrapState' = bootstrapState /\ answers' = answers
        /\ tainted' = (tainted \/ Reading) /\ cut' = cut
    BY DEF StartRebuild, database, evidence
  <1>3. fullRebuild(p) \in Seq(Statements) /\ fullRebuild(p) = From(p, 1)
        /\ 1 \in 1..Len(fullRebuild(p))
    BY Script, FromTheFirst
  <1>4. /\ CallersInv' /\ pool.opened \subseteq pool'.opened
        /\ \A y \in Readers : job'[y] = job[y]
        /\ job'["refresh"].pc \in {"init", "query"} /\ job'["refresh"].todo = fullRebuild(p)
        /\ job'["refresh"].payload = p
    BY <1>1, <1>2, <1>3, Started, Names DEF Inv
  <1>5. TxInv'
    BY <1>2, <1>4, TxOpens DEF Inv, TxInv
  <1>6. RestInv'
    BY <1>2 DEF Inv, RestInv
  <1>7. ASSUME ~tainted' PROVE Quiet'
    <2>1. Quiet /\ (\A x \in Readers : job[x].pc = "idle")
      BY <1>2, <1>7 DEF Inv, QuietInv, Reading
    <2>2. Closed'
      BY <1>2, <2>1, JobValues DEF Quiet, Closed
    <2>3. \A x \in Readers : job'[x].pc = "idle"
      BY <1>4, <2>1
    <2>4. Reached(p, 1)'
      BY <2>2 DEF Reached
    <2> QED BY <1>3, <1>4, <2>2, <2>3, <2>4 DEF Quiet
  <1>8. ReadyIsGrounded'
    BY <1>2 DEF Inv, ReadyIsGrounded
  <1>9. OneStep
    BY <1>2, <1>4 DEF OneStep
  <1>10. EvidenceInv'
    BY <1>2, <1>4, EvidenceKept, JobValues DEF Inv
  <1> QED BY <1>4, <1>5, <1>6, <1>7, <1>8, <1>9, <1>10 DEF Inv, QuietInv

\* StartReady: a read beside no rebuild reads what is committed.
LEMMA ReadyStarts ==
    ASSUME Inv, NEW x \in Readers, StartReady(x)
    PROVE  Inv' /\ OneStep
  <1>1. /\ Start(x, getCounts, First) /\ job[x] = NoJob
        /\ rows' = rows /\ tx' = tx /\ index' = index
        /\ metadata' = metadata /\ bootstrapState' = bootstrapState /\ answers' = answers
        /\ tainted' = (tainted \/ Rebuilding) /\ cut' = cut /\ Free
    BY DEF StartReady, database, evidence
  <1>2. getCounts \in Seq(Statements) /\ First \in Payloads /\ x # "refresh"
    BY JobValues, PgAssumption, Names
  <1>3. /\ CallersInv' /\ pool.opened \subseteq pool'.opened
        /\ \A y \in Readers \cup {"refresh"} : y # x => job'[y] = job[y]
        /\ job'[x].todo = getCounts
    BY <1>1, <1>2, Started DEF Inv
  <1>4. TxInv'
    BY <1>1, <1>3, TxOpens DEF Inv, TxInv
  <1>5. RestInv'
    BY <1>1 DEF Inv, RestInv
  <1>6. job'["refresh"] = job["refresh"]
    BY <1>2, <1>3
  <1>7. ASSUME ~tainted' PROVE Quiet'
    <2>1. Quiet /\ job["refresh"].pc \notin {"init", "query", "rename", "metadata"}
      BY <1>1, <1>7 DEF Inv, QuietInv, Rebuilding, Free
    <2>2. job["refresh"].pc = "idle"
      BY <2>1 DEF Inv, CallersInv, CallersOK, Jobs, Callers
    <2>3. Closed'
      BY <1>1, <2>1 DEF Quiet, Closed
    <2>4. \A y \in Readers : job'[y] = job[y] \/ job'[y].todo # Tail(getCounts)
      BY <1>3, JobValues
    <2> QED BY <1>1, <1>6, <2>1, <2>2, <2>3, <2>4 DEF Quiet
  <1>8. ReadyIsGrounded'
    BY <1>1 DEF Inv, ReadyIsGrounded
  <1>9. OneStep
    BY <1>1, <1>6 DEF OneStep, Free
  <1>11. EvidenceInv'
    BY <1>1, <1>6, EvidenceKept DEF Inv
  <1> QED BY <1>3, <1>4, <1>5, <1>7, <1>8, <1>9, <1>11 DEF Inv, QuietInv

\* Initialised: the first statement of a caller is still to be executed.
LEMMA SchemaAwaited ==
    ASSUME Inv, NEW x \in Readers \cup {"refresh"}, Initialised(x)
    PROVE  Inv' /\ OneStep
  <1>1. /\ rows' = rows /\ tx' = tx /\ index' = index /\ Free
        /\ metadata' = metadata /\ bootstrapState' = bootstrapState /\ answers' = answers
        /\ tainted' = tainted /\ cut' = cut
    BY DEF Initialised, database, evidence, history
  <1>2. /\ CallersInv' /\ pool.opened \subseteq pool'.opened
        /\ \A y \in Readers \cup {"refresh"} : y # x => job'[y] = job[y]
        /\ job[x].pc = "init"
        /\ \/ job'[x] = NoJob
           \/ /\ job'[x].pc = "query" /\ job'[x].todo = job[x].todo
              /\ job'[x].payload = job[x].payload /\ job'[x].got = job[x].got
    BY CallersInitialised DEF Inv
  <1>3. TxInv'
    BY <1>1, <1>2, TxOpens DEF Inv, TxInv
  <1>4. RestInv'
    BY <1>1 DEF Inv, RestInv
  <1>5. ASSUME Quiet PROVE Quiet'
    <2>1. CASE x = "refresh"
      <3>1. Closed' /\ \A y \in Readers : job'[y] = job[y] /\ job[y].pc = "idle"
        BY <1>1, <1>2, <1>5, <2>1, Names DEF Quiet, Closed
      <3>2. CASE job'[x] = NoJob
        BY <2>1, <3>1, <3>2, JobValues DEF Quiet
      <3>3. CASE job'[x] # NoJob
        <4>1. PICK p \in Payloads : p = job[x].payload
          BY <2>1, Names DEF Inv, CallersInv, CallersOK, Jobs
        <4>2. job[x].todo = fullRebuild(p)
          BY <1>2, <2>1, <4>1 DEF Inv, CallersInv, CallersOK, RefreshJob
        <4>3. job'[x].todo = From(p, 1) /\ 1 \in 1..Len(fullRebuild(p)) /\ job'[x].payload = p
          BY <1>2, <3>3, <4>1, <4>2, FromTheFirst
        <4>4. Reached(p, 1)'
          BY <3>1 DEF Reached
        <4> QED BY <1>2, <2>1, <3>1, <3>3, <4>3, <4>4 DEF Quiet
      <3> QED BY <3>2, <3>3
    <2>2. CASE x # "refresh"
      <3>1. job["refresh"].pc = "idle" /\ job'["refresh"] = job["refresh"] /\ x \in Readers
        BY <1>2, <1>5, <2>2, Names DEF Quiet
      <3>2. job[x].todo = getCounts
        BY <1>2, <3>1 DEF Inv, CallersInv, CallersOK, ReaderJob
      <3>3. Closed'
        BY <1>1, <1>5, <3>1 DEF Quiet, Closed
      <3>4. job'[x].pc = "idle" \/ job'[x].todo # Tail(getCounts)
        BY <1>2, <3>2, JobValues
      <3>5. \A y \in Readers : job'[y] = job[y] \/ job'[y].pc = "idle"
                               \/ job'[y].todo # Tail(getCounts)
        BY <1>2, <3>4
      <3> QED BY <1>1, <1>5, <3>1, <3>3, <3>5 DEF Quiet
    <2> QED BY <2>1, <2>2
  <1>6. ReadyIsGrounded'
    BY <1>1 DEF Inv, ReadyIsGrounded
  <1>7. job'["refresh"].pc # "rename"
    BY <1>1, <1>2, JobValues DEF Free
  <1>8. OneStep
    BY <1>1, <1>7 DEF OneStep
  <1>9. EvidenceInv'
    <2>1. CASE x = "refresh"
      BY <1>1, <1>2, <2>1, EvidenceKept, JobValues DEF Inv
    <2>2. CASE x # "refresh"
      BY <1>1, <1>2, <2>2, EvidenceKept DEF Inv
    <2> QED BY <2>1, <2>2
  <1> QED BY <1>1, <1>2, <1>3, <1>4, <1>5, <1>6, <1>8, <1>9 DEF Inv, QuietInv

\* IdleClosed: the connection of a rebuild nobody reads beside is never idle.
LEMMA IdleCloses ==
    ASSUME Inv, NEW c \in Conns, IdleClosed(c)
    PROVE  Inv' /\ OneStep
  <1>1. /\ rows' = rows /\ tx' = [tx EXCEPT ![c] = NoTx] /\ index' = index /\ job' = job
        /\ metadata' = metadata /\ bootstrapState' = bootstrapState /\ answers' = answers
        /\ tainted' = tainted /\ cut' = cut
    BY DEF IdleClosed, evidence, history
  <1>2. /\ CallersInv' /\ pool'.opened = pool.opened \ {c} /\ pool.busy[c] = None
        /\ pool'.busy = pool.busy
    BY CallersIdleClosed DEF Inv
  <1>3. TxInv'
    BY <1>1, <1>2, TxEnds DEF Inv, TxInv
  <1>4. RestInv'
    BY <1>1 DEF Inv, RestInv
  <1>5. ASSUME Quiet PROVE Quiet'
    <2>1. tx \in [Conns -> Transactions]
      BY DEF Inv, TxInv, TxOK
    <2>2. \A d \in Conns : tx'[d] = IF d = c THEN NoTx ELSE tx[d]
      BY <1>1, <2>1
    <2>3. Closed => Closed'
      BY <2>2 DEF Closed
    <2>4. ASSUME NEW p, NEW k, Reached(p, k) PROVE Reached(p, k)'
      <3>1. CASE k = 1 /\ Closed
        BY <2>3, <3>1 DEF Reached
      <3>2. CASE ~(k = 1 /\ Closed)
        <4>1. k > 1
          BY <2>4, <3>2 DEF Reached
        <4>2. PICK d \in Conns : /\ pool.busy[d] = "refresh" /\ \A e \in Conns \ {d} : tx[e] = NoTx
                                 /\ tx[d] = [status |-> "open", deleted |-> DeletedBefore(k),
                                             inserted |-> InsertedBefore(p, k)]
          BY <2>4, <3>2 DEF Reached
        <4>3. d # c
          BY <1>2, <4>2, Names
        <4>4. DeletedBefore(k)' = DeletedBefore(k)
          BY <1>1 DEF DeletedBefore
        <4>5. tx'[d] = tx[d] /\ \A e \in Conns \ {d} : tx'[e] = NoTx
          BY <2>2, <4>2, <4>3
        <4>6. /\ pool'.busy[d] = "refresh"
              /\ tx'[d] = [status |-> "open", deleted |-> DeletedBefore(k)',
                           inserted |-> InsertedBefore(p, k)]
          BY <1>2, <4>2, <4>4, <4>5
        <4> QED BY <4>1, <4>5, <4>6 DEF Reached
      <3> QED BY <3>1, <3>2
    <2> QED BY <1>1, <1>5, <2>3, <2>4 DEF Quiet
  <1>6. ReadyIsGrounded'
    BY <1>1 DEF Inv, ReadyIsGrounded
  <1>7. OneStep
    BY <1>1 DEF OneStep, Inv, QuietInv, Quiet
  <1>8. EvidenceInv'
    BY <1>1, EvidenceKept DEF Inv
  <1> QED BY <1>1, <1>2, <1>3, <1>4, <1>5, <1>6, <1>7, <1>8 DEF Inv, QuietInv

\* RenameIndex, WriteIndexMetadata, ReindexFails: the rows are stored by then, and
\* the metadata follows the index, or is cut off from it.
LEMMA EvidenceWritten ==
    ASSUME Inv, RenameIndex \/ WriteIndexMetadata \/ ReindexFails
    PROVE  Inv' /\ OneStep
  <1>1. /\ CallersInv' /\ pool' = pool
        /\ \A y \in Readers : job'[y] = job[y]
        /\ job["refresh"].pc \in {"rename", "metadata"}
        /\ job'["refresh"].pc \in {"metadata", "idle"}
        /\ job'["refresh"].pc = "idle" => job'["refresh"] = NoJob
        /\ job["refresh"].payload \in Payloads
    BY CallersEvidence DEF Inv
  <1>2. /\ rows' = rows /\ tx' = tx /\ bootstrapState' = bootstrapState /\ answers' = answers
        /\ tainted' = tainted
        /\ index' = index \/ index' = job["refresh"].payload.documents
        /\ metadata' \in {metadata, None, job["refresh"].payload.documents}
        /\ cut' \in {cut, FALSE} \/ cut' = (metadata' # None)
    BY DEF RenameIndex, WriteIndexMetadata, ReindexFails, MetadataLeft, database, history
  <1>3. TxInv'
    BY <1>1, <1>2 DEF Inv, TxInv
  <1>4. job["refresh"].payload.documents \in Nat
    BY <1>1, PgAssumption
  <1>5. RestInv'
    BY <1>2, <1>4 DEF Inv, RestInv
  <1>9. EvidenceInv'
    <2>1. job \in [Callers -> Jobs]
      BY DEF Inv, CallersInv, CallersOK
    <2>2. CASE RenameIndex
      <3>1. /\ job' = [job EXCEPT !["refresh"].pc = "metadata"]
            /\ index' = job["refresh"].payload.documents
        BY <2>2 DEF RenameIndex
      <3>2. job'["refresh"].pc = "metadata" /\ job'["refresh"].payload = job["refresh"].payload
        BY <2>1, <3>1, Names DEF Jobs
      <3> QED BY <3>1, <3>2 DEF EvidenceInv
    <2>3. CASE WriteIndexMetadata
      <3>1. /\ job["refresh"].pc = "metadata" /\ index' = index
            /\ metadata' = job["refresh"].payload.documents /\ job'["refresh"] = NoJob
        BY <2>1, <2>3, Names DEF WriteIndexMetadata
      <3> QED BY <3>1, JobValues DEF Inv, EvidenceInv
    <2>4. CASE ReindexFails
      <3>1. /\ index' = index /\ job'["refresh"] = NoJob /\ NoJob.pc # "metadata"
            /\ IF job["refresh"].pc = "metadata" THEN cut' = (metadata' # None)
               ELSE UNCHANGED <<metadata, cut>>
        BY <2>1, <2>4, Names, JobValues DEF ReindexFails, MetadataLeft
      <3> QED BY <3>1 DEF Inv, EvidenceInv
    <2> QED BY <2>2, <2>3, <2>4
  <1>6. ASSUME Quiet PROVE Quiet'
    <2>1. Closed' /\ \A y \in Readers : job'[y].pc = "idle"
      BY <1>1, <1>2, <1>6 DEF Quiet, Closed
    <2> QED BY <1>1, <2>1 DEF Quiet
  <1>7. ReadyIsGrounded'
    BY <1>2 DEF Inv, ReadyIsGrounded
  <1>8. OneStep
    BY <1>1, <1>2 DEF OneStep
  <1> QED BY <1>1, <1>2, <1>3, <1>5, <1>6, <1>7, <1>8, <1>9 DEF Inv, QuietInv

\* Crash: no transaction outlives the process.
LEMMA StartsAgain ==
    ASSUME Inv, Crash
    PROVE  Inv' /\ OneStep
  <1>1. /\ rows' = rows /\ tx' = [c \in Conns |-> NoTx] /\ index' = index /\ answers' = answers
        /\ metadata' \in {metadata, None} /\ bootstrapState' \in {"ready", "failed"}
        /\ tainted' = FALSE /\ job' = [x \in Callers |-> NoJob]
        /\ IF job["refresh"].pc = "metadata" THEN cut' = (metadata' # None)
           ELSE UNCHANGED <<metadata, cut>>
    BY DEF Crash, MetadataLeft
  <1>2. CallersInv'
    BY CallersCrash DEF Inv
  <1>3. rows' \subseteq AllRows /\ \A c \in Conns : tx'[c] = NoTx
    BY <1>1 DEF Inv, TxInv, TxOK
  <1>4. tx' \in [Conns -> Transactions]
    BY <1>1, NoTxValue
  <1>5. TxOK(rows', tx', pool'.opened)
    BY <1>3, <1>4, NoTxValue DEF TxOK
  <1>6. RestInv'
    BY <1>1 DEF Inv, RestInv
  <1>7. \A x \in Callers : job'[x] = NoJob
    BY <1>1
  <1>8. Quiet'
    BY <1>3, <1>7, JobValues, Names DEF Quiet, Closed
  <1>9. ReadyIsGrounded'
    BY <1>1 DEF Inv, ReadyIsGrounded
  <1>10. OneStep
    BY <1>1, <1>7, JobValues, Names DEF OneStep
  <1>11. EvidenceInv'
    BY <1>1, <1>7, JobValues, Names DEF Inv, EvidenceInv
  <1> QED BY <1>2, <1>5, <1>6, <1>8, <1>9, <1>10, <1>11 DEF Inv, QuietInv, TxInv

\* What an error changes, whether a connection was lost or a row refused.
LEMMA ErrorThrown ==
    ASSUME Inv, NEW c \in Conns, pool.busy[c] # None, NEW x, x = pool.busy[c],
           Throw(x, Drop(pool, c)), tx' = [tx EXCEPT ![c] = NoTx],
           rows' = rows \/ (Head(job[x].todo).verb = "commit" /\ rows' = Visible(c)),
           UNCHANGED <<evidence, bootstrapState, tainted, cut, answers>>
    PROVE  Inv' /\ OneStep
  <1>1. /\ CallersInv' /\ pool.opened \ {c} \subseteq pool'.opened
        /\ \/ job'[x] = NoJob
           \/ x = "refresh" /\ job'[x].pc = "query" /\ job'[x].todo = Undo
        /\ \A y \in Readers \cup {"refresh"} : y # x => job'[y] = job[y]
    BY Threw DEF Inv
  <1>2. TxInv'
    <2>1. rows' = rows \/ rows' = (rows \ tx[c].deleted) \cup tx[c].inserted
      BY DEF Visible
    <2>2. PICK q, u, n : q = rows' /\ u = tx' /\ n = pool'.opened
      OBVIOUS
    <2>3. q = rows \/ q = (rows \ tx[c].deleted) \cup tx[c].inserted
      BY <2>1, <2>2
    <2>4. u = [tx EXCEPT ![c] = NoTx] /\ pool.opened \ {c} \subseteq n /\ TxOK(rows, tx, pool.opened)
      BY <1>1, <2>2 DEF Inv, TxInv
    <2>5. TxOK(q, u, n)
      BY <2>3, <2>4, TxEnds
    <2> QED BY <2>2, <2>5 DEF TxInv
  <1>3. RestInv' /\ ReadyIsGrounded'
    BY DEF Inv, RestInv, ReadyIsGrounded, evidence
  <1>4. Quiet => Quiet' /\ (rows' # rows => rows' = Rows(job["refresh"].payload))
    BY QuietThrew DEF Inv
  <1>5. Quiet' => (job'["refresh"].pc = "rename" => rows' = Rows(job'["refresh"].payload))
    BY DEF Quiet
  <1>6. EvidenceInv'
    <2>1. job[x].pc = "query" /\ x \in Callers
      BY BusyOne DEF Inv
    <2>2. CASE x = "refresh"
      BY <1>1, <2>1, <2>2, EvidenceKept, JobValues DEF Inv, evidence
    <2>3. CASE x # "refresh"
      BY <1>1, <2>3, EvidenceKept DEF Inv, evidence
    <2> QED BY <2>2, <2>3
  <1> QED BY <1>1, <1>2, <1>3, <1>4, <1>5, <1>6 DEF Inv, QuietInv, OneStep

\* Answered, statement by statement.
LEMMA StatementAnswered ==
    ASSUME Inv, NEW c \in Conns, Answered(c)
    PROVE  Inv' /\ OneStep
  <1>1. pool.busy[c] # None /\ Free /\ UNCHANGED <<evidence, bootstrapState, tainted, cut>>
    BY DEF Answered
  <1>2. PICK x, s : x = pool.busy[c] /\ s = Head(job[x].todo)
    OBVIOUS
  <1>3. /\ ~Waits(c, s)
        /\ IF Refused(c, s)
           THEN Throw(x, Drop(pool, c)) /\ tx' = [tx EXCEPT ![c] = NoTx] /\ UNCHANGED <<rows, answers>>
           ELSE Execute(c, s) /\ Continue(x, c, Count(c, s))
    BY <1>2 DEF Answered
  <1>4. CASE Refused(c, s)
    BY <1>1, <1>2, <1>3, <1>4, ErrorThrown
  <1>5. CASE ~Refused(c, s)
    <2>1. Execute(c, s) /\ Continue(x, c, Count(c, s)) /\ Count(c, s) \in Counts
      BY <1>3, <1>5, CountTypes DEF Inv
    <2>2. /\ x \in Callers /\ s \in Statements /\ c \in pool.opened
          /\ x # "initSchema" => x \in Readers \cup {"refresh"}
      <3>1. pool.busy[c] # None => c \in pool.opened
        BY DEF Inv, CallersInv, CallersOK, PoolOK, Idles
      <3> QED BY <1>1, <1>2, <3>1, BusyOne DEF Inv
    <2>3. CallersInv' /\ pool.opened \subseteq pool'.opened
      BY <1>1, <1>2, <2>1, Continued DEF Inv
    <2>4. TxInv'
      <3>1. TxOK(rows', tx', pool.opened)
        BY <1>3, <2>1, <2>2, TxExecutes DEF Inv
      <3> QED BY <2>3, <3>1, TxOpens DEF TxInv
    <2>5. RestInv'
      BY <1>1 DEF Inv, RestInv, evidence
    <2>6. ReadyIsGrounded'
      BY <1>1, <1>2, <2>1, ReaderGrounded DEF Inv
    <2>7. Quiet => Quiet' /\ (rows' # rows => rows' = Rows(job["refresh"].payload))
      <3>1. CASE x = "refresh"
        BY <1>1, <1>2, <2>1, <3>1, RebuildAnswered DEF Inv
      <3>2. CASE x \in Readers
        BY <1>1, <1>2, <2>1, <3>2, ReaderAnswered DEF Inv
      <3>3. CASE x = "initSchema"
        BY <1>1, <1>2, <2>1, <3>3, SchemaAnswered DEF Inv
      <3> QED BY <2>2, <3>1, <3>2, <3>3
    <2>8. Quiet' => (job'["refresh"].pc = "rename" => rows' = Rows(job'["refresh"].payload))
      BY DEF Quiet
    <2>9. EvidenceInv'
      <3>1. job[x].pc = "query"
        BY <1>1, <1>2, BusyOne DEF Inv
      <3>2. CASE x = "refresh"
        <4>1. job'["refresh"].pc # "metadata"
          BY <1>1, <1>2, <2>1, <3>2, Continued, JobValues DEF Inv
        <4> QED BY <1>1, <3>1, <3>2, <4>1, EvidenceKept DEF Inv, evidence
      <3>3. CASE x # "refresh"
        <4>1. job'["refresh"] = job["refresh"]
          BY <1>1, <1>2, <2>1, <3>3, Continued DEF Inv
        <4> QED BY <1>1, <4>1, EvidenceKept DEF Inv, evidence
      <3> QED BY <3>2, <3>3
    <2> QED BY <1>1, <2>3, <2>4, <2>5, <2>6, <2>7, <2>8, <2>9 DEF Inv, QuietInv, OneStep
  <1> QED BY <1>4, <1>5

\* ConnectionLost: the server has committed all of a transaction or nothing.
LEMMA ConnectionGone ==
    ASSUME Inv, NEW c \in Conns, ConnectionLost(c)
    PROVE  Inv' /\ OneStep
  <1>1. PICK x : x = pool.busy[c]
    OBVIOUS
  <1>2. /\ x # None /\ Throw(x, Drop(pool, c)) /\ tx' = [tx EXCEPT ![c] = NoTx]
        /\ rows' = rows \/ (Head(job[x].todo).verb = "commit" /\ rows' = Visible(c))
        /\ UNCHANGED <<evidence, bootstrapState, tainted, cut, answers>>
    BY <1>1 DEF ConnectionLost, history
  <1> QED BY <1>1, <1>2, ErrorThrown

\* The invariant is inductive, and a rebuild nobody reads beside changes the rows in
\* one step.
LEMMA NextKeeps ==
    ASSUME Inv, [Next]_vars
    PROVE  Inv' /\ (OneStep \/ UNCHANGED vars)
  <1>1. CASE StartRebuild
    BY <1>1, RebuildStarts
  <1>2. CASE \E x \in Readers : StartReady(x)
    BY <1>2, ReadyStarts
  <1>3. CASE \E x \in Readers \cup {"refresh"} : Initialised(x)
    BY <1>3, SchemaAwaited
  <1>4. CASE \E c \in Conns : Answered(c) \/ ConnectionLost(c) \/ IdleClosed(c)
    BY <1>4, StatementAnswered, ConnectionGone, IdleCloses
  <1>5. CASE RenameIndex \/ WriteIndexMetadata \/ ReindexFails
    BY <1>5, EvidenceWritten
  <1>6. CASE Crash
    BY <1>6, StartsAgain
  <1>7. CASE UNCHANGED vars
    <2>1. Inv'
      BY <1>7 DEF vars, database, evidence, bounds, history, Inv, CallersInv, TxInv, RestInv,
         QuietInv, Quiet, Closed, Reached, DeletedBefore, EvidenceInv, ReadyIsGrounded
    <2> QED BY <1>7, <2>1
  <1> QED BY <1>1, <1>2, <1>3, <1>4, <1>5, <1>6, <1>7 DEF Next

\* The initial states.
LEMMA FirstState ==
    ASSUME Init
    PROVE  Inv
  <1>1. /\ rows = Rows(First) /\ tx = [c \in Conns |-> NoTx] /\ First \in Payloads
        /\ index = First.documents /\ metadata = First.documents /\ answers = {}
        /\ bootstrapState \in {"ready", "failed"} /\ tainted = FALSE /\ cut = FALSE
        /\ job = [x \in Callers |-> NoJob]
    BY PgAssumption DEF Init
  <1>2. rows \subseteq AllRows /\ \A c \in Conns : tx[c] = NoTx
    BY <1>1 DEF AllRows
  <1>3. tx \in [Conns -> Transactions]
    BY <1>1, NoTxValue
  <1>4. TxInv
    BY <1>2, <1>3, NoTxValue DEF TxInv, TxOK
  <1>5. First.documents \in Nat
    BY <1>1, PgAssumption
  <1>6. RestInv
    BY <1>1, <1>5 DEF RestInv
  <1>7. \A x \in Callers : job[x] = NoJob
    BY <1>1
  <1>8. Quiet
    BY <1>2, <1>7, JobValues, Names DEF Quiet, Closed
  <1>9. ReadyIsGrounded
    BY <1>1 DEF ReadyIsGrounded
  <1>10. EvidenceInv
    BY <1>1, <1>7, JobValues, Names DEF EvidenceInv
  <1> QED BY <1>4, <1>6, <1>8, <1>9, <1>10, CallersInit DEF Inv, QuietInv

\* What the invariant says of the types, and that a caller whose statement is under
\* way has one place in the pool.
LEMMA InvTypes ==
    ASSUME Inv
    PROVE  TypeOK
  <1>1. /\ PoolOK(pool) /\ job \in [Callers -> Jobs]
        /\ initPromise \in {"none", "pending", "resolved", "rejected"}
        /\ \A x \in Callers : Holds(pool, x) <=> job[x].pc = "query"
    BY DEF Inv, CallersInv, CallersOK
  <1>2. /\ rows \subseteq AllRows /\ tx \in [Conns -> Transactions]
        /\ \A c \in Conns : tx[c].deleted \subseteq rows
        /\ \A c \in Conns \ pool.opened : tx[c] = NoTx
    BY DEF Inv, TxInv, TxOK
  <1>3. ASSUME NEW c \in Conns
        PROVE  /\ tx[c].status \in {"none", "open"}
               /\ tx[c].deleted \subseteq rows /\ tx[c].inserted \subseteq AllRows
               /\ c \notin pool.opened => tx[c] = NoTx /\ pool.busy[c] = None
               /\ c \in pool.opened => (pool.busy[c] = None <=> c \in ToSet(pool.idle))
    <2>1. tx[c] \in Transactions
      BY <1>2
    <2>2. c \notin pool.opened => pool.busy[c] = None
      BY <1>1 DEF PoolOK, Idles
    <2>3. c \in pool.opened => (pool.busy[c] = None <=> c \in ToSet(pool.idle))
      BY <1>1 DEF PoolOK, Idles, ToSet
    <2> QED BY <1>2, <2>1, <2>2, <2>3 DEF Transactions
  <1>4. IsInjective(pool.idle) /\ ToSet(pool.idle) \subseteq pool.opened
    BY <1>1 DEF PoolOK, Idles, ToSet, IsInjective
  <1>5. ASSUME NEW x \in Callers
        PROVE  /\ job[x].pc \in {"idle", "init", "query", "rename", "metadata"}
               /\ ToSet(job[x].todo) \subseteq Statements
    <2>1. job[x].pc \in {"idle", "init", "query", "rename", "metadata"}
          /\ job[x].todo \in Seq(Statements)
      BY <1>1 DEF Jobs
    <2>2. \A i \in DOMAIN job[x].todo : job[x].todo[i] \in Statements
      BY <2>1
    <2> QED BY <2>1, <2>2 DEF ToSet
  <1>6. ASSUME NEW x \in Callers
        PROVE  Cardinality({c \in Conns : pool.busy[c] = x})
                   + Cardinality({i \in DOMAIN pool.queue : pool.queue[i] = x})
                 = (IF job[x].pc = "query" THEN 1 ELSE 0)
    <2> DEFINE B == {c \in Conns : pool.busy[c] = x}
               Q == {i \in DOMAIN pool.queue : pool.queue[i] = x}
    <2>1. x # None
      BY Names
    <2>2. Once(pool)
      BY <1>1 DEF PoolOK
    <2>3. CASE \E c \in Conns : pool.busy[c] = x
      <3>1. PICK c \in Conns : pool.busy[c] = x
        BY <2>3
      <3>2. B = {c} /\ Q = {} /\ Holds(pool, x)
        BY <2>1, <2>2, <3>1 DEF Once, Holds
      <3>3. Cardinality(B) = 1 /\ Cardinality(Q) = 0
        BY <3>2, FS_Singleton, FS_EmptySet
      <3>4. job[x].pc = "query"
        BY <1>1, <3>2
      <3> HIDE DEF B, Q
      <3> QED BY <3>3, <3>4 DEF B, Q
    <2>4. CASE \E i \in DOMAIN pool.queue : pool.queue[i] = x
      <3>1. PICK i \in DOMAIN pool.queue : pool.queue[i] = x
        BY <2>4
      <3>2. B = {} /\ Q = {i} /\ Holds(pool, x)
        BY <2>1, <2>2, <3>1 DEF Once, Holds
      <3>3. Cardinality(B) = 0 /\ Cardinality(Q) = 1
        BY <3>2, FS_Singleton, FS_EmptySet
      <3>4. job[x].pc = "query"
        BY <1>1, <3>2
      <3> HIDE DEF B, Q
      <3> QED BY <3>3, <3>4 DEF B, Q
    <2>5. CASE ~Holds(pool, x)
      <3>1. B = {} /\ Q = {}
        BY <2>5 DEF Holds
      <3>2. Cardinality(B) = 0 /\ Cardinality(Q) = 0
        BY <3>1, FS_EmptySet
      <3>3. job[x].pc # "query"
        BY <1>1, <2>5
      <3> HIDE DEF B, Q
      <3> QED BY <3>2, <3>3 DEF B, Q
    <2> QED BY <2>3, <2>4, <2>5 DEF Holds
  <1> QED BY <1>1, <1>2, <1>3, <1>4, <1>5, <1>6 DEF TypeOK, Inv, RestInv

------------------------------------------------------------------------------
(* The theorems.                                                           *)

\* In every state: the pool, the callers' statements and the transactions fit each
\* other, no two transactions delete a row, a rebuild nobody read beside has done
\* its statements on one connection (PostgresGraphStore.fullRebuild asks the pool
\* for each of them), and the metadata of the evidence tells what the index holds
\* unless their writing was cut off.
THEOREM StoreInvariant == Spec => []Inv
  <1>1. Init => Inv
    BY FirstState
  <1>2. Inv /\ [Next]_vars => Inv'
    BY NextKeeps
  <1> QED BY <1>1, <1>2, PTL DEF Spec

\* Every variable of the store keeps its type, a connection is idle or in use, and
\* a caller whose statement is under way has one place in the pool.
THEOREM StoreTypes == Spec => []TypeOK
  <1>1. Inv => TypeOK
    BY InvTypes
  <1> QED BY <1>1, StoreInvariant, PTL

\* Without a read beside it a rebuild changes what is committed in one step and
\* wholly, whatever connection fails, and the refresh goes on to the evidence only
\* when the rows are stored.
THEOREM QuietRebuild == Spec => QuietRebuildIsAtomic
  <1>1. Inv /\ [Next]_vars =>
          [~tainted =>
             /\ rows' # rows => rows' = Rows(job["refresh"].payload)
             /\ job'["refresh"].pc = "rename" => rows' = Rows(job'["refresh"].payload)]_vars
    BY NextKeeps DEF OneStep
  <1> QED BY <1>1, StoreInvariant, PTL DEF Spec, QuietRebuildIsAtomic

\* GET /ready answers ready only while the evidence index holds something, in every
\* interleaving with a refresh, unless a refresh was cut off between the index and
\* its metadata and none has indexed since; and only while the graph does, unless a
\* read overlapped a rebuild (HealthController.ready; EvidenceStoreService, 78-94).
THEOREM ReadyGrounded == Spec => []ReadyIsGrounded
  <1>1. Inv => ReadyIsGrounded
    BY DEF Inv
  <1> QED BY <1>1, StoreInvariant, PTL
==============================================================================
