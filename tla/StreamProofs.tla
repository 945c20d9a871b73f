---------------------------- MODULE StreamProofs ----------------------------
(***************************************************************************)
(* For any number of events, any number of ids to a millisecond, any       *)
(* subscription capacity, page sizes, limits and broken connections: the   *)
(* stream follows time and passes over an event only for another one of    *)
(* its millisecond, and a walk over the pages is exact.                    *)
(***************************************************************************)
EXTENDS EventStream, FiniteSetTheorems, TLAPS

-----------------------------------------------------------------------------
(* Ids and their milliseconds.                                             *)

LEMMA IdFacts ==
  /\ Ids \subseteq Nat /\ IsFiniteSet(Ids)
  /\ NoId \in Nat /\ NoId \notin Ids
<1>1. MaxEvents \in Nat /\ Tails \in Nat /\ Tails > 0
  BY StreamAssumption
<1>2. (MaxEvents + 2) * Tails \in Nat /\ NoId \in Nat
  BY <1>1 DEF NoId
<1>3. (MaxEvents + 2) * Tails < NoId
  BY <1>1, <1>2 DEF NoId
<1>4. IsFiniteSet(Ids)
  <2>1. 0 \in Int /\ (MaxEvents + 2) * Tails \in Int
    BY <1>2
  <2> QED
    BY <2>1, FS_Interval DEF Ids
<1>5. \A i \in Ids : i \in Nat /\ i <= (MaxEvents + 2) * Tails
  BY <1>2 DEF Ids
<1>6. \A i \in Ids : i # NoId
  BY <1>2, <1>3, <1>5
<1> QED
  BY <1>2, <1>4, <1>5, <1>6

(* The ids of a millisecond follow those of the one before.                *)
LEMMA MillisecondFacts ==
  /\ \A i \in Nat : Millisecond(i) \in Nat
  /\ \A i, j \in Nat : i <= j => Millisecond(i) <= Millisecond(j)
<1>1. Tails \in Nat /\ Tails > 0
  BY StreamAssumption
<1>2. \A i \in Nat : Millisecond(i) \in Nat
  BY <1>1 DEF Millisecond
<1>3. ASSUME NEW i \in Nat, NEW j \in Nat, i <= j
      PROVE  Millisecond(i) <= Millisecond(j)
  BY <1>1, <1>3 DEF Millisecond
<1> QED
  BY <1>2, <1>3

-----------------------------------------------------------------------------
(* Query: the first ids of the log after a cursor, in their order.         *)

Matching(l, after) == {i \in l : after = NoId \/ i > after}

Rank(S, i) == Cardinality({j \in S : j < i})

LEMMA RankGrows ==
  ASSUME NEW S \in SUBSET Nat, IsFiniteSet(S), NEW i \in S, NEW j \in S, i < j
  PROVE  Rank(S, i) < Rank(S, j)
<1> DEFINE A == {x \in S : x < i}
           B == {x \in S : x < j}
<1>1. A \subseteq B /\ i \in B /\ i \notin A
  <2>1. \A x \in S : x \in Nat
    OBVIOUS
  <2>2. i \in Nat /\ j \in Nat
    OBVIOUS
  <2>3. \A x \in S : x < i => x < j
    BY <2>1, <2>2
  <2>4. ~(i < i)
    BY <2>2
  <2> QED
    BY <2>3, <2>4
<1>2. IsFiniteSet(B) /\ IsFiniteSet(A)
  BY FS_Subset
<1>3. A # B
  BY <1>1
<1>4. Cardinality(A) <= Cardinality(B) /\ (Cardinality(A) = Cardinality(B) => A = B)
  BY <1>1, <1>2, FS_Subset
<1>5. Cardinality(A) \in Nat /\ Cardinality(B) \in Nat
  BY <1>2, FS_CardinalityType
<1> QED
  BY <1>3, <1>4, <1>5 DEF Rank

LEMMA RankIsBelow ==
  ASSUME NEW S \in SUBSET Nat, IsFiniteSet(S), NEW i \in S
  PROVE  Cardinality(S) \in Nat /\ Rank(S, i) \in 0 .. Cardinality(S) - 1
<1> DEFINE A == {j \in S : j < i}
<1>1. A \in SUBSET S /\ i \notin A
  <2>1. i \in Nat /\ ~(i < i)
    OBVIOUS
  <2> QED
    BY <2>1
<1>2. A # S
  BY <1>1
<1>3. /\ IsFiniteSet(A) /\ Cardinality(A) <= Cardinality(S)
      /\ Cardinality(S) = Cardinality(A) => S = A
  BY <1>1, FS_Subset
<1>4. Cardinality(A) \in Nat /\ Cardinality(S) \in Nat
  BY <1>3, FS_CardinalityType
<1>5. Cardinality(A) \in 0 .. Cardinality(S) - 1
  BY <1>2, <1>3, <1>4
<1> QED
  BY <1>4, <1>5 DEF Rank

(* The ids of a finite set have the ranks 0, 1, 2, ..., one each.          *)
LEMMA RankIsOnto ==
  ASSUME NEW S \in SUBSET Nat, IsFiniteSet(S), NEW r \in 0 .. Cardinality(S) - 1
  PROVE  \E i \in S : Rank(S, i) = r
<1> DEFINE n == Cardinality(S)
           T == 0 .. n - 1
           f == [i \in S |-> Rank(S, i)]
<1>1. n \in Nat
  BY FS_CardinalityType
<1>2. IsFiniteSet(T) /\ Cardinality(T) = n
  <2>1. 0 \in Int /\ n - 1 \in Int
    BY <1>1
  <2>2. IsFiniteSet(T) /\ Cardinality(T) = IF 0 > n - 1 THEN 0 ELSE n - 1 - 0 + 1
    BY <2>1, FS_Interval
  <2> QED
    BY <1>1, <2>2
<1>3. \A i \in S : Rank(S, i) \in T
  BY RankIsBelow
<1>4. \A i, j \in S : f[i] = f[j] => i = j
  <2> SUFFICES ASSUME NEW i \in S, NEW j \in S, i # j
               PROVE  Rank(S, i) # Rank(S, j)
    OBVIOUS
  <2>1. i \in Nat /\ j \in Nat /\ (i < j \/ j < i)
    OBVIOUS
  <2>2. Rank(S, i) \in Int /\ Rank(S, j) \in Int
    BY <1>1, <1>3
  <2> HIDE DEF n, T, f
  <2>3. i < j => Rank(S, i) < Rank(S, j)
    BY RankGrows
  <2>4. j < i => Rank(S, j) < Rank(S, i)
    BY RankGrows
  <2> QED
    BY <2>1, <2>2, <2>3, <2>4
<1>5. f \in Injection(S, T)
  <2>1. f \in [S -> T]
    BY <1>3
  <2> HIDE DEF f, T
  <2> QED
    BY <1>4, <2>1 DEF Injection, IsInjective
<1>6. f \in Surjection(S, T)
  <2> HIDE DEF n, T, f
  <2> QED
    BY <1>2, <1>5, FS_Injection DEF n
<1>7. r \in T
  OBVIOUS
<1> QED
  BY <1>6, <1>7 DEF Surjection

(* What a read of the log returns.                                         *)
LEMMA QueryFacts ==
  ASSUME log \subseteq Ids, NEW after, NEW limit \in Nat
  PROVE  LET found == Query(after, limit)
         IN  /\ found \in Seq(Ids) /\ Len(found) <= limit
             /\ \A k \in 1 .. Len(found) : found[k] \in Matching(log, after)
             /\ \A j, k \in 1 .. Len(found) : j < k => found[j] < found[k]
             /\ \A i \in Matching(log, after), k \in 1 .. Len(found) :
                  i < found[k] => \E m \in 1 .. Len(found) : found[m] = i
             /\ Len(found) < limit =>
                  \A i \in Matching(log, after) : \E m \in 1 .. Len(found) : found[m] = i
<1> DEFINE M == Matching(log, after)
           n == Cardinality(M)
           len == IF n < limit THEN n ELSE limit
           Nth(k) == CHOOSE i \in M : Rank(M, i) = k - 1
           found == [k \in 1 .. len |-> Nth(k)]
<1>1. Query(after, limit) = found
  BY DEF Query, Matching, Rank
<1>2. M \in SUBSET Nat /\ IsFiniteSet(M) /\ M \subseteq Ids /\ M \subseteq log
  <2>1. M \in SUBSET Ids /\ M \subseteq log
    BY DEF Matching
  <2> QED
    BY <2>1, IdFacts, FS_Subset
<1>3. n \in Nat
  BY <1>2, FS_CardinalityType
<1>4. len \in Nat /\ len <= n /\ len <= limit /\ (len < limit => len = n)
  BY <1>3
<1> HIDE DEF M, n
<1>5. ASSUME NEW k \in 1 .. n
      PROVE  Nth(k) \in M /\ Rank(M, Nth(k)) = k - 1
  <2>1. k - 1 \in 0 .. Cardinality(M) - 1
    BY <1>3 DEF n
  <2>2. \E i \in M : Rank(M, i) = k - 1
    BY <1>2, <2>1, RankIsOnto
  <2> QED
    BY <2>2
<1>6. ASSUME NEW i \in M
      PROVE  \E k \in 1 .. n : Nth(k) = i /\ Rank(M, i) = k - 1
  <2>1. Rank(M, i) \in 0 .. n - 1
    BY <1>2, RankIsBelow DEF n
  <2>2. PICK k \in 1 .. n : Rank(M, i) = k - 1
    <3>1. Rank(M, i) + 1 \in 1 .. n /\ Rank(M, i) = (Rank(M, i) + 1) - 1
      BY <1>3, <2>1
    <3> QED
      BY <3>1
  <2>3. Nth(k) \in M /\ Rank(M, Nth(k)) = k - 1
    BY <1>5
  <2> HIDE DEF Nth
  <2>4. i \in Nat /\ Nth(k) \in Nat
    BY <1>2, <2>3
  <2>5. ~(i < Nth(k)) /\ ~(Nth(k) < i)
    <3>1. i < Nth(k) => Rank(M, i) < Rank(M, Nth(k))
      BY <1>2, <2>3, RankGrows
    <3>2. Nth(k) < i => Rank(M, Nth(k)) < Rank(M, i)
      BY <1>2, <2>3, RankGrows
    <3> QED
      BY <1>3, <2>2, <2>3, <3>1, <3>2
  <2>6. Nth(k) = i
    BY <2>4, <2>5
  <2> QED
    BY <2>2, <2>6
<1> HIDE DEF Nth
<1>7. \A j, k \in 1 .. n : j < k => Nth(j) < Nth(k)
  <2> SUFFICES ASSUME NEW j \in 1 .. n, NEW k \in 1 .. n, j < k
               PROVE  Nth(j) < Nth(k)
    OBVIOUS
  <2>1. /\ Nth(j) \in M /\ Rank(M, Nth(j)) = j - 1
        /\ Nth(k) \in M /\ Rank(M, Nth(k)) = k - 1
    BY <1>5
  <2>2. Nth(j) \in Nat /\ Nth(k) \in Nat
    BY <1>2, <2>1
  <2>3. Nth(k) < Nth(j) => Rank(M, Nth(k)) < Rank(M, Nth(j))
    BY <1>2, <2>1, RankGrows
  <2>4. Nth(k) # Nth(j)
    BY <1>3, <2>1
  <2> QED
    BY <1>3, <2>1, <2>2, <2>3, <2>4
<1>8. \A k \in 1 .. len : found[k] = Nth(k) /\ k \in 1 .. n
  BY <1>3, <1>4
<1>9. /\ found \in Seq(Ids) /\ Len(found) = len
      /\ \A k \in 1 .. len : found[k] \in M
  <2>1. \A k \in 1 .. len : Nth(k) \in M /\ Nth(k) \in Ids
    BY <1>2, <1>5, <1>8
  <2> QED
    BY <1>4, <2>1
<1> HIDE DEF len, found
<1>10. \A j, k \in 1 .. len : j < k => found[j] < found[k]
  BY <1>7, <1>8
<1>11. ASSUME NEW i \in M, NEW k \in 1 .. len, i < found[k]
       PROVE  \E m \in 1 .. len : found[m] = i
  <2>1. PICK m \in 1 .. n : Nth(m) = i
    BY <1>6
  <2>2. found[k] = Nth(k) /\ k \in 1 .. n /\ Nth(k) \in M
    BY <1>5, <1>8
  <2>3. Nth(k) \in Nat /\ i \in Nat
    BY <1>2, <2>2
  <2>4. ~(k < m)
    BY <1>7, <1>11, <2>1, <2>2, <2>3
  <2>5. k # m
    BY <1>11, <2>1, <2>2, <2>3
  <2>6. m \in 1 .. len
    BY <1>3, <1>4, <2>2, <2>4, <2>5
  <2> QED
    BY <1>8, <2>1, <2>6
<1>12. len < limit => \A i \in M : \E m \in 1 .. len : found[m] = i
  BY <1>4, <1>6, <1>8
<1> QED
  BY <1>1, <1>4, <1>9, <1>10, <1>11, <1>12 DEF M

-----------------------------------------------------------------------------
(* The inductive invariant.  It is stated with operators of the state, so  *)
(* that a step can be followed part by part.                               *)

In(i, s) == \E k \in 1 .. Len(s) : s[k] = i

Over(s, l) == \A k \in 1 .. Len(s) : s[k] \in l

Increasing(s) == \A j, k \in 1 .. Len(s) : j < k => s[j] < s[k]

(* Its events, the end mark aside, follow the clock, each once.            *)
Follows(s, l) ==
  \A j, k \in 1 .. Len(s) : j < k /\ s[j] \in l /\ s[k] \in l =>
    s[j] # s[k] /\ Millisecond(s[j]) <= Millisecond(s[k])

(* No event in s is of a later millisecond.                                *)
NotBefore(i, s, l) ==
  \A k \in 1 .. Len(s) : s[k] \in l => Millisecond(s[k]) <= Millisecond(i)

(* No event in s is of an earlier millisecond.                             *)
NotAfter(i, s, l) ==
  \A k \in 1 .. Len(s) : s[k] \in l => Millisecond(i) <= Millisecond(s[k])

LogHolds(l, t) == l \subseteq Ids /\ t \in Nat /\ \A i \in l : Millisecond(i) <= t

(* The walk: what it has shown are the ids up to its cursor of the log it  *)
(* began with, and ids that came later.                                    *)
WalkHolds(l, w) ==
  /\ w.on \in BOOLEAN /\ w.seen \in Seq(Ids) /\ Over(w.seen, l) /\ Increasing(w.seen)
  /\ w.at \subseteq l
  /\ w.on => \/ w.seen = <<>> /\ w.after = NoId
             \/ /\ w.seen # <<>> /\ w.after = w.seen[Len(w.seen)]
                /\ \A i \in w.at : i <= w.after => In(i, w.seen)
  /\ ~w.on => \A i \in w.at : In(i, w.seen)

(* A subscription: the events since it began that were not yet fetched,    *)
(* and after an overflow the end mark, behind which nothing is delivered.  *)
QueueHolds(l, q, sub) ==
  /\ q \in Seq(Ids \cup {CLOSE}) /\ sub \in BOOLEAN
  /\ \A k \in 1 .. Len(q) : q[k] = CLOSE => k = Len(q) /\ ~sub
  /\ Over(q, l \cup {CLOSE})
  /\ Follows(q, l)

(* It will not be delivered: the subscription had ended when it came.      *)
Lost(i, l, q, sub) == ~sub /\ NotBefore(i, q, l)

(* The catch-up: a page has what follows the client's last event, up to    *)
(* its own end; a short one has all but what the subscription has.         *)
ReplayHolds(l, q, sub, p, f, c, d, z) ==
  /\ z # NoId /\ d = z
  /\ p \in Seq(Ids) /\ Over(p, l) /\ Increasing(p)
  /\ \A k \in 1 .. Len(p) : z < p[k]
  /\ IF p = <<>> THEN c = z ELSE c = p[Len(p)]
  /\ \A i \in l, k \in 1 .. Len(p) :
       z < i /\ Millisecond(i) < Millisecond(p[k]) => In(i, p)
  /\ ~f => \A i \in l : In(i, q) \/ In(i, p) \/ i <= z \/ Lost(i, l, q, sub)

(* The live tail: what is not in the queue is behind the client.           *)
LiveHolds(l, q, sub, d, z) ==
  /\ d # NoId => z # NoId /\ Millisecond(d) <= Millisecond(z)
  /\ z # NoId /\ z # d => ~In(z, q) /\ NotAfter(z, q, l)
  /\ z # NoId => \A i \in l : \/ In(i, q) \/ Millisecond(i) <= Millisecond(z)
                              \/ Lost(i, l, q, sub)
  /\ z = NoId => \A i \in l : In(i, q) \/ NotAfter(i, q, l) \/ Lost(i, l, q, sub)

(* The client: what it received follows the clock, no event comes twice in *)
(* a row, and between its first and its last event no millisecond that has *)
(* events was passed over.                                                 *)
ClientHolds(l, z, r, s) ==
  /\ z \in l \cup {NoId} /\ s \in l \cup {NoId} /\ (z = NoId <=> s = NoId)
  /\ r \in Seq(Ids) /\ Over(r, l)
  /\ IF r = <<>> THEN z = s ELSE z = r[Len(r)]
  /\ \A j, k \in 1 .. Len(r) : j < k => Millisecond(r[j]) <= Millisecond(r[k])
  /\ \A k \in 1 .. Len(r) - 1 : r[k] # r[k + 1]
  /\ s # NoId => \A i \in l : Millisecond(s) < Millisecond(i) /\ Millisecond(i) < Millisecond(z)
                             => \E k \in 1 .. Len(r) : Millisecond(r[k]) = Millisecond(i)

StreamInv ==
  /\ LogHolds(log, now)
  /\ WalkHolds(log, walk)
  /\ ClientHolds(log, last, received, since)
  /\ conn \in {"closed", "replaying", "live"} /\ dedup \in log \cup {NoId}
  /\ conn # "closed" => QueueHolds(log, queue, subscribed)
  /\ conn = "replaying" =>
       ReplayHolds(log, queue, subscribed, page, full, cursor, dedup, last)
  /\ conn = "live" => LiveHolds(log, queue, subscribed, dedup, last)

-----------------------------------------------------------------------------
(* Sequences that grow at their end and shrink at their head.              *)

LEMMA InAppend ==
  ASSUME NEW S, NEW s \in Seq(S), NEW x \in S
  PROVE  /\ Append(s, x) \in Seq(S) /\ Len(Append(s, x)) = Len(s) + 1
         /\ Len(s) \in Nat
         /\ \A k \in 1 .. Len(s) : Append(s, x)[k] = s[k]
         /\ Append(s, x)[Len(s) + 1] = x
         /\ \A i : In(i, Append(s, x)) <=> In(i, s) \/ i = x
<1> DEFINE t == Append(s, x)
<1>1. /\ t \in Seq(S) /\ Len(t) = Len(s) + 1 /\ Len(s) \in Nat
      /\ \A k \in 1 .. Len(s) : t[k] = s[k]
      /\ t[Len(s) + 1] = x
  OBVIOUS
<1> HIDE DEF t
<1>2. \A k : k \in 1 .. Len(t) <=> k \in 1 .. Len(s) \/ k = Len(s) + 1
  BY <1>1
<1>3. \A i : In(i, t) <=> In(i, s) \/ i = x
  BY <1>1, <1>2 DEF In
<1> QED
  BY <1>1, <1>3 DEF t

LEMMA InTail ==
  ASSUME NEW S, NEW s \in Seq(S), s # <<>>
  PROVE  /\ Tail(s) \in Seq(S) /\ Len(s) \in Nat \ {0} /\ Len(Tail(s)) = Len(s) - 1
         /\ Head(s) = s[1] /\ Head(s) \in S
         /\ \A k \in 1 .. Len(s) - 1 : Tail(s)[k] = s[k + 1]
         /\ \A i : In(i, s) <=> i = Head(s) \/ In(i, Tail(s))
<1> DEFINE t == Tail(s)
<1>1. /\ t \in Seq(S) /\ Len(s) \in Nat \ {0} /\ Len(t) = Len(s) - 1
      /\ Head(s) = s[1] /\ Head(s) \in S
      /\ \A k \in 1 .. Len(s) - 1 : t[k] = s[k + 1]
  OBVIOUS
<1> HIDE DEF t
<1>2. ASSUME NEW i, In(i, s)
      PROVE  i = Head(s) \/ In(i, t)
  <2>1. PICK k \in 1 .. Len(s) : s[k] = i
    BY <1>2 DEF In
  <2>2. k = 1 \/ (k - 1 \in 1 .. Len(s) - 1 /\ k = (k - 1) + 1)
    BY <1>1
  <2> QED
    BY <1>1, <2>1, <2>2 DEF In
<1>3. ASSUME NEW i, In(i, t)
      PROVE  In(i, s)
  <2>1. PICK k \in 1 .. Len(s) - 1 : t[k] = i
    BY <1>1, <1>3 DEF In
  <2>2. k + 1 \in 1 .. Len(s) /\ s[k + 1] = i
    BY <1>1, <2>1
  <2> QED
    BY <2>2 DEF In
<1>4. In(Head(s), s)
  <2>1. 1 \in 1 .. Len(s)
    BY <1>1
  <2> QED
    BY <1>1, <2>1 DEF In
<1> QED
  BY <1>1, <1>2, <1>3, <1>4 DEF t

(* The same of the properties of a sequence that the invariant names.      *)
LEMMA TailKeeps ==
  ASSUME NEW S, NEW s \in Seq(S), s # <<>>, NEW l
  PROVE  /\ Over(s, l) => Over(Tail(s), l) /\ Head(s) \in l
         /\ Follows(s, l) => Follows(Tail(s), l)
         /\ Increasing(s) => Increasing(Tail(s))
         /\ \A i : NotBefore(i, s, l) => NotBefore(i, Tail(s), l)
<1> DEFINE t == Tail(s)
<1>1. /\ Len(s) \in Nat \ {0} /\ Len(t) = Len(s) - 1 /\ Head(s) = s[1]
      /\ \A k \in 1 .. Len(s) - 1 : t[k] = s[k + 1]
  BY InTail
<1> HIDE DEF t
<1>2. \A k \in 1 .. Len(t) : k + 1 \in 1 .. Len(s) /\ t[k] = s[k + 1]
  BY <1>1
<1>3. 1 \in 1 .. Len(s)
  BY <1>1
<1>4. \A j, k \in 1 .. Len(t) : j < k => j + 1 < k + 1
  BY <1>1
<1>5. Over(s, l) => Over(t, l) /\ Head(s) \in l
  BY <1>1, <1>2, <1>3 DEF Over
<1>6. Follows(s, l) => Follows(t, l)
  BY <1>2, <1>4 DEF Follows
<1>7. Increasing(s) => Increasing(t)
  BY <1>2, <1>4 DEF Increasing
<1>8. \A i : NotBefore(i, s, l) => NotBefore(i, t, l)
  BY <1>2 DEF NotBefore
<1> QED
  BY <1>5, <1>6, <1>7, <1>8 DEF t

-----------------------------------------------------------------------------
(* A new event.                                                            *)

Fresh(i, l) == i \in Ids \ l /\ \A j \in l : Millisecond(j) <= Millisecond(i)

(* Publish, between the states of a subscription.                          *)
Published(i, q, sub, q2, sub2) ==
  \/ ~sub /\ q2 = q /\ sub2 = FALSE
  \/ sub /\ q2 = Append(q, CLOSE) /\ sub2 = FALSE
  \/ sub /\ q2 = Append(q, i) /\ sub2 = TRUE

LEMMA FreshFacts ==
  ASSUME LogHolds(log, now), NEW i \in FreshIds
  PROVE  Fresh(i, log) /\ LogHolds(log \cup {i}, Millisecond(i))
<1>1. i \in Ids /\ i \notin log /\ Millisecond(i) \in {now, now + 1}
  BY DEF FreshIds
<1>2. now \in Nat /\ log \subseteq Ids /\ \A j \in log : Millisecond(j) <= now
  BY DEF LogHolds
<1>3. \A j \in Ids : Millisecond(j) \in Nat
  BY IdFacts, MillisecondFacts
<1>4. \A j \in log : Millisecond(j) <= Millisecond(i)
  BY <1>1, <1>2, <1>3
<1>5. Millisecond(i) <= Millisecond(i)
  BY <1>1, <1>3
<1> QED
  BY <1>1, <1>2, <1>3, <1>4, <1>5 DEF Fresh, LogHolds

LEMMA WalkSeesGrowth ==
  ASSUME NEW l, NEW m, l \subseteq m, NEW w, WalkHolds(l, w)
  PROVE  WalkHolds(m, w)
BY DEF WalkHolds, Over

LEMMA ClientSeesGrowth ==
  ASSUME NEW l \in SUBSET Ids, NEW i, Fresh(i, l), NEW z, NEW r, NEW s, ClientHolds(l, z, r, s)
  PROVE  ClientHolds(l \cup {i}, z, r, s)
<1> DEFINE m == l \cup {i}
<1>1. \A j \in Ids : Millisecond(j) \in Nat
  BY IdFacts, MillisecondFacts
<1>2. i \in Ids /\ i \notin l /\ \A j \in l : Millisecond(j) <= Millisecond(i)
  BY DEF Fresh
<1>3. /\ z \in l \cup {NoId} /\ s \in l \cup {NoId} /\ (z = NoId <=> s = NoId)
      /\ r \in Seq(Ids) /\ Over(r, l)
      /\ IF r = <<>> THEN z = s ELSE z = r[Len(r)]
      /\ \A j, k \in 1 .. Len(r) : j < k => Millisecond(r[j]) <= Millisecond(r[k])
      /\ \A k \in 1 .. Len(r) - 1 : r[k] # r[k + 1]
  BY DEF ClientHolds
<1>4. s # NoId => ~(Millisecond(i) < Millisecond(z))
  BY <1>1, <1>2, <1>3
<1>5. ASSUME s # NoId, NEW j \in m, Millisecond(s) < Millisecond(j), Millisecond(j) < Millisecond(z)
      PROVE  \E k \in 1 .. Len(r) : Millisecond(r[k]) = Millisecond(j)
  <2>1. j \in l
    BY <1>4, <1>5
  <2> QED
    BY <1>5, <2>1 DEF ClientHolds
<1>6. Over(r, m) /\ z \in m \cup {NoId} /\ s \in m \cup {NoId}
  BY <1>3 DEF Over
<1> HIDE DEF m
<1>7. ClientHolds(m, z, r, s)
  BY <1>3, <1>5, <1>6 DEF ClientHolds
<1> QED
  BY <1>7 DEF m

LEMMA QueueGrows ==
  ASSUME NEW l \in SUBSET Ids, NEW i, Fresh(i, l), NEW q, NEW sub, NEW q2, NEW sub2,
         QueueHolds(l, q, sub), Published(i, q, sub, q2, sub2)
  PROVE  /\ QueueHolds(l \cup {i}, q2, sub2)
         /\ \A j \in l : In(j, q2) <=> In(j, q)
         /\ \A j \in l : Lost(j, l, q, sub) => Lost(j, l \cup {i}, q2, sub2)
         /\ In(i, q2) \/ Lost(i, l \cup {i}, q2, sub2)
<1> DEFINE m == l \cup {i}
<1>1. /\ \A j \in Ids : Millisecond(j) \in Nat
      /\ NoId \notin Ids
  BY IdFacts, MillisecondFacts
<1>2. /\ i \in Ids /\ i \notin l /\ \A j \in l : Millisecond(j) <= Millisecond(i)
      /\ \A j \in m : Millisecond(j) <= Millisecond(i) /\ j \in Ids
  BY <1>1 DEF Fresh
<1>3. /\ q \in Seq(Ids \cup {CLOSE}) /\ sub \in BOOLEAN
      /\ \A k \in 1 .. Len(q) : q[k] = CLOSE => k = Len(q) /\ ~sub
      /\ \A k \in 1 .. Len(q) : q[k] \in l \cup {CLOSE}
      /\ Follows(q, l)
  BY DEF QueueHolds, Over
<1>4. CLOSE \notin m /\ i # CLOSE /\ CLOSE \notin l
  BY <1>1, <1>2 DEF CLOSE
<1>5. \A k \in 1 .. Len(q) : (q[k] \in m <=> q[k] \in l) /\ q[k] # i /\ q[k] \in m \cup {CLOSE}
  BY <1>2, <1>3, <1>4
<1>6. Follows(q, m)
  BY <1>3, <1>5 DEF Follows
<1>7. \A j : NotBefore(j, q, l) => NotBefore(j, q, m)
  BY <1>5 DEF NotBefore
<1>8. NotBefore(i, q, m)
  BY <1>2 DEF NotBefore
<1> HIDE DEF m
<1>9. CASE ~sub /\ q2 = q /\ sub2 = FALSE
  <2>1. QueueHolds(m, q2, sub2)
    BY <1>3, <1>5, <1>6, <1>9 DEF QueueHolds, Over
  <2>2. Lost(i, m, q2, sub2)
    BY <1>8, <1>9 DEF Lost
  <2>3. \A j \in l : Lost(j, l, q, sub) => Lost(j, m, q2, sub2)
    BY <1>7, <1>9 DEF Lost
  <2> QED
    BY <1>9, <2>1, <2>2, <2>3 DEF m
<1>10. ASSUME sub, NEW x \in {i, CLOSE}, q2 = Append(q, x), sub2 = (x = i)
       PROVE  /\ QueueHolds(m, q2, sub2)
              /\ \A j \in l : In(j, q2) <=> In(j, q)
              /\ \A j \in l : Lost(j, l, q, sub) => Lost(j, m, q2, sub2)
              /\ In(i, q2) \/ Lost(i, m, q2, sub2)
  <2>1. x \in Ids \cup {CLOSE}
    BY <1>2, <1>10
  <2>2. /\ q2 \in Seq(Ids \cup {CLOSE}) /\ Len(q2) = Len(q) + 1 /\ Len(q) \in Nat
        /\ \A k \in 1 .. Len(q) : q2[k] = q[k]
        /\ q2[Len(q) + 1] = x
        /\ \A j : In(j, q2) <=> In(j, q) \/ j = x
    BY <1>3, <1>10, <2>1, InAppend
  <2>3. \A k \in 1 .. Len(q2) : \/ k \in 1 .. Len(q) /\ q2[k] = q[k]
                                \/ k = Len(q2) /\ k = Len(q) + 1 /\ q2[k] = x
    BY <2>2
  <2>4. \A k \in 1 .. Len(q) : q[k] # CLOSE /\ q[k] \in l
    BY <1>3, <1>10
  <2>5. \A k \in 1 .. Len(q2) : q2[k] = CLOSE => k = Len(q2) /\ ~sub2
    BY <1>4, <1>10, <2>3, <2>4
  <2>6. \A k \in 1 .. Len(q2) : q2[k] \in m \cup {CLOSE}
    BY <1>5, <1>10, <2>3 DEF m
  <2>7. Follows(q2, m)
    <3> SUFFICES ASSUME NEW j \in 1 .. Len(q2), NEW k \in 1 .. Len(q2), j < k,
                        q2[j] \in m, q2[k] \in m
                 PROVE  q2[j] # q2[k] /\ Millisecond(q2[j]) <= Millisecond(q2[k])
      BY DEF Follows
    <3>1. j \in 1 .. Len(q) /\ q2[j] = q[j] /\ q[j] \in m
      BY <2>2, <2>3
    <3>2. CASE k \in 1 .. Len(q) /\ q2[k] = q[k]
      BY <1>6, <3>1, <3>2 DEF Follows
    <3>3. CASE q2[k] = x
      <4>1. x = i
        BY <1>4, <1>10, <3>3
      <4> QED
        BY <1>2, <1>5, <3>1, <3>3, <4>1 DEF m
    <3> QED
      BY <2>3, <3>2, <3>3
  <2>8. QueueHolds(m, q2, sub2)
    BY <1>10, <2>2, <2>5, <2>6, <2>7 DEF QueueHolds, Over
  <2>9. \A j \in l : In(j, q2) <=> In(j, q)
    BY <1>2, <1>4, <1>10, <2>2
  <2>10. In(i, q2) \/ Lost(i, m, q2, sub2)
    <3>1. CASE x = i
      BY <2>2, <3>1
    <3>2. CASE x = CLOSE
      <4>1. \A k \in 1 .. Len(q2) : q2[k] \in m => Millisecond(q2[k]) <= Millisecond(i)
        BY <1>2 DEF m
      <4> QED
        BY <1>4, <1>10, <3>2, <4>1 DEF Lost, NotBefore
    <3> QED
      BY <1>10, <3>1, <3>2
  <2>11. \A j \in l : ~Lost(j, l, q, sub)
    BY <1>10 DEF Lost
  <2> QED
    BY <2>8, <2>9, <2>10, <2>11
<1>11. CASE ~(~sub /\ q2 = q /\ sub2 = FALSE)
  <2>1. CASE sub /\ q2 = Append(q, CLOSE) /\ sub2 = FALSE
    <3>1. sub2 = (CLOSE = i) /\ CLOSE \in {i, CLOSE}
      BY <1>4, <2>1
    <3> QED
      BY <1>10, <2>1, <3>1 DEF m
  <2>2. CASE sub /\ q2 = Append(q, i) /\ sub2 = TRUE
    BY <1>10, <2>2 DEF m
  <2> QED
    BY <1>11, <2>1, <2>2 DEF Published
<1> QED
  BY <1>9, <1>11

LEMMA ReplaySeesGrowth ==
  ASSUME NEW l \in SUBSET Ids, NEW i, Fresh(i, l), NEW q, NEW sub, NEW q2, NEW sub2,
         QueueHolds(l, q, sub), Published(i, q, sub, q2, sub2),
         NEW p, NEW f, NEW c, NEW d, NEW z \in l \cup {NoId}, ReplayHolds(l, q, sub, p, f, c, d, z)
  PROVE  ReplayHolds(l \cup {i}, q2, sub2, p, f, c, d, z)
<1> DEFINE m == l \cup {i}
<1>1. \A j \in Ids : Millisecond(j) \in Nat
  BY IdFacts, MillisecondFacts
<1>2. /\ i \in Ids /\ i \notin l /\ \A j \in l : Millisecond(j) <= Millisecond(i)
  BY DEF Fresh
<1>3. /\ \A j \in l : In(j, q2) <=> In(j, q)
      /\ \A j \in l : Lost(j, l, q, sub) => Lost(j, m, q2, sub2)
      /\ In(i, q2) \/ Lost(i, m, q2, sub2)
  BY QueueGrows
<1>4. /\ z # NoId /\ d = z
      /\ p \in Seq(Ids) /\ Over(p, l) /\ Increasing(p)
      /\ \A k \in 1 .. Len(p) : z < p[k]
      /\ IF p = <<>> THEN c = z ELSE c = p[Len(p)]
  BY DEF ReplayHolds
<1>5. /\ \A j \in l, k \in 1 .. Len(p) :
           z < j /\ Millisecond(j) < Millisecond(p[k]) => In(j, p)
      /\ ~f => \A j \in l : In(j, q) \/ In(j, p) \/ j <= z \/ Lost(j, l, q, sub)
  BY DEF ReplayHolds
<1>6. Over(p, m)
  BY <1>4 DEF Over
<1>7. \A j \in m, k \in 1 .. Len(p) : z < j /\ Millisecond(j) < Millisecond(p[k]) => In(j, p)
  <2>1. \A k \in 1 .. Len(p) : ~(Millisecond(i) < Millisecond(p[k]))
    <3>1. \A k \in 1 .. Len(p) : p[k] \in l /\ p[k] \in Ids
      BY <1>4 DEF Over
    <3> QED
      BY <1>1, <1>2, <3>1
  <2> QED
    BY <1>5, <2>1
<1>8. ~f => \A j \in m : In(j, q2) \/ In(j, p) \/ j <= z \/ Lost(j, m, q2, sub2)
  <2> HIDE DEF m
  <2>1. \A j \in m : j = i \/ j \in l
    BY DEF m
  <2> QED
    BY <1>3, <1>5, <2>1
<1> HIDE DEF m
<1>9. ReplayHolds(m, q2, sub2, p, f, c, d, z)
  BY <1>4, <1>6, <1>7, <1>8 DEF ReplayHolds
<1> QED
  BY <1>9 DEF m

LEMMA LiveSeesGrowth ==
  ASSUME NEW l \in SUBSET Ids, NEW i, Fresh(i, l), NEW q, NEW sub, NEW q2, NEW sub2,
         QueueHolds(l, q, sub), Published(i, q, sub, q2, sub2),
         NEW d, NEW z \in l \cup {NoId}, LiveHolds(l, q, sub, d, z)
  PROVE  LiveHolds(l \cup {i}, q2, sub2, d, z)
<1> DEFINE m == l \cup {i}
<1>1. \A j \in Ids : Millisecond(j) \in Nat
  BY IdFacts, MillisecondFacts
<1>2. /\ i \in Ids /\ i \notin l /\ \A j \in l : Millisecond(j) <= Millisecond(i)
  BY DEF Fresh
<1>3. /\ \A j \in l : In(j, q2) <=> In(j, q)
      /\ \A j \in l : Lost(j, l, q, sub) => Lost(j, m, q2, sub2)
      /\ In(i, q2) \/ Lost(i, m, q2, sub2)
  BY QueueGrows
<1>4. ASSUME NEW k \in 1 .. Len(q2), q2[k] \in m, q2[k] # i
      PROVE  \E n \in 1 .. Len(q) : q[n] = q2[k] /\ q[n] \in l
  <2>1. q2[k] \in l /\ In(q2[k], q2)
    BY <1>4 DEF In
  <2>2. In(q2[k], q)
    BY <1>3, <2>1
  <2> QED
    BY <2>1, <2>2 DEF In
<1>5. /\ d # NoId => z # NoId /\ Millisecond(d) <= Millisecond(z)
      /\ z # NoId /\ z # d => ~In(z, q) /\ NotAfter(z, q, l)
      /\ z # NoId => \A j \in l : \/ In(j, q) \/ Millisecond(j) <= Millisecond(z)
                                  \/ Lost(j, l, q, sub)
      /\ z = NoId => \A j \in l : In(j, q) \/ NotAfter(j, q, l) \/ Lost(j, l, q, sub)
  BY DEF LiveHolds
<1>6. z # NoId => z \in l
  OBVIOUS
<1>7. z # NoId /\ z # d => ~In(z, q2)
  BY <1>3, <1>5, <1>6
<1>8. ASSUME NEW j \in l, NotAfter(j, q, l)
      PROVE  NotAfter(j, q2, m)
  <2> SUFFICES ASSUME NEW k \in 1 .. Len(q2), q2[k] \in m
               PROVE  Millisecond(j) <= Millisecond(q2[k])
    BY DEF NotAfter
  <2>1. CASE q2[k] = i
    BY <1>2, <2>1
  <2>2. CASE q2[k] # i
    <3>1. PICK n \in 1 .. Len(q) : q[n] = q2[k] /\ q[n] \in l
      BY <1>4, <2>2
    <3> QED
      BY <1>8, <3>1 DEF NotAfter
  <2> QED
    BY <2>1, <2>2
<1>9. \A j \in m : j = i \/ j \in l
  OBVIOUS
<1> HIDE DEF m
<1>10. z # NoId => \A j \in m : \/ In(j, q2) \/ Millisecond(j) <= Millisecond(z)
                                \/ Lost(j, m, q2, sub2)
  BY <1>3, <1>5, <1>9
<1>11. z = NoId => \A j \in m : In(j, q2) \/ NotAfter(j, q2, m) \/ Lost(j, m, q2, sub2)
  BY <1>3, <1>5, <1>8, <1>9
<1>12. LiveHolds(m, q2, sub2, d, z)
  BY <1>5, <1>6, <1>7, <1>8, <1>10, <1>11 DEF LiveHolds
<1> QED
  BY <1>12 DEF m

-----------------------------------------------------------------------------
(* A frame that reaches the client.                                        *)

(* Nothing that the client lacks lies between its last event and e.        *)
Follower(e, z, l) ==
  z # NoId => /\ z # e /\ Millisecond(z) <= Millisecond(e)
              /\ \A i \in l : ~(Millisecond(z) < Millisecond(i) /\ Millisecond(i) < Millisecond(e))

LEMMA DeliverKeeps ==
  ASSUME NEW l \in SUBSET Ids, NEW e \in l, NEW z, NEW r, NEW s,
         ClientHolds(l, z, r, s), Follower(e, z, l)
  PROVE  ClientHolds(l, e, Append(r, e), IF s = NoId THEN e ELSE s)
<1> DEFINE t == Append(r, e)
           first == IF s = NoId THEN e ELSE s
<1>1. /\ \A j \in Ids : Millisecond(j) \in Nat
      /\ NoId \notin Ids
  BY IdFacts, MillisecondFacts
<1>2. e \in Ids /\ e # NoId /\ NoId \notin l
  BY <1>1
<1>3. /\ z \in l \cup {NoId} /\ s \in l \cup {NoId} /\ (z = NoId <=> s = NoId)
      /\ r \in Seq(Ids) /\ Over(r, l)
      /\ IF r = <<>> THEN z = s ELSE z = r[Len(r)]
  BY DEF ClientHolds
<1>4. /\ \A j, k \in 1 .. Len(r) : j < k => Millisecond(r[j]) <= Millisecond(r[k])
      /\ \A k \in 1 .. Len(r) - 1 : r[k] # r[k + 1]
  BY DEF ClientHolds
<1>5. s # NoId => \A i \in l : Millisecond(s) < Millisecond(i) /\ Millisecond(i) < Millisecond(z)
                             => \E k \in 1 .. Len(r) : Millisecond(r[k]) = Millisecond(i)
  BY DEF ClientHolds
<1>6. /\ t \in Seq(Ids) /\ Len(t) = Len(r) + 1 /\ Len(r) \in Nat
      /\ \A k \in 1 .. Len(r) : t[k] = r[k]
      /\ t[Len(r) + 1] = e
  BY <1>2, <1>3, InAppend
<1>7. t # <<>> /\ e = t[Len(t)]
  BY <1>6
<1> HIDE DEF t
<1>8. \A k \in 1 .. Len(t) : \/ k \in 1 .. Len(r) /\ t[k] = r[k]
                             \/ k = Len(r) + 1 /\ t[k] = e
  BY <1>6
<1>9. \A k \in 1 .. Len(r) : r[k] \in l /\ r[k] # NoId
  BY <1>2, <1>3 DEF Over
<1>10. Over(t, l)
  BY <1>8, <1>9 DEF Over
<1>11. r # <<>> => Len(r) \in 1 .. Len(r) /\ z = r[Len(r)] /\ z # NoId /\ z \in l
  <2>1. r # <<>> => Len(r) # 0
    BY <1>3
  <2>2. r # <<>> => Len(r) \in 1 .. Len(r)
    BY <1>6, <2>1
  <2> QED
    BY <1>3, <1>9, <2>2
<1>12. z # NoId => z # e /\ Millisecond(z) <= Millisecond(e)
  BY DEF Follower
<1>13. ASSUME NEW j \in 1 .. Len(t), NEW k \in 1 .. Len(t), j < k
       PROVE  Millisecond(t[j]) <= Millisecond(t[k])
  <2>1. j \in 1 .. Len(r) /\ t[j] = r[j]
    BY <1>6, <1>8, <1>13
  <2>2. r # <<>>
    BY <1>6, <2>1
  <2>3. CASE k \in 1 .. Len(r) /\ t[k] = r[k]
    BY <1>4, <1>13, <2>1, <2>3
  <2>4. CASE k = Len(r) + 1 /\ t[k] = e
    <3>1. Millisecond(r[j]) <= Millisecond(z)
      <4>1. j < Len(r) \/ j = Len(r)
        BY <1>6, <2>1
      <4>2. Millisecond(z) \in Nat
        BY <1>1, <1>11, <2>2
      <4> QED
        BY <1>4, <1>11, <2>1, <2>2, <4>1, <4>2
    <3>2. Millisecond(z) <= Millisecond(e)
      BY <1>11, <1>12, <2>2
    <3>3. Millisecond(r[j]) \in Nat /\ Millisecond(z) \in Nat /\ Millisecond(e) \in Nat
      BY <1>1, <1>2, <1>9, <1>11, <2>1, <2>2
    <3> QED
      BY <2>1, <2>4, <3>1, <3>2, <3>3
  <2> QED
    BY <1>8, <2>3, <2>4
<1>14. ASSUME NEW k \in 1 .. Len(t) - 1
       PROVE  t[k] # t[k + 1]
  <2>1. k \in 1 .. Len(r) /\ t[k] = r[k]
    BY <1>6
  <2>2. CASE k = Len(r)
    <3>1. r # <<>>
      BY <1>6, <2>1
    <3>2. t[k] = z /\ t[k + 1] = e
      BY <1>6, <1>11, <2>1, <2>2, <3>1
    <3> QED
      BY <1>11, <1>12, <3>1, <3>2
  <2>3. CASE k # Len(r)
    <3>1. k \in 1 .. Len(r) - 1 /\ k + 1 \in 1 .. Len(r)
      BY <1>6, <2>1, <2>3
    <3> QED
      BY <1>4, <1>6, <2>1, <3>1
  <2> QED
    BY <2>2, <2>3
<1>15. ASSUME NEW i \in l, Millisecond(first) < Millisecond(i), Millisecond(i) < Millisecond(e)
       PROVE  \E k \in 1 .. Len(t) : Millisecond(t[k]) = Millisecond(i)
  <2>1. Millisecond(e) \in Nat /\ Millisecond(i) \in Nat
    BY <1>1
  <2>2. s # NoId /\ first = s /\ z # NoId /\ z \in l /\ s \in l
    BY <1>3, <1>15, <2>1
  <2>3. Millisecond(z) \in Nat /\ Millisecond(s) \in Nat
    BY <1>1, <2>2
  <2>4. ~(Millisecond(z) < Millisecond(i))
    BY <1>15, <2>2 DEF Follower
  <2>5. CASE Millisecond(i) < Millisecond(z)
    <3>1. PICK k \in 1 .. Len(r) : Millisecond(r[k]) = Millisecond(i)
      BY <1>5, <1>15, <2>2, <2>5
    <3>2. k \in 1 .. Len(t) /\ t[k] = r[k]
      BY <1>6
    <3> QED
      BY <3>1, <3>2
  <2>6. CASE Millisecond(i) = Millisecond(z)
    <3>1. r # <<>>
      BY <1>3, <1>15, <2>2, <2>3, <2>6
    <3>2. Len(r) \in 1 .. Len(t) /\ t[Len(r)] = z
      BY <1>6, <1>11, <3>1
    <3> QED
      BY <2>6, <3>2
  <2> QED
    BY <2>1, <2>3, <2>4, <2>5, <2>6
<1>16. first \in l \cup {NoId} /\ first # NoId
  BY <1>2, <1>3
<1> HIDE DEF first
<1>17. ClientHolds(l, e, t, first)
  BY <1>2, <1>6, <1>7, <1>10, <1>13, <1>14, <1>15, <1>16 DEF ClientHolds
<1> QED
  BY <1>17 DEF t, first

-----------------------------------------------------------------------------
(* The catch-up.                                                           *)

(* The next event of the page goes to the client.                          *)
LEMMA ReplayAdvances ==
  ASSUME NEW l \in SUBSET Ids, NEW q, NEW sub, NEW p, NEW f, NEW c, NEW d, NEW z \in l \cup {NoId},
         ReplayHolds(l, q, sub, p, f, c, d, z), p # <<>>
  PROVE  /\ Head(p) \in l /\ Follower(Head(p), z, l)
         /\ ReplayHolds(l, q, sub, Tail(p), f, c, Head(p), Head(p))
<1> DEFINE e == Head(p)
           t == Tail(p)
<1>1. /\ \A j \in Ids : Millisecond(j) \in Nat /\ j \in Nat
      /\ \A i, j \in Ids : i <= j => Millisecond(i) <= Millisecond(j)
      /\ NoId \notin Ids
  BY IdFacts, MillisecondFacts
<1>2. /\ z # NoId /\ d = z
      /\ p \in Seq(Ids) /\ Over(p, l) /\ Increasing(p)
      /\ \A k \in 1 .. Len(p) : z < p[k]
      /\ c = p[Len(p)]
  BY DEF ReplayHolds
<1>3. /\ \A i \in l, k \in 1 .. Len(p) :
           z < i /\ Millisecond(i) < Millisecond(p[k]) => In(i, p)
      /\ ~f => \A i \in l : In(i, q) \/ In(i, p) \/ i <= z \/ Lost(i, l, q, sub)
  BY DEF ReplayHolds
<1>4. /\ t \in Seq(Ids) /\ Len(p) \in Nat \ {0} /\ Len(t) = Len(p) - 1
      /\ e = p[1] /\ e \in Ids
      /\ \A k \in 1 .. Len(p) - 1 : t[k] = p[k + 1]
      /\ \A i : In(i, p) <=> i = e \/ In(i, t)
  BY <1>2, InTail
<1>5. Over(t, l) /\ e \in l /\ Increasing(t)
  BY <1>2, TailKeeps
<1> HIDE DEF e, t
<1>6. 1 \in 1 .. Len(p) /\ z \in Ids /\ z < e /\ e # NoId
  BY <1>1, <1>2, <1>4
<1>7. \A k \in 1 .. Len(t) : k + 1 \in 1 .. Len(p) /\ 1 < k + 1 /\ t[k] = p[k + 1]
  BY <1>4
<1>8. \A k \in 1 .. Len(t) : e < t[k]
  BY <1>2, <1>4, <1>6, <1>7 DEF Increasing
<1>9. \A i : In(i, p) => e <= i
  <2> SUFFICES ASSUME NEW i, In(i, p)  PROVE e <= i
    OBVIOUS
  <2>1. CASE i = e
    BY <1>1, <1>4, <2>1
  <2>2. CASE In(i, t)
    <3>1. PICK k \in 1 .. Len(t) : t[k] = i
      BY <2>2 DEF In
    <3>2. i \in Ids
      BY <1>5, <3>1 DEF Over
    <3> QED
      BY <1>1, <1>4, <1>8, <3>1, <3>2
  <2> QED
    BY <1>4, <2>1, <2>2
<1>10. \A i \in l : ~(Millisecond(z) < Millisecond(i) /\ Millisecond(i) < Millisecond(e))
  <2> SUFFICES ASSUME NEW i \in l, Millisecond(z) < Millisecond(i), Millisecond(i) < Millisecond(e)
               PROVE  FALSE
    OBVIOUS
  <2>1. i \in Ids /\ i \in Nat /\ z \in Nat /\ e \in Nat
    BY <1>1, <1>4, <1>6
  <2>2. /\ Millisecond(i) \in Nat /\ Millisecond(z) \in Nat /\ Millisecond(e) \in Nat
        /\ i <= z => Millisecond(i) <= Millisecond(z)
        /\ e <= i => Millisecond(e) <= Millisecond(i)
    BY <1>1, <1>4, <1>6, <2>1
  <2>3. z < i /\ ~(e <= i)
    BY <2>1, <2>2
  <2> QED
    BY <1>3, <1>4, <1>6, <1>9, <2>3
<1>11. Follower(e, z, l)
  <2>1. z # e /\ Millisecond(z) <= Millisecond(e)
    BY <1>1, <1>4, <1>6
  <2> QED
    BY <1>10, <2>1 DEF Follower
<1>12. IF t = <<>> THEN c = e ELSE c = t[Len(t)]
  <2>1. CASE t = <<>>
    <3>1. Len(t) = 0
      BY <2>1
    <3>2. Len(p) = 1
      BY <1>4, <3>1
    <3> QED
      BY <1>2, <1>4, <2>1, <3>2
  <2>2. CASE t # <<>>
    <3>1. Len(t) # 0
      BY <1>4, <2>2
    <3>2. Len(t) \in 1 .. Len(p) - 1 /\ Len(t) + 1 = Len(p)
      BY <1>4, <3>1
    <3> QED
      BY <1>2, <1>4, <2>2, <3>2
  <2> QED
    BY <2>1, <2>2
<1>13. ASSUME NEW i \in l, NEW k \in 1 .. Len(t), e < i, Millisecond(i) < Millisecond(t[k])
       PROVE  In(i, t)
  <2>1. i \in Nat /\ z \in Nat /\ e \in Nat
    BY <1>1, <1>4, <1>6
  <2>2. z < i /\ i # e
    BY <1>6, <1>13, <2>1
  <2>3. In(i, p)
    BY <1>3, <1>7, <1>13, <2>2
  <2> QED
    BY <1>4, <2>2, <2>3
<1>14. ASSUME ~f, NEW i \in l
       PROVE  In(i, q) \/ In(i, t) \/ i <= e \/ Lost(i, l, q, sub)
  <2>1. i \in Nat /\ z \in Nat /\ e \in Nat
    BY <1>1, <1>4, <1>6
  <2>2. i <= z \/ i = e => i <= e
    BY <1>6, <2>1
  <2> QED
    BY <1>3, <1>4, <1>14, <2>2
<1>15. ReplayHolds(l, q, sub, t, f, c, e, e)
  BY <1>4, <1>5, <1>6, <1>8, <1>12, <1>13, <1>14 DEF ReplayHolds
<1> QED
  BY <1>5, <1>11, <1>15 DEF e, t

(* A page is read after the client's last event.                           *)
LEMMA ReplayReads ==
  ASSUME log \subseteq Ids, NEW z \in log, ReadPage(z), NEW q, NEW sub
  PROVE  ReplayHolds(log, q, sub, page', full', cursor', z, z)
<1> DEFINE p == Query(z, PageSize)
<1>1. /\ \A j \in Ids : Millisecond(j) \in Nat /\ j \in Nat
      /\ \A i, j \in Ids : i <= j => Millisecond(i) <= Millisecond(j)
      /\ NoId \notin Ids
  BY IdFacts, MillisecondFacts
<1>2. PageSize \in Nat
  BY StreamAssumption
<1>3. /\ p \in Seq(Ids) /\ Len(p) <= PageSize
      /\ \A k \in 1 .. Len(p) : p[k] \in Matching(log, z)
      /\ Increasing(p)
      /\ \A i \in Matching(log, z), k \in 1 .. Len(p) : i < p[k] => In(i, p)
      /\ Len(p) < PageSize => \A i \in Matching(log, z) : In(i, p)
  BY <1>2, QueryFacts DEF In, Increasing
<1>4. page' = p /\ full' = (Len(page') = PageSize)
      /\ cursor' = IF page' = <<>> THEN z ELSE page'[Len(page')]
  BY DEF ReadPage
<1> HIDE DEF p
<1>5. z \in Ids /\ z # NoId
  BY <1>1
<1>6. \A i : i \in Matching(log, z) <=> i \in log /\ i > z
  BY <1>5 DEF Matching
<1>7. \A k \in 1 .. Len(p) : p[k] \in log /\ p[k] \in Ids /\ z < p[k]
  BY <1>1, <1>3, <1>5, <1>6
<1>8. ASSUME NEW i \in log, NEW k \in 1 .. Len(p), z < i, Millisecond(i) < Millisecond(p[k])
      PROVE  In(i, p)
  <2>1. i \in Nat /\ z \in Nat /\ p[k] \in Nat /\ i \in Ids
    BY <1>1, <1>5, <1>7
  <2>2. /\ Millisecond(i) \in Nat /\ Millisecond(p[k]) \in Nat
        /\ p[k] <= i => Millisecond(p[k]) <= Millisecond(i)
    BY <1>1, <1>7, <2>1
  <2>3. i < p[k] /\ i > z
    BY <1>8, <2>1, <2>2
  <2> QED
    BY <1>3, <1>6, <2>3
<1>9. ASSUME ~full', NEW i \in log
      PROVE  In(i, p) \/ i <= z
  <2>1. i \in Nat /\ z \in Nat
    BY <1>1, <1>5
  <2>2. Len(p) < PageSize
    <3>1. Len(p) \in Nat /\ Len(p) <= PageSize
      BY <1>3
    <3>2. Len(p) # PageSize
      <4>1. Len(page') # PageSize
        BY <1>4, <1>9
      <4> QED
        BY <1>4, <4>1
    <3> QED
      BY <1>2, <3>1, <3>2
  <2> QED
    BY <1>3, <1>6, <2>1, <2>2
<1>10. Over(p, log)
  BY <1>7 DEF Over
<1>11. ReplayHolds(log, q, sub, p, full', cursor', z, z)
  BY <1>3, <1>4, <1>5, <1>7, <1>8, <1>9, <1>10 DEF ReplayHolds
<1> QED
  BY <1>4, <1>11

(* After a short page the rest comes from the subscription.                *)
LEMMA ReplayEnds ==
  ASSUME NEW l \in SUBSET Ids, NEW q, NEW sub, NEW f, NEW c, NEW d, NEW z \in l \cup {NoId},
         ReplayHolds(l, q, sub, <<>>, f, c, d, z), ~f
  PROVE  LiveHolds(l, q, sub, d, z)
<1>1. /\ \A j \in Ids : Millisecond(j) \in Nat /\ j \in Nat
      /\ \A i, j \in Ids : i <= j => Millisecond(i) <= Millisecond(j)
  BY IdFacts, MillisecondFacts
<1>2. /\ z # NoId /\ d = z /\ z \in Ids
      /\ \A i \in l : In(i, q) \/ In(i, <<>>) \/ i <= z \/ Lost(i, l, q, sub)
  BY DEF ReplayHolds
<1>3. \A i : ~In(i, <<>>)
  <2>1. ~ \E k : k \in 1 .. Len(<<>>)
    OBVIOUS
  <2> QED
    BY <2>1 DEF In
<1>4. \A i \in l : In(i, q) \/ Millisecond(i) <= Millisecond(z) \/ Lost(i, l, q, sub)
  BY <1>1, <1>2, <1>3
<1>5. Millisecond(d) <= Millisecond(z)
  BY <1>1, <1>2
<1> QED
  BY <1>2, <1>4, <1>5 DEF LiveHolds

-----------------------------------------------------------------------------
(* The live tail.                                                          *)

LEMMA QueueShrinks ==
  ASSUME NEW l \in SUBSET Ids, NEW q, NEW sub, QueueHolds(l, q, sub), q # <<>>
  PROVE  /\ QueueHolds(l, Tail(q), sub)
         /\ Head(q) \in l \cup {CLOSE}
         /\ Head(q) \in l => /\ ~In(Head(q), Tail(q))
                             /\ \A i \in l : In(i, q) \/ NotBefore(i, q, l) =>
                                  Millisecond(Head(q)) <= Millisecond(i)
<1> DEFINE e == Head(q)
           t == Tail(q)
<1>1. /\ \A j \in Ids : Millisecond(j) \in Nat
      /\ NoId \notin Ids
  BY IdFacts, MillisecondFacts
<1>2. /\ q \in Seq(Ids \cup {CLOSE}) /\ sub \in BOOLEAN
      /\ \A k \in 1 .. Len(q) : q[k] = CLOSE => k = Len(q) /\ ~sub
      /\ Over(q, l \cup {CLOSE})
      /\ Follows(q, l)
  BY DEF QueueHolds
<1>3. /\ t \in Seq(Ids \cup {CLOSE}) /\ Len(q) \in Nat \ {0} /\ Len(t) = Len(q) - 1
      /\ e = q[1]
      /\ \A k \in 1 .. Len(q) - 1 : t[k] = q[k + 1]
      /\ \A i : In(i, q) <=> i = e \/ In(i, t)
  BY <1>2, InTail
<1>4. Over(t, l \cup {CLOSE}) /\ e \in l \cup {CLOSE} /\ Follows(t, l)
  BY <1>2, TailKeeps
<1> HIDE DEF e, t
<1>5. 1 \in 1 .. Len(q)
  BY <1>3
<1>6. \A k \in 1 .. Len(t) : k + 1 \in 1 .. Len(q) /\ 1 < k + 1 /\ t[k] = q[k + 1]
                             /\ (k + 1 = Len(q) => k = Len(t))
  BY <1>3
<1>7. QueueHolds(l, t, sub)
  <2>1. \A k \in 1 .. Len(t) : t[k] = CLOSE => k = Len(t) /\ ~sub
    BY <1>2, <1>6
  <2> QED
    BY <1>2, <1>3, <1>4, <2>1 DEF QueueHolds
<1>8. ASSUME e \in l
      PROVE  ~In(e, t)
  <2> SUFFICES ASSUME NEW k \in 1 .. Len(t), t[k] = e
               PROVE  FALSE
    BY DEF In
  <2> QED
    BY <1>2, <1>3, <1>5, <1>6, <1>8 DEF Follows
<1>9. ASSUME e \in l, NEW i \in l, In(i, q)
      PROVE  Millisecond(e) <= Millisecond(i)
  <2>1. CASE i = e
    BY <1>1, <2>1
  <2>2. CASE In(i, t)
    <3>1. PICK k \in 1 .. Len(t) : t[k] = i
      BY <2>2 DEF In
    <3> QED
      BY <1>2, <1>3, <1>5, <1>6, <1>9, <3>1 DEF Follows
  <2> QED
    BY <1>3, <1>9, <2>1, <2>2
<1>10. ASSUME e \in l, NEW i \in l, NotBefore(i, q, l)
       PROVE  Millisecond(e) <= Millisecond(i)
  BY <1>3, <1>5, <1>10 DEF NotBefore
<1> QED
  BY <1>4, <1>7, <1>8, <1>9, <1>10 DEF e, t

(* An event of the subscription that the catch-up had.                     *)
LEMMA LiveSkips ==
  ASSUME NEW l \in SUBSET Ids, NEW q, NEW sub, QueueHolds(l, q, sub), q # <<>>,
         NEW d \in l \cup {NoId}, NEW z \in l \cup {NoId}, LiveHolds(l, q, sub, d, z),
         Head(q) \in l, d # NoId, Head(q) <= d
  PROVE  LiveHolds(l, Tail(q), sub, d, z)
<1>1. /\ \A j \in Ids : Millisecond(j) \in Nat /\ j \in Nat
      /\ \A i, j \in Ids : i <= j => Millisecond(i) <= Millisecond(j)
  BY IdFacts, MillisecondFacts
<1>2. /\ z # NoId /\ Millisecond(d) <= Millisecond(z)
      /\ z # d => ~In(z, q) /\ NotAfter(z, q, l)
      /\ \A i \in l : In(i, q) \/ Millisecond(i) <= Millisecond(z) \/ Lost(i, l, q, sub)
  BY DEF LiveHolds
<1>3. /\ Len(q) \in Nat \ {0} /\ Len(Tail(q)) = Len(q) - 1
      /\ \A k \in 1 .. Len(q) - 1 : Tail(q)[k] = q[k + 1]
      /\ \A i : In(i, q) <=> i = Head(q) \/ In(i, Tail(q))
  BY InTail DEF QueueHolds
<1>4. \A i : NotBefore(i, q, l) => NotBefore(i, Tail(q), l)
  BY TailKeeps DEF QueueHolds
<1>5. Millisecond(Head(q)) <= Millisecond(z)
  <2>1. d \in Ids /\ z \in Ids /\ Head(q) \in Ids
    BY <1>2
  <2>2. Millisecond(Head(q)) <= Millisecond(d)
    BY <1>1, <2>1
  <2> QED
    BY <1>1, <1>2, <2>1, <2>2
<1>6. \A k \in 1 .. Len(Tail(q)) : k + 1 \in 1 .. Len(q) /\ Tail(q)[k] = q[k + 1]
  BY <1>3
<1>7. z # d => ~In(z, Tail(q)) /\ NotAfter(z, Tail(q), l)
  BY <1>2, <1>3, <1>6 DEF NotAfter
<1>8. \A i \in l : In(i, Tail(q)) \/ Millisecond(i) <= Millisecond(z) \/ Lost(i, l, Tail(q), sub)
  BY <1>2, <1>3, <1>4, <1>5 DEF Lost
<1> QED
  BY <1>2, <1>7, <1>8 DEF LiveHolds

(* An event that is new to the client.                                     *)
LEMMA LiveAdvances ==
  ASSUME NEW l \in SUBSET Ids, NEW q, NEW sub, QueueHolds(l, q, sub), q # <<>>,
         NEW d \in l \cup {NoId}, NEW z \in l \cup {NoId}, LiveHolds(l, q, sub, d, z),
         Head(q) \in l, d = NoId \/ ~(Head(q) <= d)
  PROVE  /\ Follower(Head(q), z, l)
         /\ LiveHolds(l, Tail(q), sub, d, Head(q))
<1> DEFINE e == Head(q)
           t == Tail(q)
<1>1. /\ \A j \in Ids : Millisecond(j) \in Nat /\ j \in Nat
      /\ \A i, j \in Ids : i <= j => Millisecond(i) <= Millisecond(j)
      /\ NoId \notin Ids
  BY IdFacts, MillisecondFacts
<1>2. /\ d # NoId => z # NoId /\ Millisecond(d) <= Millisecond(z)
      /\ z # NoId /\ z # d => ~In(z, q) /\ NotAfter(z, q, l)
      /\ z # NoId => \A i \in l : In(i, q) \/ Millisecond(i) <= Millisecond(z) \/ Lost(i, l, q, sub)
      /\ z = NoId => \A i \in l : In(i, q) \/ NotAfter(i, q, l) \/ Lost(i, l, q, sub)
  BY DEF LiveHolds
<1>3. /\ Len(q) \in Nat \ {0} /\ Len(t) = Len(q) - 1 /\ e = q[1]
      /\ \A k \in 1 .. Len(q) - 1 : t[k] = q[k + 1]
      /\ \A i : In(i, q) <=> i = e \/ In(i, t)
  BY InTail DEF QueueHolds
<1>4. /\ ~In(e, t) /\ QueueHolds(l, t, sub)
      /\ \A i \in l : In(i, q) \/ NotBefore(i, q, l) => Millisecond(e) <= Millisecond(i)
  BY QueueShrinks
<1>5. \A i : NotBefore(i, q, l) => NotBefore(i, t, l)
  BY TailKeeps DEF QueueHolds
<1> HIDE DEF e, t
<1>6. e \in l /\ e \in Ids /\ e # NoId /\ 1 \in 1 .. Len(q) /\ (d = NoId \/ ~(e <= d))
  BY <1>1, <1>3 DEF e
<1>7. ASSUME z # NoId
      PROVE  z # e /\ Millisecond(z) <= Millisecond(e)
  <2>1. z \in Ids /\ z \in Nat /\ e \in Nat
    BY <1>1, <1>6, <1>7
  <2>2. CASE z = d
    <3>1. ~(e <= z)
      BY <1>6, <1>7, <2>2
    <3>2. z <= e /\ z # e
      BY <2>1, <3>1
    <3> QED
      BY <1>1, <1>6, <2>1, <3>2
  <2>3. CASE z # d
    BY <1>2, <1>3, <1>6, <1>7, <2>3 DEF NotAfter
  <2> QED
    BY <2>2, <2>3
<1>8. \A i \in l : Lost(i, l, q, sub) => NotBefore(i, q, l)
  BY DEF Lost
<1>9. ASSUME z # NoId, NEW i \in l, Millisecond(z) < Millisecond(i), Millisecond(i) < Millisecond(e)
      PROVE  FALSE
  <2>1. Millisecond(z) \in Nat /\ Millisecond(i) \in Nat /\ Millisecond(e) \in Nat
    BY <1>1, <1>6, <1>9
  <2>2. ~(Millisecond(i) <= Millisecond(z)) /\ ~(Millisecond(e) <= Millisecond(i))
    BY <1>9, <2>1
  <2> QED
    BY <1>2, <1>4, <1>8, <1>9, <2>2
<1>10. Follower(e, z, l)
  BY <1>7, <1>9 DEF Follower
<1>11. d # NoId => Millisecond(d) <= Millisecond(e)
  <2> SUFFICES ASSUME d # NoId  PROVE Millisecond(d) <= Millisecond(e)
    OBVIOUS
  <2>1. d \in Ids
    OBVIOUS
  <2>2. d \in Nat /\ e \in Nat /\ ~(e <= d)
    BY <1>1, <1>6, <2>1
  <2>3. d <= e
    BY <2>2
  <2> QED
    BY <1>1, <1>6, <2>1, <2>3
<1>12. NotAfter(e, t, l)
  <2>1. \A k \in 1 .. Len(t) : k + 1 \in 1 .. Len(q) /\ t[k] = q[k + 1]
    BY <1>3
  <2>2. \A k \in 1 .. Len(t) : In(t[k], q)
    BY <2>1 DEF In
  <2> QED
    BY <1>4, <2>2 DEF NotAfter
<1>13. ASSUME NEW i \in l
       PROVE  In(i, t) \/ Millisecond(i) <= Millisecond(e) \/ Lost(i, l, t, sub)
  <2>1. Millisecond(i) \in Nat /\ Millisecond(e) \in Nat
    BY <1>1, <1>6
  <2>2. CASE z = NoId
    <3>1. NotAfter(i, q, l) => Millisecond(i) <= Millisecond(e)
      BY <1>3, <1>6 DEF NotAfter
    <3>2. i = e => Millisecond(i) <= Millisecond(e)
      BY <2>1
    <3>3. Lost(i, l, q, sub) => Lost(i, l, t, sub)
      BY <1>5 DEF Lost
    <3> QED
      BY <1>2, <1>3, <2>2, <3>1, <3>2, <3>3
  <2>3. CASE z # NoId
    <3>1. i = e => Millisecond(i) <= Millisecond(e)
      BY <2>1
    <3>2. Millisecond(i) <= Millisecond(z) => Millisecond(i) <= Millisecond(e)
      <4>1. z \in Ids
        BY <2>3
      <4>2. Millisecond(z) \in Nat /\ Millisecond(z) <= Millisecond(e)
        BY <1>1, <1>7, <2>3, <4>1
      <4> QED
        BY <2>1, <4>2
    <3>3. Lost(i, l, q, sub) => Lost(i, l, t, sub)
      BY <1>5 DEF Lost
    <3> QED
      BY <1>2, <1>3, <2>3, <3>1, <3>2, <3>3
  <2> QED
    BY <2>2, <2>3
<1>14. LiveHolds(l, t, sub, d, e)
  BY <1>4, <1>6, <1>11, <1>12, <1>13 DEF LiveHolds
<1> QED
  BY <1>10, <1>14 DEF e, t

-----------------------------------------------------------------------------
(* The walk.                                                               *)

LEMMA WalkAdvances ==
  ASSUME log \subseteq Ids, WalkHolds(log, walk), NEW limit \in Nat \ {0}, GetPage(limit)
  PROVE  WalkHolds(log, walk')
<1> DEFINE events == Query(walk.after, limit + 1)
           n == IF Len(events) > limit THEN limit ELSE Len(events)
           shown == SubSeq(events, 1, n)
           seen == walk.seen \o shown
           at == IF walk.seen = <<>> THEN log ELSE walk.at
           next == NextCursor(events, limit)
<1>1. walk' = [on |-> next # NoId, after |-> next, seen |-> seen, at |-> at] /\ walk.on
  BY DEF GetPage
<1>2. /\ \A j \in Ids : j \in Nat
      /\ NoId \notin Ids
  BY IdFacts
<1>3. /\ events \in Seq(Ids) /\ Len(events) <= limit + 1
      /\ \A k \in 1 .. Len(events) : events[k] \in Matching(log, walk.after)
      /\ Increasing(events)
      /\ \A i \in Matching(log, walk.after), k \in 1 .. Len(events) :
           i < events[k] => \E m \in 1 .. Len(events) : events[m] = i
      /\ Len(events) < limit + 1 =>
           \A i \in Matching(log, walk.after) : \E m \in 1 .. Len(events) : events[m] = i
  BY QueryFacts DEF Increasing
<1> HIDE DEF events
<1>4. n \in Nat /\ n <= Len(events) /\ n <= limit /\ Len(events) \in Nat
      /\ Len(events) \in {n, n + 1} /\ (Len(events) > limit <=> Len(events) = n + 1)
      /\ (Len(events) > limit => n = limit)
  <2>1. Len(events) \in Nat
    BY <1>3
  <2> QED
    BY <1>3, <2>1
<1> HIDE DEF n
<1>5. /\ shown \in Seq(Ids) /\ Len(shown) = n
      /\ \A k \in 1 .. n : shown[k] = events[k]
  BY <1>3, <1>4
<1>6. /\ walk.seen \in Seq(Ids) /\ Over(walk.seen, log) /\ Increasing(walk.seen)
      /\ walk.at \subseteq log
      /\ \/ walk.seen = <<>> /\ walk.after = NoId
         \/ /\ walk.seen # <<>> /\ walk.after = walk.seen[Len(walk.seen)]
            /\ \A i \in walk.at : i <= walk.after => In(i, walk.seen)
  BY <1>1 DEF WalkHolds
<1> HIDE DEF shown
<1>7. /\ seen \in Seq(Ids) /\ Len(seen) = Len(walk.seen) + n /\ Len(walk.seen) \in Nat
      /\ \A k \in 1 .. Len(walk.seen) : seen[k] = walk.seen[k]
      /\ \A k \in 1 .. n : seen[Len(walk.seen) + k] = shown[k]
  <2> DEFINE old == walk.seen
  <2>1. old \in Seq(Ids)
    BY <1>6
  <2> HIDE DEF old
  <2>2. /\ old \o shown \in Seq(Ids) /\ Len(old \o shown) = Len(old) + n /\ Len(old) \in Nat
        /\ \A k \in 1 .. Len(old) : (old \o shown)[k] = old[k]
        /\ \A k \in 1 .. n : (old \o shown)[Len(old) + k] = shown[k]
    BY <1>4, <1>5, <2>1
  <2> QED
    BY <2>2 DEF old
<1> HIDE DEF seen
<1>8. \A k \in 1 .. Len(seen) :
        \/ k \in 1 .. Len(walk.seen) /\ seen[k] = walk.seen[k]
        \/ \E m \in 1 .. n : k = Len(walk.seen) + m /\ seen[k] = events[m]
  <2> SUFFICES ASSUME NEW k \in 1 .. Len(seen), k \notin 1 .. Len(walk.seen)
               PROVE  \E m \in 1 .. n : k = Len(walk.seen) + m /\ seen[k] = events[m]
    BY <1>7
  <2>1. k - Len(walk.seen) \in 1 .. n /\ k = Len(walk.seen) + (k - Len(walk.seen))
    BY <1>4, <1>7
  <2> QED
    BY <1>5, <1>7, <2>1
<1>9. /\ \A i : In(i, walk.seen) => In(i, seen)
      /\ \A m \in 1 .. n : In(events[m], seen)
  <2>1. ASSUME NEW i, In(i, walk.seen)
        PROVE  In(i, seen)
    <3>1. PICK k \in 1 .. Len(walk.seen) : walk.seen[k] = i
      BY <2>1 DEF In
    <3>2. k \in 1 .. Len(seen) /\ seen[k] = i
      BY <1>4, <1>7, <3>1
    <3> QED
      BY <3>2 DEF In
  <2>2. ASSUME NEW m \in 1 .. n
        PROVE  In(events[m], seen)
    <3>1. Len(walk.seen) + m \in 1 .. Len(seen) /\ seen[Len(walk.seen) + m] = events[m]
      BY <1>4, <1>5, <1>7
    <3> QED
      BY <3>1 DEF In
  <2> QED
    BY <2>1, <2>2
<1>10. \A k \in 1 .. Len(events) : /\ events[k] \in log /\ events[k] \in Ids
                                   /\ walk.after = NoId \/ events[k] > walk.after
  BY <1>3 DEF Matching
<1>11. Over(seen, log)
  <2> SUFFICES ASSUME NEW k \in 1 .. Len(seen)  PROVE seen[k] \in log
    BY DEF Over
  <2>1. \A m \in 1 .. n : m \in 1 .. Len(events)
    BY <1>4
  <2> QED
    BY <1>6, <1>8, <1>10, <2>1 DEF Over
<1>12. \A k \in 1 .. Len(walk.seen), m \in 1 .. n : walk.seen[k] < events[m]
  <2> SUFFICES ASSUME NEW k \in 1 .. Len(walk.seen), NEW m \in 1 .. n
               PROVE  walk.seen[k] < events[m]
    OBVIOUS
  <2>1. walk.seen # <<>>
    BY <1>7
  <2>2. Len(walk.seen) \in 1 .. Len(walk.seen) /\ (k < Len(walk.seen) \/ k = Len(walk.seen))
    BY <1>7
  <2>3. /\ walk.after \in log /\ walk.after \in Ids /\ walk.after # NoId
        /\ walk.after = walk.seen[Len(walk.seen)]
    BY <1>2, <1>6, <2>1, <2>2 DEF Over
  <2>4. walk.seen[k] \in Ids
    BY <1>6 DEF Over
  <2>5. m \in 1 .. Len(events)
    BY <1>4
  <2>6. walk.after \in Nat /\ walk.seen[k] \in Nat /\ events[m] \in Nat /\ events[m] > walk.after
    BY <1>2, <1>10, <2>3, <2>4, <2>5
  <2>7. walk.seen[k] <= walk.after
    BY <1>6, <2>2, <2>3, <2>6 DEF Increasing
  <2> QED
    BY <2>6, <2>7
<1>13. Increasing(seen)
  <2> SUFFICES ASSUME NEW j \in 1 .. Len(seen), NEW k \in 1 .. Len(seen), j < k
               PROVE  seen[j] < seen[k]
    BY DEF Increasing
  <2>1. CASE k \in 1 .. Len(walk.seen) /\ seen[k] = walk.seen[k]
    <3>1. j \in 1 .. Len(walk.seen) /\ seen[j] = walk.seen[j]
      BY <1>7, <2>1
    <3> QED
      BY <1>6, <2>1, <3>1 DEF Increasing
  <2>2. CASE \E m \in 1 .. n : k = Len(walk.seen) + m /\ seen[k] = events[m]
    <3>1. PICK m \in 1 .. n : k = Len(walk.seen) + m /\ seen[k] = events[m]
      BY <2>2
    <3>2. CASE j \in 1 .. Len(walk.seen) /\ seen[j] = walk.seen[j]
      BY <1>12, <3>1, <3>2
    <3>3. CASE \E p \in 1 .. n : j = Len(walk.seen) + p /\ seen[j] = events[p]
      <4>1. PICK p \in 1 .. n : j = Len(walk.seen) + p /\ seen[j] = events[p]
        BY <3>3
      <4>2. p < m /\ p \in 1 .. Len(events) /\ m \in 1 .. Len(events)
        BY <1>4, <1>7, <3>1, <4>1
      <4> QED
        BY <1>3, <3>1, <4>1, <4>2 DEF Increasing
    <3> QED
      BY <1>8, <3>2, <3>3
  <2> QED
    BY <1>8, <2>1, <2>2
<1>14. at \subseteq log
  BY <1>6
<1>15. ASSUME NEW i \in at
       PROVE  In(i, walk.seen) \/ i \in Matching(log, walk.after)
  <2>1. i \in log
    BY <1>14
  <2>2. CASE walk.seen = <<>>
    BY <1>6, <2>1, <2>2 DEF Matching
  <2>3. CASE walk.seen # <<>>
    <3>1. i \in walk.at /\ (i <= walk.after => In(i, walk.seen))
      BY <1>6, <2>3
    <3>2. i \in Nat /\ walk.after \in Nat
      <4>1. Len(walk.seen) \in 1 .. Len(walk.seen)
        BY <1>6, <1>7, <2>3
      <4>2. walk.after \in log
        BY <1>6, <2>3, <4>1 DEF Over
      <4> QED
        BY <1>2, <2>1, <4>2
    <3>3. i <= walk.after \/ i > walk.after
      BY <3>2
    <3> QED
      BY <2>1, <3>1, <3>3 DEF Matching
  <2> QED
    BY <2>2, <2>3
<1> HIDE DEF at
<1>16. CASE Len(events) > limit
  <2>1. next = events[n] /\ n \in 1 .. Len(events) /\ n \in 1 .. n
    BY <1>4, <1>16 DEF NextCursor
  <2>2. next \in log /\ next # NoId
    BY <1>2, <1>10, <2>1
  <2>3. seen # <<>> /\ next = seen[Len(seen)]
    <3>1. Len(seen) = Len(walk.seen) + n /\ Len(seen) # 0
      BY <1>7, <2>1
    <3> QED
      BY <1>5, <1>7, <2>1, <3>1
  <2>4. ASSUME NEW i \in at, i <= next
        PROVE  In(i, seen)
    <3>1. CASE In(i, walk.seen)
      BY <1>9, <3>1
    <3>2. CASE i \in Matching(log, walk.after)
      <4>1. i \in Nat /\ next \in Nat
        BY <1>2, <1>14, <2>2
      <4>2. CASE i = next
        BY <1>9, <2>1, <4>2
      <4>3. CASE i < next
        <5>1. PICK m \in 1 .. Len(events) : events[m] = i
          BY <1>3, <2>1, <3>2, <4>3
        <5>2. ~(n < m)
          <6>1. n < m => events[n] < events[m]
            BY <1>3, <2>1 DEF Increasing
          <6> QED
            BY <2>1, <4>1, <4>3, <5>1, <6>1
        <5>3. m \in 1 .. n
          BY <1>4, <5>2
        <5> QED
          BY <1>9, <5>1, <5>3
      <4> QED
        BY <2>4, <4>1, <4>2, <4>3
    <3> QED
      BY <1>15, <3>1, <3>2
  <2> HIDE DEF next
  <2>5. /\ walk'.on = TRUE /\ walk'.after = next /\ walk'.seen = seen /\ walk'.at = at
    BY <1>1, <2>2
  <2> QED
    BY <1>7, <1>11, <1>13, <1>14, <2>3, <2>4, <2>5 DEF WalkHolds
<1>17. CASE ~(Len(events) > limit)
  <2>1. next = NoId /\ n = Len(events) /\ Len(events) < limit + 1
    BY <1>4, <1>17 DEF NextCursor
  <2>2. ASSUME NEW i \in at
        PROVE  In(i, seen)
    <3>1. CASE In(i, walk.seen)
      BY <1>9, <3>1
    <3>2. CASE i \in Matching(log, walk.after)
      BY <1>3, <1>9, <2>1, <3>2
    <3> QED
      BY <1>15, <3>1, <3>2
  <2>3. /\ walk'.on = FALSE /\ walk'.seen = seen /\ walk'.at = at
    BY <1>1, <2>1
  <2> QED
    BY <1>7, <1>11, <1>13, <1>14, <2>2, <2>3 DEF WalkHolds
<1> QED
  BY <1>16, <1>17

-----------------------------------------------------------------------------
(* The invariant holds in every state.                                     *)

LEMMA NothingIn ==
  \A l, d, z, sub :
    /\ Over(<<>>, l) /\ Increasing(<<>>) /\ Follows(<<>>, l) /\ \A i : NotAfter(i, <<>>, l)
    /\ Len(<<>>) = 0 /\ <<>> \in Seq(Ids) /\ <<>> \in Seq(Ids \cup {CLOSE})
    /\ sub \in BOOLEAN => QueueHolds(l, <<>>, sub)
    /\ LiveHolds(l, <<>>, sub, NoId, NoId)
<1>1. /\ Len(<<>>) = 0 /\ <<>> \in Seq(Ids) /\ <<>> \in Seq(Ids \cup {CLOSE})
      /\ ~ \E k : k \in 1 .. Len(<<>>)
  OBVIOUS
<1>2. \A l : /\ Over(<<>>, l) /\ Increasing(<<>>) /\ Follows(<<>>, l)
             /\ \A i : NotAfter(i, <<>>, l)
  BY <1>1 DEF Over, Increasing, Follows, NotAfter
<1> QED
  BY <1>1, <1>2 DEF QueueHolds, LiveHolds

LEMMA StreamInvInit == Init => StreamInv
<1> SUFFICES ASSUME Init  PROVE StreamInv
  OBVIOUS
<1>1. /\ log = {0} /\ now = 0 /\ conn = "closed" /\ dedup = NoId
      /\ last \in {NoId, 0} /\ received = <<>> /\ since = last
      /\ walk = [on |-> TRUE, after |-> NoId, seen |-> <<>>, at |-> {}]
  BY DEF Init
<1>2. 0 \in Ids
  BY StreamAssumption DEF Ids
<1>3. Millisecond(0) = 0
  BY StreamAssumption DEF Millisecond
<1>4. NoId \notin Ids
  BY IdFacts
<1>5. LogHolds(log, now)
  BY <1>1, <1>2, <1>3 DEF LogHolds
<1>6. WalkHolds(log, walk)
  BY <1>1, NothingIn DEF WalkHolds
<1>7. ClientHolds(log, last, received, since)
  <2>1. Millisecond(since) \in Nat /\ Over(received, log)
    BY <1>1, <1>2, NothingIn, IdFacts, MillisecondFacts
  <2>2. \A i : ~(Millisecond(since) < Millisecond(i) /\ Millisecond(i) < Millisecond(last)) \/ i \notin log
    <3>1. \A i \in log : ~(Millisecond(since) < Millisecond(i))
      BY <1>1, <1>3, <2>1
    <3> QED
      BY <3>1
  <2>3. /\ \A j, k \in 1 .. Len(received) : FALSE
        /\ \A k \in 1 .. Len(received) - 1 : FALSE
    BY <1>1
  <2> QED
    BY <1>1, <1>2, <1>4, <2>1, <2>2, <2>3, NothingIn DEF ClientHolds
<1> QED
  BY <1>1, <1>5, <1>6, <1>7 DEF StreamInv

LEMMA StreamInvStep == StreamInv /\ [Next]_vars => StreamInv'
<1> SUFFICES ASSUME StreamInv, [Next]_vars  PROVE StreamInv'
  OBVIOUS
<1>1. /\ LogHolds(log, now)
      /\ WalkHolds(log, walk)
      /\ ClientHolds(log, last, received, since)
      /\ conn \in {"closed", "replaying", "live"} /\ dedup \in log \cup {NoId}
      /\ conn # "closed" => QueueHolds(log, queue, subscribed)
      /\ conn = "replaying" =>
           ReplayHolds(log, queue, subscribed, page, full, cursor, dedup, last)
      /\ conn = "live" => LiveHolds(log, queue, subscribed, dedup, last)
  BY DEF StreamInv
<1>2. /\ log \in SUBSET Ids /\ log \subseteq Ids
      /\ last \in log \cup {NoId} /\ since \in log \cup {NoId}
      /\ NoId \notin log
  BY <1>1, IdFacts DEF LogHolds, ClientHolds
<1>3. CASE UNCHANGED vars
  BY <1>1, <1>3 DEF vars, connVars, clientVars, StreamInv
<1>4. CASE Emit
  <2>1. PICK i \in FreshIds : log' = log \cup {i} /\ now' = Millisecond(i) /\ Publish(i)
    BY <1>4 DEF Emit
  <2>2. UNCHANGED <<conn, page, full, cursor, dedup, last, received, since, walk>>
    BY <1>4 DEF Emit, clientVars
  <2>3. Fresh(i, log) /\ LogHolds(log', now')
    BY <1>1, <2>1, FreshFacts
  <2>4. WalkHolds(log', walk')
    <3>1. WalkHolds(log', walk)
      BY <1>1, <2>1, WalkSeesGrowth
    <3> QED
      BY <2>2, <3>1
  <2>5. ClientHolds(log', last', received', since')
    <3>1. ClientHolds(log', last, received, since)
      BY <1>1, <1>2, <2>1, <2>3, ClientSeesGrowth
    <3> QED
      BY <2>2, <3>1
  <2>6. dedup' \in log' \cup {NoId}
    BY <1>1, <2>1, <2>2
  <2>7. ASSUME conn # "closed"
        PROVE  /\ QueueHolds(log, queue, subscribed)
               /\ Published(i, queue, subscribed, queue', subscribed')
               /\ QueueHolds(log', queue', subscribed')
    <3>1. QueueHolds(log, queue, subscribed) /\ subscribed \in BOOLEAN
      BY <1>1, <2>7 DEF QueueHolds
    <3>2. Published(i, queue, subscribed, queue', subscribed')
      BY <2>1, <3>1 DEF Publish, Published
    <3> QED
      BY <1>2, <2>1, <2>3, <3>1, <3>2, QueueGrows
  <2>8. CASE conn = "replaying"
    <3>1. ReplayHolds(log', queue', subscribed', page, full, cursor, dedup, last)
      BY <1>1, <1>2, <2>1, <2>3, <2>7, <2>8, ReplaySeesGrowth
    <3> QED
      BY <1>1, <2>2, <2>3, <2>4, <2>5, <2>6, <2>7, <2>8, <3>1 DEF StreamInv
  <2>9. CASE conn = "live"
    <3>1. LiveHolds(log', queue', subscribed', dedup, last)
      BY <1>1, <1>2, <2>1, <2>3, <2>7, <2>9, LiveSeesGrowth
    <3> QED
      BY <1>1, <2>2, <2>3, <2>4, <2>5, <2>6, <2>7, <2>9, <3>1 DEF StreamInv
  <2>10. CASE conn = "closed"
    BY <1>1, <2>2, <2>3, <2>4, <2>5, <2>6, <2>10 DEF StreamInv
  <2> QED
    BY <1>1, <2>8, <2>9, <2>10
<1>5. CASE Connect
  <2>1. /\ queue' = <<>> /\ subscribed' = TRUE /\ dedup' = last
        /\ UNCHANGED <<log, now, last, received, since, walk>>
    BY <1>5 DEF Connect
  <2>2. QueueHolds(log, queue', subscribed')
    BY <2>1, NothingIn
  <2>3. CASE last = NoId
    <3>1. conn' = "live"
      BY <1>5, <2>3 DEF Connect
    <3>2. LiveHolds(log, queue', subscribed', dedup', last)
      BY <2>1, <2>3, NothingIn
    <3> QED
      BY <1>1, <1>2, <2>1, <2>2, <3>1, <3>2 DEF StreamInv
  <2>4. CASE last # NoId
    <3>1. conn' = "replaying" /\ ReadPage(last) /\ last \in log
      BY <1>2, <1>5, <2>4 DEF Connect
    <3>2. ReplayHolds(log, queue', subscribed', page', full', cursor', last, last)
      BY <1>2, <3>1, ReplayReads
    <3> QED
      BY <1>1, <1>2, <2>1, <2>2, <3>1, <3>2 DEF StreamInv
  <2> QED
    BY <2>3, <2>4
<1>6. CASE ReplayYield
  <2>1. /\ conn = "replaying" /\ page # <<>> /\ dedup' = Head(page) /\ page' = Tail(page)
        /\ received' = Append(received, Head(page)) /\ last' = Head(page)
        /\ since' = IF since = NoId THEN Head(page) ELSE since
        /\ UNCHANGED <<log, now, conn, queue, subscribed, full, cursor, walk>>
    BY <1>6 DEF ReplayYield, Deliver
  <2>2. /\ Head(page) \in log /\ Follower(Head(page), last, log)
        /\ ReplayHolds(log, queue, subscribed, Tail(page), full, cursor, Head(page), Head(page))
    BY <1>1, <1>2, <2>1, ReplayAdvances
  <2>3. ClientHolds(log, last', received', since')
    BY <1>1, <1>2, <2>1, <2>2, DeliverKeeps
  <2> QED
    BY <1>1, <2>1, <2>2, <2>3 DEF StreamInv
<1>7. CASE ReplayNext
  <2>1. /\ conn = "replaying" /\ page = <<>>
        /\ UNCHANGED <<log, now, queue, subscribed, dedup, last, received, since, walk>>
    BY <1>7 DEF ReplayNext, clientVars
  <2>2. ReplayHolds(log, queue, subscribed, <<>>, full, cursor, dedup, last)
    BY <1>1, <2>1
  <2>3. cursor = last /\ last # NoId /\ last \in log /\ dedup = last
    BY <1>2, <2>2 DEF ReplayHolds
  <2>4. CASE full
    <3>1. ReadPage(last) /\ conn' = conn
      BY <1>7, <2>3, <2>4 DEF ReplayNext
    <3>2. ReplayHolds(log, queue, subscribed, page', full', cursor', last, last)
      BY <1>2, <2>3, <3>1, ReplayReads
    <3> QED
      BY <1>1, <2>1, <2>3, <3>1, <3>2 DEF StreamInv
  <2>5. CASE ~full
    <3>1. conn' = "live"
      BY <1>7, <2>5 DEF ReplayNext
    <3>2. LiveHolds(log, queue, subscribed, dedup, last)
      BY <1>2, <2>2, <2>5, ReplayEnds
    <3> QED
      BY <1>1, <2>1, <3>1, <3>2 DEF StreamInv
  <2> QED
    BY <2>4, <2>5
<1>8. CASE Live
  <2>1. /\ conn = "live" /\ queue # <<>> /\ queue' = Tail(queue)
        /\ UNCHANGED <<log, now, subscribed, dedup, walk>>
    BY <1>8 DEF Live
  <2>2. QueueHolds(log, queue, subscribed) /\ LiveHolds(log, queue, subscribed, dedup, last)
    BY <1>1, <2>1
  <2>3. QueueHolds(log, queue', subscribed') /\ Head(queue) \in log \cup {CLOSE}
    BY <1>2, <2>1, <2>2, QueueShrinks
  <2>4. CASE Head(queue) = CLOSE
    <3>1. conn' = "closed" /\ UNCHANGED <<last, received, since>>
      BY <1>8, <2>4 DEF Live
    <3> QED
      BY <1>1, <2>1, <3>1 DEF StreamInv
  <2>5. CASE Head(queue) # CLOSE /\ Skipped(Head(queue))
    <3>1. UNCHANGED <<conn, last, received, since>> /\ Head(queue) \in log
      BY <1>8, <2>3, <2>5 DEF Live
    <3>2. LiveHolds(log, queue', subscribed, dedup, last)
      BY <1>1, <1>2, <2>1, <2>2, <2>5, <3>1, LiveSkips DEF Skipped
    <3> QED
      BY <1>1, <2>1, <2>3, <3>1, <3>2 DEF StreamInv
  <2>6. CASE Head(queue) # CLOSE /\ ~Skipped(Head(queue))
    <3>1. /\ conn' = conn /\ Head(queue) \in log
          /\ received' = Append(received, Head(queue)) /\ last' = Head(queue)
          /\ since' = IF since = NoId THEN Head(queue) ELSE since
      BY <1>8, <2>3, <2>6 DEF Live, Deliver
    <3>2. /\ Follower(Head(queue), last, log)
          /\ LiveHolds(log, queue', subscribed, dedup, Head(queue))
      BY <1>1, <1>2, <2>1, <2>2, <2>6, <3>1, LiveAdvances DEF Skipped
    <3>3. ClientHolds(log, last', received', since')
      BY <1>1, <1>2, <3>1, <3>2, DeliverKeeps
    <3> QED
      BY <1>1, <2>1, <2>3, <3>1, <3>2, <3>3 DEF StreamInv
  <2> QED
    BY <2>4, <2>5, <2>6
<1>9. CASE Disconnect
  <2>1. /\ conn' = "closed"
        /\ UNCHANGED <<log, now, dedup, last, received, since, walk>>
    BY <1>9 DEF Disconnect
  <2> QED
    BY <1>1, <2>1 DEF StreamInv
<1>10. CASE \E limit \in Limits : ListEvents(limit) \/ QueryEvents(limit)
  <2>1. PICK limit \in Nat \ {0} : GetPage(limit)
    <3>1. PICK asked \in Limits : ListEvents(asked) \/ QueryEvents(asked)
      BY <1>10
    <3>2. asked \in Nat /\ MaxLimit \in Nat \ {0}
      BY StreamAssumption
    <3>3. Clamped(asked) \in Nat \ {0} /\ (asked \in 1 .. MaxLimit => asked \in Nat \ {0})
      BY <3>2 DEF Clamped
    <3> QED
      BY <3>1, <3>3 DEF ListEvents, QueryEvents
  <2>2. UNCHANGED <<log, now, conn, queue, subscribed, page, full, cursor, dedup, last,
                    received, since>>
    BY <2>1 DEF GetPage, connVars, clientVars
  <2>3. WalkHolds(log, walk')
    BY <1>1, <1>2, <2>1, WalkAdvances
  <2> QED
    BY <1>1, <2>2, <2>3 DEF StreamInv
<1>11. CASE Heartbeat
  BY <1>3, <1>11 DEF Heartbeat
<1> QED
  BY <1>3, <1>4, <1>5, <1>6, <1>7, <1>8, <1>9, <1>10, <1>11 DEF Next, StreamStep

THEOREM StreamInvHolds == Spec => []StreamInv
BY StreamInvInit, StreamInvStep, PTL DEF Spec

(* A walk over the pages of GET /v1/events shows no event twice and, once  *)
(* it ends, has shown every event of the log it began with.                *)
THEOREM WalksAreExact == Spec => []WalkIsExact
<1>1. StreamInv => WalkIsExact
  <2> SUFFICES ASSUME StreamInv  PROVE WalkIsExact
    OBVIOUS
  <2>1. Increasing(walk.seen) /\ (~walk.on => \A i \in walk.at : In(i, walk.seen))
    BY DEF StreamInv, WalkHolds
  <2>2. ~walk.on => walk.at \subseteq {walk.seen[k] : k \in 1 .. Len(walk.seen)}
    BY <2>1 DEF In
  <2> QED
    BY <2>1, <2>2 DEF WalkIsExact, Increasing
<1> QED
  BY <1>1, StreamInvHolds, PTL

(* Over all the connections of a client, broken, overflowed or resumed,    *)
(* what GET /v1/events/stream sends it never goes back in time.            *)
THEOREM StreamsFollowTime == Spec => []StreamFollowsTime
<1>1. StreamInv => StreamFollowsTime
  BY DEF StreamInv, ClientHolds, StreamFollowsTime
<1> QED
  BY <1>1, StreamInvHolds, PTL

(* The stream passes over an event, or delivers one twice, only when       *)
(* another event of the same millisecond was delivered.                    *)
THEOREM StreamFlawsAreTies == Spec => []FlawsShareAMillisecond
<1>1. StreamInv => FlawsShareAMillisecond
  <2> SUFFICES ASSUME StreamInv  PROVE FlawsShareAMillisecond
    OBVIOUS
  <2>1. /\ log \subseteq Ids
        /\ last \in log \cup {NoId} /\ since \in log \cup {NoId} /\ (last = NoId <=> since = NoId)
        /\ received \in Seq(Ids) /\ Over(received, log)
        /\ IF received = <<>> THEN last = since ELSE last = received[Len(received)]
    BY DEF StreamInv, ClientHolds, LogHolds
  <2>2. /\ \A j, k \in 1 .. Len(received) : j < k =>
             Millisecond(received[j]) <= Millisecond(received[k])
        /\ \A k \in 1 .. Len(received) - 1 : received[k] # received[k + 1]
    BY DEF StreamInv, ClientHolds
  <2>3. since # NoId => \A i \in log :
          Millisecond(since) < Millisecond(i) /\ Millisecond(i) < Millisecond(last)
            => \E k \in 1 .. Len(received) : Millisecond(received[k]) = Millisecond(i)
    BY DEF StreamInv, ClientHolds
  <2>4. \A k \in 1 .. Len(received) : received[k] \in Ids /\ Millisecond(received[k]) \in Nat
    BY <2>1, IdFacts, MillisecondFacts DEF Over
  <2>5. Len(received) \in Nat
    BY <2>1
  <2>6. ASSUME NEW i \in PassedOver
        PROVE  \E r \in Received : Millisecond(r) = Millisecond(i)
    <3>1. /\ i \in log /\ since # NoId /\ Millisecond(i) > Millisecond(since)
          /\ \E r \in Received : Millisecond(i) < Millisecond(r)
      BY DEF PassedOver
    <3>2. PICK k \in 1 .. Len(received) : Millisecond(i) < Millisecond(received[k])
      BY <3>1 DEF Received
    <3>3. Len(received) \in 1 .. Len(received) /\ (k < Len(received) \/ k = Len(received))
      BY <2>5
    <3>4. last = received[Len(received)]
      BY <2>1, <3>2, <3>3
    <3>5. Millisecond(received[k]) <= Millisecond(last)
      BY <2>2, <2>4, <3>3, <3>4
    <3>6. /\ Millisecond(i) \in Nat /\ Millisecond(since) \in Nat /\ Millisecond(last) \in Nat
          /\ Millisecond(received[k]) \in Nat
      BY <2>1, <2>4, <3>1, <3>3, <3>4, IdFacts, MillisecondFacts
    <3>7. Millisecond(since) < Millisecond(i) /\ Millisecond(i) < Millisecond(last)
      BY <3>1, <3>2, <3>5, <3>6
    <3>8. PICK m \in 1 .. Len(received) : Millisecond(received[m]) = Millisecond(i)
      BY <2>3, <3>1, <3>7
    <3> QED
      BY <3>8 DEF Received
  <2>7. ASSUME NEW j \in 1 .. Len(received), NEW k \in 1 .. Len(received), j < k,
               received[j] = received[k]
        PROVE  \E m \in j + 1 .. k - 1 : Millisecond(received[m]) = Millisecond(received[j])
    <3>1. k # j + 1
      <4>1. k = j + 1 => j \in 1 .. Len(received) - 1
        BY <2>5
      <4> QED
        BY <2>2, <2>7, <4>1
    <3>2. /\ j + 1 \in j + 1 .. k - 1 /\ j + 1 \in 1 .. Len(received)
          /\ j < j + 1 /\ j + 1 < k
      BY <2>5, <2>7, <3>1
    <3>3. /\ Millisecond(received[j]) <= Millisecond(received[j + 1])
          /\ Millisecond(received[j + 1]) <= Millisecond(received[k])
      BY <2>2, <3>2
    <3>4. Millisecond(received[j + 1]) = Millisecond(received[j])
      BY <2>4, <2>7, <3>2, <3>3
    <3> QED
      BY <3>2, <3>4
  <2> QED
    BY <2>6, <2>7 DEF FlawsShareAMillisecond
<1> QED
  BY <1>1, StreamInvHolds, PTL

=============================================================================
