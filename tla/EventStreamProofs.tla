------------------------- MODULE EventStreamProofs -------------------------
(***************************************************************************)
(* The path of an event from the journal to the panel: theorems about      *)
(* EventFanout and PanelStream, for every set of scopes and subscribers,   *)
(* every filter and every bound.                                           *)
(***************************************************************************)
EXTENDS PanelStream, FiniteSetTheorems, SequenceTheorems, WellFoundedInduction, TLAPS

-----------------------------------------------------------------------------
(* Numbers.                                                                *)

(***************************************************************************)
(* The least number principle, for sets: what induction over lengths and   *)
(* cardinalities rests on below.                                           *)
(***************************************************************************)
LEMMA LeastNumber ==
    ASSUME NEW T \in SUBSET Nat, T # {}
    PROVE  \E m \in T : \A k \in T : m <= k
<1>1. PICK m \in T : \A k \in T : ~ (<<k, m>> \in OpToRel(<, Nat))
      BY NatLessThanWellFounded, WFMin, Zenon
<1>2. \A k \in T : ~ (k < m)
      BY <1>1 DEF OpToRel
<1>q. QED
      BY <1>2

(***************************************************************************)
(* Induction over the numbers, for a set.                                  *)
(***************************************************************************)
LEMMA SetInduction ==
    ASSUME NEW T, 0 \in T, \A n \in Nat : n \in T => n + 1 \in T
    PROVE  Nat \subseteq T
<1>1. SUFFICES ASSUME Nat \ T # {} PROVE FALSE
      OBVIOUS
<1>2. PICK m \in Nat \ T : \A k \in Nat \ T : m <= k
      BY <1>1, LeastNumber
<1>3. m # 0 /\ m - 1 \in Nat /\ ~ (m <= m - 1)
      BY <1>2
<1>4. m - 1 \in T
      BY <1>2, <1>3
<1>5. (m - 1) + 1 \in T
      BY <1>3, <1>4
<1>q. QED
      BY <1>2, <1>5

(***************************************************************************)
(* Min and Max of sets of numbers are what their names say.                *)
(***************************************************************************)
LEMMA MinProperties ==
    ASSUME NEW T \in SUBSET Nat, T # {}
    PROVE  Min(T) \in T /\ \A k \in T : Min(T) <= k
<1>1. \E m \in T : \A k \in T : m <= k
      BY LeastNumber
<1>q. QED
      BY <1>1 DEF Min

\* The largest element exists in a bounded set.
LEMMA MaxProperties ==
    ASSUME NEW T \in SUBSET Nat, T # {}, NEW n \in Nat, \A k \in T : k <= n
    PROVE  Max(T) \in T /\ \A k \in T : Max(T) >= k
<1> DEFINE U == {k \in Nat : \E t \in T : k = n - t}
<1>1. U \in SUBSET Nat /\ U # {}
  <2>1. PICK t \in T : TRUE
        OBVIOUS
  <2>2. n - t \in U
        BY <2>1
  <2>q. QED
        BY <2>2
<1>2. PICK m \in U : \A k \in U : m <= k
      BY <1>1, LeastNumber
<1>3. PICK t \in T : m = n - t
      BY <1>2
<1>4. ASSUME NEW k \in T PROVE t >= k
  <2>1. n - k \in U
        OBVIOUS
  <2>q. QED
        BY <1>2, <1>3, <2>1
<1>q. QED
      BY <1>3, <1>4 DEF Max

-----------------------------------------------------------------------------
(* Sequences in ascending order.                                           *)

\* A function on 1 .. n is a sequence of length n.
LEMMA FunctionIsSeq ==
    ASSUME NEW S, NEW k \in Nat, NEW f \in [1 .. k -> S]
    PROVE  f \in Seq(S) /\ Len(f) = k /\ DOMAIN f = 1 .. k
<1>1. f = [i \in 1 .. k |-> f[i]]
      OBVIOUS
<1>2. [i \in 1 .. k |-> f[i]] \in Seq(S)
      OBVIOUS
<1>3. f \in Seq(S)
      BY <1>1, <1>2, Zenon
<1>q. QED
      BY <1>3, LenProperties

Sorted(q) == \A i, j \in DOMAIN q : i < j => q[i] < q[j]

(***************************************************************************)
(* A larger number at its end leaves a sequence sorted.                    *)
(***************************************************************************)
LEMMA SortedAppend ==
    ASSUME NEW k \in Nat, NEW m \in Nat, NEW V \in SUBSET (1 .. m),
           NEW q \in [1 .. k -> V], Sorted(q)
    PROVE  \E r \in [1 .. k + 1 -> V \cup {m + 1}] : Sorted(r)
<1> DEFINE r == [i \in 1 .. k + 1 |-> IF i <= k THEN q[i] ELSE m + 1]
<1>1. \A i \in 1 .. k : i \in 1 .. k + 1 /\ r[i] = q[i] /\ q[i] \in V /\ q[i] \in 1 .. m
  <2>1. SUFFICES ASSUME NEW i \in 1 .. k
                 PROVE  i \in 1 .. k + 1 /\ r[i] = q[i] /\ q[i] \in V /\ q[i] \in 1 .. m
        OBVIOUS
  <2>2. i \in 1 .. k + 1 /\ i <= k
        OBVIOUS
  <2>3. q[i] \in V
        OBVIOUS
  <2>q. QED
        BY <2>2, <2>3
<1>2. k + 1 \in 1 .. k + 1 /\ r[k + 1] = m + 1
      OBVIOUS
<1>3. \A i \in 1 .. k + 1 : i \in 1 .. k \/ i = k + 1
      OBVIOUS
<1>4. r \in [1 .. k + 1 -> V \cup {m + 1}]
      BY <1>1, <1>3
<1>5. \A i, j \in 1 .. k : i < j => q[i] < q[j]
      BY DEF Sorted
<1> HIDE DEF r
<1>6. DOMAIN r = 1 .. k + 1
      BY <1>4
<1>7. ASSUME NEW i \in 1 .. k + 1, NEW j \in 1 .. k + 1, i < j PROVE r[i] < r[j]
  <2>1. i \in 1 .. k
        BY <1>7
  <2>2. CASE j \in 1 .. k
        BY <1>1, <1>5, <1>7, <2>1, <2>2
  <2>3. CASE j = k + 1
        BY <1>1, <1>2, <2>1, <2>3
  <2>q. QED
        BY <1>3, <2>2, <2>3
<1>8. Sorted(r)
      BY <1>6, <1>7 DEF Sorted
<1>q. QED
      BY <1>4, <1>8

(***************************************************************************)
(* A set of positions can be sorted.                                       *)
(***************************************************************************)
LEMMA SortingExists ==
    ASSUME NEW n \in Nat, NEW S \in SUBSET (1 .. n)
    PROVE  \E q \in [1 .. Cardinality(S) -> S] : Sorted(q)
<1> DEFINE P(U) == \E q \in [1 .. Cardinality(U) -> U] : Sorted(q)
           T == {m \in Nat : \A U \in SUBSET (1 .. m) : P(U)}
<1>1. 0 \in T
  <2>1. ASSUME NEW U \in SUBSET (1 .. 0) PROVE P(U)
    <3>0. U = {}
          OBVIOUS
    <3>1. U = {} /\ Cardinality(U) = 0
          BY <3>0, FS_EmptySet
    <3>2. [i \in 1 .. 0 |-> 0] \in [1 .. 0 -> U]
          BY <3>1
    <3>3. Sorted([i \in 1 .. 0 |-> 0])
          BY DEF Sorted
    <3>q. QED
          BY <3>1, <3>2, <3>3
  <2>q. QED
        BY <2>1
<1>2. ASSUME NEW m \in Nat, m \in T PROVE m + 1 \in T
  <2>1. ASSUME NEW U \in SUBSET (1 .. m + 1) PROVE P(U)
    <3> DEFINE V == U \ {m + 1}
    <3>1. V \in SUBSET (1 .. m)
          OBVIOUS
    <3>2. PICK q \in [1 .. Cardinality(V) -> V] : Sorted(q)
          BY <1>2, <3>1
    <3>3. CASE m + 1 \notin U
          BY <3>2, <3>3, V = U
    <3>4. CASE m + 1 \in U
      <4>0. IsFiniteSet(1 .. m + 1) /\ U \in SUBSET (1 .. m + 1)
            /\ V \in SUBSET (1 .. m + 1)
            BY FS_Interval
      <4>1. IsFiniteSet(U) /\ IsFiniteSet(V)
            BY <4>0, FS_Subset
      <4>2. Cardinality(V) = Cardinality(U) - 1 /\ Cardinality(U) \in Nat
            /\ Cardinality(V) \in Nat
            BY <3>4, <4>1, FS_RemoveElement, FS_CardinalityType
      <4>3. Cardinality(U) = Cardinality(V) + 1 /\ U = V \cup {m + 1}
            BY <3>4, <4>2
      <4>q. QED
            BY <3>1, <3>2, <4>2, <4>3, SortedAppend
    <3>q. QED
          BY <3>3, <3>4
  <2>q. QED
        BY <2>1
<1>3. n \in T
  <2> HIDE DEF T
  <2>q. QED
        BY <1>1, <1>2, SetInduction
<1>q. QED
      BY <1>3

(***************************************************************************)
(* Ascending lists just the members of its set, in order.                  *)
(***************************************************************************)
LEMMA AscendingProperties ==
    ASSUME NEW n \in Nat, NEW S \in SUBSET (1 .. n)
    PROVE  /\ Ascending(S) \in [1 .. Cardinality(S) -> S] /\ Cardinality(S) \in Nat
           /\ Sorted(Ascending(S))
           /\ \A c \in S : \E i \in 1 .. Cardinality(S) : Ascending(S)[i] = c
<1> DEFINE q == Ascending(S)
           k == Cardinality(S)
<1>1. q \in [1 .. k -> S] /\ Sorted(q)
      BY SortingExists DEF Ascending, Sorted
<1>2. IsFiniteSet(S) /\ k \in Nat
  <2>1. IsFiniteSet(1 .. n)
        BY FS_Interval
  <2>2. IsFiniteSet(S)
        BY <2>1, FS_Subset
  <2>q. QED
        BY <2>2, FS_CardinalityType
<1>3. ASSUME NEW c \in S PROVE \E i \in 1 .. k : q[i] = c
  <2> DEFINE image == {q[i] : i \in 1 .. k}
  <2> HIDE DEF q, k
  <2>0. q \in [1 .. k -> image]
        BY <1>1
  <2>1. q \in Bijection(1 .. k, image)
    <3>1. \A i, j \in 1 .. k : q[i] = q[j] => i = j
      <4>1. SUFFICES ASSUME NEW i \in 1 .. k, NEW j \in 1 .. k, q[i] = q[j] PROVE i = j
            OBVIOUS
      <4>2. q[i] \in 1 .. n /\ q[j] \in 1 .. n /\ DOMAIN q = 1 .. k
            BY <1>1
      <4>3. (i < j => q[i] < q[j]) /\ (j < i => q[j] < q[i])
            BY <1>1, <4>2 DEF Sorted
      <4>q. QED
            BY <1>2, <4>1, <4>2, <4>3
    <3>2. \A b \in image : \E i \in 1 .. k : q[i] = b
          OBVIOUS
    <3>q. QED
          BY <2>0, <3>1, <3>2 DEF Bijection, Injection, Surjection, IsInjective
  <2>2. ExistsBijection(1 .. k, image)
        BY <2>1 DEF ExistsBijection
  <2>3. IsFiniteSet(1 .. k) /\ Cardinality(1 .. k) = k
        BY <1>2, FS_Interval
  <2>4. Cardinality(image) = k
        BY <2>2, <2>3, FS_Bijection
  <2>5. image \in SUBSET S
        BY <1>1
  <2>6. image = S
        BY <1>2, <2>4, <2>5, FS_Subset DEF k
  <2>q. QED
        BY <2>6
<1>q. QED
      BY <1>1, <1>2, <1>3

(***************************************************************************)
(* Pick keeps what stands at the places it is given, in its order.         *)
(***************************************************************************)
LEMMA PickProperties ==
    ASSUME NEW T, NEW seq \in Seq(T), NEW places \in SUBSET (DOMAIN seq)
    PROVE  /\ Pick(seq, places) \in Seq(T)
           /\ DOMAIN Pick(seq, places) = 1 .. Len(Pick(seq, places))
           /\ \A k \in DOMAIN Pick(seq, places) :
                 \E i \in places : Pick(seq, places)[k] = seq[i]
           /\ \A i \in places :
                 \E k \in DOMAIN Pick(seq, places) : Pick(seq, places)[k] = seq[i]
           /\ Sorted(seq) => Sorted(Pick(seq, places))
<1> DEFINE at == Ascending(places)
           n == Cardinality(places)
           p == Pick(seq, places)
<1>1. Len(seq) \in Nat /\ DOMAIN seq = 1 .. Len(seq) /\ places \in SUBSET (1 .. Len(seq))
      BY LenProperties
<1>2. /\ at \in [1 .. n -> places] /\ n \in Nat /\ Sorted(at)
      /\ \A c \in places : \E i \in 1 .. n : at[i] = c
      BY <1>1, AscendingProperties
<1>3. p = [k \in DOMAIN at |-> seq[at[k]]]
      BY DEF Pick
<1> HIDE DEF at, n, p
<1>4. DOMAIN p = 1 .. n /\ \A k \in 1 .. n : at[k] \in places /\ p[k] = seq[at[k]]
      BY <1>2, <1>3
<1>5. \A i \in places : seq[i] \in T
      BY <1>1, ElementOfSeq
<1>6. p \in [1 .. n -> T]
      BY <1>2, <1>3, <1>4, <1>5
<1>7. p \in Seq(T) /\ Len(p) = n
      BY <1>2, <1>6, FunctionIsSeq
<1>8. ASSUME NEW i \in places PROVE \E k \in DOMAIN p : p[k] = seq[i]
  <2>1. PICK k \in 1 .. n : at[k] = i
        BY <1>2
  <2>2. p[k] = seq[i] /\ k \in DOMAIN p
        BY <1>4, <2>1
  <2>q. QED
        BY <2>2
<1>9. ASSUME Sorted(seq) PROVE Sorted(p)
  <2>1. SUFFICES ASSUME NEW i \in 1 .. n, NEW j \in 1 .. n, i < j PROVE p[i] < p[j]
        BY <1>4 DEF Sorted
  <2>2. at[i] < at[j] /\ at[i] \in places /\ at[j] \in places
        BY <1>2, <2>1 DEF Sorted
  <2>3. at[i] \in DOMAIN seq /\ at[j] \in DOMAIN seq
        BY <2>2
  <2>q. QED
        BY <1>4, <1>9, <2>2, <2>3 DEF Sorted
<1>q. QED
      BY <1>4, <1>7, <1>8, <1>9 DEF p

-----------------------------------------------------------------------------
(* The invariant of the fan-out.                                           *)

JournalOK ==
    /\ scopeOf \in Seq(Scope) /\ Len(scopeOf) <= MaxEvents
    /\ live \in SUBSET (1 .. Len(scopeOf))
    /\ floor \in [Scope -> 0 .. Len(scopeOf)]
    /\ snapTo \in [Scope -> 0 .. Len(scopeOf)]

\* A batch of a journal with n events: in ascending order, and next_cursor is
\* the last event's when there is one.
Batches(n) == [events : Seq(1 .. n), next : 0 .. n, minimum : 0 .. n, heartbeat : BOOLEAN]
BatchOK(batch, n) ==
    /\ batch \in Batches(n)
    /\ Sorted(batch.events)
    /\ batch.events # <<>> => batch.next = Last(batch.events)

\* How far the request is, and what it has read, with n events.
CallOK(x, n) ==
    \/ x = Idle
    \/ x \in [stage : {"floor"}, wait : BOOLEAN]
    \/ x \in [stage : {"rows"}, wait : BOOLEAN, minimum : 0 .. n]
    \/ /\ x \in [stage : {"max"}, wait : BOOLEAN, minimum : 0 .. n, rows : Seq(1 .. n)]
       /\ Sorted(x.rows)
    \/ /\ x \in [stage : {"reply"}, batch : Batches(n), more : BOOLEAN]
       /\ BatchOK(x.batch, n)
    \/ x \in [stage : {"gone"}, minimum : 0 .. n, snapshot : 0 .. n]

\* The history is the run of cursors that ends with the broker's.
HistoryOK(q, c) ==
    /\ q \in Seq(Cursor) /\ Len(q) <= HistorySize
    /\ \A i \in DOMAIN q : q[i] + Len(q) = c + i

BrokerOK ==
    /\ cursor \in 0 .. Len(scopeOf) /\ persisted \in 0 .. Len(scopeOf)
    /\ CallOK(call, Len(scopeOf))
    /\ HistoryOK(history, cursor)
    /\ notice \in BOOLEAN /\ (notice => call = Idle)
    /\ stream \in {"following", "stopped"}
    /\ replay \in BOOLEAN /\ retrying \in BOOLEAN
    /\ failures \in 0 .. MaxFailures

(***************************************************************************)
(* A subscription x of s that was handed the events g, when everything up  *)
(* to cursor h was published: while it is open, what matches up to h was   *)
(* handed over or is queued, nothing above h was, the queue is in order    *)
(* and holds no snapshot; once it is closing there is one last envelope,   *)
(* no event, and a snapshot not below what was handed over and not above   *)
(* the journal.                                                            *)
(***************************************************************************)
Good(sc, s, x, g, h) ==
    /\ x \in Subscription /\ Len(x.queue) <= QueueSize /\ g \in SUBSET Cursor
    /\ x.state \in {"new", "closed"} => x.queue = <<>>
    /\ x.state = "new" => g = {}
    /\ x.state = "closing" =>
          /\ Len(x.queue) <= 1
          /\ \A i \in DOMAIN x.queue :
                /\ x.queue[i].type # "event" /\ x.queue[i].cursor <= Len(sc)
                /\ x.queue[i].type = "snapshot_required" =>
                      \A c \in g : c <= x.queue[i].cursor
    /\ x.state = "open" =>
          /\ \A c \in g : c <= h
          /\ \A i \in DOMAIN x.queue :
                /\ x.queue[i].type # "snapshot_required"
                /\ x.queue[i].type = "event" =>
                      /\ x.queue[i].cursor > x.after
                      /\ x.queue[i].cursor <= h
                      /\ \A c \in g : c < x.queue[i].cursor
                      /\ \A j \in DOMAIN x.queue :
                            (j < i /\ x.queue[j].type = "event")
                               => x.queue[j].cursor < x.queue[i].cursor
          /\ \A c \in 1 .. h : (c > x.after /\ sc[c] \in Filter[s]) =>
                c \in g \/ \E i \in DOMAIN x.queue : x.queue[i] = EventEnv(c)

\* Published up to the cursor, or between a jump of the cursor and its
\* snapshot, up to where the broker was.
SubsOK ==
    /\ DOMAIN sub = Subscriber /\ DOMAIN got = Subscriber
    /\ sub = [s \in Subscriber |-> sub[s]] /\ got = [s \in Subscriber |-> got[s]]
    /\ \A s \in Subscriber : \E h \in 0 .. cursor :
          Good(scopeOf, s, sub[s], got[s], h) /\ (~notice => h = cursor)

FanoutInv == JournalOK /\ BrokerOK /\ SubsOK

-----------------------------------------------------------------------------
(* Subscriptions.                                                          *)

(***************************************************************************)
(* _replace_then_close keeps a subscription good when the last envelope is *)
(* no event and not behind what was published.                             *)
(***************************************************************************)
LEMMA ReplaceKeeps ==
    ASSUME NEW sc, NEW s, NEW x, NEW g, NEW h \in Nat, Good(sc, s, x, g, h),
           NEW env \in Envelope, env.type # "event", env.cursor >= h,
           env.cursor <= Len(sc), NEW k
    PROVE  Good(sc, s, ReplaceThenClose(x, env), g, k) \/ x.state # "open"
<1>1. SUFFICES ASSUME x.state = "open"
               PROVE  Good(sc, s, ReplaceThenClose(x, env), g, k)
      OBVIOUS
<1> DEFINE y == ReplaceThenClose(x, env)
<1>2. x \in Subscription /\ \A c \in g : c \in Cursor /\ c <= h
      BY <1>1 DEF Good
<1>3. y = [x EXCEPT !.state = "closing", !.queue = <<env>>]
      BY <1>1 DEF ReplaceThenClose
<1>4. <<env>> \in Seq(Envelope) /\ Len(<<env>>) = 1 /\ <<env>>[1] = env
      /\ DOMAIN <<env>> = {1}
      OBVIOUS
<1>5. y \in Subscription /\ y.state = "closing" /\ y.queue = <<env>>
      BY <1>2, <1>3, <1>4 DEF Subscription, SubStates
<1>6. env.cursor \in Nat /\ \A c \in g : c <= env.cursor
      BY <1>2, BoundsAssumption DEF Envelope, Cursor
<1>7. 1 <= QueueSize /\ g \in SUBSET Cursor
      BY BoundsAssumption DEF Good
<1> HIDE DEF y
<1>8. Good(sc, s, y, g, k)
      BY <1>4, <1>5, <1>6, <1>7 DEF Good
<1>q. QED
      BY <1>8 DEF y

(***************************************************************************)
(* A subscription that is not open is good whatever was published.         *)
(***************************************************************************)
LEMMA NotOpenKeeps ==
    ASSUME NEW sc, NEW s, NEW x, NEW g, NEW h, Good(sc, s, x, g, h), x.state # "open",
           NEW h2
    PROVE  Good(sc, s, x, g, h2)
BY DEF Good

(***************************************************************************)
(* _put of a heartbeat or a status, or the overflow.                       *)
(***************************************************************************)
LEMMA PutKeeps ==
    ASSUME NEW sc, NEW s, NEW x, NEW g, NEW h \in Nat, Good(sc, s, x, g, h),
           NEW env \in Envelope, env.type \in {"heartbeat", "stream_status"},
           NEW c \in Cursor, c >= h, c <= Len(sc)
    PROVE  Good(sc, s, PutOrOverflow(x, env, c), g, h)
<1> DEFINE y == PutOrOverflow(x, env, c)
<1>0. x \in Subscription /\ x.queue \in Seq(Envelope) /\ Len(x.queue) <= QueueSize
      /\ Len(x.queue) \in Nat /\ DOMAIN x.queue = 1 .. Len(x.queue)
      BY LenProperties DEF Good, Subscription
<1>1. CASE x.state # "open"
      BY <1>1 DEF PutOrOverflow
<1>2. CASE x.state = "open" /\ Len(x.queue) < QueueSize
  <2> DEFINE q == Append(x.queue, env)
  <2>1. /\ q \in Seq(Envelope) /\ Len(q) = Len(x.queue) + 1
        /\ \A i \in 1 .. Len(x.queue) : q[i] = x.queue[i]
        /\ q[Len(x.queue) + 1] = env /\ DOMAIN q = 1 .. Len(x.queue) + 1
        BY <1>0, AppendProperties, LenProperties
  <2>2. y = [x EXCEPT !.queue = q]
        BY <1>2 DEF PutOrOverflow
  <2>3. y \in Subscription /\ y.state = "open" /\ y.queue = q /\ y.after = x.after
        BY <1>0, <1>2, <2>1, <2>2 DEF Subscription
  <2> HIDE DEF q, y
  <2>4. \A i \in DOMAIN q : i \in DOMAIN x.queue \/ (i = Len(x.queue) + 1 /\ q[i] = env)
        BY <1>0, <2>1
  <2>5. \A i \in DOMAIN x.queue : i \in DOMAIN q /\ q[i] = x.queue[i]
        BY <1>0, <2>1
  <2>6. Len(q) <= QueueSize
        BY <1>0, <1>2, <2>1, BoundsAssumption
  <2>7. Good(sc, s, y, g, h)
        BY <1>2, <2>3, <2>4, <2>5, <2>6 DEF Good
  <2>q. QED
        BY <2>7 DEF y
<1>3. CASE x.state = "open" /\ ~ (Len(x.queue) < QueueSize)
  <2>1. y = ReplaceThenClose(x, SnapshotEnv(c))
        BY <1>3 DEF PutOrOverflow
  <2>2. SnapshotEnv(c) \in Envelope /\ SnapshotEnv(c).type # "event"
        /\ SnapshotEnv(c).cursor >= h /\ SnapshotEnv(c).cursor <= Len(sc)
        BY DEF SnapshotEnv, Envelope
  <2>q. QED
        BY <1>3, <2>1, <2>2, ReplaceKeeps
<1>q. QED
      BY <1>1, <1>2, <1>3

-----------------------------------------------------------------------------
(* Batches.                                                                *)

\* The cursors that follow c, without a hole.
Run(q, c) == \A i \in DOMAIN q : q[i] = c + i

(***************************************************************************)
(* The fresh events are in order and above the broker's cursor, and when   *)
(* there are any the batch ends with the last of them.                     *)
(***************************************************************************)
LEMMA FreshProperties ==
    ASSUME NEW n \in Nat, NEW batch, BatchOK(batch, n), cursor \in Nat
    PROVE  /\ Fresh(batch) \in Seq(1 .. n)
           /\ Sorted(Fresh(batch))
           /\ \A i \in DOMAIN Fresh(batch) : Fresh(batch)[i] > cursor
           /\ Fresh(batch) # <<>> => batch.next = Last(Fresh(batch))
<1> DEFINE e == batch.events
           f == Fresh(batch)
           places == {i \in DOMAIN e : e[i] > cursor}
<1>1. e \in Seq(1 .. n) /\ Sorted(e) /\ (e # <<>> => batch.next = Last(e))
      BY DEF BatchOK, Batches
<1>2. f = Pick(e, places) /\ places \in SUBSET (DOMAIN e)
      BY DEF Fresh
<1> HIDE DEF e, f, places
<1>3. /\ f \in Seq(1 .. n) /\ DOMAIN f = 1 .. Len(f)
      /\ \A k \in DOMAIN f : \E i \in places : f[k] = e[i]
      /\ \A i \in places : \E k \in DOMAIN f : f[k] = e[i]
      /\ Sorted(f)
      BY <1>1, <1>2, PickProperties
<1>4. \A k \in DOMAIN f : f[k] > cursor
      BY <1>3 DEF places
<1>5. ASSUME f # <<>> PROVE batch.next = Last(f)
  <2>1. Len(f) \in Nat /\ Len(f) # 0 /\ Len(f) \in DOMAIN f /\ f[Len(f)] \in 1 .. n
        BY <1>3, <1>5, EmptySeq, LenProperties, ElementOfSeq
  <2>2. PICK i \in places : f[Len(f)] = e[i]
        BY <1>3, <2>1
  <2>3. /\ Len(e) \in Nat /\ DOMAIN e = 1 .. Len(e) /\ i \in 1 .. Len(e)
        /\ e[i] \in 1 .. n /\ e[i] > cursor
        BY <1>1, <2>2, LenProperties, ElementOfSeq DEF places
  <2>4. e # <<>> /\ Len(e) \in DOMAIN e /\ e[Len(e)] \in 1 .. n
        BY <1>1, <2>3, ElementOfSeq
  <2>5. e[i] <= e[Len(e)]
    <3>1. CASE i = Len(e)
          BY <2>3, <3>1
    <3>2. CASE i # Len(e)
      <4>0. i \in 1 .. Len(e) /\ Len(e) \in Nat
            BY <2>3
      <4>1. i < Len(e)
            BY <3>2, <4>0
      <4>2. e[i] < e[Len(e)]
            BY <1>1, <2>3, <2>4, <4>1 DEF Sorted
      <4>q. QED
            BY <2>3, <2>4, <4>2
    <3>q. QED
          BY <3>1, <3>2
  <2>6. Len(e) \in places
        BY <2>3, <2>4, <2>5 DEF places
  <2>7. PICK k \in DOMAIN f : f[k] = e[Len(e)]
        BY <1>3, <2>6
  <2>8. f[k] <= f[Len(f)]
    <3>1. k \in 1 .. Len(f)
          BY <1>3, <2>7
    <3>2. CASE k = Len(f)
          BY <2>1, <3>2
    <3>3. CASE k # Len(f)
      <4>0. k < Len(f)
            BY <2>1, <3>1, <3>3
      <4>1. f[k] < f[Len(f)]
            BY <1>3, <2>1, <2>7, <4>0 DEF Sorted
      <4>q. QED
            BY <2>1, <2>4, <2>7, <4>1
    <3>q. QED
          BY <3>2, <3>3
  <2>9. e[Len(e)] = f[Len(f)]
        BY <2>1, <2>2, <2>4, <2>5, <2>7, <2>8
  <2>q. QED
        BY <1>1, <2>4, <2>9 DEF Last
<1>q. QED
      BY <1>3, <1>4, <1>5 DEF f

(***************************************************************************)
(* What _consume publishes of fresh events that begin right after the      *)
(* cursor is a run of cursors: no event between them is left out.          *)
(***************************************************************************)
LEMMA DenseProperties ==
    ASSUME NEW n \in Nat, NEW c \in Nat, NEW q \in Seq(1 .. n), Sorted(q), q # <<>>,
           \A i \in DOMAIN q : q[i] > c, Head(q) <= c + 1
    PROVE  /\ Dense(q) \in Seq(1 .. n)
           /\ Dense(q) # <<>>
           /\ Run(Dense(q), c)
<1> DEFINE holes == {i \in 2 .. Len(q) : q[i] > q[i - 1] + 1}
           d == Dense(q)
<1>1. /\ Len(q) \in Nat \ {0} /\ DOMAIN q = 1 .. Len(q)
      /\ \A i \in 1 .. Len(q) : q[i] \in 1 .. n
      BY EmptySeq, LenProperties, ElementOfSeq
<1>2. \E m \in 1 .. Len(q) : /\ d = SubSeq(q, 1, m)
                              /\ \A i \in 2 .. m : q[i] <= q[i - 1] + 1
  <2>1. CASE holes = {}
    <3>1. d = SubSeq(q, 1, Len(q))
          BY <2>1, SubSeqFull DEF Dense
    <3>2. ASSUME NEW i \in 2 .. Len(q) PROVE q[i] <= q[i - 1] + 1
      <4>1. i \in 1 .. Len(q) /\ i - 1 \in 1 .. Len(q)
            BY <1>1
      <4>2. ~ (q[i] > q[i - 1] + 1)
            BY <2>1
      <4>3. q[i] \in 1 .. n /\ q[i - 1] \in 1 .. n
            BY <1>1, <4>1
      <4>q. QED
            BY <4>2, <4>3
    <3>3. Len(q) \in 1 .. Len(q)
          BY <1>1
    <3>q. QED
          BY <3>1, <3>2, <3>3
  <2>2. CASE holes # {}
    <3>1. holes \in SUBSET Nat
          BY <1>1
    <3>2. Min(holes) \in holes /\ \A k \in holes : Min(holes) <= k
          BY <2>2, <3>1, MinProperties
    <3>3. d = SubSeq(q, 1, Min(holes) - 1)
          BY <2>2 DEF Dense
    <3> DEFINE m == Min(holes) - 1
    <3>4. m \in 1 .. Len(q) /\ Min(holes) = m + 1
      <4>1. Min(holes) \in 2 .. Len(q) /\ Len(q) \in Nat
            BY <1>1, <3>2
      <4>2. \A k \in 2 .. Len(q) : k - 1 \in 1 .. Len(q) /\ k = (k - 1) + 1
            BY <1>1
      <4> HIDE DEF holes
      <4>q. QED
            BY <4>1, <4>2
    <3> HIDE DEF m
    <3>5. ASSUME NEW i \in 2 .. m PROVE q[i] <= q[i - 1] + 1
      <4>1. i \in 2 .. Len(q) /\ i \in 1 .. Len(q) /\ i - 1 \in 1 .. Len(q)
            /\ ~ (m + 1 <= i)
            BY <1>1, <3>4
      <4>2. i \notin holes
            BY <3>2, <3>4, <4>1
      <4>q. QED
            BY <1>1, <4>1, <4>2
    <3>q. QED
          BY <3>3, <3>4, <3>5 DEF m
  <2>q. QED
        BY <2>1, <2>2
<1>3. PICK m \in 1 .. Len(q) : d = SubSeq(q, 1, m) /\ \A i \in 2 .. m : q[i] <= q[i - 1] + 1
      BY <1>2
<1>4. /\ d \in Seq(1 .. n) /\ Len(d) = m /\ \A i \in 1 .. m : d[i] = q[i]
      /\ DOMAIN d = 1 .. m
  <2>1. \A i \in 1 .. m : q[i] \in 1 .. n
        BY <1>1
  <2>2. /\ SubSeq(q, 1, m) \in Seq(1 .. n)
        /\ Len(SubSeq(q, 1, m)) = m
        /\ \A i \in 1 .. m : SubSeq(q, 1, m)[i] = q[i]
        BY <1>1, <2>1, SubSeqProperties
  <2>q. QED
        BY <1>3, <2>2, LenProperties
<1> HIDE DEF d, holes
<1>5. \A i \in 1 .. m : q[i] = c + i
  <2> DEFINE T == {k \in Nat : k \in 1 .. m => q[k] = c + k}
  <2>1. 0 \in T
        OBVIOUS
  <2>2. ASSUME NEW k \in Nat, k \in T PROVE k + 1 \in T
    <3>1. SUFFICES ASSUME k + 1 \in 1 .. m PROVE q[k + 1] = c + (k + 1)
          OBVIOUS
    <3>a. k + 1 \in 1 .. Len(q)
          BY <1>1, <1>3, <3>1
    <3>2. k + 1 \in 1 .. Len(q) /\ q[k + 1] \in 1 .. n /\ q[k + 1] > c
          BY <1>1, <3>a
    <3>3. CASE k = 0
      <4>1. q[1] <= c + 1
            BY <1>1
      <4>2. q[1] \in 1 .. n /\ q[1] > c /\ k + 1 = 1
            BY <3>2, <3>3
      <4>q. QED
            BY <3>3, <4>1, <4>2
    <3>4. CASE k # 0
      <4>1. k \in 1 .. m /\ k \in 1 .. Len(q) /\ k + 1 \in 2 .. m /\ (k + 1) - 1 = k
            BY <1>1, <3>1, <3>4
      <4>2. q[k] = c + k
            BY <2>2, <4>1
      <4>3. q[k + 1] <= q[k] + 1
            BY <1>3, <4>1
      <4>4. q[k] < q[k + 1]
        <5>1. k < k + 1 /\ k \in DOMAIN q /\ k + 1 \in DOMAIN q
              BY <1>1, <3>2, <4>1
        <5>q. QED
              BY <5>1 DEF Sorted
      <4>5. q[k] \in Nat /\ q[k + 1] \in Nat
            BY <3>2, <4>2
      <4>6. \A a, b \in Nat : (b <= a + 1 /\ a < b) => b = a + 1
            OBVIOUS
      <4>7. q[k + 1] = q[k] + 1
            BY <4>3, <4>4, <4>5, <4>6, Zenon
      <4>q. QED
            BY <4>2, <4>7
    <3>q. QED
          BY <3>3, <3>4
  <2>3. Nat \subseteq T
    <3> HIDE DEF T
    <3>q. QED
          BY <2>1, <2>2, SetInduction
  <2>q. QED
        BY <1>1, <2>3
<1>6. d # <<>>
      BY <1>4
<1>q. QED
      BY <1>4, <1>5, <1>6 DEF Run, d

(***************************************************************************)
(* A sequence of events as envelopes.                                      *)
(***************************************************************************)
LEMMA EventEnvsProperties ==
    ASSUME NEW cs \in Seq(Cursor)
    PROVE  /\ EventEnvs(cs) \in Seq(Envelope)
           /\ Len(EventEnvs(cs)) = Len(cs) /\ Len(cs) \in Nat
           /\ \A i \in 1 .. Len(cs) : EventEnvs(cs)[i] = EventEnv(cs[i])
<1>1. Len(cs) \in Nat /\ DOMAIN cs = 1 .. Len(cs) /\ \A i \in 1 .. Len(cs) : cs[i] \in Cursor
      BY LenProperties, ElementOfSeq
<1>2. \A i \in 1 .. Len(cs) : EventEnv(cs[i]) \in Envelope
      BY <1>1 DEF EventEnv, Envelope
<1>3. EventEnvs(cs) \in [1 .. Len(cs) -> Envelope]
      BY <1>1, <1>2 DEF EventEnvs
<1>4. EventEnvs(cs) \in Seq(Envelope)
      BY <1>1, <1>3, IsASeq
<1>5. Len(EventEnvs(cs)) = Len(cs)
      BY <1>1, <1>3, <1>4, LenProperties
<1>q. QED
      BY <1>1, <1>4, <1>5 DEF EventEnvs

(***************************************************************************)
(* Publishing a run of events after the cursor keeps a subscription good,  *)
(* up to the end of the run: it has room for all that match, or it ends    *)
(* with a snapshot.                                                        *)
(***************************************************************************)
LEMMA PublishKeeps ==
    ASSUME JournalOK, NEW s \in Subscriber, cursor \in Nat,
           NEW events \in Seq(1 .. Len(scopeOf)), Run(events, cursor),
           NEW g, Good(scopeOf, s, sub[s], g, cursor)
    PROVE  Good(scopeOf, s, PublishEvents(s, events), g, cursor + Len(events))
<1> DEFINE x == sub[s]
           y == PublishEvents(s, events)
           places == {i \in DOMAIN events : Matches(s, events[i])}
           matching == Pick(events, places)
           room == QueueSize - Len(x.queue)
           h == cursor + Len(events)
<1>0. /\ x \in Subscription /\ x.queue \in Seq(Envelope) /\ Len(x.queue) <= QueueSize
      /\ Len(x.queue) \in Nat /\ DOMAIN x.queue = 1 .. Len(x.queue) /\ x.after \in Cursor
      /\ Good(scopeOf, s, x, g, cursor)
      BY LenProperties DEF Good, Subscription
<1>1. /\ Len(scopeOf) \in Nat /\ 1 .. Len(scopeOf) \subseteq Cursor /\ QueueSize \in Nat
      /\ Cursor \subseteq Nat
  <2>1. Len(scopeOf) \in Nat /\ Len(scopeOf) <= MaxEvents
        BY LenProperties DEF JournalOK
  <2>2. MaxEvents \in Nat /\ QueueSize \in Nat
        BY BoundsAssumption
  <2>q. QED
        BY <2>1, <2>2 DEF Cursor
<1>2. /\ Len(events) \in Nat /\ DOMAIN events = 1 .. Len(events)
      /\ \A i \in 1 .. Len(events) : events[i] = cursor + i /\ events[i] \in 1 .. Len(scopeOf)
  <2> HIDE DEF x, y, places, matching, room, h
  <2>1. Len(events) \in Nat /\ DOMAIN events = 1 .. Len(events)
        BY LenProperties
  <2>2. \A i \in 1 .. Len(events) : events[i] \in 1 .. Len(scopeOf)
        BY ElementOfSeq
  <2>3. \A i \in 1 .. Len(events) : events[i] = cursor + i
        BY <2>1 DEF Run
  <2>q. QED
        BY <2>1, <2>2, <2>3
<1>3. Sorted(events)
      BY <1>2 DEF Sorted
<1>4. places \in SUBSET (DOMAIN events)
      OBVIOUS
<1>5. y = IF x.state # "open" THEN x
          ELSE IF Len(matching) <= room
          THEN [x EXCEPT !.queue = @ \o EventEnvs(matching)]
          ELSE ReplaceThenClose(x, SnapshotEnv(matching[room + 1]))
      BY DEF PublishEvents
<1>6. \A i \in DOMAIN events :
         i \in places <=> (events[i] > x.after /\ scopeOf[events[i]] \in Filter[s])
      BY DEF Matches
<1> HIDE DEF x, y, places, matching, room
<1>7. /\ matching \in Seq(1 .. Len(scopeOf))
      /\ DOMAIN matching = 1 .. Len(matching)
      /\ \A k \in DOMAIN matching : \E i \in places : matching[k] = events[i]
      /\ \A i \in places : \E k \in DOMAIN matching : matching[k] = events[i]
      /\ Sorted(matching)
      BY <1>3, <1>4, PickProperties DEF matching
<1>8. /\ Len(matching) \in Nat /\ matching \in Seq(Cursor)
      /\ \A k \in 1 .. Len(matching) :
            /\ matching[k] \in Cursor /\ matching[k] > cursor /\ matching[k] <= h
            /\ matching[k] > x.after
  <2>1. Len(matching) \in Nat
        BY <1>7, LenProperties
  <2>2. matching \in Seq(Cursor)
        BY <1>1, <1>7, SeqMonotonic
  <2>3. ASSUME NEW k \in 1 .. Len(matching)
        PROVE  matching[k] \in Cursor /\ matching[k] > cursor /\ matching[k] <= h
               /\ matching[k] > x.after
    <3>1. PICK i \in places : matching[k] = events[i]
          BY <1>7
    <3>2. i \in 1 .. Len(events) /\ events[i] = cursor + i /\ events[i] > x.after
          /\ events[i] \in Cursor
          BY <1>1, <1>2, <1>4, <1>6, <3>1
    <3>q. QED
          BY <1>2, <3>1, <3>2
  <2>q. QED
        BY <2>1, <2>2, <2>3
<1>9. room \in Nat /\ Len(x.queue) + room = QueueSize
      BY <1>0, <1>1 DEF room
<1>a. CASE x.state # "open"
  <2>1. y = x
        BY <1>a, <1>5
  <2>q. QED
        BY <1>0, <1>a, <2>1, NotOpenKeeps DEF x, y
<1>b. CASE x.state = "open" /\ ~ (Len(matching) <= room)
  <2>1. y = ReplaceThenClose(x, SnapshotEnv(matching[room + 1]))
        BY <1>b, <1>5
  <2>2. room + 1 \in 1 .. Len(matching)
        BY <1>8, <1>9, <1>b
  <2>3. /\ matching[room + 1] \in Cursor /\ matching[room + 1] >= cursor
        /\ matching[room + 1] <= Len(scopeOf)
    <3>0. matching[room + 1] \in 1 .. Len(scopeOf)
          BY <1>7, <2>2, ElementOfSeq
    <3>1. matching[room + 1] \in Cursor /\ matching[room + 1] > cursor
          BY <1>8, <2>2
    <3>2. \A c \in Cursor : c > cursor => c >= cursor
          BY <1>1
    <3>q. QED
          BY <1>1, <3>0, <3>1, <3>2
  <2>4. SnapshotEnv(matching[room + 1]) \in Envelope
        /\ SnapshotEnv(matching[room + 1]).type # "event"
        /\ SnapshotEnv(matching[room + 1]).cursor >= cursor
        /\ SnapshotEnv(matching[room + 1]).cursor <= Len(scopeOf)
        BY <2>3 DEF SnapshotEnv, Envelope
  <2>5. Good(scopeOf, s, ReplaceThenClose(x, SnapshotEnv(matching[room + 1])), g, h)
        BY <1>0, <1>b, <2>4, ReplaceKeeps
  <2>q. QED
        BY <2>1, <2>5 DEF y
<1>c. CASE x.state = "open" /\ Len(matching) <= room
  <2> DEFINE n == Len(x.queue)
             q == x.queue \o EventEnvs(matching)
  <2>1. /\ EventEnvs(matching) \in Seq(Envelope) /\ Len(EventEnvs(matching)) = Len(matching)
        /\ \A k \in 1 .. Len(matching) : EventEnvs(matching)[k] = EventEnv(matching[k])
        BY <1>8, EventEnvsProperties
  <2>2. /\ q \in Seq(Envelope) /\ Len(q) = n + Len(matching)
        /\ \A i \in 1 .. Len(q) : q[i] = IF i <= n THEN x.queue[i]
                                         ELSE EventEnvs(matching)[i - n]
        /\ DOMAIN q = 1 .. Len(q)
    <3> DEFINE e == EventEnvs(matching)
    <3>1. x.queue \in Seq(Envelope) /\ e \in Seq(Envelope) /\ Len(e) = Len(matching)
          BY <1>0, <2>1
    <3> HIDE DEF e
    <3>2. /\ x.queue \o e \in Seq(Envelope)
          /\ Len(x.queue \o e) = Len(x.queue) + Len(e)
          /\ \A i \in 1 .. Len(x.queue) + Len(e) :
                (x.queue \o e)[i] = IF i <= Len(x.queue) THEN x.queue[i] ELSE e[i - Len(x.queue)]
          BY <3>1, ConcatProperties
    <3>3. DOMAIN (x.queue \o e) = 1 .. Len(x.queue \o e)
          BY <3>2, LenProperties
    <3>q. QED
          BY <3>1, <3>2, <3>3 DEF e
  <2>3. y = [x EXCEPT !.queue = q]
        BY <1>c, <1>5
  <2>4. y \in Subscription /\ y.state = "open" /\ y.queue = q /\ y.after = x.after
        BY <1>0, <1>c, <2>2, <2>3 DEF Subscription
  <2>5. n \in Nat /\ n + Len(matching) <= QueueSize /\ DOMAIN x.queue = 1 .. n
        BY <1>0, <1>1, <1>8, <1>9, <1>c
  <2> HIDE DEF q, n
  <2>6. \A i \in DOMAIN x.queue : i \in DOMAIN q /\ q[i] = x.queue[i]
        BY <1>8, <2>2, <2>5
  <2>7. \A k \in 1 .. Len(matching) : n + k \in DOMAIN q /\ q[n + k] = EventEnv(matching[k])
    <3>1. SUFFICES ASSUME NEW k \in 1 .. Len(matching)
                   PROVE  n + k \in DOMAIN q /\ q[n + k] = EventEnv(matching[k])
          OBVIOUS
    <3>2. n + k \in 1 .. Len(q) /\ ~ (n + k <= n) /\ (n + k) - n = k
          BY <1>8, <2>2, <2>5
    <3>q. QED
          BY <2>1, <2>2, <3>2
  <2>8. \A i \in DOMAIN q : \/ i \in DOMAIN x.queue
                            \/ \E k \in 1 .. Len(matching) : i = n + k
    <3>1. SUFFICES ASSUME NEW i \in 1 .. n + Len(matching), ~ (i \in 1 .. n)
                   PROVE  \E k \in 1 .. Len(matching) : i = n + k
          BY <2>2, <2>5
    <3>2. i - n \in 1 .. Len(matching) /\ i = n + (i - n)
          BY <1>8, <2>5, <3>1
    <3>q. QED
          BY <3>2
  <2>9. /\ \A c \in g : c \in Nat /\ c <= cursor
        /\ \A i \in DOMAIN x.queue :
              /\ x.queue[i].cursor \in Nat
              /\ x.queue[i].type # "snapshot_required"
              /\ x.queue[i].type = "event" =>
                      /\ x.queue[i].cursor > x.after
                      /\ x.queue[i].cursor <= cursor
                      /\ \A c \in g : c < x.queue[i].cursor
                      /\ \A j \in DOMAIN x.queue :
                            (j < i /\ x.queue[j].type = "event")
                               => x.queue[j].cursor < x.queue[i].cursor
    <3>1. \A i \in DOMAIN x.queue : x.queue[i] \in Envelope
          BY <1>0, ElementOfSeq
    <3>2. \A i \in DOMAIN x.queue : x.queue[i].cursor \in Nat
          BY <1>1, <3>1 DEF Envelope
    <3>q. QED
          BY <1>0, <1>1, <1>c, <3>2 DEF Good
  <2>10. h \in Nat /\ cursor <= h
        BY <1>2
  <2>11. \A c \in g : c <= h
        BY <2>9, <2>10
  <2>12. ASSUME NEW i \in DOMAIN q
         PROVE  /\ q[i].type # "snapshot_required"
                /\ q[i].type = "event" =>
                      /\ q[i].cursor > x.after
                      /\ q[i].cursor <= h
                      /\ \A c \in g : c < q[i].cursor
                      /\ \A j \in DOMAIN q :
                            (j < i /\ q[j].type = "event") => q[j].cursor < q[i].cursor
    <3>1. CASE i \in DOMAIN x.queue
      <4>1. q[i] = x.queue[i]
            BY <2>6, <3>1
      <4>2. \A j \in DOMAIN q : j < i => j \in DOMAIN x.queue /\ q[j] = x.queue[j]
            BY <2>2, <2>5, <2>6, <3>1
      <4>q. QED
            BY <2>9, <2>10, <3>1, <4>1, <4>2
    <3>2. CASE \E k \in 1 .. Len(matching) : i = n + k
      <4>1. PICK k \in 1 .. Len(matching) : i = n + k
            BY <3>2
      <4>2. q[i].type = "event" /\ q[i].cursor = matching[k]
        <5>1. q[i] = EventEnv(matching[k])
              BY <2>7, <4>1
        <5>q. QED
              BY <5>1 DEF EventEnv
      <4>3. ASSUME NEW j \in DOMAIN q, j < i, q[j].type = "event"
            PROVE  q[j].cursor < q[i].cursor
        <5>1. CASE j \in DOMAIN x.queue
          <6>1. x.queue[j].cursor \in Nat /\ x.queue[j].cursor <= cursor /\ q[j] = x.queue[j]
                BY <2>6, <2>9, <4>3, <5>1
          <6>2. matching[k] \in Nat /\ matching[k] > cursor
                BY <1>1, <1>8
          <6>q. QED
                BY <4>2, <6>1, <6>2
        <5>2. CASE \E m \in 1 .. Len(matching) : j = n + m
          <6>1. PICK m \in 1 .. Len(matching) : j = n + m
                BY <5>2
          <6>a. q[j] = EventEnv(matching[m])
                BY <2>7, <6>1
          <6>b. q[j].cursor = matching[m]
                BY <6>a DEF EventEnv
          <6>2. q[j].cursor = matching[m] /\ m < k
                BY <1>8, <2>5, <4>1, <4>3, <6>1, <6>b
          <6>3. matching[m] < matching[k]
                BY <1>7, <6>2 DEF Sorted
          <6>q. QED
                BY <4>2, <6>2, <6>3
        <5>q. QED
              BY <2>8, <5>1, <5>2
      <4>4. matching[k] \in Nat /\ matching[k] > cursor /\ matching[k] <= h
            /\ matching[k] > x.after
            BY <1>1, <1>8
      <4>5. \A c \in g : c < matching[k]
            BY <2>9, <4>4
      <4>q. QED
            BY <4>2, <4>3, <4>4, <4>5
    <3>q. QED
          BY <2>8, <3>1, <3>2
  <2>13. ASSUME NEW c \in 1 .. h, c > x.after, scopeOf[c] \in Filter[s]
         PROVE  c \in g \/ \E i \in DOMAIN q : q[i] = EventEnv(c)
    <3>1. CASE c <= cursor
      <4>1. c \in 1 .. cursor
            BY <3>1
      <4>2. c \in g \/ \E i \in DOMAIN x.queue : x.queue[i] = EventEnv(c)
            BY <1>0, <1>c, <2>13, <4>1 DEF Good
      <4>q. QED
            BY <2>6, <4>2
    <3>2. CASE ~ (c <= cursor)
      <4>1. c - cursor \in 1 .. Len(events) /\ cursor + (c - cursor) = c
            BY <1>2, <3>2
      <4>2. events[c - cursor] = c
            BY <1>2, <4>1
      <4>3. c - cursor \in places
            BY <1>2, <1>6, <2>13, <4>1, <4>2
      <4>4. PICK k \in 1 .. Len(matching) : matching[k] = c
            BY <1>7, <4>2, <4>3
      <4>q. QED
            BY <2>7, <4>4
    <3>q. QED
          BY <3>1, <3>2
  <2>14. Good(scopeOf, s, y, g, h)
    <3>1. Len(q) <= QueueSize /\ g \in SUBSET Cursor
          BY <1>0, <2>2, <2>5 DEF Good
    <3> HIDE DEF h
    <3>q. QED
          BY <2>4, <2>11, <2>12, <2>13, <3>1 DEF Good
  <2>q. QED
        BY <2>14 DEF y
<1>q. QED
      BY <1>a, <1>b, <1>c

-----------------------------------------------------------------------------
(* The steps of the fan-out.                                               *)

\* The initial states satisfy the invariant.
LEMMA FanoutInit == Init => FanoutInv
<1>1. SUFFICES ASSUME Init PROVE FanoutInv
      OBVIOUS
<1> USE DEF Init
<1>0. Len(<<>>) = 0 /\ \A S : <<>> \in Seq(S)
      OBVIOUS
<1>1a. 0 \in Cursor /\ 0 <= MaxEvents /\ 0 <= HistorySize /\ 0 <= QueueSize
       /\ 0 \in 0 .. MaxFailures
      BY BoundsAssumption DEF Cursor
<1>2. JournalOK
      BY <1>1, <1>0, <1>1a DEF JournalOK
<1>3. BrokerOK
  <2>1. CallOK(call, Len(scopeOf))
        BY <1>1 DEF CallOK
  <2>2. HistoryOK(history, cursor)
        BY <1>1, <1>0, <1>1a DEF HistoryOK
  <2>3. cursor \in 0 .. Len(scopeOf) /\ persisted \in 0 .. Len(scopeOf)
        BY <1>1, <1>0
  <2>q. QED
        BY <1>1, <1>1a, <2>1, <2>2, <2>3 DEF BrokerOK
<1>4. ASSUME NEW s \in Subscriber PROVE Good(scopeOf, s, sub[s], got[s], 0)
  <2>1. sub[s] = [state |-> "new", after |-> 0, queue |-> <<>>] /\ got[s] = {}
        BY <1>1
  <2>2. sub[s] \in Subscription
        BY <1>0, <1>1a, <2>1 DEF Subscription, SubStates
  <2>q. QED
        BY <1>0, <1>1a, <2>1, <2>2 DEF Good
<1>5. SubsOK
      BY <1>1, <1>4 DEF SubsOK
<1>q. QED
      BY <1>2, <1>3, <1>5 DEF FanoutInv

(***************************************************************************)
(* What was read of a journal stays read when the journal grows.           *)
(***************************************************************************)
LEMMA CallGrows ==
    ASSUME NEW n \in Nat, NEW x, CallOK(x, n)
    PROVE  CallOK(x, n + 1)
<1>1. Seq(1 .. n) \subseteq Seq(1 .. n + 1) /\ 0 .. n \subseteq 0 .. n + 1
      BY SeqMonotonic
<1>2. Batches(n) \subseteq Batches(n + 1)
      BY <1>1 DEF Batches
<1>q. QED
      BY <1>1, <1>2 DEF CallOK, BatchOK

(***************************************************************************)
(* Steps of the journal leave the subscriptions as they are, and the       *)
(* scopes of the events there were.                                        *)
(***************************************************************************)
LEMMA GoodGrows ==
    ASSUME NEW sc, NEW sc2, NEW s, NEW x, NEW g, NEW h,
           Good(sc, s, x, g, h), \A c \in 1 .. h : sc2[c] = sc[c],
           Len(sc) \in Nat, Len(sc2) \in Nat, Len(sc) <= Len(sc2)
    PROVE  Good(sc2, s, x, g, h)
<1>1. x.queue \in Seq(Envelope)
      BY DEF Good, Subscription
<1>2. \A i \in DOMAIN x.queue : x.queue[i].cursor \in Nat
  <2>1. \A i \in DOMAIN x.queue : x.queue[i] \in Envelope
        BY <1>1, ElementOfSeq, LenProperties
  <2>q. QED
        BY <2>1, BoundsAssumption DEF Envelope, Cursor
<1>q. QED
      BY <1>2 DEF Good

\* _append with its retention: the journal grows, requests and queues stay good.
LEMMA Append1Keeps ==
    ASSUME FanoutInv, NEW p \in Scope, Append1(p)
    PROVE  FanoutInv'
<1> DEFINE n == Len(scopeOf)
           c == n + 1
           kept == Of(p) \cup {c}
           dropped == IF Cardinality(kept) > MaxPerScope THEN {Min(kept)} ELSE {}
<1>1. /\ scopeOf \in Seq(Scope) /\ n \in Nat /\ live \in SUBSET (1 .. n)
      /\ floor \in [Scope -> 0 .. n] /\ snapTo \in [Scope -> 0 .. n]
      BY LenProperties DEF FanoutInv, JournalOK
<1>2. /\ c <= MaxEvents
      /\ scopeOf' = Append(scopeOf, p)
      /\ live' = (live \cup {c}) \ dropped
      /\ floor' = [floor EXCEPT ![p] = Max({@} \cup dropped)]
      /\ snapTo' = [snapTo EXCEPT ![p] = IF dropped = {} THEN @ ELSE Larger(@, c)]
      /\ UNCHANGED <<brokerVars, sub, got, failures>>
      BY DEF Append1
<1>a. 1 .. n \subseteq 1 .. c /\ c \in 1 .. c /\ 0 .. n \subseteq 0 .. c /\ c \in Nat
      /\ 1 .. c \subseteq 0 .. c
      BY <1>1
<1> HIDE DEF c
<1>3. kept \in SUBSET (1 .. c) /\ kept # {}
      BY <1>1, <1>a DEF Of
<1>4. dropped \in SUBSET (1 .. c)
  <2> HIDE DEF kept
  <2>1. kept \in SUBSET Nat
        BY <1>3, <1>a
  <2>2. Min(kept) \in kept
        BY <1>3, <2>1, MinProperties
  <2>q. QED
        BY <1>3, <2>2
<1> HIDE DEF dropped, kept
<1>5. /\ scopeOf' \in Seq(Scope) /\ Len(scopeOf') = c
      /\ \A i \in 1 .. n : scopeOf'[i] = scopeOf[i]
      BY <1>1, <1>2, AppendProperties DEF c
<1>6. Max({floor[p]} \cup dropped) \in 0 .. c
  <2>1. {floor[p]} \cup dropped \in SUBSET (0 .. c) /\ {floor[p]} \cup dropped # {}
        BY <1>1, <1>4, <1>a
  <2>2. /\ {floor[p]} \cup dropped \in SUBSET Nat /\ c \in Nat
        /\ \A k \in {floor[p]} \cup dropped : k <= c
        BY <1>a, <2>1
  <2>3. Max({floor[p]} \cup dropped) \in {floor[p]} \cup dropped
        BY <2>1, <2>2, MaxProperties
  <2>q. QED
        BY <2>1, <2>3
<1>7. floor' \in [Scope -> 0 .. c]
      BY <1>1, <1>2, <1>6, <1>a
<1>8. snapTo' \in [Scope -> 0 .. c]
  <2>1. 0 .. n \subseteq 0 .. c /\ c \in 0 .. c
        BY <1>a
  <2>2. snapTo[p] \in 0 .. c /\ Larger(snapTo[p], c) \in 0 .. c
        BY <1>1, <1>a, <2>1 DEF Larger
  <2>q. QED
        BY <1>1, <1>2, <2>1, <2>2
<1>9. live' \in SUBSET (1 .. c)
      BY <1>1, <1>2, <1>a
<1>10. JournalOK'
      BY <1>2, <1>5, <1>7, <1>8, <1>9 DEF JournalOK
<1>11. BrokerOK'
  <2>1. CallOK(call, c)
        BY <1>1, CallGrows DEF FanoutInv, BrokerOK, c
  <2>2. 0 .. n \subseteq 0 .. c
        BY <1>a
  <2>q. QED
        BY <1>2, <1>5, <2>1, <2>2 DEF FanoutInv, BrokerOK, brokerVars
<1>12. SubsOK'
  <2>1. UNCHANGED <<sub, got, cursor, notice>> /\ cursor \in 0 .. n /\ SubsOK
        BY <1>2 DEF brokerVars, FanoutInv, BrokerOK
  <2>2. ASSUME NEW s \in Subscriber
        PROVE  \E h \in 0 .. cursor :
                 Good(scopeOf', s, sub[s], got[s], h) /\ (~notice => h = cursor)
    <3>1. PICK h \in 0 .. cursor :
                 Good(scopeOf, s, sub[s], got[s], h) /\ (~notice => h = cursor)
          BY <2>1 DEF SubsOK
    <3>2. \A i \in 1 .. h : scopeOf'[i] = scopeOf[i]
      <4>1. 1 .. h \subseteq 1 .. n
            BY <1>1, <2>1, <3>1
      <4>q. QED
            BY <1>5, <4>1
    <3>q. QED
      <4>1. Len(scopeOf) \in Nat /\ Len(scopeOf') \in Nat /\ Len(scopeOf) <= Len(scopeOf')
            BY <1>1, <1>5 DEF c
      <4>2. Good(scopeOf', s, sub[s], got[s], h)
            BY <3>1, <3>2, <4>1, GoodGrows
      <4>q. QED
            BY <3>1, <4>2
  <2>q. QED
        BY <2>1, <2>2 DEF SubsOK
<1>q. QED
      BY <1>10, <1>11, <1>12 DEF FanoutInv

\* purge_thread deletes rows; what was read or queued does not depend on them.
LEMMA PurgeThreadKeeps ==
    ASSUME FanoutInv, NEW p \in Scope, PurgeThread(p)
    PROVE  FanoutInv'
<1> DEFINE n == Len(scopeOf)
<1>1. /\ scopeOf \in Seq(Scope) /\ n \in Nat /\ live \in SUBSET (1 .. n)
      /\ floor \in [Scope -> 0 .. n] /\ snapTo \in [Scope -> 0 .. n]
      BY LenProperties DEF FanoutInv, JournalOK
<1>2. Of(p) \in SUBSET (1 .. n) /\ Of(p) # {}
      BY <1>1 DEF Of, PurgeThread
<1>3. Max(Of(p)) \in 0 .. n
  <2>1. Of(p) \in SUBSET Nat /\ \A k \in Of(p) : k <= n
        BY <1>1, <1>2
  <2>2. Max(Of(p)) \in Of(p)
        BY <1>1, <1>2, <2>1, MaxProperties
  <2>q. QED
        BY <1>2, <2>2
<1>4. Larger(floor[p], Max(Of(p))) \in 0 .. n /\ Larger(snapTo[p], Max(Of(p))) \in 0 .. n
      BY <1>1, <1>3 DEF Larger
<1>5. JournalOK'
      BY <1>1, <1>4 DEF PurgeThread, FanoutInv, JournalOK
<1>6. BrokerOK' /\ SubsOK'
      BY DEF PurgeThread, FanoutInv, BrokerOK, SubsOK, brokerVars
<1>q. QED
      BY <1>5, <1>6 DEF FanoutInv

-----------------------------------------------------------------------------
(* The broker's read.                                                      *)

\* A statement of the Bridge's read changes nothing but the request.
LEMMA BridgeReadKeeps ==
    ASSUME FanoutInv, BridgeReads, ~notice, CallOK(call', Len(scopeOf))
    PROVE  FanoutInv'
<1>1. JournalOK' /\ SubsOK'
      BY DEF FanoutInv, JournalOK, SubsOK, BridgeReads, journalVars
<1>2. BrokerOK'
      BY DEF FanoutInv, BrokerOK, BridgeReads, journalVars
<1>q. QED
      BY <1>1, <1>2 DEF FanoutInv

\* What a request holds at each of its stages.
LEMMA CallStages ==
    ASSUME FanoutInv
    PROVE  /\ Len(scopeOf) \in Nat
           /\ call.stage # "idle" => ~notice
           /\ call.stage = "floor" => call.wait \in BOOLEAN
           /\ call.stage = "rows" => call.wait \in BOOLEAN /\ call.minimum \in 0 .. Len(scopeOf)
           /\ call.stage = "max" =>
                 /\ call.wait \in BOOLEAN /\ call.minimum \in 0 .. Len(scopeOf)
                 /\ call.rows \in Seq(1 .. Len(scopeOf)) /\ Sorted(call.rows)
           /\ call.stage = "reply" => BatchOK(call.batch, Len(scopeOf)) /\ call.more \in BOOLEAN
           /\ call.stage = "gone" =>
                 call.minimum \in 0 .. Len(scopeOf) /\ call.snapshot \in 0 .. Len(scopeOf)
<1>1. Len(scopeOf) \in Nat
      BY LenProperties DEF FanoutInv, JournalOK
<1>2. CallOK(call, Len(scopeOf)) /\ (notice => call = Idle)
      BY DEF FanoutInv, BrokerOK
<1>q. QED
      BY <1>1, <1>2 DEF CallOK, Idle

(***************************************************************************)
(* The largest floor, and the largest snapshot cursor, are cursors.        *)
(***************************************************************************)
LEMMA LargestOfScopes ==
    ASSUME NEW n \in Nat, NEW f \in [Scope -> 0 .. n]
    PROVE  Max({f[p] : p \in Scope}) \in 0 .. n
<1> DEFINE T == {f[p] : p \in Scope}
<1>1. T \in SUBSET Nat /\ T # {} /\ (\A k \in T : k <= n) /\ T \in SUBSET (0 .. n)
      BY BoundsAssumption
<1> HIDE DEF T
<1>2. Max(T) \in T
      BY <1>1, MaxProperties
<1>q. QED
      BY <1>1, <1>2 DEF T

\* The broker asks.
LEMMA AskKeeps == ASSUME FanoutInv, Ask PROVE FanoutInv'
<1>1. ~notice /\ BridgeReads /\ call' = [stage |-> "floor", wait |-> ~replay]
      BY DEF Ask
<1>2. CallOK(call', Len(scopeOf))
      BY <1>1 DEF CallOK
<1>q. QED
      BY <1>1, <1>2, BridgeReadKeeps

\* First statement of replay: a 410, or go on with the floor.
LEMMA ReadFloorKeeps == ASSUME FanoutInv, ReadFloor PROVE FanoutInv'
<1>1. ~notice /\ BridgeReads /\ call.wait \in BOOLEAN /\ Len(scopeOf) \in Nat
      BY CallStages DEF ReadFloor
<1>2. Floor \in 0 .. Len(scopeOf) /\ Max({snapTo[p] : p \in Scope}) \in 0 .. Len(scopeOf)
      BY <1>1, LargestOfScopes DEF Floor, FanoutInv, JournalOK
<1>3. \/ call' = [stage |-> "gone", minimum |-> Floor,
                  snapshot |-> Max({snapTo[p] : p \in Scope})]
      \/ call' = [stage |-> "rows", wait |-> call.wait, minimum |-> Floor]
      BY DEF ReadFloor
<1>4. CallOK(call', Len(scopeOf))
      BY <1>1, <1>2, <1>3 DEF CallOK
<1>q. QED
      BY <1>1, <1>4, BridgeReadKeeps

\* Second statement of replay: rows in ascending order, one past the limit.
LEMMA ReadRowsKeeps == ASSUME FanoutInv, ReadRows PROVE FanoutInv'
<1> DEFINE n == Len(scopeOf)
           after == {c \in live : c > cursor}
           rows == Ascending(after)
           k == Cardinality(after)
           m == IF Len(rows) > BatchLimit + 1 THEN BatchLimit + 1 ELSE Len(rows)
<1>1. /\ ~notice /\ BridgeReads /\ call.wait \in BOOLEAN /\ call.minimum \in 0 .. n
      /\ n \in Nat
      BY CallStages DEF ReadRows
<1>2. call' = [stage |-> "max", wait |-> call.wait, minimum |-> call.minimum,
               rows |-> SubSeq(rows, 1, m)]
      BY DEF ReadRows
<1>3. after \in SUBSET (1 .. n)
      BY DEF FanoutInv, JournalOK
<1>4. rows \in [1 .. k -> after] /\ k \in Nat /\ Sorted(rows)
      BY <1>1, <1>3, AscendingProperties
<1> HIDE DEF after, rows, n, k
<1>5. rows \in Seq(1 .. n) /\ Len(rows) = k /\ DOMAIN rows = 1 .. Len(rows)
  <2>1. rows \in [1 .. k -> 1 .. n]
        BY <1>3, <1>4
  <2>q. QED
        BY <1>4, <2>1, FunctionIsSeq
<1>6. m \in 0 .. Len(rows)
      BY <1>4, <1>5, BoundsAssumption
<1> HIDE DEF m
<1>7. /\ SubSeq(rows, 1, m) \in Seq(1 .. n) /\ DOMAIN SubSeq(rows, 1, m) = 1 .. m
      /\ \A i \in 1 .. m : SubSeq(rows, 1, m)[i] = rows[i]
  <2>0. \A i \in 1 .. m : i \in 1 .. Len(rows)
        BY <1>4, <1>5, <1>6
  <2>1. \A i \in 1 .. m : rows[i] \in 1 .. n
        BY <1>5, <2>0, ElementOfSeq
  <2>2. /\ SubSeq(rows, 1, m) \in Seq(1 .. n)
        /\ Len(SubSeq(rows, 1, m)) = m
        /\ \A i \in 1 .. m : SubSeq(rows, 1, m)[i] = rows[i]
        BY <1>4, <1>5, <1>6, <2>1, SubSeqProperties
  <2>q. QED
        BY <2>2, LenProperties
<1>8. Sorted(SubSeq(rows, 1, m))
      BY <1>4, <1>5, <1>6, <1>7 DEF Sorted
<1>9. CallOK(call', n)
      BY <1>1, <1>2, <1>7, <1>8 DEF CallOK
<1>q. QED
      BY <1>1, <1>9, BridgeReadKeeps DEF n

\* Third statement of replay: the batch ends with its last event.
LEMMA ReadMaxKeeps == ASSUME FanoutInv, ReadMax PROVE FanoutInv'
<1> DEFINE n == Len(scopeOf)
           more == Len(call.rows) > BatchLimit
           events == IF more THEN Front(call.rows) ELSE call.rows
           batch(hb) == [events |-> events, next |-> NextCursor(events),
                         minimum |-> call.minimum, heartbeat |-> hb]
<1>1. /\ ~notice /\ BridgeReads /\ call.wait \in BOOLEAN /\ call.minimum \in 0 .. n
      /\ n \in Nat /\ call.rows \in Seq(1 .. n) /\ Sorted(call.rows)
      BY CallStages DEF ReadMax
<1>2. \/ call' = [stage |-> "floor", wait |-> TRUE]
      \/ call' = [stage |-> "reply", batch |-> batch(TRUE), more |-> FALSE]
      \/ call' = [stage |-> "reply", batch |-> batch(FALSE), more |-> more]
      BY DEF ReadMax
<1>3. /\ Len(call.rows) \in Nat /\ DOMAIN call.rows = 1 .. Len(call.rows)
      /\ \A i \in 1 .. Len(call.rows) : call.rows[i] \in 1 .. n
      BY <1>1, LenProperties, ElementOfSeq
<1>4. events \in Seq(1 .. n) /\ Sorted(events)
  <2>1. CASE ~more
        BY <1>1, <2>1
  <2>2. CASE more
    <3> DEFINE r == call.rows
               m == Len(call.rows) - 1
    <3>1. m \in Nat /\ \A i \in 1 .. m : i \in 1 .. Len(r) /\ r[i] \in 1 .. n
          BY <1>3, <2>2, BoundsAssumption
    <3>2. events = SubSeq(r, 1, m)
          BY <2>2 DEF Front
    <3> HIDE DEF m
    <3>3. /\ SubSeq(r, 1, m) \in Seq(1 .. n) /\ Len(SubSeq(r, 1, m)) = m
          /\ \A i \in 1 .. m : SubSeq(r, 1, m)[i] = r[i]
          BY <3>1, SubSeqProperties
    <3>4. DOMAIN SubSeq(r, 1, m) = 1 .. m
          BY <3>3, LenProperties
    <3>5. Sorted(SubSeq(r, 1, m))
          BY <1>1, <1>3, <3>1, <3>3, <3>4 DEF Sorted
    <3>q. QED
          BY <3>2, <3>3, <3>5
  <2>q. QED
        BY <2>1, <2>2
<1> HIDE DEF n, events, more
<1>5. NextCursor(events) \in 0 .. n
  <2>1. CASE events # <<>>
    <3>1. Len(events) \in 1 .. Len(events)
          BY <1>4, <2>1, EmptySeq, LenProperties
    <3>2. events[Len(events)] \in 1 .. n
          BY <1>4, <3>1, ElementOfSeq
    <3>q. QED
          BY <1>1, <2>1, <3>2 DEF NextCursor, Last
  <2>2. CASE events = <<>>
    <3>1. live \in SUBSET (1 .. n) /\ cursor \in 0 .. n
          BY DEF FanoutInv, JournalOK, BrokerOK, n
    <3>2. MaxLive \in 0 .. n
      <4>0. 0 \in 0 .. n /\ 1 .. n \subseteq 0 .. n
            BY <1>1
      <4>1. CASE live = {}
            BY <4>0, <4>1 DEF MaxLive
      <4>2. CASE live # {}
        <5>1. live \in SUBSET Nat /\ \A k \in live : k <= n
              BY <1>1, <3>1
        <5>2. Max(live) \in live
              BY <1>1, <4>2, <5>1, MaxProperties
        <5>q. QED
              BY <3>1, <4>0, <4>2, <5>2 DEF MaxLive
      <4>q. QED
            BY <4>1, <4>2
    <3>q. QED
          BY <2>2, <3>1, <3>2 DEF NextCursor, Larger
  <2>q. QED
        BY <2>1, <2>2
<1>6. ASSUME NEW hb \in BOOLEAN PROVE BatchOK(batch(hb), n)
  <2>1. events # <<>> => NextCursor(events) = Last(events)
        BY DEF NextCursor
  <2>q. QED
        BY <1>1, <1>4, <1>5, <2>1 DEF BatchOK, Batches
<1>7. more \in BOOLEAN
      BY DEF more
<1>8. CallOK(call', n)
  <2>1. CASE call' = [stage |-> "floor", wait |-> TRUE]
        BY <2>1 DEF CallOK
  <2>2. CASE call' = [stage |-> "reply", batch |-> batch(TRUE), more |-> FALSE]
        BY <1>6, <2>2 DEF CallOK, BatchOK
  <2>3. CASE call' = [stage |-> "reply", batch |-> batch(FALSE), more |-> more]
        BY <1>6, <1>7, <2>3 DEF CallOK, BatchOK
  <2>q. QED
        BY <1>2, <2>1, <2>2, <2>3
<1>q. QED
      BY <1>1, <1>8, BridgeReadKeeps DEF n

-----------------------------------------------------------------------------
(* The broker's answer to what it read.                                    *)

(***************************************************************************)
(* A batch without a gap: what is published of it is a run after the       *)
(* cursor, and when that is everything fresh, the cursor moves to its end. *)
(***************************************************************************)
LEMMA NoGap ==
    ASSUME NEW n \in Nat, NEW batch, BatchOK(batch, n), cursor \in 0 .. n, ~Gap(batch)
    PROVE  /\ Dense(Fresh(batch)) \in Seq(1 .. n) /\ Len(Dense(Fresh(batch))) \in Nat
           /\ Run(Dense(Fresh(batch)), cursor)
           /\ Dense(Fresh(batch)) = Fresh(batch) =>
                 Larger(cursor, batch.next) = cursor + Len(Fresh(batch))
           /\ Dense(Fresh(batch)) # Fresh(batch) => Dense(Fresh(batch)) # <<>>
<1> DEFINE f == Fresh(batch)
           d == Dense(f)
<1>1. /\ f \in Seq(1 .. n) /\ Sorted(f) /\ \A i \in DOMAIN f : f[i] > cursor
      /\ f # <<>> => batch.next = Last(f)
      BY FreshProperties
<1>2. /\ f # <<>> => ~ (Head(f) > cursor + 1)
      /\ f = <<>> => ~ (batch.next > cursor)
      BY DEF Gap
<1>3. cursor \in Nat /\ batch.next \in Nat
      BY DEF BatchOK, Batches
<1> HIDE DEF f
<1>4. CASE f = <<>>
  <2>1. d = <<>>
    <3>1. {i \in 2 .. Len(f) : f[i] > f[i - 1] + 1} = {}
          BY <1>4
    <3>q. QED
          BY <1>4, <3>1 DEF Dense
  <2>2. Larger(cursor, batch.next) = cursor /\ cursor = cursor + 0
        BY <1>2, <1>3, <1>4 DEF Larger
  <2>3. <<>> \in Seq(1 .. n) /\ Len(<<>>) = 0 /\ Run(<<>>, cursor)
        BY DEF Run
  <2>q. QED
        BY <1>4, <2>1, <2>2, <2>3 DEF f
<1>5. CASE f # <<>>
  <2>1. Len(f) \in Nat /\ Len(f) # 0 /\ f[1] \in 1 .. n /\ Head(f) = f[1]
        BY <1>1, <1>5, EmptySeq, LenProperties, ElementOfSeq
  <2>2. Head(f) <= cursor + 1
        BY <1>2, <1>3, <1>5, <2>1
  <2>3. d \in Seq(1 .. n) /\ d # <<>> /\ Run(d, cursor)
        BY <1>1, <1>3, <1>5, <2>2, DenseProperties
  <2>4. Len(d) \in Nat
        BY <2>3, LenProperties
  <2>5. ASSUME d = f PROVE Larger(cursor, batch.next) = cursor + Len(f)
    <3>1. Len(f) \in DOMAIN f
          BY <1>1, <2>1, LenProperties
    <3>2. f[Len(f)] = cursor + Len(f)
          BY <2>3, <2>5, <3>1 DEF Run
    <3>3. batch.next = cursor + Len(f)
          BY <1>1, <1>5, <3>2 DEF Last
    <3>q. QED
          BY <1>3, <2>1, <3>3 DEF Larger
  <2>q. QED
        BY <2>3, <2>4, <2>5 DEF f
<1>q. QED
      BY <1>4, <1>5

(***************************************************************************)
(* _append_history: the history stays the run that ends with the cursor.   *)
(***************************************************************************)
LEMMA RememberKeeps ==
    ASSUME HistoryOK(history, cursor), cursor \in Nat,
           NEW q \in Seq(Cursor), Run(q, cursor)
    PROVE  HistoryOK(Remember(q), cursor + Len(q))
<1> DEFINE all == history \o q
           m == Len(all)
           from == IF m > HistorySize THEN m - HistorySize + 1 ELSE 1
           r == SubSeq(all, from, m)
<1>1. /\ history \in Seq(Cursor) /\ Len(history) \in Nat /\ Len(q) \in Nat
      /\ DOMAIN history = 1 .. Len(history) /\ DOMAIN q = 1 .. Len(q)
      /\ \A i \in 1 .. Len(history) : history[i] + Len(history) = cursor + i
      /\ \A i \in 1 .. Len(q) : q[i] = cursor + i
      /\ HistorySize \in Nat \ {0} /\ Cursor \subseteq Nat
      BY LenProperties, BoundsAssumption DEF HistoryOK, Run, Cursor
<1>2. /\ all \in Seq(Cursor) /\ m = Len(history) + Len(q)
      /\ \A i \in 1 .. m : all[i] = IF i <= Len(history) THEN history[i]
                                     ELSE q[i - Len(history)]
      BY <1>1, ConcatProperties
<1>3. Remember(q) = r
      BY DEF Remember
<1> HIDE DEF all, m
<1>4. ASSUME NEW i \in 1 .. m PROVE all[i] \in Cursor /\ all[i] + m = cursor + Len(q) + i
  <2>0. m \in Nat /\ all[i] \in Cursor
        BY <1>1, <1>2, ElementOfSeq DEF m
  <2>1. CASE i <= Len(history)
    <3>1. i \in 1 .. Len(history)
          BY <2>1
    <3>2. all[i] = history[i] /\ history[i] + Len(history) = cursor + i
          BY <1>1, <1>2, <2>1, <3>1
    <3>3. history[i] \in Nat
          BY <1>1, <2>0, <3>2
    <3>4. \A a, k, l, j \in Nat : a + k = cursor + j => a + (k + l) = cursor + l + j
          OBVIOUS
    <3>5. history[i] + (Len(history) + Len(q)) = cursor + Len(q) + i
      <4>1. i \in Nat /\ Len(history) \in Nat /\ Len(q) \in Nat
            BY <1>1, <3>1
      <4>q. QED
            BY <3>2, <3>3, <3>4, <4>1
    <3>q. QED
          BY <1>2, <2>0, <3>2, <3>5
  <2>2. CASE ~ (i <= Len(history))
    <3>1. i - Len(history) \in 1 .. Len(q)
          BY <1>1, <1>2, <2>2
    <3>2. all[i] = q[i - Len(history)]
          BY <1>2, <2>2
    <3>3. q[i - Len(history)] = cursor + (i - Len(history))
          BY <1>1, <3>1
    <3>q. QED
          BY <1>1, <1>2, <2>0, <3>2, <3>3
  <2>q. QED
        BY <2>1, <2>2
<1>5. /\ m \in Nat /\ from \in 1 .. m + 1 /\ m - from + 1 \in 0 .. HistorySize
      /\ m - from + 1 = IF from <= m THEN m - from + 1 ELSE 0
  <2>1. m \in Nat /\ HistorySize \in Nat \ {0}
        BY <1>1, <1>2
  <2>2. CASE m > HistorySize
    <3>1. from = m - HistorySize + 1
          BY <2>2
    <3>q. QED
          BY <2>1, <2>2, <3>1
  <2>3. CASE ~ (m > HistorySize)
    <3>1. from = 1
          BY <2>3
    <3>q. QED
          BY <2>1, <2>3, <3>1
  <2> HIDE DEF from
  <2>q. QED
        BY <2>2, <2>3
<1> DEFINE k == m - from + 1
<1> HIDE DEF from
<1>6. /\ r \in Seq(Cursor) /\ Len(r) = k
      /\ \A i \in 1 .. k : r[i] = all[from + i - 1]
  <2>1. \A i \in from .. m : all[i] \in Cursor
        BY <1>4, <1>5
  <2>2. from \in Int /\ m \in Int
        BY <1>5
  <2>3. /\ r \in Seq(Cursor) /\ Len(r) = (IF from <= m THEN m - from + 1 ELSE 0)
        /\ \A i \in 1 .. m - from + 1 : r[i] = all[from + i - 1]
        BY <2>1, <2>2, SubSeqProperties
  <2>q. QED
        BY <1>5, <2>3
<1>7. ASSUME NEW i \in 1 .. k PROVE r[i] + k = cursor + Len(q) + i
  <2>1. from + i - 1 \in 1 .. m
        BY <1>5
  <2>2. all[from + i - 1] \in Nat
        /\ all[from + i - 1] + m = cursor + Len(q) + (from + i - 1)
        BY <1>1, <1>4, <2>1
  <2>3. r[i] = all[from + i - 1]
        BY <1>6
  <2>4. \A a, b \in Nat, j \in 1 .. m + 1, x \in 1 .. k :
           a + m = b + (j + x - 1) => a + (m - j + 1) = b + x
        BY <1>5
  <2>5. cursor + Len(q) \in Nat
        BY <1>1
  <2>q. QED
        BY <1>5, <2>2, <2>3, <2>4, <2>5
<1>8. DOMAIN r = 1 .. k
      BY <1>6, LenProperties
<1> HIDE DEF r, k
<1>9. k <= HistorySize
      BY <1>1, <1>5 DEF k
<1>q. QED
      BY <1>3, <1>6, <1>7, <1>8, <1>9 DEF HistoryOK

(***************************************************************************)
(* A jump over a gap, before the subscribers are told.                     *)
(***************************************************************************)
LEMMA JumpKeeps ==
    ASSUME FanoutInv, NEW c \in 0 .. Len(scopeOf), JumpTo(c), call' = Idle,
           replay' \in BOOLEAN, retrying' = FALSE,
           UNCHANGED <<journalVars, stream, got, failures>>,
           sub' = [s \in Subscriber |-> sub'[s]],
           \A s \in Subscriber : \E h \in 0 .. c : Good(scopeOf, s, sub'[s], got[s], h)
    PROVE  FanoutInv'
<1>1. cursor' = c /\ persisted' \in {persisted, c} /\ history' = <<>> /\ notice' = TRUE
      BY DEF JumpTo, Persist
<1>2. JournalOK'
      BY DEF FanoutInv, JournalOK, journalVars
<1>3. HistoryOK(<<>>, c)
      BY BoundsAssumption DEF HistoryOK
<1>4. BrokerOK'
      BY <1>1, <1>3 DEF FanoutInv, BrokerOK, CallOK, journalVars
<1>5. SubsOK'
      BY <1>1 DEF FanoutInv, SubsOK, journalVars
<1>q. QED
      BY <1>2, <1>4, <1>5 DEF FanoutInv

\* Where the cursor goes over a gap: within the journal, and not back.
LEMMA LargestOfThree ==
    ASSUME NEW n \in Nat, NEW a \in 0 .. n, NEW b \in 0 .. n, NEW c \in 0 .. n
    PROVE  Max({a, b, c}) \in 0 .. n /\ Max({a, b, c}) >= a
<1>1. {a, b, c} \in SUBSET Nat /\ {a, b, c} # {} /\ \A k \in {a, b, c} : k <= n
      OBVIOUS
<1>2. Max({a, b, c}) \in {a, b, c} /\ \A k \in {a, b, c} : Max({a, b, c}) >= k
      BY <1>1, MaxProperties
<1>q. QED
      BY <1>2

\* What the invariant says of every subscription when no jump is pending.
LEMMA PublishedToCursor ==
    ASSUME FanoutInv, ~notice, NEW s \in Subscriber
    PROVE  Good(scopeOf, s, sub[s], got[s], cursor)
BY DEF FanoutInv, SubsOK

\* _consume: a gap, a hole in the batch, or a run of events that is published.
LEMMA ConsumeKeeps == ASSUME FanoutInv, Consume PROVE FanoutInv'
<1> DEFINE n == Len(scopeOf)
           batch == call.batch
           f == Fresh(batch)
           d == Dense(f)
<1>1. /\ n \in Nat /\ ~notice /\ BatchOK(batch, n) /\ call.more \in BOOLEAN
      /\ batch.minimum \in 0 .. n /\ batch.next \in 0 .. n /\ batch.heartbeat \in BOOLEAN
      BY CallStages DEF Consume, BatchOK, Batches
<1>2. cursor \in 0 .. n /\ cursor \in Nat /\ n <= MaxEvents /\ MaxEvents \in Nat /\ JournalOK
      BY <1>1, BoundsAssumption DEF FanoutInv, BrokerOK, JournalOK
<1>3. /\ call' = Idle /\ replay' \in BOOLEAN /\ retrying' = FALSE
      /\ UNCHANGED <<journalVars, stream, got, failures>>
      BY <1>1 DEF Consume
<1>4. CASE Gap(batch)
  <2>1. JumpTo(GapTarget(batch)) /\ sub' = sub
        BY <1>4 DEF Consume
  <2>2. GapTarget(batch) \in 0 .. n /\ GapTarget(batch) >= cursor
        BY <1>1, <1>2, LargestOfThree DEF GapTarget
  <2>3. sub' = [s \in Subscriber |-> sub'[s]]
        BY <2>1 DEF FanoutInv, SubsOK
  <2>4. cursor \in 0 .. GapTarget(batch)
        BY <1>2, <2>2
  <2>5. \A s \in Subscriber : Good(scopeOf, s, sub'[s], got[s], cursor)
        BY <1>1, <2>1, PublishedToCursor
  <2>q. QED
        BY <1>3, <2>1, <2>2, <2>3, <2>4, <2>5, JumpKeeps
<1>5. CASE ~Gap(batch)
  <2>1. /\ d \in Seq(1 .. n) /\ Len(d) \in Nat /\ Run(d, cursor)
        /\ d = f => Larger(cursor, batch.next) = cursor + Len(f)
        /\ d # f => d # <<>>
        BY <1>1, <1>2, <1>5, NoGap
  <2>2. \A s \in Subscriber :
           Good(scopeOf, s, PublishEvents(s, d), got[s], cursor + Len(d))
        BY <1>1, <1>2, <2>1, PublishKeeps, PublishedToCursor
  <2>3. CASE d # f
    <3> DEFINE c == Larger(Last(d), batch.next)
    <3>1. JumpTo(c) /\ sub' = [s \in Subscriber |-> PublishEvents(s, d)]
          BY <1>5, <2>3 DEF Consume
    <3>2. Len(d) # 0 /\ Len(d) \in DOMAIN d /\ d[Len(d)] \in 1 .. n
          BY <2>1, <2>3, EmptySeq, LenProperties, ElementOfSeq
    <3>3. Last(d) = cursor + Len(d) /\ Last(d) \in 0 .. n
          BY <1>1, <2>1, <3>2 DEF Run, Last
    <3>4. c \in 0 .. n /\ cursor + Len(d) \in 0 .. c
          BY <1>1, <1>2, <2>1, <3>3 DEF Larger
    <3> HIDE DEF c, d, f
    <3>5. \A s \in Subscriber : sub'[s] = PublishEvents(s, d)
          BY <3>1
    <3>6. sub' = [s \in Subscriber |-> sub'[s]]
          BY <3>1
    <3>7. \A s \in Subscriber : Good(scopeOf, s, sub'[s], got[s], cursor + Len(d))
          BY <2>2, <3>5
    <3>q. QED
          BY <1>3, <3>1, <3>4, <3>6, <3>7, JumpKeeps
  <2>4. CASE d = f
    <3> DEFINE c == Larger(cursor, batch.next)
    <3>1. /\ cursor' = c /\ persisted' \in {persisted, c} /\ history' = Remember(f)
          /\ sub' = [s \in Subscriber |-> Publish(s, batch, f, c)]
          /\ notice' = notice
          BY <1>5, <2>4 DEF Consume, Persist
    <3>2. c \in 0 .. n /\ c = cursor + Len(d)
          BY <1>1, <1>2, <2>1, <2>4 DEF Larger
    <3>3. c \in Cursor /\ c \in Nat /\ c >= c /\ c <= Len(scopeOf)
          BY <1>1, <1>2, <3>2 DEF Cursor
    <3> HIDE DEF c, d, f
    <3>4. d \in Seq(Cursor)
      <4>1. 1 .. n \subseteq Cursor
            BY <1>1, <1>2 DEF Cursor
      <4>q. QED
            BY <2>1, <4>1, SeqMonotonic
    <3>5. HistoryOK(history', c)
          BY <1>2, <2>1, <2>4, <3>1, <3>2, <3>4, RememberKeeps DEF FanoutInv, BrokerOK
    <3>6. ASSUME NEW s \in Subscriber PROVE Good(scopeOf, s, sub'[s], got[s], c)
      <4> DEFINE x == PublishEvents(s, f)
                 y == IF batch.heartbeat THEN PutOrOverflow(x, HeartbeatEnv(c), c) ELSE x
      <4>1. sub'[s] = IF retrying THEN PutOrOverflow(y, StatusEnv(c), c) ELSE y
            BY <3>1 DEF Publish
      <4>2. Good(scopeOf, s, x, got[s], c)
            BY <2>2, <2>4, <3>2
      <4>3. /\ HeartbeatEnv(c) \in Envelope /\ HeartbeatEnv(c).type = "heartbeat"
            /\ StatusEnv(c) \in Envelope /\ StatusEnv(c).type = "stream_status"
            BY <3>3 DEF HeartbeatEnv, StatusEnv, Envelope
      <4> HIDE DEF x
      <4>4. Good(scopeOf, s, y, got[s], c)
            BY <3>3, <4>2, <4>3, PutKeeps
      <4> HIDE DEF y
      <4>q. QED
            BY <3>3, <4>1, <4>3, <4>4, PutKeeps
    <3>7. JournalOK'
          BY <1>3 DEF FanoutInv, JournalOK, journalVars
    <3>8. BrokerOK'
          BY <1>3, <3>1, <3>2, <3>5 DEF FanoutInv, BrokerOK, CallOK, journalVars
    <3>9. SubsOK'
      <4>1. DOMAIN sub' = Subscriber /\ sub' = [s \in Subscriber |-> sub'[s]]
            BY <3>1
      <4>2. c \in 0 .. c
            BY <3>3
      <4>3. scopeOf' = scopeOf /\ got' = got /\ cursor' = c
            BY <1>3, <3>1 DEF journalVars
      <4>4. \A s \in Subscriber : \E h \in 0 .. cursor' :
               Good(scopeOf', s, sub'[s], got'[s], h) /\ (~notice' => h = cursor')
            BY <3>6, <4>2, <4>3
      <4>q. QED
            BY <4>1, <4>3, <4>4 DEF FanoutInv, SubsOK
    <3>q. QED
          BY <3>7, <3>8, <3>9 DEF FanoutInv
  <2>q. QED
        BY <2>3, <2>4
<1>q. QED
      BY <1>4, <1>5

\* _recover_snapshot: the cursor jumps, the subscribers are told later.
LEMMA RecoverSnapshotKeeps == ASSUME FanoutInv, RecoverSnapshot PROVE FanoutInv'
<1> DEFINE n == Len(scopeOf)
           c == Max({cursor, call.snapshot, call.minimum})
<1>1. n \in Nat /\ ~notice /\ call.minimum \in 0 .. n /\ call.snapshot \in 0 .. n
      BY CallStages DEF RecoverSnapshot
<1>2. cursor \in 0 .. n
      BY DEF FanoutInv, BrokerOK
<1>3. c \in 0 .. n /\ c >= cursor
      BY <1>1, <1>2, LargestOfThree
<1>4. /\ JumpTo(c) /\ call' = Idle /\ replay' \in BOOLEAN /\ retrying' = FALSE
      /\ UNCHANGED <<journalVars, stream, got, failures>> /\ sub' = sub
      BY DEF RecoverSnapshot
<1> HIDE DEF c
<1>5. sub' = [s \in Subscriber |-> sub'[s]]
      BY <1>4 DEF FanoutInv, SubsOK
<1>6. cursor \in 0 .. c
      BY <1>1, <1>2, <1>3
<1>7. \A s \in Subscriber : Good(scopeOf, s, sub'[s], got[s], cursor)
      BY <1>1, <1>4, PublishedToCursor
<1>q. QED
      BY <1>3, <1>4, <1>5, <1>6, <1>7, JumpKeeps

(***************************************************************************)
(* Steps that only send envelopes: what is left to show for each.          *)
(***************************************************************************)
LEMMA SendKeeps ==
    ASSUME FanoutInv, UNCHANGED <<journalVars, got>>, BrokerOK', cursor' = cursor,
           sub' = [s \in Subscriber |-> sub'[s]],
           \A s \in Subscriber : \E h \in 0 .. cursor :
              Good(scopeOf, s, sub'[s], got[s], h) /\ (~notice' => h = cursor)
    PROVE  FanoutInv'
<1>1. JournalOK'
      BY DEF FanoutInv, JournalOK, journalVars
<1>2. SubsOK'
      BY DEF FanoutInv, SubsOK, journalVars
<1>q. QED
      BY <1>1, <1>2 DEF FanoutInv

\* The broker's cursor is within the journal, and so is all that was published.
LEMMA CursorFacts ==
    ASSUME FanoutInv
    PROVE  cursor \in Cursor /\ cursor \in Nat
           /\ cursor <= Len(scopeOf) /\ \A h \in 0 .. cursor : h \in Nat /\ cursor >= h
<1>1. Len(scopeOf) \in Nat /\ Len(scopeOf) <= MaxEvents /\ cursor \in 0 .. Len(scopeOf)
      /\ MaxEvents \in Nat
      BY LenProperties, BoundsAssumption DEF FanoutInv, JournalOK, BrokerOK
<1>q. QED
      BY <1>1 DEF Cursor

\* _publish_snapshot ends every open subscription at the cursor.
LEMMA PublishSnapshotKeeps == ASSUME FanoutInv, PublishSnapshot PROVE FanoutInv'
<1>1. /\ notice' = FALSE
      /\ sub' = [s \in Subscriber |-> ReplaceThenClose(sub[s], SnapshotEnv(cursor))]
      /\ UNCHANGED <<journalVars, call, cursor, persisted, history, stream, replay,
                     retrying, got, failures>>
      BY DEF PublishSnapshot
<1>2. BrokerOK'
      BY <1>1 DEF FanoutInv, BrokerOK, journalVars
<1>3. SnapshotEnv(cursor) \in Envelope /\ SnapshotEnv(cursor).type # "event"
      /\ SnapshotEnv(cursor).cursor = cursor
      BY CursorFacts DEF SnapshotEnv, Envelope
<1>4. ASSUME NEW s \in Subscriber PROVE Good(scopeOf, s, sub'[s], got[s], cursor)
  <2>1. PICK h \in 0 .. cursor : Good(scopeOf, s, sub[s], got[s], h)
        BY DEF FanoutInv, SubsOK
  <2>2. sub'[s] = ReplaceThenClose(sub[s], SnapshotEnv(cursor))
        BY <1>1
  <2>3. CASE sub[s].state = "open"
        BY <1>3, <2>1, <2>2, <2>3, ReplaceKeeps, CursorFacts
  <2>4. CASE sub[s].state # "open"
    <3>1. sub'[s] = sub[s]
          BY <2>2, <2>4 DEF ReplaceThenClose
    <3>q. QED
          BY <2>1, <2>4, <3>1, NotOpenKeeps
  <2>q. QED
        BY <2>3, <2>4
<1>5. cursor \in 0 .. cursor
      BY CursorFacts
<1>6. sub' = [s \in Subscriber |-> sub'[s]]
      BY <1>1
<1>q. QED
      BY <1>1, <1>2, <1>4, <1>5, <1>6, SendKeeps

\* A lost reply: a status is queued, or the queue overflows.
LEMMA LoseReplyKeeps == ASSUME FanoutInv, LoseReply PROVE FanoutInv'
<1>1. /\ call # Idle /\ failures < MaxFailures /\ failures' = failures + 1
      /\ call' = Idle /\ replay' = TRUE /\ retrying' = TRUE
      /\ sub' = [s \in Subscriber |-> PutOrOverflow(sub[s], StatusEnv(cursor), cursor)]
      /\ UNCHANGED <<journalVars, cursor, persisted, history, notice, stream, got>>
      BY DEF LoseReply
<1>2. failures' \in 0 .. MaxFailures
      BY <1>1, BoundsAssumption DEF FanoutInv, BrokerOK
<1>3. BrokerOK'
      BY <1>1, <1>2 DEF FanoutInv, BrokerOK, CallOK, journalVars
<1>4. StatusEnv(cursor) \in Envelope /\ StatusEnv(cursor).type = "stream_status"
      BY CursorFacts DEF StatusEnv, Envelope
<1>5. ASSUME NEW s \in Subscriber
      PROVE  \E h \in 0 .. cursor :
               Good(scopeOf, s, sub'[s], got[s], h) /\ (~notice' => h = cursor)
  <2>1. PICK h \in 0 .. cursor :
               Good(scopeOf, s, sub[s], got[s], h) /\ (~notice => h = cursor)
        BY DEF FanoutInv, SubsOK
  <2>2. sub'[s] = PutOrOverflow(sub[s], StatusEnv(cursor), cursor)
        BY <1>1
  <2>3. Good(scopeOf, s, sub'[s], got[s], h)
        BY <1>4, <2>1, <2>2, PutKeeps, CursorFacts
  <2>q. QED
        BY <1>1, <2>1, <2>3
<1>6. sub' = [s \in Subscriber |-> sub'[s]]
      BY <1>1
<1>q. QED
      BY <1>1, <1>3, <1>5, <1>6, SendKeeps

\* The broker gives up: a status ends every open subscription.
LEMMA StopStreamKeeps == ASSUME FanoutInv, StopStream PROVE FanoutInv'
<1>1. /\ call # Idle /\ failures < MaxFailures /\ failures' = failures + 1
      /\ call' = Idle /\ stream' = "stopped"
      /\ sub' = [s \in Subscriber |-> ReplaceThenClose(sub[s], StatusEnv(cursor))]
      /\ UNCHANGED <<journalVars, cursor, persisted, history, notice, replay, retrying, got>>
      BY DEF StopStream
<1>2. failures' \in 0 .. MaxFailures
      BY <1>1, BoundsAssumption DEF FanoutInv, BrokerOK
<1>3. BrokerOK'
      BY <1>1, <1>2 DEF FanoutInv, BrokerOK, CallOK, journalVars
<1>4. StatusEnv(cursor) \in Envelope /\ StatusEnv(cursor).type # "event"
      /\ StatusEnv(cursor).cursor = cursor
      BY CursorFacts DEF StatusEnv, Envelope
<1>5. ASSUME NEW s \in Subscriber
      PROVE  \E h \in 0 .. cursor :
               Good(scopeOf, s, sub'[s], got[s], h) /\ (~notice' => h = cursor)
  <2>1. PICK h \in 0 .. cursor :
               Good(scopeOf, s, sub[s], got[s], h) /\ (~notice => h = cursor)
        BY DEF FanoutInv, SubsOK
  <2>2. sub'[s] = ReplaceThenClose(sub[s], StatusEnv(cursor))
        BY <1>1
  <2>3. Good(scopeOf, s, sub'[s], got[s], h)
    <3>1. CASE sub[s].state = "open"
          BY <1>4, <2>1, <2>2, <3>1, ReplaceKeeps, CursorFacts
    <3>2. CASE sub[s].state # "open"
          BY <2>1, <2>2, <3>2 DEF ReplaceThenClose
    <3>q. QED
          BY <3>1, <3>2
  <2>q. QED
        BY <1>1, <2>1, <2>3
<1>6. sub' = [s \in Subscriber |-> sub'[s]]
      BY <1>1
<1>q. QED
      BY <1>1, <1>3, <1>5, <1>6, SendKeeps

(***************************************************************************)
(* A subscription that ends with nothing left to hand over.                *)
(***************************************************************************)
LEMMA EndKeeps ==
    ASSUME NEW sc, NEW s, NEW x, NEW g, NEW h, Good(sc, s, x, g, h), NEW h2
    PROVE  Good(sc, s, [x EXCEPT !.state = "closed", !.queue = <<>>], g, h2)
<1> DEFINE y == [x EXCEPT !.state = "closed", !.queue = <<>>]
<1>1. x \in Subscription /\ g \in SUBSET Cursor
      BY DEF Good
<1>2. y \in Subscription /\ y.state = "closed" /\ y.queue = <<>>
  <2>1. <<>> \in Seq(Envelope)
        OBVIOUS
  <2>q. QED
        BY <1>1, <2>1 DEF Subscription, SubStates
<1>3. Len(<<>>) = 0 /\ 0 <= QueueSize
      BY BoundsAssumption
<1> HIDE DEF y
<1>4. Good(sc, s, y, g, h2)
      BY <1>1, <1>2, <1>3 DEF Good
<1>q. QED
      BY <1>4 DEF y

\* Home Assistant restarts with the stored cursor, without subscriptions.
LEMMA RestartKeeps == ASSUME FanoutInv, RestartHomeAssistant PROVE FanoutInv'
<1>1. /\ failures < MaxFailures /\ failures' = failures + 1
      /\ cursor' = persisted /\ history' = <<>> /\ notice' = FALSE
      /\ call' = Idle /\ stream' = "following" /\ replay' = TRUE /\ retrying' = FALSE
      /\ sub' = [s \in Subscriber |->
                    IF sub[s].state \in {"open", "closing"}
                    THEN [sub[s] EXCEPT !.state = "closed", !.queue = <<>>] ELSE sub[s]]
      /\ UNCHANGED <<journalVars, persisted, got>>
      BY DEF RestartHomeAssistant
<1>2. failures' \in 0 .. MaxFailures
  <2>1. failures < MaxFailures /\ failures' = failures + 1
        BY <1>1
  <2>q. QED
        BY <2>1, BoundsAssumption DEF FanoutInv, BrokerOK
<1>3. HistoryOK(<<>>, persisted)
      BY BoundsAssumption DEF HistoryOK
<1>4. BrokerOK'
      BY <1>1, <1>2, <1>3 DEF FanoutInv, BrokerOK, CallOK, journalVars
<1>5. JournalOK'
      BY <1>1 DEF FanoutInv, JournalOK, journalVars
<1>6. ASSUME NEW s \in Subscriber PROVE Good(scopeOf, s, sub'[s], got[s], persisted)
  <2>1. PICK h \in 0 .. cursor : Good(scopeOf, s, sub[s], got[s], h)
        BY DEF FanoutInv, SubsOK
  <2>2. CASE sub[s].state \in {"open", "closing"}
    <3>1. sub'[s] = [sub[s] EXCEPT !.state = "closed", !.queue = <<>>]
          BY <1>1, <2>2
    <3>2. Good(scopeOf, s, [sub[s] EXCEPT !.state = "closed", !.queue = <<>>], got[s], persisted)
          BY <2>1, EndKeeps
    <3>q. QED
          BY <3>1, <3>2, Zenon
  <2>3. CASE ~ (sub[s].state \in {"open", "closing"})
    <3>1. sub'[s] = sub[s]
          BY <1>1, <2>3
    <3>q. QED
          BY <2>1, <2>3, <3>1, NotOpenKeeps
  <2>q. QED
        BY <2>2, <2>3
<1>7. SubsOK'
  <2>1. persisted \in 0 .. persisted
        BY LenProperties DEF FanoutInv, BrokerOK, JournalOK
  <2>2. /\ DOMAIN sub' = Subscriber /\ sub' = [s \in Subscriber |-> sub'[s]]
        /\ DOMAIN got' = Subscriber /\ got' = [s \in Subscriber |-> got'[s]]
        BY <1>1 DEF FanoutInv, SubsOK
  <2>3. scopeOf' = scopeOf /\ got' = got /\ cursor' = persisted
        BY <1>1 DEF journalVars
  <2>4. \A s \in Subscriber : \E h \in 0 .. cursor' :
           Good(scopeOf', s, sub'[s], got'[s], h) /\ (~notice' => h = cursor')
        BY <1>6, <2>1, <2>3
  <2>q. QED
        BY <2>2, <2>4 DEF SubsOK
<1>q. QED
      BY <1>4, <1>5, <1>7 DEF FanoutInv

-----------------------------------------------------------------------------
(* Subscribers.                                                            *)

(***************************************************************************)
(* What subscribe makes of a subscription that is handed nothing yet:      *)
(* the events it has to catch up with, from the history, or a snapshot.    *)
(***************************************************************************)
LEMMA SubscribeMakesGood ==
    ASSUME FanoutInv, NEW s \in Subscriber, NEW after \in Cursor, Subscribe(s, after)
    PROVE  Good(scopeOf, s, sub'[s], got[s], cursor)
<1> DEFINE x == sub[s]
           opened == [x EXCEPT !.state = "open", !.after = after]
           gap == ReplaceThenClose(opened, SnapshotEnv(cursor))
           places == {i \in DOMAIN history :
                        history[i] > after /\ scopeOf[history[i]] \in Filter[s]}
           matching == Pick(history, places)
<1>1. PICK h \in 0 .. cursor : Good(scopeOf, s, x, got[s], h)
      BY DEF FanoutInv, SubsOK
<1>2. x.state = "new" /\ x.queue = <<>> /\ got[s] = {} /\ x \in Subscription
      BY <1>1 DEF Good, Subscribe
<1>3. sub'[s] = IF after >= cursor THEN opened
                ELSE IF history = <<>> \/ Last(history) # cursor \/ after < Head(history) - 1
                THEN gap
                ELSE IF Len(matching) > QueueSize THEN gap
                ELSE [opened EXCEPT !.queue = EventEnvs(matching)]
      BY DEF Subscribe, FanoutInv, SubsOK
<1>4. cursor \in Cursor /\ cursor \in Nat /\ after \in Cursor /\ after \in Nat
      /\ Cursor \subseteq Nat /\ QueueSize \in Nat \ {0}
  <2>1. Len(scopeOf) \in Nat /\ Len(scopeOf) <= MaxEvents /\ MaxEvents \in Nat
        BY LenProperties, BoundsAssumption DEF FanoutInv, JournalOK
  <2>q. QED
        BY <2>1, CursorFacts, BoundsAssumption DEF Cursor
<1>5. /\ opened \in Subscription /\ opened.state = "open" /\ opened.after = after
      /\ opened.queue = <<>>
      BY <1>2, <1>4 DEF Subscription, SubStates
<1> HIDE DEF opened, x
<1>6. CASE after >= cursor
  <2>1. sub'[s] = opened
        BY <1>3, <1>6
  <2>2. \A c \in 1 .. cursor : ~ (c > after)
        BY <1>4, <1>6
  <2>3. Len(<<>>) = 0 /\ DOMAIN <<>> = {}
        OBVIOUS
  <2>4. Good(scopeOf, s, opened, got[s], cursor)
        BY <1>2, <1>4, <1>5, <2>2, <2>3 DEF Good
  <2>q. QED
        BY <2>1, <2>4
<1>7. Good(scopeOf, s, gap, got[s], cursor)
  <2> DEFINE env == SnapshotEnv(cursor)
  <2>1. /\ env \in Envelope /\ env.type = "snapshot_required" /\ env.cursor <= Len(scopeOf)
        BY <1>4, CursorFacts DEF SnapshotEnv, Envelope
  <2>2. gap = [opened EXCEPT !.state = "closing", !.queue = <<env>>]
        BY <1>5 DEF ReplaceThenClose
  <2> HIDE DEF env
  <2>3. /\ <<env>> \in Seq(Envelope) /\ Len(<<env>>) = 1 /\ DOMAIN <<env>> = {1}
        /\ <<env>>[1] = env
        BY <2>1
  <2>4. gap \in Subscription /\ gap.state = "closing" /\ gap.queue = <<env>>
        BY <1>5, <2>2, <2>3 DEF Subscription, SubStates
  <2> HIDE DEF gap
  <2>q. QED
        BY <1>2, <1>4, <2>1, <2>3, <2>4 DEF Good
<1>8. CASE /\ ~ (after >= cursor)
           /\ ~ (history = <<>> \/ Last(history) # cursor \/ after < Head(history) - 1)
           /\ ~ (Len(matching) > QueueSize)
  <2> DEFINE y == [opened EXCEPT !.queue = EventEnvs(matching)]
             m == Len(history)
  <2>1. sub'[s] = y
        BY <1>3, <1>8
  <2>2. /\ history \in Seq(Cursor) /\ m \in Nat /\ DOMAIN history = 1 .. m
        /\ \A i \in 1 .. m : history[i] \in Nat /\ history[i] + m = cursor + i
    <3>1. HistoryOK(history, cursor)
          BY DEF FanoutInv, BrokerOK
    <3>2. \A i \in DOMAIN history : history[i] \in Cursor
          BY <3>1, ElementOfSeq, LenProperties DEF HistoryOK
    <3>q. QED
          BY <1>4, <3>1, <3>2, LenProperties DEF HistoryOK
  <2>3. Sorted(history)
    <3>1. SUFFICES ASSUME NEW i \in 1 .. m, NEW j \in 1 .. m, i < j
                   PROVE  history[i] < history[j]
          BY <2>2 DEF Sorted
    <3>2. history[i] \in Nat /\ history[j] \in Nat /\ history[i] + m = cursor + i
          /\ history[j] + m = cursor + j
          BY <2>2
    <3>3. i \in Nat /\ j \in Nat /\ m \in Nat
          BY <2>2
    <3>q. QED
          BY <1>4, <3>1, <3>2, <3>3
  <2>4. \A i \in 1 .. m : history[i] <= cursor
    <3>1. SUFFICES ASSUME NEW i \in 1 .. m PROVE history[i] <= cursor
          OBVIOUS
    <3>2. history[i] \in Nat /\ history[i] + m = cursor + i /\ i \in Nat /\ i <= m
          BY <2>2
    <3>q. QED
          BY <1>4, <2>2, <3>2
  <2>5. places \in SUBSET (DOMAIN history)
        OBVIOUS
  <2>6. /\ matching \in Seq(Cursor)
        /\ DOMAIN matching = 1 .. Len(matching)
        /\ \A k \in DOMAIN matching : \E i \in places : matching[k] = history[i]
        /\ \A i \in places : \E k \in DOMAIN matching : matching[k] = history[i]
        /\ Sorted(matching)
        BY <2>2, <2>3, <2>5, PickProperties
  <2>7. ASSUME NEW c \in 1 .. cursor, c > after, scopeOf[c] \in Filter[s]
        PROVE  \E i \in places : history[i] = c
    <3>1. m # 0 /\ 1 \in 1 .. m /\ Head(history) = history[1] /\ history[1] \in Nat
          /\ history[1] + m = cursor + 1
          BY <1>8, <2>2, EmptySeq
    <3>2. ~ (after < history[1] - 1)
          BY <1>8, <3>1
    <3> DEFINE i == c + m - cursor
    <3>3. i \in 1 .. m
      <4>1. c >= history[1]
            BY <1>4, <2>7, <3>1, <3>2
      <4>q. QED
            BY <1>4, <2>2, <3>1, <4>1
    <3>4. history[i] = c
      <4>1. history[i] \in Nat /\ history[i] + m = cursor + i
            BY <2>2, <3>3
      <4>q. QED
            BY <1>4, <2>2, <4>1
    <3> HIDE DEF i
    <3>5. i \in places
          BY <2>2, <2>7, <3>3, <3>4
    <3>q. QED
          BY <3>4, <3>5
  <2>8. \A k \in 1 .. Len(matching) :
           /\ matching[k] \in Nat /\ matching[k] > after /\ matching[k] <= cursor
    <3>1. SUFFICES ASSUME NEW k \in 1 .. Len(matching)
                   PROVE  matching[k] \in Nat /\ matching[k] > after /\ matching[k] <= cursor
          OBVIOUS
    <3>2. PICK i \in places : matching[k] = history[i]
          BY <2>6
    <3>q. QED
          BY <2>2, <2>4, <3>2
  <2> HIDE DEF places, matching
  <2>9. /\ EventEnvs(matching) \in Seq(Envelope)
        /\ Len(EventEnvs(matching)) = Len(matching) /\ Len(matching) \in Nat
        /\ \A k \in 1 .. Len(matching) : EventEnvs(matching)[k] = EventEnv(matching[k])
        BY <2>6, EventEnvsProperties
  <2> DEFINE q == EventEnvs(matching)
  <2> HIDE DEF q
  <2>10. /\ q \in Seq(Envelope) /\ Len(q) <= QueueSize /\ DOMAIN q = 1 .. Len(matching)
         /\ \A k \in DOMAIN q : q[k] = EventEnv(matching[k])
        BY <1>4, <1>8, <2>9, LenProperties DEF q
  <2>11. /\ y \in Subscription /\ y.state = "open" /\ y.after = after /\ y.queue = q
        BY <1>5, <2>10 DEF Subscription, q
  <2>12. \A k \in DOMAIN q : q[k].type = "event" /\ q[k].cursor = matching[k]
        BY <2>10 DEF EventEnv
  <2> HIDE DEF y
  <2>13. \A k, j \in DOMAIN q : j < k => q[j].cursor < q[k].cursor
        BY <2>6, <2>10, <2>12 DEF Sorted
  <2>14. \A c \in 1 .. cursor : (c > after /\ scopeOf[c] \in Filter[s]) =>
            \E k \in DOMAIN q : q[k] = EventEnv(c)
    <3>1. SUFFICES ASSUME NEW c \in 1 .. cursor, c > after, scopeOf[c] \in Filter[s]
                   PROVE  \E k \in DOMAIN q : q[k] = EventEnv(c)
          OBVIOUS
    <3>2. PICK i \in places : history[i] = c
          BY <2>7, <3>1
    <3>3. PICK k \in DOMAIN matching : matching[k] = c
          BY <2>6, <3>2
    <3>q. QED
          BY <2>6, <2>10, <3>3
  <2>15. Good(scopeOf, s, y, got[s], cursor)
        BY <1>2, <2>8, <2>10, <2>11, <2>12, <2>13, <2>14 DEF Good
  <2>q. QED
        BY <2>1, <2>15
<1>q. QED
      BY <1>3, <1>6, <1>7, <1>8

\* subscribe, with _replay_history.
LEMMA SubscribeKeeps ==
    ASSUME FanoutInv, NEW s \in Subscriber, NEW after \in Cursor, Subscribe(s, after)
    PROVE  FanoutInv'
<1>1. UNCHANGED <<journalVars, brokerVars, got, failures>>
      BY DEF Subscribe
<1>2. BrokerOK'
      BY <1>1 DEF FanoutInv, BrokerOK, journalVars, brokerVars
<1>3. sub' = [u \in Subscriber |-> sub'[u]] /\ \A u \in Subscriber \ {s} : sub'[u] = sub[u]
      BY DEF Subscribe, FanoutInv, SubsOK
<1>4. Good(scopeOf, s, sub'[s], got[s], cursor)
      BY SubscribeMakesGood
<1>5. ASSUME NEW u \in Subscriber
      PROVE  \E h \in 0 .. cursor :
               Good(scopeOf, u, sub'[u], got[u], h) /\ (~notice' => h = cursor)
  <2>1. cursor \in 0 .. cursor /\ notice' = notice
        BY <1>1, CursorFacts DEF brokerVars
  <2>2. CASE u = s
        BY <1>4, <2>1, <2>2
  <2>3. CASE u # s
        BY <1>3, <2>1, <2>3 DEF FanoutInv, SubsOK
  <2>q. QED
        BY <2>2, <2>3
<1>q. QED
      BY <1>1, <1>2, <1>3, <1>5, SendKeeps DEF brokerVars

(***************************************************************************)
(* Handing over the head of the queue.                                     *)
(***************************************************************************)
HandedOver(x, g) ==
    IF Head(x.queue).type = "event" THEN g \cup {Head(x.queue).cursor} ELSE g
Rest(x) ==
    [x EXCEPT !.queue = Tail(@), !.state = IF @ = "closing" THEN "closed" ELSE "open"]

\* The rest of the queue is complete together with what was handed over.
LEMMA HandOverMakesGood ==
    ASSUME NEW sc, NEW s, NEW x, NEW g, NEW h \in Nat, Good(sc, s, x, g, h),
           x.state \in {"open", "closing"}, x.queue # <<>>
    PROVE  Good(sc, s, Rest(x), HandedOver(x, g), h)
<1> DEFINE q == x.queue
           t == Tail(q)
           e == q[1]
           y == Rest(x)
           g2 == HandedOver(x, g)
<1>1. /\ x \in Subscription /\ q \in Seq(Envelope) /\ Len(q) \in Nat /\ Len(q) # 0
      /\ Len(q) <= QueueSize /\ DOMAIN q = 1 .. Len(q) /\ g \in SUBSET Cursor
      /\ \A i \in 1 .. Len(q) : q[i] \in Envelope
      BY LenProperties, EmptySeq, ElementOfSeq DEF Good, Subscription
<1>2. /\ Head(q) = e /\ t \in Seq(Envelope) /\ Len(t) = Len(q) - 1
      /\ \A i \in 1 .. Len(t) : t[i] = q[i + 1]
      BY <1>1, HeadTailProperties
<1>3. DOMAIN t = 1 .. Len(t)
      BY <1>2, LenProperties
<1>4. /\ y = [x EXCEPT !.queue = t, !.state = IF @ = "closing" THEN "closed" ELSE "open"]
      /\ g2 = IF e.type = "event" THEN g \cup {e.cursor} ELSE g
      BY <1>2 DEF Rest, HandedOver
<1>5. /\ y \in Subscription /\ y.queue = t /\ y.after = x.after
      /\ y.state = IF x.state = "closing" THEN "closed" ELSE "open"
      BY <1>1, <1>2, <1>4 DEF Subscription, SubStates
<1>6. Cursor \subseteq Nat /\ e \in Envelope /\ e.cursor \in Cursor /\ QueueSize \in Nat
      BY <1>1, BoundsAssumption DEF Envelope, Cursor
<1> HIDE DEF y, g2, t, e, q
<1>7. g2 \in SUBSET Cursor /\ Len(t) <= QueueSize
      BY <1>1, <1>2, <1>4, <1>6
<1>8. CASE x.state = "closing"
  <2>1. Len(q) <= 1
        BY <1>8 DEF Good, q
  <2>2. t = <<>>
        BY <1>1, <1>2, <2>1, EmptySeq
  <2>3. y.state = "closed"
        BY <1>5, <1>8
  <2>q. QED
        BY <1>5, <1>7, <2>2, <2>3 DEF Good, y, g2
<1>9. CASE x.state = "open"
  <2>1. /\ \A c \in g : c <= h
        /\ \A i \in DOMAIN q :
              /\ q[i].type # "snapshot_required"
              /\ q[i].type = "event" =>
                    /\ q[i].cursor > x.after
                    /\ q[i].cursor <= h
                    /\ \A c \in g : c < q[i].cursor
                    /\ \A j \in DOMAIN q :
                          (j < i /\ q[j].type = "event") => q[j].cursor < q[i].cursor
        /\ \A c \in 1 .. h : (c > x.after /\ sc[c] \in Filter[s]) =>
              c \in g \/ \E i \in DOMAIN q : q[i] = EventEnv(c)
        BY <1>9 DEF Good, q
  <2>2. 1 \in DOMAIN q /\ \A i \in DOMAIN t : i + 1 \in DOMAIN q /\ t[i] = q[i + 1] /\ 1 < i + 1
        BY <1>1, <1>2, <1>3
  <2>3. \A c \in g2 : c <= h
        BY <1>4, <2>1, <2>2 DEF e
  <2>4. ASSUME NEW i \in DOMAIN t
        PROVE  /\ t[i].type # "snapshot_required"
               /\ t[i].type = "event" =>
                    /\ t[i].cursor > x.after
                    /\ t[i].cursor <= h
                    /\ \A c \in g2 : c < t[i].cursor
                    /\ \A j \in DOMAIN t :
                          (j < i /\ t[j].type = "event") => t[j].cursor < t[i].cursor
    <3>1. i + 1 \in DOMAIN q /\ t[i] = q[i + 1] /\ 1 < i + 1
          BY <2>2
    <3>2. \A j \in DOMAIN t : j < i => (j + 1 < i + 1 /\ j + 1 \in DOMAIN q /\ t[j] = q[j + 1])
          BY <1>2, <1>3, <2>2
    <3>3. t[i].type = "event" => \A c \in g2 : c < t[i].cursor
      <4>1. e.type = "event" /\ t[i].type = "event" => e.cursor < t[i].cursor
            BY <2>1, <2>2, <3>1 DEF e
      <4>q. QED
            BY <1>4, <2>1, <3>1, <4>1
    <3>4. t[i].type = "event" => \A j \in DOMAIN t :
             (j < i /\ t[j].type = "event") => t[j].cursor < t[i].cursor
      <4>1. SUFFICES ASSUME t[i].type = "event", NEW j \in DOMAIN t, j < i, t[j].type = "event"
                     PROVE  t[j].cursor < t[i].cursor
            OBVIOUS
      <4>2. j + 1 < i + 1 /\ j + 1 \in DOMAIN q /\ t[j] = q[j + 1]
            BY <3>2, <4>1
      <4>q. QED
            BY <2>1, <3>1, <4>1, <4>2
    <3>q. QED
          BY <2>1, <3>1, <3>3, <3>4
  <2>5. ASSUME NEW c \in 1 .. h, c > x.after, sc[c] \in Filter[s]
        PROVE  c \in g2 \/ \E i \in DOMAIN t : t[i] = EventEnv(c)
    <3>1. CASE c \in g
          BY <1>4, <3>1
    <3>2. CASE \E i \in DOMAIN q : q[i] = EventEnv(c)
      <4>1. PICK i \in DOMAIN q : q[i] = EventEnv(c)
            BY <3>2
      <4>2. CASE i = 1
        <5>1. e.type = "event" /\ e.cursor = c
              BY <4>1, <4>2 DEF e, EventEnv
        <5>q. QED
              BY <1>4, <5>1
      <4>3. CASE i # 1
        <5>1. i - 1 \in DOMAIN t /\ (i - 1) + 1 = i
              BY <1>1, <1>2, <1>3, <4>1, <4>3
        <5>2. t[i - 1] = q[i]
              BY <2>2, <5>1
        <5>q. QED
              BY <4>1, <5>1, <5>2
      <4>q. QED
            BY <4>2, <4>3
    <3>q. QED
          BY <2>1, <2>5, <3>1, <3>2
  <2>6. y.state = "open"
        BY <1>5, <1>9
  <2>7. Good(sc, s, y, g2, h)
        BY <1>5, <1>7, <2>3, <2>4, <2>5, <2>6 DEF Good
  <2>q. QED
        BY <2>7 DEF y, g2
<1>q. QED
      BY <1>8, <1>9

\* One subscription moves, the rest of the fan-out stays.
LEMMA OneSubscription ==
    ASSUME FanoutInv, NEW s \in Subscriber,
           UNCHANGED <<journalVars, brokerVars, failures>>,
           NEW x, NEW g, sub' = [sub EXCEPT ![s] = x], got' = [got EXCEPT ![s] = g],
           \A h \in 0 .. cursor : Good(scopeOf, s, sub[s], got[s], h) => Good(scopeOf, s, x, g, h)
    PROVE  FanoutInv'
<1>1. JournalOK'
      BY DEF FanoutInv, JournalOK, journalVars
<1>2. BrokerOK'
      BY DEF FanoutInv, BrokerOK, journalVars, brokerVars
<1>3. /\ DOMAIN sub = Subscriber /\ DOMAIN got = Subscriber
      /\ sub = [u \in Subscriber |-> sub[u]] /\ got = [u \in Subscriber |-> got[u]]
      BY DEF FanoutInv, SubsOK
<1>4. /\ DOMAIN sub' = Subscriber /\ DOMAIN got' = Subscriber
      /\ sub' = [u \in Subscriber |-> sub'[u]] /\ got' = [u \in Subscriber |-> got'[u]]
      /\ sub'[s] = x /\ got'[s] = g
      /\ \A u \in Subscriber \ {s} : sub'[u] = sub[u] /\ got'[u] = got[u]
      BY <1>3
<1>5. scopeOf' = scopeOf /\ cursor' = cursor /\ notice' = notice
      BY DEF journalVars, brokerVars
<1>6. ASSUME NEW u \in Subscriber
      PROVE  \E h \in 0 .. cursor :
               Good(scopeOf, u, sub'[u], got'[u], h) /\ (~notice => h = cursor)
  <2>1. PICK h \in 0 .. cursor :
               Good(scopeOf, u, sub[u], got[u], h) /\ (~notice => h = cursor)
        BY DEF FanoutInv, SubsOK
  <2>2. CASE u = s
        BY <1>4, <2>1, <2>2
  <2>3. CASE u # s
        BY <1>4, <2>1, <2>3
  <2>q. QED
        BY <2>2, <2>3
<1>7. SubsOK'
      BY <1>4, <1>5, <1>6 DEF SubsOK
<1>q. QED
      BY <1>1, <1>2, <1>7 DEF FanoutInv

\* EventSubscription.get.
LEMMA HandOverKeeps == ASSUME FanoutInv, NEW s \in Subscriber, HandOver(s) PROVE FanoutInv'
<1>1. /\ DOMAIN sub = Subscriber /\ DOMAIN got = Subscriber
      /\ sub = [u \in Subscriber |-> sub[u]] /\ got = [u \in Subscriber |-> got[u]]
      BY DEF FanoutInv, SubsOK
<1>2. /\ sub[s].state \in {"open", "closing"} /\ sub[s].queue # <<>>
      /\ UNCHANGED <<journalVars, brokerVars, failures>>
      BY DEF HandOver
<1>3. sub' = [sub EXCEPT ![s] = Rest(sub[s])]
      BY DEF HandOver, Rest
<1>4. got' = [got EXCEPT ![s] = HandedOver(sub[s], got[s])]
      BY DEF HandOver, HandedOver
<1>5. \A h \in 0 .. cursor : Good(scopeOf, s, sub[s], got[s], h) =>
         Good(scopeOf, s, Rest(sub[s]), HandedOver(sub[s], got[s]), h)
      BY <1>2, HandOverMakesGood, CursorFacts
<1>q. QED
      BY <1>2, <1>3, <1>4, <1>5, OneSubscription

\* EventSubscription.close.
LEMMA UnsubscribeKeeps == ASSUME FanoutInv, NEW s \in Subscriber, Unsubscribe(s) PROVE FanoutInv'
<1> DEFINE x == [sub[s] EXCEPT !.state = "closed", !.queue = <<>>]
<1>1. got = [u \in Subscriber |-> got[u]]
      BY DEF FanoutInv, SubsOK
<1>2. UNCHANGED <<journalVars, brokerVars, failures>> /\ got' = [got EXCEPT ![s] = got[s]]
      BY <1>1 DEF Unsubscribe
<1>3. sub' = [sub EXCEPT ![s] = x]
      BY DEF Unsubscribe
<1>4. \A h \in 0 .. cursor : Good(scopeOf, s, sub[s], got[s], h) => Good(scopeOf, s, x, got[s], h)
      BY EndKeeps
<1> HIDE DEF x
<1>q. QED
      BY <1>2, <1>3, <1>4, OneSubscription

\* The steps of the broker and of its requests.
LEMMA BrokerStepKeeps == ASSUME FanoutInv, BrokerStep PROVE FanoutInv'
<1>1. CASE Ask
      BY <1>1, AskKeeps
<1>2. CASE ReadFloor
      BY <1>2, ReadFloorKeeps
<1>3. CASE ReadRows
      BY <1>3, ReadRowsKeeps
<1>4. CASE ReadMax
      BY <1>4, ReadMaxKeeps
<1>5. CASE Consume
      BY <1>5, ConsumeKeeps
<1>6. CASE RecoverSnapshot
      BY <1>6, RecoverSnapshotKeeps
<1>7. CASE PublishSnapshot
      BY <1>7, PublishSnapshotKeeps
<1>q. QED
      BY <1>1, <1>2, <1>3, <1>4, <1>5, <1>6, <1>7 DEF BrokerStep

\* A stuttering step.
LEMMA FanoutUnchanged == ASSUME FanoutInv, UNCHANGED vars PROVE FanoutInv'
<1>1. JournalOK'
      BY DEF FanoutInv, JournalOK, vars, journalVars
<1>2. BrokerOK'
      BY DEF FanoutInv, BrokerOK, vars, journalVars, brokerVars
<1>3. SubsOK'
      BY DEF FanoutInv, SubsOK, vars, journalVars, brokerVars
<1>q. QED
      BY <1>1, <1>2, <1>3 DEF FanoutInv

(***************************************************************************)
(* The fan-out keeps its invariant: the types, the order of what is read,  *)
(* the history as a run that ends with the cursor, and that every open     *)
(* subscription is complete up to what was published.                      *)
(***************************************************************************)
THEOREM FanoutSafety == Spec => []FanoutInv
<1>1. FanoutInv /\ [Next]_vars => FanoutInv'
  <2>1. SUFFICES ASSUME FanoutInv, [Next]_vars PROVE FanoutInv'
        OBVIOUS
  <2>2. CASE BridgeStep
        BY <2>1, <2>2, Append1Keeps, PurgeThreadKeeps DEF BridgeStep
  <2>3. CASE BrokerStep
        BY <2>1, <2>3, BrokerStepKeeps
  <2>4. CASE FailureStep
        BY <2>1, <2>4, LoseReplyKeeps, StopStreamKeeps, RestartKeeps DEF FailureStep
  <2>a. 0 .. Len(scopeOf) \subseteq Cursor
        BY <2>1, LenProperties, BoundsAssumption DEF FanoutInv, JournalOK, Cursor
  <2>5. CASE SubscriberStep
        BY <2>1, <2>a, <2>5, SubscribeKeeps, HandOverKeeps, UnsubscribeKeeps DEF SubscriberStep
  <2>6. CASE UNCHANGED vars
        BY <2>1, <2>6, FanoutUnchanged
  <2>q. QED
        BY <2>1, <2>2, <2>3, <2>4, <2>5, <2>6 DEF Next
<1>q. QED
      BY <1>1, FanoutInit, PTL DEF Spec

(***************************************************************************)
(* The invariant implies the properties of the run.                        *)
(***************************************************************************)
LEMMA FanoutNoLoss == FanoutInv => NoSilentLoss
<1>1. SUFFICES ASSUME FanoutInv, ~notice, NEW s \in Subscriber, sub[s].state = "open",
                      NEW c \in 1 .. cursor, Matches(s, c)
               PROVE  c \in got[s] \cup Queued(s)
      BY DEF NoSilentLoss
<1>2. Good(scopeOf, s, sub[s], got[s], cursor)
      BY <1>1, PublishedToCursor
<1>3. c \in got[s] \/ \E i \in DOMAIN sub[s].queue : sub[s].queue[i] = EventEnv(c)
      BY <1>1, <1>2 DEF Good, Matches
<1>4. CASE \E i \in DOMAIN sub[s].queue : sub[s].queue[i] = EventEnv(c)
  <2>1. PICK i \in DOMAIN sub[s].queue : sub[s].queue[i] = EventEnv(c)
        BY <1>4
  <2>2. sub[s].queue[i].type = "event" /\ sub[s].queue[i].cursor = c
        BY <2>1 DEF EventEnv
  <2>q. QED
        BY <2>1, <2>2 DEF Queued
<1>q. QED
      BY <1>3, <1>4

\* Likewise for the order of the queues.
LEMMA FanoutInOrder == FanoutInv => OnceInOrder
<1>1. SUFFICES ASSUME FanoutInv, NEW s \in Subscriber, NEW i \in DOMAIN sub[s].queue,
                      sub[s].queue[i].type = "event"
               PROVE  /\ sub[s].queue[i].cursor > sub[s].after
                      /\ \A c \in got[s] : c < sub[s].queue[i].cursor
                      /\ \A j \in 1 .. i - 1 : sub[s].queue[j].type = "event" =>
                            sub[s].queue[j].cursor < sub[s].queue[i].cursor
      BY DEF OnceInOrder
<1> DEFINE x == sub[s]
<1>2. PICK h \in 0 .. cursor : Good(scopeOf, s, x, got[s], h)
      BY <1>1 DEF FanoutInv, SubsOK
<1>3. x.queue \in Seq(Envelope) /\ x.state \in SubStates
      BY <1>2 DEF Good, Subscription
<1>4. x.state = "open"
      BY <1>1, <1>2, <1>3 DEF Good, SubStates
<1>5. \A j \in 1 .. i - 1 : j \in DOMAIN x.queue /\ j < i
      BY <1>1, <1>3, LenProperties
<1>q. QED
      BY <1>1, <1>2, <1>4, <1>5 DEF Good

\* Likewise for the snapshots.
LEMMA FanoutSnapshots == FanoutInv => SnapshotNeverBehind
<1>1. SUFFICES ASSUME FanoutInv, NEW s \in Subscriber, NEW i \in DOMAIN sub[s].queue,
                      sub[s].queue[i].type = "snapshot_required", NEW c \in got[s]
               PROVE  c <= sub[s].queue[i].cursor
      BY DEF SnapshotNeverBehind
<1> DEFINE x == sub[s]
<1>2. PICK h \in 0 .. cursor : Good(scopeOf, s, x, got[s], h)
      BY <1>1 DEF FanoutInv, SubsOK
<1>3. x.state \in SubStates
      BY <1>2 DEF Good, Subscription
<1>4. x.state = "closing"
      BY <1>1, <1>2, <1>3 DEF Good, SubStates
<1>q. QED
      BY <1>1, <1>2, <1>4 DEF Good

(***************************************************************************)
(* No event is lost in silence (NoSilentLoss): an open subscription has,   *)
(* or has queued, every event of its filter up to the broker's cursor,     *)
(* although the three statements of the Bridge's replay interleave with    *)
(* appends, retention and purges, replies are lost, and Home Assistant     *)
(* restarts with an older cursor.                                          *)
(***************************************************************************)
THEOREM NothingLostInSilence == Spec => []NoSilentLoss
BY FanoutSafety, FanoutNoLoss, PTL

(***************************************************************************)
(* A subscription is handed each event at most once and in cursor order    *)
(* (OnceInOrder), also when the journal is read a second time.             *)
(***************************************************************************)
THEOREM HandedOnceInOrder == Spec => []OnceInOrder
BY FanoutSafety, FanoutInOrder, PTL

(***************************************************************************)
(* The snapshot a subscription ends with is never behind an event it was   *)
(* handed (SnapshotNeverBehind), whether it ends by a gap or an overflow.  *)
(***************************************************************************)
THEOREM SnapshotsAreAhead == Spec => []SnapshotNeverBehind
BY FanoutSafety, FanoutSnapshots, PTL

\* The invariant implies the types.
LEMMA FanoutTyped == FanoutInv => TypeOK
<1>1. SUFFICES ASSUME FanoutInv PROVE TypeOK
      OBVIOUS
<1> DEFINE n == Len(scopeOf)
<1>2. n \in Nat /\ n <= MaxEvents /\ MaxEvents \in Nat
      BY <1>1, LenProperties, BoundsAssumption DEF FanoutInv, JournalOK
<1>3. 0 .. n \subseteq Cursor /\ 1 .. n \subseteq Cursor
      BY <1>2 DEF Cursor
<1>4. Seq(1 .. n) \subseteq Seq(Cursor)
      BY <1>3, SeqMonotonic
<1> HIDE DEF n
<1>5. Batches(n) \subseteq Batch
      BY <1>3, <1>4 DEF Batches, Batch
<1>6. call \in Calls
  <2>1. CallOK(call, n)
        BY <1>1 DEF FanoutInv, BrokerOK, n
  <2>q. QED
        BY <2>1, <1>3, <1>4, <1>5 DEF CallOK, Calls
<1>7. sub \in [Subscriber -> Subscription] /\ got \in [Subscriber -> SUBSET Cursor]
      /\ \A s \in Subscriber : Len(sub[s].queue) <= QueueSize
  <2>1. \A s \in Subscriber : /\ sub[s] \in Subscription /\ Len(sub[s].queue) <= QueueSize
                              /\ got[s] \in SUBSET Cursor
        BY <1>1 DEF FanoutInv, SubsOK, Good
  <2>q. QED
        BY <1>1, <2>1 DEF FanoutInv, SubsOK
<1>8. floor \in [Scope -> Cursor] /\ snapTo \in [Scope -> Cursor]
      /\ cursor \in Cursor /\ persisted \in Cursor
      BY <1>1, <1>3 DEF FanoutInv, JournalOK, BrokerOK, n
<1>q. QED
      BY <1>1, <1>6, <1>7, <1>8 DEF TypeOK, FanoutInv, JournalOK, BrokerOK, HistoryOK

(***************************************************************************)
(* The fan-out keeps its types (TypeOK): the cursors stay within the       *)
(* journal, the history and the queues within their bounds.                *)
(***************************************************************************)
THEOREM FanoutTypes == Spec => []TypeOK
BY FanoutSafety, FanoutTyped, PTL

-----------------------------------------------------------------------------
(* The panel: its invariant.                                               *)

\* The chat is whole: the journal has dropped none of its events, and what it
\* has of the chat fits one get_events page.
WholeChat == floor[Thread] = 0 /\ Cardinality(Of(Thread)) <= PageLimit

\* Answers and requests when the journal has n events.
Answers(n) == [gone : {FALSE}, page : SUBSET (1 .. n)] \cup [gone : {TRUE}, snapshot : 0 .. n]
Floors(n) == 0 .. n \cup {NoFloor}
RequestOK(r, n) ==
    \/ r = NoRequest
    \/ r \in [kind : {"refresh"}, floor : Floors(n)]
    \/ r \in [kind : {"refreshed"}, floor : Floors(n), answer : Answers(n)]
    \/ r \in [kind : {"poll"}, after : 0 .. n]
    \/ r \in [kind : {"polled"}, answer : Answers(n)]

\* The panel's cursor is not ahead of the journal, and not behind what its
\* subscription started from or has handed over; without a subscription the
\* broker has nothing for it.
PanelShape ==
    /\ seen \in 0 .. Len(scopeOf) /\ shown \in SUBSET Cursor /\ needs \in BOOLEAN
    /\ link \in [state : LinkStates, after : 0 .. Len(scopeOf)]
    /\ link.after <= seen
    /\ request.kind = "poll" => request.after <= seen
    /\ link.state # "active" => sub[Mine].state = "new"
    /\ link.state = "active" => sub[Mine].after = link.after
    /\ \A c \in got[Mine] : c <= seen
    /\ RequestOK(request, Len(scopeOf))

\* A refresh's answer is complete up to the cursor it will set, a poll's
\* between the panel's cursor and its last event.
RefreshedComplete ==
    request.kind = "refreshed" =>
        /\ ~request.answer.gone
        /\ \A c \in Of(Thread) : c <= RefreshCursor(request.answer, request.floor)
                                    => c \in request.answer.page
PolledComplete ==
    request.kind = "polled" =>
        /\ ~request.answer.gone
        /\ \A c \in Of(Thread), d \in request.answer.page :
              (c > seen /\ c <= d) => c \in request.answer.page

Complete == TranscriptComplete /\ RefreshedComplete /\ PolledComplete

PanelInv == FanoutInv /\ PanelShape /\ (WholeChat => Complete)

-----------------------------------------------------------------------------
(* The panel: what its steps do to the journal and to its subscription.    *)

(***************************************************************************)
(* What the broker puts in a queue, or ends a subscription with, leaves    *)
(* where it started, and a subscription that was never opened, alone.      *)
(***************************************************************************)
IsSub(x) == x = [state |-> x.state, after |-> x.after, queue |-> x.queue]
SameStart(x, y) ==
    IsSub(y) /\ y.after = x.after /\ (x.state = "new" => y.state = "new")

\* Ending a subscription.
LEMMA ReplaceStart ==
    ASSUME NEW x, IsSub(x), NEW env
    PROVE  SameStart(x, ReplaceThenClose(x, env))
BY DEF IsSub, SameStart, ReplaceThenClose

\* A heartbeat or a status, or the overflow.
LEMMA PutStart ==
    ASSUME NEW x, IsSub(x), NEW env, NEW c
    PROVE  SameStart(x, PutOrOverflow(x, env, c))
BY ReplaceStart DEF IsSub, SameStart, PutOrOverflow

\* The events of a batch.
LEMMA PublishEventsStart ==
    ASSUME NEW s, IsSub(sub[s]), NEW events
    PROVE  SameStart(sub[s], PublishEvents(s, events))
BY ReplaceStart DEF IsSub, SameStart, PublishEvents

\* All that a batch without a gap sends.
LEMMA PublishStart ==
    ASSUME NEW s, IsSub(sub[s]), NEW batch, NEW events, NEW c
    PROVE  SameStart(sub[s], Publish(s, batch, events, c))
<1> DEFINE x == PublishEvents(s, events)
           y == IF batch.heartbeat THEN PutOrOverflow(x, HeartbeatEnv(c), c) ELSE x
<1>1. Publish(s, batch, events, c) =
         IF retrying THEN PutOrOverflow(y, StatusEnv(c), c) ELSE y
      BY DEF Publish
<1>2. SameStart(sub[s], x)
      BY PublishEventsStart
<1> HIDE DEF x
<1>3. SameStart(sub[s], y)
      BY <1>2, PutStart DEF SameStart
<1> HIDE DEF y
<1>q. QED
      BY <1>1, <1>3, PutStart DEF SameStart

(***************************************************************************)
(* A step of the journal or the broker leaves the panel's subscription     *)
(* where it started, and hands nothing over.                               *)
(***************************************************************************)
LEMMA UpstreamMine ==
    ASSUME FanoutInv, Upstream
    PROVE  SameStart(sub[Mine], sub'[Mine]) /\ got' = got
<1>1. IsSub(sub[Mine]) /\ Mine \in Subscriber
  <2>1. Mine \in Subscriber
        BY PanelAssumption
  <2>2. sub[Mine] \in Subscription
        BY <2>1 DEF FanoutInv, SubsOK, Good
  <2>q. QED
        BY <2>1, <2>2 DEF Subscription, IsSub
<1>2. ASSUME sub' = sub, got' = got
      PROVE  SameStart(sub[Mine], sub'[Mine]) /\ got' = got
      BY <1>1, <1>2 DEF SameStart
<1>3. CASE \E p \in Scope : Append1(p)
      BY <1>2, <1>3 DEF Append1
<1>4. CASE BrokerStep
  <2>1. CASE Ask \/ ReadFloor \/ ReadRows \/ ReadMax
        BY <1>2, <2>1 DEF Ask, ReadFloor, ReadRows, ReadMax, BridgeReads
  <2>2. CASE RecoverSnapshot
        BY <1>2, <2>2 DEF RecoverSnapshot
  <2>3. CASE PublishSnapshot
    <3>1. sub'[Mine] = ReplaceThenClose(sub[Mine], SnapshotEnv(cursor)) /\ got' = got
          BY <1>1, <2>3 DEF PublishSnapshot
    <3>q. QED
          BY <1>1, <3>1, ReplaceStart
  <2>4. CASE Consume
    <3> DEFINE batch == call.batch
               fresh == Fresh(batch)
    <3>1. /\ got' = got
          /\ \/ sub' = sub
             \/ sub' = [s \in Subscriber |-> PublishEvents(s, Dense(fresh))]
             \/ sub' = [s \in Subscriber |-> Publish(s, batch, fresh, cursor')]
          BY <2>4 DEF Consume
    <3> HIDE DEF batch, fresh
    <3>2. \/ sub' = sub
          \/ sub'[Mine] = PublishEvents(Mine, Dense(fresh))
          \/ sub'[Mine] = Publish(Mine, batch, fresh, cursor')
          BY <1>1, <3>1
    <3>q. QED
          BY <1>1, <1>2, <3>1, <3>2, PublishEventsStart, PublishStart
  <2>q. QED
        BY <1>4, <2>1, <2>2, <2>3, <2>4 DEF BrokerStep
<1>5. CASE LoseReply
  <2>1. sub'[Mine] = PutOrOverflow(sub[Mine], StatusEnv(cursor), cursor) /\ got' = got
        BY <1>1, <1>5 DEF LoseReply
  <2>q. QED
        BY <1>1, <2>1, PutStart
<1>6. CASE StopStream
  <2>1. sub'[Mine] = ReplaceThenClose(sub[Mine], StatusEnv(cursor)) /\ got' = got
        BY <1>1, <1>6 DEF StopStream
  <2>q. QED
        BY <1>1, <2>1, ReplaceStart
<1>q. QED
      BY <1>3, <1>4, <1>5, <1>6 DEF Upstream

(***************************************************************************)
(* Steps other than an append leave the journal alone.                     *)
(***************************************************************************)
LEMMA JournalStays ==
    ASSUME Upstream
    PROVE  UNCHANGED journalVars \/ \E p \in Scope : Append1(p)
<1>1. BrokerStep => UNCHANGED journalVars
      BY DEF BrokerStep, Ask, ReadFloor, ReadRows, ReadMax, BridgeReads, Consume,
             RecoverSnapshot, PublishSnapshot
<1>2. LoseReply \/ StopStream => UNCHANGED journalVars
      BY DEF LoseReply, StopStream
<1>q. QED
      BY <1>1, <1>2 DEF Upstream

(***************************************************************************)
(* The rows of the chat are among the journal's events, and finitely many. *)
(***************************************************************************)
LEMMA ChatRows ==
    ASSUME FanoutInv
    PROVE  /\ Len(scopeOf) \in Nat /\ Thread \in Scope /\ floor[Thread] \in Nat
           /\ Of(Thread) \in SUBSET (1 .. Len(scopeOf)) /\ IsFiniteSet(Of(Thread))
<1>1. Len(scopeOf) \in Nat /\ live \in SUBSET (1 .. Len(scopeOf)) /\ Thread \in Scope
      /\ floor \in [Scope -> 0 .. Len(scopeOf)]
      BY LenProperties, PanelAssumption DEF FanoutInv, JournalOK
<1>2. Of(Thread) \in SUBSET (1 .. Len(scopeOf))
      BY <1>1 DEF Of
<1>3. IsFiniteSet(1 .. Len(scopeOf))
      BY <1>1, FS_Interval
<1>q. QED
      BY <1>1, <1>2, <1>3, FS_Subset

(***************************************************************************)
(* A chat that is whole after an append was whole before it, and has at    *)
(* most the new event more.                                                *)
(***************************************************************************)
LEMMA WholeBefore ==
    ASSUME FanoutInv, NEW p \in Scope, Append1(p), WholeChat'
    PROVE  /\ WholeChat
           /\ \A i \in Of(Thread)' : i \in Of(Thread) \/ i = Len(scopeOf) + 1
<1> DEFINE n == Len(scopeOf)
           c == n + 1
           kept == Of(p) \cup {c}
           dropped == IF Cardinality(kept) > MaxPerScope THEN {Min(kept)} ELSE {}
<1>1. /\ scopeOf \in Seq(Scope) /\ n \in Nat /\ live \in SUBSET (1 .. n)
      /\ floor \in [Scope -> 0 .. n] /\ Thread \in Scope
      BY LenProperties, ChatRows DEF FanoutInv, JournalOK
<1>2. /\ scopeOf' = Append(scopeOf, p) /\ live' = (live \cup {c}) \ dropped
      /\ floor' = [floor EXCEPT ![p] = Max({@} \cup dropped)]
      BY DEF Append1
<1>a. /\ 1 .. n \subseteq 1 .. c /\ c \in 1 .. c /\ 0 .. n \subseteq 0 .. c /\ c \in Nat
      /\ 1 .. c \subseteq 0 .. c /\ 1 .. c \subseteq Nat /\ 0 .. c \subseteq Nat
      /\ \A k \in 0 .. c : k <= c
      BY <1>1
<1>6. /\ \A i \in 1 .. n : scopeOf'[i] = scopeOf[i]
      /\ scopeOf'[c] = p /\ ~ (c \in 1 .. n)
      BY <1>1, <1>2, AppendProperties
<1> HIDE DEF c
<1>3. kept \in SUBSET (1 .. c) /\ kept # {} /\ kept \in SUBSET Nat
      BY <1>1, <1>a DEF Of
<1>4. Min(kept) \in kept
  <2> HIDE DEF kept
  <2>q. QED
        BY <1>3, MinProperties
<1>5. dropped \in SUBSET kept
      BY <1>4
<1> HIDE DEF dropped
<1>7. \A i \in Of(Thread)' : i \in Of(Thread) \/ i = c
      BY <1>1, <1>2, <1>6 DEF Of
<1>8. floor[Thread] = 0 /\ Of(Thread) \in SUBSET (Of(Thread)')
  <2>1. CASE p = Thread
    <3> DEFINE m == {floor[p]} \cup dropped
    <3>1. /\ m \in SUBSET (0 .. c) /\ m # {} /\ m \in SUBSET Nat /\ c \in Nat
          /\ \A k \in m : k <= c
      <4>1. floor[p] \in 0 .. c /\ dropped \in SUBSET (0 .. c)
            BY <1>1, <1>3, <1>5, <1>a
      <4>q. QED
            BY <1>a, <4>1
    <3> HIDE DEF m
    <3>2. \A k \in m : Max(m) >= k
          BY <3>1, MaxProperties
    <3>3. floor'[Thread] = Max(m)
          BY <1>1, <1>2, <2>1 DEF m
    <3>4. \A k \in m : k = 0
      <4>1. Max(m) = 0
            BY <3>3 DEF WholeChat
      <4>q. QED
            BY <3>1, <3>2, <4>1
    <3>5. floor[Thread] = 0
          BY <2>1, <3>4 DEF m
    <3>6. dropped = {}
      <4>1. \A k \in dropped : k = 0 /\ k \in 1 .. c
            BY <1>3, <1>5, <3>4 DEF m
      <4>2. ~ (0 \in 1 .. c)
            BY <1>a
      <4>q. QED
            BY <4>1, <4>2
    <3>q. QED
          BY <1>1, <1>2, <1>6, <3>5, <3>6 DEF Of
  <2>2. CASE p # Thread
    <3>1. floor'[Thread] = floor[Thread]
          BY <1>1, <1>2, <2>2
    <3>2. floor[Thread] = 0
          BY <3>1 DEF WholeChat
    <3>3. ASSUME NEW i \in Of(Thread) PROVE i \in Of(Thread)'
      <4>1. i \in live /\ i \in 1 .. n /\ scopeOf[i] = Thread
            BY <1>1 DEF Of
      <4>2. ~ (i \in kept)
            BY <1>6, <2>2, <4>1 DEF Of
      <4>q. QED
            BY <1>2, <1>5, <1>6, <4>1, <4>2 DEF Of
    <3>q. QED
          BY <3>2, <3>3
  <2>q. QED
        BY <2>1, <2>2
<1>9. Cardinality(Of(Thread)) <= PageLimit
  <2>1. IsFiniteSet(Of(Thread)')
    <3>1. Of(Thread)' \in SUBSET (Of(Thread) \cup {c})
          BY <1>7
    <3>2. IsFiniteSet(Of(Thread) \cup {c})
          BY ChatRows, FS_AddElement
    <3>q. QED
          BY <3>1, <3>2, FS_Subset
  <2>2. /\ Cardinality(Of(Thread)) \in Nat /\ Cardinality(Of(Thread)') \in Nat
        /\ Cardinality(Of(Thread)) <= Cardinality(Of(Thread)')
        BY <1>8, <2>1, ChatRows, FS_Subset, FS_CardinalityType
  <2>3. Cardinality(Of(Thread)') <= PageLimit /\ PageLimit \in Nat
        BY PanelAssumption DEF WholeChat
  <2>q. QED
        BY <2>2, <2>3
<1>q. QED
      BY <1>7, <1>8, <1>9 DEF WholeChat, c

(***************************************************************************)
(* A new subscription object: the fan-out has nothing for it yet.          *)
(***************************************************************************)
LEMMA ResetKeeps ==
    ASSUME FanoutInv, RestOfFanout, sub' = [sub EXCEPT ![Mine] = FreshSub],
           got' = [got EXCEPT ![Mine] = {}]
    PROVE  FanoutInv' /\ sub'[Mine] = FreshSub /\ got'[Mine] = {}
<1>1. Mine \in Subscriber
      BY PanelAssumption
<1>2. /\ FreshSub \in Subscription /\ FreshSub.state = "new" /\ FreshSub.queue = <<>>
      /\ Len(<<>>) = 0 /\ DOMAIN <<>> = {} /\ QueueSize \in Nat
  <2>1. 0 \in Cursor /\ <<>> \in Seq(Envelope) /\ QueueSize \in Nat
        BY BoundsAssumption DEF Cursor
  <2>q. QED
        BY <2>1 DEF FreshSub, Subscription, SubStates
<1>3. \A h \in 0 .. cursor : Good(scopeOf, Mine, FreshSub, {}, h)
      BY <1>2 DEF Good
<1>4. sub'[Mine] = FreshSub /\ got'[Mine] = {}
      BY <1>1 DEF FanoutInv, SubsOK
<1>q. QED
      BY <1>1, <1>3, <1>4, OneSubscription DEF RestOfFanout

-----------------------------------------------------------------------------
(* The panel: every step keeps the invariant.                              *)

(***************************************************************************)
(* What is asked for or answered stays so when the journal grows.          *)
(***************************************************************************)
LEMMA RequestGrows ==
    ASSUME NEW n \in Nat, NEW r, RequestOK(r, n)
    PROVE  RequestOK(r, n + 1)
<1>1. 0 .. n \subseteq 0 .. n + 1 /\ 1 .. n \subseteq 1 .. n + 1
      OBVIOUS
<1>2. Floors(n) \subseteq Floors(n + 1) /\ Answers(n) \subseteq Answers(n + 1)
      BY <1>1 DEF Floors, Answers
<1>q. QED
      BY <1>2 DEF RequestOK

(***************************************************************************)
(* The stages of a request, and what each of them holds.                   *)
(***************************************************************************)
LEMMA RequestStages ==
    ASSUME PanelInv
    PROVE  /\ request.kind = "refresh" => request.floor \in Floors(Len(scopeOf))
           /\ request.kind = "refreshed" =>
                 /\ request.floor \in Floors(Len(scopeOf))
                 /\ request.answer \in Answers(Len(scopeOf))
           /\ request.kind = "poll" => request.after \in 0 .. seen /\ request.after \in Nat
           /\ request.kind = "polled" => request.answer \in Answers(Len(scopeOf))
BY DEF PanelInv, PanelShape, RequestOK, NoRequest

(***************************************************************************)
(* The largest of the numbers in an answer's page and a start.             *)
(***************************************************************************)
LEMMA PageMax ==
    ASSUME NEW n \in Nat, NEW page \in SUBSET (0 .. n), page # {}
    PROVE  /\ Max(page) \in page /\ Max(page) \in 0 .. n
           /\ \A c \in page : c <= Max(page)
<1>1. page \in SUBSET Nat /\ \A k \in page : k <= n
      OBVIOUS
<1>2. Max(page) \in page /\ \A k \in page : Max(page) >= k
      BY <1>1, MaxProperties
<1>3. Max(page) \in Nat
      BY <1>1, <1>2
<1>q. QED
      BY <1>1, <1>2, <1>3

(***************************************************************************)
(* The cursor a refresh sets is within the journal, and covers its page    *)
(* and its floor.                                                          *)
(***************************************************************************)
LEMMA RefreshCursorBounds ==
    ASSUME NEW n \in Nat, NEW answer \in Answers(n), NEW f \in Floors(n)
    PROVE  RefreshCursor(answer, f) \in 0 .. n
<1>1. HighestOf(answer) \in 0 .. n
  <2>1. CASE answer.gone
        BY <2>1 DEF Answers, HighestOf
  <2>2. CASE ~answer.gone
    <3>1. answer.page \in SUBSET (1 .. n)
          BY <2>2 DEF Answers
    <3>2. answer.page \in SUBSET (0 .. n)
          BY <3>1
    <3>3. answer.page # {} => Max(answer.page) \in 0 .. n
          BY <3>2, PageMax
    <3>q. QED
          BY <2>2, <3>3 DEF HighestOf
  <2>q. QED
        BY <2>1, <2>2
<1>2. f # NoFloor => f \in 0 .. n
      BY DEF Floors
<1>q. QED
      BY <1>1, <1>2 DEF RefreshCursor, Larger

(***************************************************************************)
(* get_events answers within the journal, and for a whole chat with every  *)
(* event after the cursor it is given.                                     *)
(***************************************************************************)
LEMMA GetEventsProperties ==
    ASSUME FanoutInv, NEW after \in Nat
    PROVE  /\ GetEvents(after) \in Answers(Len(scopeOf))
           /\ WholeChat => /\ GetEvents(after).gone = FALSE
                           /\ GetEvents(after).page = {c \in Of(Thread) : c > after}
<1> DEFINE n == Len(scopeOf)
           rows == {c \in Of(Thread) : c > after}
           page == {c \in rows : Cardinality({d \in rows : d <= c}) <= PageLimit}
<1>1. /\ n \in Nat /\ floor[Thread] \in 0 .. n /\ snapTo[Thread] \in 0 .. n
      /\ Of(Thread) \in SUBSET (1 .. n) /\ IsFiniteSet(Of(Thread))
      BY ChatRows DEF FanoutInv, JournalOK
<1>2. page \in SUBSET (1 .. n)
      BY <1>1
<1>3. Larger(snapTo[Thread], floor[Thread]) \in 0 .. n
      BY <1>1 DEF Larger
<1>4. GetEvents(after) =
         IF after < floor[Thread]
         THEN [gone |-> TRUE, snapshot |-> Larger(snapTo[Thread], floor[Thread])]
         ELSE [gone |-> FALSE, page |-> page]
      BY DEF GetEvents
<1>5. WholeChat => page = rows
  <2>1. SUFFICES ASSUME WholeChat, NEW c \in rows
                 PROVE  Cardinality({d \in rows : d <= c}) <= PageLimit
        OBVIOUS
  <2> DEFINE T == {d \in rows : d <= c}
  <2>2. T \in SUBSET Of(Thread)
        OBVIOUS
  <2> HIDE DEF T
  <2>3. IsFiniteSet(T) /\ Cardinality(T) <= Cardinality(Of(Thread))
        BY <1>1, <2>2, FS_Subset
  <2>4. /\ Cardinality(T) \in Nat /\ Cardinality(Of(Thread)) \in Nat
        /\ Cardinality(Of(Thread)) <= PageLimit /\ PageLimit \in Nat
        BY <1>1, <2>1, <2>3, FS_CardinalityType, PanelAssumption DEF WholeChat
  <2>5. Cardinality(T) <= PageLimit
        BY <2>3, <2>4
  <2>q. QED
        BY <2>5 DEF T
<1> HIDE DEF page, rows
<1>6. GetEvents(after) \in Answers(n)
      BY <1>2, <1>3, <1>4 DEF Answers
<1>7. WholeChat => ~ (after < floor[Thread])
      BY DEF WholeChat
<1>q. QED
      BY <1>4, <1>5, <1>6, <1>7 DEF rows

(***************************************************************************)
(* Steps of the panel leave the chat in the journal as it is.              *)
(***************************************************************************)
LEMMA ChatStays ==
    ASSUME UNCHANGED journalVars
    PROVE  /\ scopeOf' = scopeOf /\ Of(Thread)' = Of(Thread)
           /\ WholeChat' <=> WholeChat
BY DEF journalVars, Of, WholeChat

\* Bounds that the steps of the panel use.
LEMMA PanelFacts ==
    ASSUME PanelInv
    PROVE  /\ FanoutInv /\ Len(scopeOf) \in Nat /\ Len(scopeOf) <= MaxEvents
           /\ MaxEvents \in Nat /\ seen \in 0 .. Len(scopeOf) /\ seen \in Nat
           /\ Mine \in Subscriber /\ 0 .. Len(scopeOf) \subseteq Cursor
           /\ Of(Thread) \in SUBSET (1 .. Len(scopeOf))
<1>1. FanoutInv /\ seen \in 0 .. Len(scopeOf) /\ Mine \in Subscriber
      BY PanelAssumption DEF PanelInv, PanelShape
<1>2. Len(scopeOf) \in Nat /\ Len(scopeOf) <= MaxEvents /\ MaxEvents \in Nat
      BY <1>1, LenProperties, BoundsAssumption DEF FanoutInv, JournalOK
<1>q. QED
      BY <1>1, <1>2, ChatRows DEF Cursor

\* The journal and the broker move on without the panel.
LEMMA UpstreamKeeps == ASSUME PanelInv, Upstream PROVE PanelInv'
<1>1. FanoutInv'
  <2>1. FanoutInv
        BY DEF PanelInv
  <2>q. QED
        BY <2>1, Append1Keeps, BrokerStepKeeps, LoseReplyKeeps, StopStreamKeeps DEF Upstream
<1>2. UNCHANGED panelVars /\ UNCHANGED <<seen, shown, needs, link, request>>
      BY DEF Upstream, panelVars
<1>3. SameStart(sub[Mine], sub'[Mine]) /\ got' = got
      BY UpstreamMine DEF PanelInv
<1>4. CASE UNCHANGED journalVars
  <2>1. PanelShape'
        BY <1>2, <1>3, <1>4 DEF PanelInv, PanelShape, SameStart, journalVars
  <2>2. (WholeChat => Complete)'
        BY <1>2, <1>4, ChatStays
           DEF PanelInv, Complete, TranscriptComplete, RefreshedComplete, PolledComplete
  <2>q. QED
        BY <1>1, <2>1, <2>2 DEF PanelInv
<1>5. CASE \E p \in Scope : Append1(p)
  <2>1. PICK p \in Scope : Append1(p)
        BY <1>5
  <2> DEFINE n == Len(scopeOf)
  <2>2. n \in Nat /\ scopeOf \in Seq(Scope) /\ scopeOf' = Append(scopeOf, p)
        BY <2>1, PanelFacts DEF Append1, PanelInv, FanoutInv, JournalOK
  <2>3. Len(scopeOf') = n + 1
        BY <2>2, AppendProperties
  <2>4. RequestOK(request, n + 1)
        BY <2>2, RequestGrows DEF PanelInv, PanelShape
  <2>5. 0 .. n \subseteq 0 .. n + 1
        BY <2>2
  <2>6. PanelShape'
        BY <1>2, <1>3, <2>3, <2>4, <2>5 DEF PanelInv, PanelShape, SameStart
  <2>7. ASSUME WholeChat' PROVE Complete'
    <3>1. Complete /\ \A c \in Of(Thread)' : c \in Of(Thread) \/ c = n + 1
          BY <2>1, <2>7, WholeBefore DEF PanelInv
    <3>2. ASSUME NEW c \in Of(Thread)', NEW k \in 0 .. n, c <= k PROVE c \in Of(Thread)
          BY <2>2, <3>1, <3>2
    <3>3. seen \in 0 .. n
          BY PanelFacts
    <3>4. TranscriptComplete'
          BY <1>2, <3>1, <3>2, <3>3 DEF Complete, TranscriptComplete
    <3>5. RefreshedComplete'
      <4>1. SUFFICES ASSUME request.kind = "refreshed" PROVE RefreshedComplete'
            BY <1>2 DEF RefreshedComplete
      <4>2. RefreshCursor(request.answer, request.floor) \in 0 .. n
            BY <2>2, <4>1, RequestStages, RefreshCursorBounds
      <4>q. QED
            BY <1>2, <3>1, <3>2, <4>1, <4>2 DEF Complete, RefreshedComplete
    <3>6. PolledComplete'
      <4>1. SUFFICES ASSUME request.kind = "polled" PROVE PolledComplete'
            BY <1>2 DEF PolledComplete
      <4>2. ~request.answer.gone /\ request.answer \in Answers(n)
            BY <3>1, <4>1, RequestStages DEF Complete, PolledComplete
      <4>3. request.answer.page \in SUBSET (1 .. n)
            BY <4>2 DEF Answers
      <4>4. 1 .. n \subseteq 0 .. n
            BY <2>2
      <4>q. QED
            BY <1>2, <3>1, <3>2, <4>1, <4>3, <4>4 DEF Complete, PolledComplete
    <3>q. QED
          BY <3>4, <3>5, <3>6 DEF Complete
  <2>q. QED
        BY <1>1, <2>6, <2>7 DEF PanelInv
<1>q. QED
      BY <1>4, <1>5, JournalStays

\* get_events is answered: a whole chat, or all of it past the cursor.
LEMMA AnswerRequestKeeps == ASSUME PanelInv, AnswerRequest PROVE PanelInv'
<1> DEFINE n == Len(scopeOf)
<1>1. UNCHANGED <<seen, shown, needs, link, sub, got>> /\ UNCHANGED vars /\ UNCHANGED journalVars
      BY DEF AnswerRequest, RestOfFanout, vars
<1>2. FanoutInv'
      BY <1>1, FanoutUnchanged DEF PanelInv
<1>3. 0 \in Nat /\ seen \in Nat /\ n \in Nat /\ FanoutInv
      BY PanelFacts
<1>4. \A a \in Nat : /\ GetEvents(a) \in Answers(n)
                     /\ WholeChat => /\ GetEvents(a).gone = FALSE
                                     /\ GetEvents(a).page = {c \in Of(Thread) : c > a}
      BY <1>3, GetEventsProperties
<1>5. \/ /\ request.kind = "refresh"
         /\ request' = [kind |-> "refreshed", floor |-> request.floor, answer |-> GetEvents(0)]
      \/ /\ request.kind = "poll"
         /\ request' = [kind |-> "polled", answer |-> GetEvents(request.after)]
      BY DEF AnswerRequest
<1>6. RequestOK(request', n)
      BY <1>3, <1>4, <1>5, RequestStages DEF RequestOK
<1>7. PanelShape'
  <2>1. request'.kind # "poll"
        BY <1>5
  <2>q. QED
        BY <1>1, <1>6, <2>1 DEF PanelInv, PanelShape, journalVars
<1>8. ASSUME WholeChat' PROVE Complete'
  <2>1. WholeChat /\ Of(Thread)' = Of(Thread) /\ Complete
        BY <1>1, <1>8, ChatStays DEF PanelInv
  <2>2. TranscriptComplete'
        BY <1>1, <2>1 DEF Complete, TranscriptComplete
  <2>3. Of(Thread) \in SUBSET (1 .. n)
        BY PanelFacts
  <2>4. \A c \in Of(Thread) : c > 0
        BY <1>3, <2>3
  <2>5. RefreshedComplete'
        BY <1>3, <1>4, <1>5, <2>1, <2>4 DEF RefreshedComplete
  <2>6. PolledComplete'
    <3>1. CASE request.kind = "refresh"
          BY <1>5, <3>1 DEF PolledComplete
    <3>2. CASE request.kind = "poll"
      <4>1. request.after \in Nat /\ request.after <= seen
            BY <1>3, <3>2, RequestStages
      <4>2. \A c \in Of(Thread) : c > seen => c > request.after
            BY <1>3, <2>3, <4>1
      <4>q. QED
            BY <1>1, <1>4, <1>5, <2>1, <3>2, <4>1, <4>2 DEF PolledComplete
    <3>q. QED
          BY <1>5, <3>1, <3>2
  <2>q. QED
        BY <2>2, <2>5, <2>6 DEF Complete
<1>q. QED
      BY <1>2, <1>7, <1>8 DEF PanelInv

\* A request fails.
LEMMA LoseAnswerKeeps == ASSUME PanelInv, LoseAnswer PROVE PanelInv'
<1>1. /\ failures < MaxFailures /\ failures' = failures + 1 /\ request' = NoRequest
      /\ UNCHANGED <<journalVars, brokerVars, sub, got, seen, shown, needs, link>>
      BY DEF LoseAnswer
<1>2. failures' \in 0 .. MaxFailures
      BY <1>1, BoundsAssumption DEF PanelInv, FanoutInv, BrokerOK
<1>3. FanoutInv'
      BY <1>1, <1>2 DEF PanelInv, FanoutInv, JournalOK, BrokerOK, SubsOK, journalVars, brokerVars
<1>4. PanelShape'
      BY <1>1 DEF PanelInv, PanelShape, RequestOK, NoRequest, journalVars
<1>5. WholeChat' => Complete'
      BY <1>1, ChatStays DEF PanelInv, Complete, TranscriptComplete, RefreshedComplete,
                             PolledComplete, NoRequest
<1>q. QED
      BY <1>3, <1>4, <1>5 DEF PanelInv

\* subscribe_events, from the cursor the panel asked with.
LEMMA OpenSubscriptionKeeps == ASSUME PanelInv, OpenSubscription PROVE PanelInv'
<1>1. /\ Subscribe(Mine, link.after) /\ link' = [link EXCEPT !.state = "active"]
      /\ UNCHANGED <<seen, shown, needs, request>>
      /\ UNCHANGED <<journalVars, brokerVars, got, failures>>
      BY DEF OpenSubscription, Subscribe
<1>2. /\ link \in [state : LinkStates, after : 0 .. Len(scopeOf)]
      /\ link.after \in Cursor
      BY PanelFacts DEF PanelInv, PanelShape
<1>3. FanoutInv'
      BY <1>1, <1>2, PanelFacts, SubscribeKeeps
<1>4. sub'[Mine].after = link.after
  <2> DEFINE opened == [sub[Mine] EXCEPT !.state = "open", !.after = link.after]
             gap == ReplaceThenClose(opened, SnapshotEnv(cursor))
  <2>1. Mine \in Subscriber /\ DOMAIN sub = Subscriber /\ sub[Mine] \in Subscription
        BY PanelFacts DEF FanoutInv, SubsOK, Good
  <2>2. \/ sub'[Mine] = opened
        \/ sub'[Mine] = gap
        \/ \E q : sub'[Mine] = [opened EXCEPT !.queue = q]
        BY <1>1, <2>1 DEF Subscribe
  <2>a. opened \in Subscription /\ opened.after = link.after
        BY <1>2, <2>1 DEF Subscription, SubStates
  <2> HIDE DEF opened
  <2>3. IsSub(opened) /\ opened.after = link.after
        BY <2>a DEF IsSub, Subscription
  <2>4. gap.after = link.after
        BY <2>3, ReplaceStart DEF SameStart
  <2>5. \A q : [opened EXCEPT !.queue = q].after = link.after
        BY <2>3 DEF IsSub
  <2> HIDE DEF gap
  <2>q. QED
        BY <2>2, <2>3, <2>4, <2>5
<1>5. link'.state = "active" /\ link'.after = link.after
      /\ link' \in [state : LinkStates, after : 0 .. Len(scopeOf)]
      BY <1>1, <1>2 DEF LinkStates
<1>6. PanelShape'
      BY <1>1, <1>4, <1>5 DEF PanelInv, PanelShape, journalVars
<1>7. WholeChat' => Complete'
      BY <1>1, ChatStays DEF PanelInv, Complete, TranscriptComplete, RefreshedComplete,
                             PolledComplete
<1>q. QED
      BY <1>3, <1>6, <1>7 DEF PanelInv

\* The subscription is refused: the panel waits, then asks from its cursor.
LEMMA SubscriptionFailsKeeps == ASSUME PanelInv, SubscriptionFails PROVE PanelInv'
<1>1. /\ failures < MaxFailures /\ failures' = failures + 1 /\ link.state = "pending"
      /\ link' = [link EXCEPT !.state = "waiting"]
      /\ UNCHANGED <<journalVars, brokerVars, sub, got, seen, shown, needs, request>>
      BY DEF SubscriptionFails
<1>2. failures' \in 0 .. MaxFailures
      BY <1>1, BoundsAssumption DEF PanelInv, FanoutInv, BrokerOK
<1>3. FanoutInv'
      BY <1>1, <1>2 DEF PanelInv, FanoutInv, JournalOK, BrokerOK, SubsOK, journalVars, brokerVars
<1>4. /\ link' \in [state : LinkStates, after : 0 .. Len(scopeOf)]
      /\ link'.state = "waiting" /\ link'.after = link.after
      BY <1>1 DEF PanelInv, PanelShape, LinkStates
<1>5. PanelShape'
      BY <1>1, <1>4 DEF PanelInv, PanelShape, journalVars
<1>6. WholeChat' => Complete'
      BY <1>1, ChatStays DEF PanelInv, Complete, TranscriptComplete, RefreshedComplete,
                             PolledComplete
<1>q. QED
      BY <1>3, <1>5, <1>6 DEF PanelInv

LEMMA ReconnectKeeps == ASSUME PanelInv, Reconnect PROVE PanelInv'
<1>1. /\ link.state = "waiting" /\ link' = [state |-> "pending", after |-> seen]
      /\ UNCHANGED vars /\ UNCHANGED journalVars
      /\ UNCHANGED <<sub, got, seen, shown, needs, request>>
      BY DEF Reconnect, fanoutVars, vars
<1>2. FanoutInv'
      BY <1>1, FanoutUnchanged DEF PanelInv
<1>3. /\ link' \in [state : LinkStates, after : 0 .. Len(scopeOf)]
      /\ link'.state = "pending" /\ link'.after = seen /\ seen <= seen
      BY <1>1, PanelFacts DEF LinkStates
<1>4. PanelShape'
      BY <1>1, <1>3 DEF PanelInv, PanelShape, journalVars
<1>5. WholeChat' => Complete'
      BY <1>1, ChatStays DEF PanelInv, Complete, TranscriptComplete, RefreshedComplete,
                             PolledComplete
<1>q. QED
      BY <1>2, <1>4, <1>5 DEF PanelInv

\* The user's refresh, and a poll tick that only asks or abandons.
LEMMA AskingKeeps ==
    ASSUME PanelInv, UNCHANGED <<seen, shown, needs>>, KeepSubscription, RestOfFanout,
           RequestOK(request', Len(scopeOf)), request'.kind \in {"none", "refresh", "poll"},
           request'.kind = "poll" => request'.after <= seen
    PROVE  PanelInv'
<1>1. UNCHANGED vars /\ UNCHANGED journalVars /\ UNCHANGED <<link, sub, got>>
      BY DEF KeepSubscription, RestOfFanout, vars
<1>2. FanoutInv'
      BY <1>1, FanoutUnchanged DEF PanelInv
<1>3. PanelShape'
      BY <1>1 DEF PanelInv, PanelShape, journalVars
<1>4. WholeChat' => Complete'
      BY <1>1, ChatStays DEF PanelInv, Complete, TranscriptComplete, RefreshedComplete,
                             PolledComplete
<1>q. QED
      BY <1>2, <1>3, <1>4 DEF PanelInv

\* A boundary, and a poll tick that recovers from one: the subscription is
\* dropped and nothing is trusted until the refresh.
LEMMA BoundaryKeeps ==
    ASSUME PanelInv, NEW c \in 0 .. Len(scopeOf), seen' = c, needs' = TRUE, shown' = shown,
           request' = Refresh(c), StopSubscription, RestOfFanout
    PROVE  PanelInv'
<1>1. FanoutInv' /\ sub'[Mine] = FreshSub /\ got'[Mine] = {}
      BY ResetKeeps DEF StopSubscription, PanelInv
<1>2. UNCHANGED journalVars /\ link' = NoLink
      BY DEF RestOfFanout, StopSubscription
<1>3. Len(scopeOf) \in Nat
      BY PanelFacts
<1>4. RequestOK(request', Len(scopeOf)) /\ request'.kind = "refresh"
      BY DEF RequestOK, Refresh, Floors
<1>5. PanelShape'
      BY <1>1, <1>2, <1>3, <1>4
         DEF PanelInv, PanelShape, NoLink, LinkStates, FreshSub, journalVars
<1>6. Complete'
      BY <1>4 DEF Complete, TranscriptComplete, RefreshedComplete, PolledComplete
<1>q. QED
      BY <1>1, <1>5, <1>6 DEF PanelInv

\* The user asks for a refresh.
LEMMA UserRefreshKeeps == ASSUME PanelInv, UserRefresh PROVE PanelInv'
<1>1. request' = [kind |-> "refresh", floor |-> NoFloor]
      BY DEF UserRefresh, Refresh
<1>2. RequestOK(request', Len(scopeOf)) /\ request'.kind = "refresh"
      BY <1>1 DEF RequestOK, Floors
<1>q. QED
      BY <1>2, AskingKeeps DEF UserRefresh

\* _runPollTick.
LEMMA PollTickKeeps == ASSUME PanelInv, PollTick PROVE PanelInv'
<1>1. CASE needs
  <2>1. /\ request' = Refresh(seen) /\ StopSubscription /\ RestOfFanout
        /\ seen' = seen /\ needs' = TRUE /\ shown' = shown
        BY <1>1 DEF PollTick, PanelInv, PanelShape
  <2>q. QED
        BY <2>1, PanelFacts, BoundaryKeeps
<1>2. CASE ~needs
  <2>1. /\ request' = NoRequest \/ request' = [kind |-> "poll", after |-> seen]
        /\ UNCHANGED <<seen, shown, needs>> /\ KeepSubscription /\ RestOfFanout
        BY <1>2 DEF PollTick
  <2>2. /\ RequestOK(request', Len(scopeOf)) /\ request'.kind \in {"none", "poll"}
        /\ request'.kind = "poll" => request'.after <= seen
        BY <2>1, PanelFacts DEF RequestOK, NoRequest
  <2>q. QED
        BY <2>1, <2>2, AskingKeeps
<1>q. QED
      BY <1>1, <1>2

\* _refreshActiveThread replaces the transcript and the subscription.
LEMMA ApplyRefreshKeeps == ASSUME PanelInv, ApplyRefresh PROVE PanelInv'
<1> DEFINE n == Len(scopeOf)
           c == RefreshCursor(request.answer, request.floor)
<1>1. /\ request.kind = "refreshed" /\ seen' = c /\ needs' = FALSE /\ request' = NoRequest
      /\ shown' = (IF request.answer.gone THEN {} ELSE request.answer.page)
      /\ link' = [state |-> "pending", after |-> seen']
      /\ sub' = [sub EXCEPT ![Mine] = FreshSub] /\ got' = [got EXCEPT ![Mine] = {}]
      /\ RestOfFanout
      BY DEF ApplyRefresh
<1>2. FanoutInv' /\ sub'[Mine] = FreshSub /\ got'[Mine] = {}
      BY <1>1, ResetKeeps DEF PanelInv
<1>3. UNCHANGED journalVars
      BY <1>1 DEF RestOfFanout
<1>4. n \in Nat /\ request.answer \in Answers(n) /\ request.floor \in Floors(n)
      /\ 0 .. n \subseteq Cursor
      BY <1>1, RequestStages, PanelFacts
<1>5. c \in 0 .. n
      BY <1>4, RefreshCursorBounds
<1>6. shown' \in SUBSET Cursor
  <2>1. ~request.answer.gone => request.answer.page \in SUBSET (1 .. n)
        BY <1>4 DEF Answers
  <2>2. 1 .. n \subseteq Cursor
        BY <1>4
  <2>q. QED
        BY <1>1, <2>1, <2>2
<1>7. PanelShape'
  <2>1. seen' \in 0 .. n /\ seen' <= seen'
        BY <1>1, <1>4, <1>5
  <2>2. /\ link'.after = seen' /\ link'.state = "pending"
        /\ link' \in [state : LinkStates, after : 0 .. n]
        BY <1>1, <2>1 DEF LinkStates
  <2>3. RequestOK(request', n) /\ scopeOf' = scopeOf /\ request'.kind = "none"
        BY <1>1, <1>3 DEF RequestOK, NoRequest, journalVars
  <2>4. sub'[Mine].state = "new"
        BY <1>2 DEF FreshSub
  <2>5. needs' \in BOOLEAN
        BY <1>1
  <2>q. QED
        BY <1>2, <1>6, <2>1, <2>2, <2>3, <2>4, <2>5 DEF PanelShape
<1>8. ASSUME WholeChat' PROVE Complete'
  <2>1. RefreshedComplete /\ Of(Thread)' = Of(Thread)
        BY <1>3, <1>8, ChatStays DEF PanelInv, Complete
  <2>2. TranscriptComplete'
        BY <1>1, <2>1 DEF RefreshedComplete, TranscriptComplete
  <2>q. QED
        BY <1>1, <2>2 DEF Complete, RefreshedComplete, PolledComplete, NoRequest
<1>q. QED
      BY <1>2, <1>7, <1>8 DEF PanelInv

\* A poll's answer, through acceptEvents.
LEMMA ApplyPollKeeps == ASSUME PanelInv, ApplyPoll PROVE PanelInv'
<1> DEFINE n == Len(scopeOf)
           answer == request.answer
           new == IF answer.gone THEN {} ELSE {c \in answer.page : c > seen}
<1>1. request.kind = "polled" /\ RestOfFanout /\ answer \in Answers(n) /\ n \in Nat
      /\ seen \in 0 .. n /\ 0 .. n \subseteq Cursor
      BY RequestStages, PanelFacts DEF ApplyPoll
<1>2. CASE answer.gone /\ answer.snapshot > seen
  <2>1. Boundary(answer.snapshot) /\ answer.snapshot \in 0 .. n
        BY <1>1, <1>2 DEF ApplyPoll, Answers
  <2>q. QED
        BY <1>1, <2>1, BoundaryKeeps DEF Boundary
<1>3. CASE ~ (answer.gone /\ answer.snapshot > seen)
  <2>1. /\ shown' = shown \cup new /\ seen' = Max({seen} \cup new) /\ request' = NoRequest
        /\ needs' = needs /\ KeepSubscription
        BY <1>3 DEF ApplyPoll
  <2>2. UNCHANGED vars /\ UNCHANGED journalVars /\ UNCHANGED <<link, sub, got>>
        BY <1>1, <2>1 DEF KeepSubscription, RestOfFanout, vars
  <2>3. FanoutInv'
        BY <2>2, FanoutUnchanged DEF PanelInv
  <2>4. new \in SUBSET (0 .. n)
    <3>1. ~answer.gone => answer.page \in SUBSET (1 .. n)
          BY <1>1 DEF Answers
    <3>2. 1 .. n \subseteq 0 .. n
          BY <1>1
    <3>q. QED
          BY <3>1, <3>2
  <2>5. ~answer.gone => new = {c \in answer.page : c > seen}
        OBVIOUS
  <2> HIDE DEF new
  <2>6. /\ seen' \in {seen} \cup new /\ seen' \in 0 .. n
        /\ \A c \in {seen} \cup new : c <= seen'
    <3> DEFINE m == {seen} \cup new
    <3>1. m \in SUBSET (0 .. n) /\ m # {}
          BY <1>1, <2>4
    <3> HIDE DEF m
    <3>2. Max(m) \in m /\ Max(m) \in 0 .. n /\ \A c \in m : c <= Max(m)
          BY <1>1, <3>1, PageMax
    <3>q. QED
          BY <2>1, <3>2 DEF m
  <2>7. seen <= seen' /\ seen \in Nat /\ seen' \in Nat
        BY <1>1, <2>6
  <2>8. PanelShape'
    <3>1. shown' \in SUBSET Cursor /\ needs' \in BOOLEAN
          BY <1>1, <2>1, <2>4 DEF PanelInv, PanelShape
    <3>2. \A c \in got[Mine] : c \in Nat
      <4>1. got[Mine] \in SUBSET Cursor /\ Cursor \subseteq Nat
            BY PanelFacts, BoundsAssumption DEF FanoutInv, SubsOK, Good, Cursor
      <4>q. QED
            BY <4>1
    <3>3. (\A c \in got[Mine] : c <= seen') /\ link.after <= seen'
      <4>1. link.after \in Nat /\ link.after <= seen /\ \A c \in got[Mine] : c <= seen
            BY <1>1 DEF PanelInv, PanelShape
      <4>q. QED
            BY <2>7, <3>2, <4>1
    <3>q. QED
          BY <2>1, <2>2, <2>6, <3>1, <3>3
             DEF PanelInv, PanelShape, RequestOK, NoRequest, journalVars
  <2>9. ASSUME WholeChat' PROVE Complete'
    <3>1. TranscriptComplete /\ PolledComplete /\ Of(Thread)' = Of(Thread)
          BY <2>2, <2>9, ChatStays DEF PanelInv, Complete
    <3>2. ~answer.gone /\ \A c \in Of(Thread), d \in answer.page :
             (c > seen /\ c <= d) => c \in answer.page
          BY <1>1, <3>1 DEF PolledComplete
    <3>3. TranscriptComplete'
      <4>1. SUFFICES ASSUME ~needs, NEW c \in Of(Thread), c <= seen'
                     PROVE  c \in shown'
            BY <2>1, <3>1 DEF TranscriptComplete
      <4>2. c \in Nat
            BY PanelFacts
      <4>3. CASE c <= seen
            BY <2>1, <3>1, <4>1, <4>3 DEF TranscriptComplete
      <4>4. CASE ~ (c <= seen)
        <5>1. c > seen /\ seen' # seen
              BY <2>7, <4>1, <4>2, <4>4
        <5>2. seen' \in new
              BY <2>6, <5>1
        <5>3. seen' \in answer.page
              BY <2>5, <3>2, <5>2
        <5>4. c \in answer.page
              BY <3>2, <4>1, <5>1, <5>3
        <5>q. QED
              BY <2>1, <2>5, <3>2, <5>1, <5>4
      <4>q. QED
            BY <4>3, <4>4
    <3>q. QED
          BY <2>1, <3>3 DEF Complete, RefreshedComplete, PolledComplete, NoRequest
  <2>q. QED
        BY <2>3, <2>8, <2>9 DEF PanelInv
<1>q. QED
      BY <1>2, <1>3

\* What the panel's subscription hands over next, and what is before it: an
\* event is new to the panel and nothing of the chat lies between its cursor
\* and the event; a snapshot is not ahead of the journal.
LEMMA NextEnvelope ==
    ASSUME PanelInv, link.state = "active", sub[Mine].state \in {"open", "closing"},
           sub[Mine].queue # <<>>, NEW env, env = Head(sub[Mine].queue)
    PROVE  /\ env \in Envelope /\ env.cursor \in Nat
           /\ env.type = "snapshot_required" => env.cursor \in 0 .. Len(scopeOf)
           /\ env.type = "event" =>
                 /\ env.cursor \in 0 .. Len(scopeOf)
                 /\ \A c \in Of(Thread) : (c > seen /\ c <= env.cursor) => c = env.cursor
<1> DEFINE x == sub[Mine]
           q == x.queue
           n == Len(scopeOf)
<1>1. PICK h \in 0 .. cursor : Good(scopeOf, Mine, x, got[Mine], h)
      BY PanelFacts DEF FanoutInv, SubsOK
<1>2. n \in Nat /\ cursor \in 0 .. n /\ h \in Nat /\ h <= n
  <2>1. n \in Nat /\ FanoutInv
        BY PanelFacts
  <2>2. cursor \in 0 .. n
        BY <2>1 DEF FanoutInv, BrokerOK
  <2>q. QED
        BY <2>1, <2>2
<1>3. q \in Seq(Envelope)
      BY <1>1 DEF Good, Subscription
<1>4. Len(q) \in Nat /\ Len(q) # 0 /\ DOMAIN q = 1 .. Len(q) /\ 1 \in DOMAIN q
      /\ env = q[1] /\ env \in Envelope
      BY <1>3, LenProperties, EmptySeq, ElementOfSeq
<1>5. env.cursor \in Nat
      BY <1>4, BoundsAssumption DEF Envelope, Cursor
<1>6. CASE x.state = "closing"
  <2>1. env.type # "event" /\ env.cursor <= n
        BY <1>1, <1>4, <1>6 DEF Good
  <2>q. QED
        BY <1>2, <1>4, <1>5, <2>1
<1>7. CASE x.state = "open"
  <2>1. env.type # "snapshot_required"
        BY <1>1, <1>4, <1>7 DEF Good
  <2>2. ASSUME env.type = "event"
        PROVE  /\ env.cursor \in 0 .. n
               /\ \A c \in Of(Thread) : (c > seen /\ c <= env.cursor) => c = env.cursor
    <3>1. env.cursor <= h
          BY <1>1, <1>4, <1>7, <2>2 DEF Good
    <3>2. ASSUME NEW c \in Of(Thread), c > seen, c <= env.cursor PROVE c = env.cursor
      <4>1. c \in 1 .. n /\ scopeOf[c] = Thread
            BY PanelFacts DEF Of
      <4>2. c \in 1 .. h
            BY <1>2, <1>5, <3>1, <3>2, <4>1
      <4>3. scopeOf[c] \in Filter[Mine]
            BY <4>1, PanelAssumption
      <4>4. x.after \in Nat /\ x.after <= seen /\ seen \in Nat
        <5>1. x.after = link.after /\ link.after \in 0 .. n /\ link.after <= seen
              BY DEF PanelInv, PanelShape
        <5>q. QED
              BY <5>1, PanelFacts
      <4>5. c > x.after
            BY <3>2, <4>1, <4>4
      <4>6. ~ (c \in got[Mine])
        <5>1. \A d \in got[Mine] : d <= seen
              BY DEF PanelInv, PanelShape
        <5>q. QED
              BY <3>2, <4>1, <4>4, <5>1
      <4>7. PICK i \in DOMAIN q : q[i] = EventEnv(c)
            BY <1>1, <1>7, <4>2, <4>3, <4>5, <4>6 DEF Good
      <4>8. q[i].type = "event" /\ q[i].cursor = c
            BY <4>7 DEF EventEnv
      <4>9. CASE i = 1
            BY <1>4, <4>8, <4>9
      <4>10. CASE i # 1
        <5>1. 1 < i
              BY <1>4, <4>7, <4>10
        <5>2. env.cursor < c
              BY <1>1, <1>4, <1>7, <2>2, <4>7, <4>8, <5>1 DEF Good
        <5>q. QED
              BY <1>5, <3>2, <4>1, <5>2
      <4>q. QED
            BY <4>9, <4>10
    <3>q. QED
          BY <1>2, <1>5, <3>1, <3>2
  <2>q. QED
        BY <1>4, <1>5, <2>1, <2>2
<1>q. QED
      BY <1>6, <1>7

\* An envelope is handed over; the panel's cursor covers it if it is an event.
LEMMA HandOverMine ==
    ASSUME PanelInv, HandOver(Mine), link' = link, link.state = "active", request' = request,
           needs' = needs, shown' \in SUBSET Cursor, seen' \in 0 .. Len(scopeOf), seen <= seen',
           Head(sub[Mine].queue).type = "event" => Head(sub[Mine].queue).cursor <= seen'
    PROVE  FanoutInv' /\ PanelShape'
<1>1. FanoutInv' /\ UNCHANGED journalVars
      BY PanelFacts, HandOverKeeps DEF HandOver
<1>2. /\ Mine \in Subscriber /\ DOMAIN sub = Subscriber /\ DOMAIN got = Subscriber
      /\ sub[Mine] \in Subscription /\ got[Mine] \in SUBSET Cursor /\ Cursor \subseteq Nat
      BY PanelFacts, BoundsAssumption DEF FanoutInv, SubsOK, Good, Cursor
<1>3. sub'[Mine].after = sub[Mine].after
      BY <1>2 DEF HandOver, Subscription
<1>4. \A c \in got'[Mine] :
         \/ c \in got[Mine]
         \/ Head(sub[Mine].queue).type = "event" /\ c = Head(sub[Mine].queue).cursor
      BY <1>2 DEF HandOver
<1>5. seen \in Nat /\ seen' \in Nat /\ \A c \in got[Mine] : c <= seen
      BY PanelFacts DEF PanelInv, PanelShape
<1>6. ASSUME NEW c \in got'[Mine] PROVE c <= seen'
  <2>1. CASE c \in got[Mine]
    <3>1. c \in Nat /\ c <= seen
          BY <1>2, <1>5, <2>1
    <3>q. QED
          BY <1>5, <3>1
  <2>2. CASE Head(sub[Mine].queue).type = "event" /\ c = Head(sub[Mine].queue).cursor
        BY <2>2
  <2>q. QED
        BY <1>4, <2>1, <2>2
<1>7. link.after \in 0 .. Len(scopeOf) /\ link.after <= seen
      BY DEF PanelInv, PanelShape
<1>8. link.after <= seen'
      BY <1>5, <1>7, PanelFacts
<1>a. request.kind = "poll" => request.after <= seen'
      BY <1>5, RequestStages
<1>9. PanelShape'
      BY <1>1, <1>3, <1>6, <1>8, <1>a DEF PanelInv, PanelShape, journalVars
<1>q. QED
      BY <1>1, <1>9

\* _handleSubscribedEvent: an old envelope, a new event, or a boundary.
LEMMA DeliverKeeps == ASSUME PanelInv, Deliver PROVE PanelInv'
<1> DEFINE env == Head(sub[Mine].queue)
<1>1. /\ link.state = "active" /\ sub[Mine].state \in {"open", "closing"}
      /\ sub[Mine].queue # <<>>
      BY DEF Deliver
<1>2. /\ env \in Envelope /\ env.cursor \in Nat
      /\ env.type = "snapshot_required" => env.cursor \in 0 .. Len(scopeOf)
      /\ env.type = "event" =>
            /\ env.cursor \in 0 .. Len(scopeOf)
            /\ \A c \in Of(Thread) : (c > seen /\ c <= env.cursor) => c = env.cursor
      BY <1>1, NextEnvelope
<1>3. /\ seen \in Nat /\ seen \in 0 .. Len(scopeOf) /\ 0 .. Len(scopeOf) \subseteq Cursor
      /\ shown \in SUBSET Cursor
      BY PanelFacts DEF PanelInv, PanelShape
<1>4. CASE ~Accepted(env) /\ HandOver(Mine) /\ UNCHANGED panelVars
  <2>1. UNCHANGED <<seen, shown, needs, link, request>> /\ UNCHANGED journalVars
        BY <1>4 DEF panelVars, HandOver
  <2>2. env.type = "event" => env.cursor <= seen
        BY <1>2, <1>3, <1>4 DEF Accepted
  <2>3. FanoutInv' /\ PanelShape'
    <3>1. seen <= seen'
          BY <1>3, <2>1
    <3>q. QED
          BY <1>1, <1>3, <1>4, <2>1, <2>2, <3>1, HandOverMine
  <2>4. WholeChat' => Complete'
        BY <2>1, ChatStays DEF PanelInv, Complete, TranscriptComplete, RefreshedComplete,
                               PolledComplete
  <2>q. QED
        BY <2>3, <2>4 DEF PanelInv
<1>5. CASE /\ Accepted(env) /\ env.type = "event" /\ HandOver(Mine)
           /\ shown' = shown \cup {env.cursor} /\ seen' = env.cursor
           /\ UNCHANGED <<needs, link, request>>
  <2>1. UNCHANGED journalVars /\ env.cursor > seen
        BY <1>5 DEF Accepted, HandOver
  <2>2. FanoutInv' /\ PanelShape'
    <3>1. seen <= seen' /\ env.cursor <= seen' /\ seen' \in 0 .. Len(scopeOf)
          BY <1>2, <1>3, <1>5, <2>1
    <3>2. shown' \in SUBSET Cursor
          BY <1>2, <1>3, <1>5
    <3>q. QED
          BY <1>1, <1>5, <3>1, <3>2, HandOverMine
  <2>3. ASSUME WholeChat' PROVE Complete'
    <3>1. Complete /\ Of(Thread)' = Of(Thread) /\ \A c \in Of(Thread) : c \in Nat
          BY <2>1, <2>3, ChatStays, PanelFacts DEF PanelInv
    <3>2. TranscriptComplete'
      <4>1. SUFFICES ASSUME ~needs, NEW c \in Of(Thread), c <= env.cursor
                     PROVE  c \in shown'
            BY <1>5, <3>1 DEF TranscriptComplete
      <4>2. c <= seen \/ c > seen
            BY <1>3, <3>1
      <4>q. QED
            BY <1>2, <1>5, <3>1, <4>1, <4>2 DEF Complete, TranscriptComplete
    <3>3. RefreshedComplete'
          BY <1>5, <3>1 DEF Complete, RefreshedComplete
    <3>4. PolledComplete'
      <4>1. \A c \in Of(Thread) : c > seen' => c > seen
            BY <1>2, <1>3, <1>5, <2>1, <3>1
      <4>q. QED
            BY <1>5, <3>1, <4>1 DEF Complete, PolledComplete
    <3>q. QED
          BY <3>2, <3>3, <3>4 DEF Complete
  <2>q. QED
        BY <2>2, <2>3 DEF PanelInv
<1>6. CASE env.type = "snapshot_required" /\ Boundary(env.cursor) /\ RestOfFanout
      BY <1>2, <1>6, BoundaryKeeps DEF Boundary
<1>q. QED
      BY <1>4, <1>5, <1>6 DEF Deliver

\* The initial states satisfy the invariant.
LEMMA PanelStart == PanelInit => PanelInv
<1>1. SUFFICES ASSUME PanelInit PROVE PanelInv
      OBVIOUS
<1>2. FanoutInv /\ Mine \in Subscriber
      BY <1>1, FanoutInit, PanelAssumption DEF PanelInit
<1>3. /\ scopeOf = <<>> /\ live = {} /\ sub[Mine].state = "new" /\ got[Mine] = {}
      /\ Len(<<>>) = 0
      BY <1>1, <1>2 DEF PanelInit, Init
<1>4. seen = 0 /\ shown = {} /\ needs = FALSE /\ link = NoLink
      /\ request = [kind |-> "refresh", floor |-> NoFloor]
      BY <1>1 DEF PanelInit, Refresh
<1>5. PanelShape
  <2>1. RequestOK(request, 0) /\ request.kind = "refresh"
        BY <1>4 DEF RequestOK, Floors
  <2>2. /\ link.state = "none" /\ link.after = 0
        /\ link \in [state : LinkStates, after : 0 .. 0]
        BY <1>4 DEF NoLink, LinkStates
  <2>3. Len(scopeOf) = 0 /\ seen \in 0 .. 0 /\ link.after <= seen
        BY <1>3, <1>4, <2>2
  <2>4. shown \in SUBSET Cursor
        BY <1>4
  <2>5. needs \in BOOLEAN
        BY <1>4
  <2>q. QED
        BY <1>3, <2>1, <2>2, <2>3, <2>4, <2>5 DEF PanelShape
<1>6. Complete
      BY <1>3, <1>4 DEF Complete, TranscriptComplete, RefreshedComplete, PolledComplete, Of
<1>q. QED
      BY <1>2, <1>5, <1>6 DEF PanelInv

\* Every step, and stuttering.
LEMMA PanelNextKeeps == ASSUME PanelInv, [PanelNext]_allVars PROVE PanelInv'
<1>1. CASE Upstream
      BY <1>1, UpstreamKeeps
<1>2. CASE PanelStep
      BY <1>2, AnswerRequestKeeps, OpenSubscriptionKeeps, ReconnectKeeps, ApplyRefreshKeeps,
         ApplyPollKeeps, PollTickKeeps, DeliverKeeps DEF PanelStep
<1>3. CASE UserRefresh
      BY <1>3, UserRefreshKeeps
<1>4. CASE LoseAnswer \/ SubscriptionFails
      BY <1>4, LoseAnswerKeeps, SubscriptionFailsKeeps
<1>5. CASE UNCHANGED allVars
  <2>1. UNCHANGED vars /\ UNCHANGED journalVars
        /\ UNCHANGED <<seen, shown, needs, link, request, sub, got>>
        BY <1>5 DEF allVars, fanoutVars, panelVars, vars
  <2>2. FanoutInv'
        BY <2>1, FanoutUnchanged DEF PanelInv
  <2>3. PanelShape'
        BY <2>1 DEF PanelInv, PanelShape, journalVars
  <2>4. WholeChat' => Complete'
        BY <2>1, ChatStays DEF PanelInv, Complete, TranscriptComplete, RefreshedComplete,
                               PolledComplete
  <2>q. QED
        BY <2>2, <2>3, <2>4 DEF PanelInv
<1>q. QED
      BY <1>1, <1>2, <1>3, <1>4, <1>5 DEF PanelNext

(***************************************************************************)
(* The panel keeps its invariant: its cursor stays between what its        *)
(* subscription has handed over and the end of the journal, and answers    *)
(* under way are complete up to the cursor they will set.                  *)
(***************************************************************************)
THEOREM PanelSafety == PanelSpec => []PanelInv
BY PanelStart, PanelNextKeeps, PTL DEF PanelSpec

(***************************************************************************)
(* While the journal has dropped no event of the chat and the chat fits    *)
(* one get_events page, the transcript is complete up to the panel's       *)
(* cursor outside a recovery (TranscriptComplete), whatever order live     *)
(* events, refreshes, polls, snapshots and their answers come in.          *)
(***************************************************************************)
THEOREM WholeChatIsShown == PanelSpec => [](WholeChat => TranscriptComplete)
<1>1. PanelInv => (WholeChat => TranscriptComplete)
      BY DEF PanelInv, Complete
<1>q. QED
      BY <1>1, PanelSafety, PTL

(***************************************************************************)
(* The panel's cursor moves back only when a refresh is applied            *)
(* (CursorOnlyRewoundByRefresh): neither acceptEvent nor a poll's answer   *)
(* takes it back, with retention and pages of any size.                    *)
(***************************************************************************)
THEOREM RewoundByRefreshOnly == PanelSpec => CursorOnlyRewoundByRefresh
<1>1. ASSUME PanelInv, [PanelNext]_allVars
      PROVE  [seen' < seen => request.kind = "refreshed" /\ request' = NoRequest]_allVars
  <2>1. SUFFICES ASSUME seen' < seen PROVE request.kind = "refreshed" /\ request' = NoRequest
        OBVIOUS
  <2>2. seen \in Nat /\ seen' # seen
        BY <1>1, <2>1, PanelFacts
  <2>3. CASE ApplyRefresh
        BY <2>3 DEF ApplyRefresh
  <2>4. CASE ApplyPoll
    <3>1. CASE request.answer.gone /\ request.answer.snapshot > seen
      <4>1. seen' = request.answer.snapshot /\ seen' \in Nat
        <5>1. request.answer \in Answers(Len(scopeOf))
              BY <1>1, <2>4, RequestStages DEF ApplyPoll
        <5>2. request.answer.snapshot \in 0 .. Len(scopeOf)
              BY <3>1, <5>1 DEF Answers
        <5>3. seen' = request.answer.snapshot
              BY <2>4, <3>1 DEF ApplyPoll, Boundary
        <5>q. QED
              BY <5>2, <5>3
      <4>q. QED
            BY <2>1, <2>2, <3>1, <4>1
    <3>2. CASE ~ (request.answer.gone /\ request.answer.snapshot > seen)
      <4> DEFINE new == IF request.answer.gone THEN {} ELSE {c \in request.answer.page : c > seen}
                 m == {seen} \cup new
                 n == Len(scopeOf)
      <4>1. seen' = Max(m)
            BY <2>4, <3>2 DEF ApplyPoll
      <4>2. request.answer \in Answers(n) /\ n \in Nat /\ seen \in 0 .. n
            BY <1>1, <2>4, RequestStages, PanelFacts DEF ApplyPoll
      <4>3. ~request.answer.gone => request.answer.page \in SUBSET (1 .. n)
            BY <4>2 DEF Answers
      <4>4. 1 .. n \subseteq 0 .. n
            BY <4>2
      <4>5. m \in SUBSET (0 .. n) /\ m # {} /\ seen \in m
            BY <4>2, <4>3, <4>4
      <4> HIDE DEF m, n
      <4>6. seen <= Max(m) /\ Max(m) \in 0 .. n
            BY <4>2, <4>5, PageMax
      <4>7. Max(m) \in Nat
            BY <4>2, <4>6
      <4>q. QED
            BY <2>1, <2>2, <4>1, <4>6, <4>7
    <3>q. QED
          BY <3>1, <3>2
  <2>5. CASE Deliver
    <3> DEFINE env == Head(sub[Mine].queue)
    <3>1. env.cursor \in Nat
          BY <1>1, <2>5, NextEnvelope DEF Deliver
    <3>2. seen' = seen \/ (seen' = env.cursor /\ env.cursor > seen)
          BY <2>5 DEF Deliver, Accepted, Boundary, panelVars
    <3>q. QED
          BY <2>1, <2>2, <3>1, <3>2
  <2>6. CASE \/ AnswerRequest \/ OpenSubscription \/ SubscriptionFails \/ Reconnect
             \/ PollTick \/ UserRefresh \/ LoseAnswer
        BY <2>2, <2>6 DEF AnswerRequest, OpenSubscription, SubscriptionFails, Reconnect, PollTick,
           UserRefresh, LoseAnswer
  <2>7. CASE Upstream \/ UNCHANGED allVars
        BY <2>2, <2>7 DEF Upstream, allVars, panelVars
  <2>q. QED
        BY <1>1, <2>3, <2>4, <2>5, <2>6, <2>7 DEF PanelNext, PanelStep
<1>q. QED
      BY <1>1, PanelSafety, PTL DEF PanelSpec, CursorOnlyRewoundByRefresh
=============================================================================
