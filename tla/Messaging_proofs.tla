-------------------------- MODULE Messaging_proofs --------------------------
(***************************************************************************)
(* Theorems about Messaging, for any messages, channels and events and any *)
(* number of daemon starts.  Three invariants, each resting on the ones    *)
(* before it: OutboxInv counts the posts that the senders may still make,  *)
(* PollInv says what the poll loop's batch and cursors hold, StrayInv what *)
(* a question's row and a user's reply know of its posts.                  *)
(***************************************************************************)
EXTENDS Messaging, SequenceTheorems, FiniteSetTheorems, WellFoundedInduction, TLAPS

-----------------------------------------------------------------------------
(* What Among returns.  It is a recursive function: the facts are proved of *)
(* its first n values, for a least n of which they do not hold.             *)

LEMMA LeastNat ==
    ASSUME NEW T \in SUBSET Nat, T # {}
    PROVE  \E n \in T : \A m \in T : n <= m
<1>1. PICK n \in T : \A m \in T : <<m, n>> \notin OpToRel(<, Nat)
  BY NatLessThanWellFounded, WFMin
<1>2. \A m \in T : ~(m < n)
  BY <1>1 DEF OpToRel
<1> QED
  BY <1>2

\* The value of the recursive function at m, given those below.
Kept(f, seq, set, m) ==
    IF m = 0 THEN <<>> ELSE IF seq[m] \in set THEN Append(f[m - 1], seq[m]) ELSE f[m - 1]

Unfolds(f, seq, set, n) == f = [m \in 0..n |-> Kept(f, seq, set, m)]

LEMMA UnfoldingExists ==
    ASSUME NEW seq, NEW set, NEW k \in Nat
    PROVE  \E f : Unfolds(f, seq, set, k)
<1> DEFINE Bad == {n \in Nat : ~ \E f : Unfolds(f, seq, set, n)}
<1> SUFFICES ASSUME Bad # {} PROVE FALSE
  OBVIOUS
<1>1. PICK n \in Bad : \A m \in Bad : n <= m
  BY LeastNat
<1>2. CASE n = 0
  <2>1. Unfolds([m \in 0..0 |-> <<>>], seq, set, 0)
    BY DEF Unfolds, Kept
  <2> QED
    BY <1>1, <1>2, <2>1
<1>3. CASE n # 0
  <2>1. n - 1 \in Nat /\ n - 1 \notin Bad
    BY <1>1, <1>3
  <2>2. PICK f : Unfolds(f, seq, set, n - 1)
    BY <2>1
  <2> DEFINE g == [m \in 0..n |-> IF m = n THEN Kept(f, seq, set, n) ELSE f[m]]
  <2>3. ASSUME NEW m \in 0..n PROVE g[m] = Kept(g, seq, set, m)
    <3>1. CASE m = n
      BY <2>1, <1>3, <3>1 DEF Kept
    <3>2. CASE m # n
      <4>1. m \in 0..(n - 1) /\ (m # 0 => m - 1 \in 0..(n - 1))
        BY <2>1, <3>2
      <4>2. f[m] = Kept(f, seq, set, m)
        BY <2>2, <4>1 DEF Unfolds
      <4> QED
        BY <2>1, <4>1, <4>2, <3>2 DEF Kept
    <3> QED
      BY <3>1, <3>2
  <2>4. Unfolds(g, seq, set, n)
    BY <2>3 DEF Unfolds
  <2> QED
    BY <1>1, <2>4
<1> QED
  BY <1>1, <1>2, <1>3

LEMMA AmongUnfolds ==
    ASSUME NEW seq, NEW set, Len(seq) \in Nat
    PROVE  \E f : Unfolds(f, seq, set, Len(seq)) /\ Among(seq, set) = f[Len(seq)]
<1> DEFINE g == CHOOSE f : Unfolds(f, seq, set, Len(seq))
<1>1. Unfolds(g, seq, set, Len(seq))
  BY UnfoldingExists, Zenon
<1>2. Among(seq, set) = g[Len(seq)]
  BY DEF Among, Unfolds, Kept
<1> QED
  BY <1>1, <1>2

\* t holds those of the first n elements of seq that are in the set, in order:
\* the k-th comes from place g[k].
Picks(t, g, seq, set, n) ==
    /\ g \in [1..Len(t) -> 1..n]
    /\ \A k, l \in 1..Len(t) : k < l => g[k] < g[l]
    /\ \A k \in 1..Len(t) : t[k] = seq[g[k]] /\ t[k] \in set
    /\ \A i \in 1..n : seq[i] \in set => \E k \in 1..Len(t) : g[k] = i

LEMMA PicksOneMore ==
    ASSUME NEW A, NEW seq \in Seq(A), NEW set, NEW n \in 1..Len(seq), seq[n] \in set,
           NEW t \in Seq(A), NEW g, Picks(t, g, seq, set, n - 1)
    PROVE  \E h : Picks(Append(t, seq[n]), h, seq, set, n)
<1> DEFINE u == Append(t, seq[n])
           h == [k \in 1..Len(u) |-> IF k = Len(u) THEN n ELSE g[k]]
<1>1. /\ Len(u) = Len(t) + 1 /\ Len(t) \in Nat
      /\ u[Len(u)] = seq[n]
      /\ \A k \in 1..Len(t) : u[k] = t[k]
  BY AppendProperties, LenProperties, ElementOfSeq
<1> HIDE DEF u
<1>2. h \in [1..Len(u) -> 1..n]
  BY <1>1 DEF Picks
<1>3. ASSUME NEW k \in 1..Len(u), NEW l \in 1..Len(u), k < l PROVE h[k] < h[l]
  <2>0. k \in 1..Len(t) /\ k # Len(u)
    <3>1. \A x, y, z \in Nat : x >= 1 /\ x < y /\ y <= z + 1 => x <= z /\ x # z + 1
      OBVIOUS
    <3> QED
      BY <1>1, <1>3, <3>1
  <2>1. k \in 1..Len(t) /\ g[k] \in 1..(n - 1) /\ h[k] = g[k]
    BY <1>3, <2>0 DEF Picks
  <2>2. CASE l = Len(u)
    BY <1>1, <2>1, <2>2
  <2>3. CASE l # Len(u)
    <3>1. l \in 1..Len(t) /\ h[l] = g[l]
      BY <1>1, <2>3
    <3> QED
      BY <1>3, <2>1, <3>1 DEF Picks
  <2> QED
    BY <2>2, <2>3
<1>4. \A k \in 1..Len(u) : u[k] = seq[h[k]] /\ u[k] \in set
  BY <1>1 DEF Picks
<1>5. ASSUME NEW i \in 1..n, seq[i] \in set PROVE \E k \in 1..Len(u) : h[k] = i
  <2>1. CASE i = n
    BY <1>1, <2>1
  <2>2. CASE i # n
    <3>1. PICK k \in 1..Len(t) : g[k] = i
      BY <1>5, <2>2 DEF Picks
    <3>2. k \in 1..Len(u) /\ h[k] = i
      BY <1>1, <3>1
    <3> QED
      BY <3>2
  <2> QED
    BY <2>1, <2>2
<1> QED
  <2>1. Picks(u, h, seq, set, n)
    BY <1>2, <1>3, <1>4, <1>5 DEF Picks
  <2> QED
    BY <2>1 DEF u

LEMMA AmongPicks ==
    ASSUME NEW A, NEW seq \in Seq(A), NEW set
    PROVE  /\ Among(seq, set) \in Seq(A)
           /\ \E g : Picks(Among(seq, set), g, seq, set, Len(seq))
<1>1. Len(seq) \in Nat
  BY LenProperties
<1>2. PICK f : Unfolds(f, seq, set, Len(seq)) /\ Among(seq, set) = f[Len(seq)]
  BY <1>1, AmongUnfolds
<1>3. \A m \in 0..Len(seq) : f[m] = Kept(f, seq, set, m)
  BY <1>2 DEF Unfolds
<1> DEFINE Good(n) == f[n] \in Seq(A) /\ \E g : Picks(f[n], g, seq, set, n)
           Bad == {n \in 0..Len(seq) : ~Good(n)}
<1>4. Bad = {}
  <2> SUFFICES ASSUME Bad # {} PROVE FALSE
    OBVIOUS
  <2>1. PICK n \in Bad : \A m \in Bad : n <= m
    <3>1. Bad \in SUBSET Nat
      BY <1>1
    <3> QED
      BY <3>1, LeastNat
  <2>2. CASE n = 0
    <3>1. f[0] = <<>>
      BY <1>1, <1>3 DEF Kept
    <3>2. Picks(<<>>, [k \in 1..0 |-> 0], seq, set, 0)
      BY DEF Picks
    <3>3. <<>> \in Seq(A)
      BY EmptySeq
    <3> QED
      BY <2>1, <2>2, <3>1, <3>2, <3>3
  <2>3. CASE n # 0
    <3>1. n \in 1..Len(seq) /\ n - 1 \in 0..Len(seq) /\ n - 1 \notin Bad
      BY <1>1, <2>1, <2>3
    <3>2. f[n - 1] \in Seq(A)
      BY <3>1
    <3>3. PICK g : Picks(f[n - 1], g, seq, set, n - 1)
      BY <3>1
    <3>4. f[n] = Kept(f, seq, set, n)
      BY <1>3, <3>1
    <3>5. seq[n] \in A
      BY <3>1, ElementOfSeq
    <3>6. CASE seq[n] \in set
      <4>1. f[n] = Append(f[n - 1], seq[n])
        BY <3>1, <3>4, <3>6 DEF Kept
      <4>2. f[n] \in Seq(A)
        BY <3>2, <3>5, <4>1, AppendProperties
      <4>3. \E h : Picks(f[n], h, seq, set, n)
        BY <3>1, <3>2, <3>3, <3>6, <4>1, PicksOneMore
      <4> QED
        BY <2>1, <4>2, <4>3
    <3>7. CASE seq[n] \notin set
      <4>1. f[n] = f[n - 1]
        BY <3>1, <3>4, <3>7 DEF Kept
      <4>2. Picks(f[n], g, seq, set, n)
        BY <3>1, <3>3, <3>7, <4>1, LenProperties, <3>2 DEF Picks
      <4> QED
        BY <2>1, <3>2, <4>1, <4>2
    <3> QED
      BY <3>6, <3>7
  <2> QED
    BY <2>1, <2>2, <2>3
<1> QED
  BY <1>1, <1>2, <1>4

LEMMA SelectedAreThere ==
    ASSUME NEW A, NEW seq \in Seq(A), NEW set
    PROVE  Range(Among(seq, set)) \subseteq Range(seq) \cap set
<1> DEFINE t == Among(seq, set)
<1>1. PICK g : Picks(t, g, seq, set, Len(seq))
  BY AmongPicks
<1>2. t \in Seq(A)
  BY AmongPicks
<1> HIDE DEF t
<1>3. DOMAIN t = 1..Len(t) /\ DOMAIN seq = 1..Len(seq)
  BY <1>2, LenProperties
<1> QED
  <2>1. Range(t) \subseteq Range(seq) \cap set
    BY <1>1, <1>3 DEF Picks, Range
  <2> QED
    BY <2>1 DEF t

LEMMA SelectedOnce ==
    ASSUME NEW A, NEW seq \in Seq(A), NEW set, IsInjective(seq)
    PROVE  IsInjective(Among(seq, set))
<1> DEFINE t == Among(seq, set)
<1>1. PICK g : Picks(t, g, seq, set, Len(seq))
  BY AmongPicks
<1>2. t \in Seq(A)
  BY AmongPicks
<1> HIDE DEF t
<1>3. DOMAIN t = 1..Len(t) /\ DOMAIN seq = 1..Len(seq) /\ Len(t) \in Nat /\ Len(seq) \in Nat
  BY <1>2, LenProperties
<1>4. ASSUME NEW k \in 1..Len(t), NEW l \in 1..Len(t), t[k] = t[l] PROVE k = l
  <2>1. g[k] \in 1..Len(seq) /\ g[l] \in 1..Len(seq) /\ seq[g[k]] = seq[g[l]]
    BY <1>1, <1>4 DEF Picks
  <2>2. g[k] = g[l]
    BY <1>3, <2>1 DEF IsInjective
  <2>3. \A i, j \in 1..Len(t) : i < j => g[i] < g[j]
    BY <1>1 DEF Picks
  <2> QED
    BY <1>3, <2>1, <2>2, <2>3
<1> QED
  <2>1. IsInjective(t)
    BY <1>3, <1>4 DEF IsInjective
  <2> QED
    BY <2>1 DEF t

\* Pieces of a sequence without duplicates have none.
LEMMA PieceOnce ==
    ASSUME NEW seq \in Seq(Msg), NEW i \in 1..(Len(seq) + 1), NEW j \in (i - 1)..Len(seq)
    PROVE  /\ SubSeq(seq, i, j) \in Seq(Msg)
           /\ Range(SubSeq(seq, i, j)) \subseteq Range(seq)
           /\ IsInjective(seq) => IsInjective(SubSeq(seq, i, j))
           /\ \A k \in DOMAIN SubSeq(seq, i, j) : i + k - 1 \in i..j /\ SubSeq(seq, i, j)[k] = seq[i + k - 1]
<1> DEFINE t == SubSeq(seq, i, j)
<1>1. Len(seq) \in Nat /\ DOMAIN seq = 1..Len(seq)
  BY LenProperties
<1>2. t \in Seq(Msg) /\ Len(t) = j - i + 1 /\ \A k \in 1..(j - i + 1) : t[k] = seq[i + k - 1]
  BY <1>1, SubSeqProperties
<1>3. DOMAIN t = 1..(j - i + 1)
  BY <1>2, LenProperties
<1> HIDE DEF t
<1>4. \A k \in DOMAIN t : i + k - 1 \in i..j /\ i + k - 1 \in DOMAIN seq /\ t[k] = seq[i + k - 1]
  BY <1>1, <1>2, <1>3
<1>5. Range(t) \subseteq Range(seq)
  BY <1>4 DEF Range
<1>6. IsInjective(seq) => IsInjective(t)
  BY <1>1, <1>3, <1>4 DEF IsInjective
<1> QED
  BY <1>2, <1>4, <1>5, <1>6 DEF t

-----------------------------------------------------------------------------
(* One pass of the outbound worker.                                        *)

LEMMA RefusalsWithin ==
    ASSUME NEW ms \in Seq(Msg)
    PROVE  Refusals(ms) \in 0..Len(ms)
<1> DEFINE dialled == {i \in DOMAIN ms : ~Refused(ms[i])}
<1>1. DOMAIN ms = 1..Len(ms) /\ Len(ms) \in Nat
  BY LenProperties
<1>2. CASE dialled = {}
  BY <1>1, <1>2 DEF Refusals
<1>3. CASE dialled # {}
  <2>1. \E x \in dialled : \A y \in dialled : x <= y
    <3>1. dialled \in SUBSET Nat
      BY <1>1
    <3> QED
      BY <1>3, <3>1, LeastNat
  <2>2. Min(dialled) \in dialled
    BY <2>1 DEF Min
  <2>3. Refusals(ms) = Min(dialled) - 1
    BY <1>3 DEF Refusals
  <2> QED
    BY <1>1, <2>2, <2>3
<1> QED
  BY <1>2, <1>3

LEMMA FailuresCount ==
    ASSUME NEW ms \in Seq(Msg), attempts \in [Msg -> Nat]
    PROVE  RecordFailures(ms) \in [Msg -> Nat]
<1>1. IsFiniteSet(DOMAIN ms)
  BY LenProperties, FS_Interval
<1> DEFINE Count(m) == Cardinality({i \in DOMAIN ms : ms[i] = m})
<1>2. \A m : Count(m) \in Nat
  BY <1>1, FS_Subset, FS_CardinalityType
<1>3. RecordFailures(ms) = [m \in Msg |-> attempts[m] + Count(m)]
  BY DEF RecordFailures
<1> HIDE DEF Count
<1> QED
  BY <1>2, <1>3

\* What the pass still has to deliver.
Hands == Range(batch) \cup ({call["worker"]} \ {None})

LEMMA ContinueHolds ==
    ASSUME NEW ms \in Seq(Msg), IsInjective(ms), NEW failed \in Seq(Msg),
           attempts \in [Msg -> Nat], call \in [Sender -> Msg \cup {None}],
           Continue(ms, failed)
    PROVE  /\ attempts' \in [Msg -> Nat]
           /\ batch' \in Seq(Msg) /\ IsInjective(batch')
           /\ call' \in [Sender -> Msg \cup {None}] /\ call'["route"] = call["route"]
           /\ call'["worker"] \notin Range(batch')
           /\ Hands' \subseteq Range(ms)
           /\ landed' = landed \ {"worker"}
<1> DEFINE n == Refusals(ms)
<1>1. n \in 0..Len(ms) /\ Len(ms) \in Nat /\ DOMAIN ms = 1..Len(ms)
  BY RefusalsWithin, LenProperties
<1>2. /\ attempts' = RecordFailures(failed \o SubSeq(ms, 1, n))
      /\ batch' = SubSeq(ms, n + 2, Len(ms))
      /\ call' = [call EXCEPT !["worker"] = IF n < Len(ms) THEN ms[n + 1] ELSE None]
      /\ landed' = landed \ {"worker"}
  BY DEF Continue
<1> HIDE DEF n
<1>3. attempts' \in [Msg -> Nat]
  <2>1. SubSeq(ms, 1, n) \in Seq(Msg)
    BY <1>1, PieceOnce
  <2>2. failed \o SubSeq(ms, 1, n) \in Seq(Msg)
    BY <2>1, ConcatProperties
  <2> QED
    BY <1>2, <2>2, FailuresCount
<1>4. call' \in [Sender -> Msg \cup {None}] /\ call'["route"] = call["route"]
  <2>1. n < Len(ms) => ms[n + 1] \in Msg
    BY <1>1, ElementOfSeq
  <2> QED
    BY <1>2, <2>1 DEF Sender
<1>5. call'["worker"] = IF n < Len(ms) THEN ms[n + 1] ELSE None
  BY <1>2 DEF Sender
<1>6. CASE n < Len(ms)
  <2> DEFINE i == n + 2
  <2>1. i \in 1..(Len(ms) + 1) /\ Len(ms) \in (i - 1)..Len(ms) /\ batch' = SubSeq(ms, i, Len(ms))
    BY <1>1, <1>2, <1>6
  <2>last. i = n + 2
    OBVIOUS
  <2> HIDE DEF i
  <2>2. /\ batch' \in Seq(Msg) /\ IsInjective(batch') /\ Range(batch') \subseteq Range(ms)
        /\ \A k \in DOMAIN batch' : i + k - 1 \in i..Len(ms) /\ batch'[k] = ms[i + k - 1]
    BY <2>1, PieceOnce
  <2>3. n + 1 \in DOMAIN ms /\ call'["worker"] = ms[n + 1]
    BY <1>1, <1>5, <1>6
  <2>4. \A k \in DOMAIN batch' : batch'[k] # ms[n + 1]
    <3> TAKE k \in DOMAIN batch'
    <3>1. i + k - 1 \in DOMAIN ms /\ i + k - 1 # n + 1
      BY <1>1, <2>2, <2>last
    <3> QED
      BY <2>2, <2>3, <3>1 DEF IsInjective
  <2>5. ms[n + 1] \in Range(ms)
    BY <2>3 DEF Range
  <2> QED
    BY <1>2, <1>3, <1>4, <2>2, <2>3, <2>4, <2>5 DEF Hands, Range
<1>7. CASE n = Len(ms)
  <2>1. batch' = <<>>
    BY <1>1, <1>2, <1>7, SubSeqEmpty
  <2>2. batch' \in Seq(Msg) /\ DOMAIN batch' = {}
    BY <2>1, EmptySeq
  <2>3. call'["worker"] = None
    BY <1>5, <1>7, <1>1
  <2> QED
    BY <1>2, <1>3, <1>4, <2>2, <2>3 DEF Hands, Range, IsInjective
<1>8. n < Len(ms) \/ n = Len(ms)
  <2>1. \A b \in Nat : \A a \in 0..b : a < b \/ a = b
    OBVIOUS
  <2> QED
    BY <1>1, <2>1
<1> QED
  BY <1>6, <1>7, <1>8
-----------------------------------------------------------------------------
(* Why a message is posted no more often than is explained.                *)

OutboxTyped ==
    /\ daemon \in {"down", "up", "stopping"}
    /\ starts \in 0..MaxStarts
    /\ channel \in [Channel -> {"disabled", "ready", "failed"}]
    /\ queue \in Seq(Msg) /\ IsInjective(queue)
    /\ delivered \subseteq Range(queue)
    /\ attempts \in [Msg -> Nat]
    /\ batch \in Seq(Msg)
    /\ call \in [Sender -> Msg \cup {None}]
    /\ landed \subseteq Sender
    /\ posts \in [Msg -> Nat] /\ unsure \in [Msg -> Nat]

\* The worker may yet deliver the message.
ByWorker(m) == m \notin delivered \/ m \in Hands

\* POST /send may yet deliver it.
ByRoute(m) == m \in Direct /\ (call["route"] = m \/ ~Queued(m))

\* The posts there are and those to come, one by the worker and one by the
\* route at most, beside the ones that were not recorded.
Due(m) == (IF ByWorker(m) THEN 1 ELSE 0) + (IF ByRoute(m) THEN 1 ELSE 0)
Explained(m) == posts[m] + Due(m) <= (IF m \in Direct THEN 2 ELSE 1) + unsure[m]

\* The worker has no message twice in its hands, and nobody has one that is
\* not in the queue.
SenderInv ==
    /\ IsInjective(batch) /\ call["worker"] \notin Range(batch)
    /\ Hands \subseteq Range(queue)
    /\ call["route"] \in (Direct \cap Range(queue)) \cup {None}
    /\ \A m \in Msg : posts[m] > 0 => Queued(m)
    /\ \A s \in landed : call[s] # None

\* A post whose call has not returned is unsure.
Lands(s, m) == IF s \in landed /\ call[s] = m THEN 1 ELSE 0
Waiting(m) == Lands("worker", m) + Lands("route", m)
WaitingInv == \A m \in Msg : Waiting(m) <= unsure[m]

OutboxInv == OutboxTyped /\ SenderInv /\ WaitingInv /\ \A m \in Msg : Explained(m)

outboxVars == <<daemon, starts, channel, outbox, sending>>

LEMMA Appended ==
    ASSUME NEW seq \in Seq(Msg), NEW m \in Msg
    PROVE  /\ Append(seq, m) \in Seq(Msg)
           /\ Range(Append(seq, m)) = Range(seq) \cup {m}
           /\ IsInjective(seq) /\ m \notin Range(seq) => IsInjective(Append(seq, m))
<1> DEFINE t == Append(seq, m)
<1>1. /\ t \in Seq(Msg) /\ Len(t) = Len(seq) + 1 /\ Len(seq) \in Nat
      /\ t[Len(t)] = m /\ \A i \in 1..Len(seq) : t[i] = seq[i]
      /\ DOMAIN t = 1..Len(t) /\ DOMAIN seq = 1..Len(seq)
  BY AppendProperties, LenProperties
<1> HIDE DEF t
<1>2. DOMAIN t = DOMAIN seq \cup {Len(t)} /\ Len(t) \notin DOMAIN seq
  BY <1>1
<1>3. \A i \in DOMAIN seq : t[i] = seq[i]
  BY <1>1
<1>4. Range(t) = Range(seq) \cup {m}
  BY <1>1, <1>2, <1>3 DEF Range
<1>5. ASSUME IsInjective(seq), m \notin Range(seq) PROVE IsInjective(t)
  BY <1>1, <1>2, <1>3, <1>5 DEF IsInjective, Range
<1> QED
  BY <1>1, <1>4, <1>5 DEF t

\* What is due only becomes less, and a post that is not unsure was due.
LEMMA StaysExplained ==
    ASSUME NEW m, Explained(m), posts[m] \in Nat, unsure[m] \in Nat, posts'[m] \in Nat, unsure'[m] \in Nat,
           ByWorker(m)' => ByWorker(m), ByRoute(m)' => ByRoute(m),
           \/ posts'[m] + unsure[m] <= posts[m] + unsure'[m]
           \/ /\ posts'[m] + unsure[m] <= posts[m] + unsure'[m] + 1
              /\ (ByWorker(m) /\ ~ByWorker(m)') \/ (ByRoute(m) /\ ~ByRoute(m)')
    PROVE  Explained(m)'
<1>1. Due(m) \in 0..2 /\ Due(m)' \in 0..2 /\ Due(m)' <= Due(m)
  BY DEF Due
<1>2. (ByWorker(m) /\ ~ByWorker(m)') \/ (ByRoute(m) /\ ~ByRoute(m)') => Due(m)' + 1 <= Due(m)
  BY DEF Due
<1> QED
  BY <1>1, <1>2 DEF Explained

LEMMA StillExplained ==
    ASSUME OutboxInv, UNCHANGED <<posts, unsure>>,
           \A k \in Msg : (ByWorker(k)' => ByWorker(k)) /\ (ByRoute(k)' => ByRoute(k))
    PROVE  \A k \in Msg : Explained(k)'
<1> TAKE k \in Msg
<1>1. /\ Explained(k) /\ posts[k] \in Nat /\ unsure[k] \in Nat /\ posts'[k] \in Nat /\ unsure'[k] \in Nat
      /\ posts'[k] + unsure[k] <= posts[k] + unsure'[k]
  BY DEF OutboxInv, OutboxTyped
<1> QED
  BY <1>1, StaysExplained

\* A call that returns, or is not there, waits no more.
LEMMA StillWaiting ==
    ASSUME OutboxInv, UNCHANGED unsure, call' \in [Sender -> Msg \cup {None}], landed' \subseteq landed,
           \A s \in landed' : call'[s] = call[s]
    PROVE  WaitingInv' /\ \A s \in landed' : call'[s] # None
<1>1. /\ landed \subseteq Sender /\ unsure \in [Msg -> Nat] /\ WaitingInv
      /\ \A s \in landed : call[s] # None
  BY DEF OutboxInv, OutboxTyped, SenderInv
<1>2. ASSUME NEW k \in Msg PROVE Waiting(k)' <= unsure'[k]
  <2>1. \A s \in Sender : Lands(s, k) \in 0..1 /\ Lands(s, k)' \in 0..1 /\ Lands(s, k)' <= Lands(s, k)
    BY DEF Lands
  <2>2. Waiting(k) <= unsure[k] /\ unsure[k] \in Nat
    BY <1>1 DEF WaitingInv
  <2> QED
    BY <2>1, <2>2 DEF Waiting, Sender
<1> QED
  BY <1>1, <1>2 DEF WaitingInv

\* The call of a sender is recorded: one post less is unsure.
LEMMA OneLess ==
    ASSUME OutboxInv, NEW s \in Sender, NEW m \in Msg, call[s] = m, Recorded(s, m),
           call' \in [Sender -> Msg \cup {None}], landed' = landed \ {s},
           \A t \in Sender \ {s} : call'[t] = call[t]
    PROVE  /\ unsure' \in [Msg -> Nat] /\ unsure'[m] + 1 = unsure[m]
           /\ \A k \in Msg : k # m => unsure'[k] = unsure[k]
           /\ WaitingInv' /\ \A t \in landed' : call'[t] # None
<1>1. /\ landed \subseteq Sender /\ unsure \in [Msg -> Nat] /\ WaitingInv
      /\ \A t \in landed : call[t] # None
      /\ s \in landed /\ unsure' = [unsure EXCEPT ![m] = @ - 1]
  BY DEF OutboxInv, OutboxTyped, SenderInv, Recorded
<1>2. /\ unsure'[m] = unsure[m] - 1 /\ unsure[m] \in Nat
      /\ \A k \in Msg : k # m => unsure'[k] = unsure[k]
  BY <1>1
<1>3. ASSUME NEW k \in Msg
      PROVE  /\ Waiting(k)' <= Waiting(k) /\ Waiting(k) \in Nat /\ Waiting(k)' \in Nat
             /\ k = m => Waiting(k)' + 1 <= Waiting(k)
  <2>1. CASE s = "worker"
    <3>1. Lands("worker", k)' = 0 /\ Lands("worker", k) \in {0, 1} /\ (k = m => Lands("worker", k) = 1)
      BY <1>1, <2>1 DEF Lands
    <3>2. Lands("route", k)' = Lands("route", k) /\ Lands("route", k) \in {0, 1}
      BY <2>1 DEF Lands, Sender
    <3> QED
      BY <3>1, <3>2 DEF Waiting
  <2>2. CASE s = "route"
    <3>1. Lands("route", k)' = 0 /\ Lands("route", k) \in {0, 1} /\ (k = m => Lands("route", k) = 1)
      BY <1>1, <2>2 DEF Lands
    <3>2. Lands("worker", k)' = Lands("worker", k) /\ Lands("worker", k) \in {0, 1}
      BY <2>2 DEF Lands, Sender
    <3> QED
      BY <3>1, <3>2 DEF Waiting
  <2> QED
    BY <2>1, <2>2 DEF Sender
<1>5. \A k \in Msg : Waiting(k) <= unsure[k]
  BY <1>1 DEF WaitingInv
<1>6. unsure[m] >= 1
  BY <1>2, <1>3, <1>5
<1>7. unsure' \in [Msg -> Nat]
  <2>1. unsure[m] - 1 \in Nat
    BY <1>2, <1>6
  <2> QED
    BY <1>1, <2>1
<1>8. ASSUME NEW k \in Msg PROVE Waiting(k)' <= unsure'[k]
  <2>1. CASE k = m
    BY <1>2, <1>3, <1>5, <2>1
  <2>2. CASE k # m
    <3>1. unsure'[k] = unsure[k] /\ unsure[k] \in Nat
      BY <1>1, <1>2, <2>2
    <3> QED
      BY <1>3, <1>5, <3>1
  <2> QED
    BY <2>1, <2>2
<1> QED
  BY <1>1, <1>2, <1>6, <1>7, <1>8 DEF WaitingInv

LEMMA OutboxInitially == Init => OutboxInv
<1> SUFFICES ASSUME Init PROVE OutboxInv
  OBVIOUS
<1>1. Range(queue) = {} /\ Range(batch) = {} /\ IsInjective(queue) /\ IsInjective(batch)
  BY DEF Init, Range, IsInjective
<1>2. OutboxTyped
  BY <1>1, MessagingAssumption DEF Init, OutboxTyped
<1>3. call["worker"] = None /\ call["route"] = None
  BY DEF Init, Sender
<1>4. SenderInv /\ WaitingInv
  BY <1>1, <1>3 DEF SenderInv, Init, Hands, WaitingInv, Waiting, Lands
<1>5. \A m \in Msg : Explained(m)
  <2> TAKE m \in Msg
  <2>1. posts[m] = 0 /\ unsure[m] = 0 /\ (m \notin Direct => ~ByRoute(m))
    BY DEF Init, ByRoute
  <2>2. Due(m) \in 0..2 /\ (m \notin Direct => Due(m) \in 0..1)
    BY <2>1 DEF Due
  <2> QED
    BY <2>1, <2>2 DEF Explained
<1> QED
  BY <1>2, <1>4, <1>5 DEF OutboxInv

LEMMA OutboxKept ==
    ASSUME OutboxInv, UNCHANGED outboxVars PROVE OutboxInv'
  BY DEF OutboxInv, OutboxTyped, SenderInv, WaitingInv, Waiting, Lands, Explained, Due, ByWorker, ByRoute, Hands, Queued,
     outboxVars, outbox, sending

LEMMA EnqueueExplained ==
    ASSUME OutboxInv, NEW m \in Msg, Enqueue(m) PROVE OutboxInv'
<1>1. /\ queue' = Append(queue, m) /\ m \notin Range(queue) /\ m \notin Direct
      /\ UNCHANGED <<daemon, starts, channel, delivered, attempts, batch, call, landed, posts, unsure>>
  BY DEF Enqueue, Queued, life, sending
<1>2. queue' \in Seq(Msg) /\ IsInjective(queue') /\ Range(queue') = Range(queue) \cup {m}
  BY <1>1, Appended DEF OutboxInv, OutboxTyped
<1>3. OutboxTyped'
  BY <1>1, <1>2 DEF OutboxInv, OutboxTyped
<1>4. SenderInv' /\ WaitingInv'
  BY <1>1, <1>2 DEF OutboxInv, SenderInv, Hands, Queued, WaitingInv, Waiting, Lands
<1>5. \A k \in Msg : (ByWorker(k)' <=> ByWorker(k)) /\ (ByRoute(k)' => ByRoute(k))
  BY <1>1, <1>2 DEF ByWorker, ByRoute, Hands, Queued
<1>6. \A k \in Msg : Explained(k)'
  BY <1>1, <1>5, StillExplained
<1> QED
  BY <1>3, <1>4, <1>6 DEF OutboxInv

LEMMA SendExplained ==
    ASSUME OutboxInv, NEW m \in Msg, Send(m) PROVE OutboxInv'
<1>1. /\ queue' = Append(queue, m) /\ m \notin Range(queue) /\ m \in Direct /\ call["route"] = None
      /\ UNCHANGED <<daemon, starts, channel, delivered, batch, landed, posts, unsure>>
  BY DEF Send, Queued, life
<1>2. queue' \in Seq(Msg) /\ IsInjective(queue') /\ Range(queue') = Range(queue) \cup {m}
  BY <1>1, Appended DEF OutboxInv, OutboxTyped
<1>3. attempts' \in [Msg -> Nat]
  <2>1. <<m>> \in Seq(Msg)
    OBVIOUS
  <2>2. attempts \in [Msg -> Nat]
    BY DEF OutboxInv, OutboxTyped
  <2> QED
    BY <2>1, <2>2, FailuresCount DEF Send
<1>4. /\ call' \in [Sender -> Msg \cup {None}] /\ call'["worker"] = call["worker"]
      /\ call'["route"] \in {m, None}
  BY <1>1 DEF Send, OutboxInv, OutboxTyped, Sender
<1>5. OutboxTyped'
  BY <1>1, <1>2, <1>3, <1>4 DEF OutboxInv, OutboxTyped
<1>wait. WaitingInv' /\ \A s \in landed' : call'[s] # None
  <2>1. \A s \in landed : s = "worker"
    BY <1>1 DEF OutboxInv, OutboxTyped, SenderInv, Sender
  <2> QED
    BY <1>1, <1>4, <2>1, StillWaiting
<1>6. SenderInv'
  BY <1>1, <1>2, <1>4, <1>wait DEF OutboxInv, SenderInv, Hands, Queued
<1>7. \A k \in Msg : (ByWorker(k)' <=> ByWorker(k)) /\ (ByRoute(k)' => ByRoute(k))
  BY <1>1, <1>2, <1>4, MessagingAssumption DEF ByWorker, ByRoute, Hands, Queued
<1>8. \A k \in Msg : Explained(k)'
  BY <1>1, <1>7, StillExplained
<1> QED
  BY <1>5, <1>6, <1>8, <1>wait DEF OutboxInv

LEMMA DrainExplained ==
    ASSUME OutboxInv, Drain PROVE OutboxInv'
<1> DEFINE ms == Prefix(ListPending, Batch)
<1>1. ListPending \in Seq(Msg) /\ IsInjective(ListPending) /\ Range(ListPending) \subseteq Range(queue) \ delivered
  BY AmongPicks, SelectedAreThere, SelectedOnce DEF ListPending, OutboxInv, OutboxTyped
<1>2. ms \in Seq(Msg) /\ IsInjective(ms) /\ Range(ms) \subseteq Range(queue) \ delivered
  <2>1. Len(ListPending) \in Nat /\ Batch \in Nat
    BY <1>1, LenProperties, MessagingAssumption
  <2> DEFINE n == IF Len(ListPending) < Batch THEN Len(ListPending) ELSE Batch
  <2>2. n \in (1 - 1)..Len(ListPending) /\ 1 \in 1..(Len(ListPending) + 1)
    BY <2>1
  <2>3. ms = SubSeq(ListPending, 1, n)
    BY DEF Prefix
  <2> HIDE DEF n, ms
  <2> QED
    BY <1>1, <2>2, <2>3, PieceOnce
<1> HIDE DEF ms
<1>3. Continue(ms, <<>>) /\ call["worker"] = None
      /\ UNCHANGED <<daemon, starts, channel, queue, delivered, posts, unsure>>
  BY DEF Drain, life, ms
<1>4. /\ attempts' \in [Msg -> Nat]
      /\ batch' \in Seq(Msg) /\ IsInjective(batch')
      /\ call' \in [Sender -> Msg \cup {None}] /\ call'["route"] = call["route"]
      /\ call'["worker"] \notin Range(batch')
      /\ Hands' \subseteq Range(ms) /\ landed' = landed \ {"worker"}
  <2>1. <<>> \in Seq(Msg)
    BY EmptySeq
  <2> QED
    BY <1>2, <1>3, <2>1, ContinueHolds DEF OutboxInv, OutboxTyped
<1>5. OutboxTyped'
  BY <1>3, <1>4 DEF OutboxInv, OutboxTyped
<1>wait. WaitingInv' /\ \A s \in landed' : call'[s] # None
  <2>1. \A s \in landed' : call'[s] = call[s]
    BY <1>4 DEF OutboxInv, OutboxTyped, Sender
  <2> QED
    BY <1>3, <1>4, <2>1, StillWaiting
<1>6. SenderInv'
  BY <1>2, <1>3, <1>4, <1>wait DEF OutboxInv, SenderInv, Queued
<1>7. \A k \in Msg : (ByWorker(k)' => ByWorker(k)) /\ (ByRoute(k)' <=> ByRoute(k))
  BY <1>2, <1>3, <1>4 DEF ByWorker, ByRoute, Queued
<1>8. \A k \in Msg : Explained(k)'
  BY <1>3, <1>7, StillExplained
<1> QED
  BY <1>5, <1>6, <1>8, <1>wait DEF OutboxInv

LEMMA LandExplained ==
    ASSUME OutboxInv, NEW s \in Sender, Land(s) PROVE OutboxInv'
<1> DEFINE m == call[s]
<1>1. /\ m \in Msg /\ Queued(m) /\ s \notin landed /\ landed' = landed \cup {s}
      /\ UNCHANGED <<daemon, starts, channel, queue, delivered, attempts, batch, call>>
  BY DEF Land, OutboxInv, OutboxTyped, SenderInv, Hands, Queued, Sender, life, outbox
<1>2. posts \in [Msg -> Nat] /\ unsure \in [Msg -> Nat] /\ landed \subseteq Sender
  BY DEF OutboxInv, OutboxTyped
<1>3. posts' = [posts EXCEPT ![m] = @ + 1] /\ unsure' = [unsure EXCEPT ![m] = @ + 1]
  BY DEF Land
<1>last. m = call[s] /\ m # None
  BY DEF Land
<1> HIDE DEF m
<1>4. posts' \in [Msg -> Nat] /\ unsure' \in [Msg -> Nat]
  <2>1. posts[m] + 1 \in Nat /\ unsure[m] + 1 \in Nat
    BY <1>1, <1>2
  <2> QED
    BY <1>2, <1>3, <2>1
<1>5. \A k \in Msg : /\ posts'[k] = IF k = m THEN posts[k] + 1 ELSE posts[k]
                    /\ unsure'[k] = IF k = m THEN unsure[k] + 1 ELSE unsure[k]
  BY <1>2, <1>3
<1>6. OutboxTyped'
  BY <1>1, <1>2, <1>4 DEF OutboxInv, OutboxTyped
<1>7. SenderInv'
  <2>1. \A k \in Msg : posts'[k] > 0 => Queued(k)'
    BY <1>1, <1>5 DEF OutboxInv, SenderInv, Queued
  <2> QED
    BY <1>1, <1>last, <2>1 DEF OutboxInv, SenderInv, Hands
<1>8. ASSUME NEW k \in Msg PROVE Waiting(k)' <= unsure'[k]
  <2>1. \A t \in Sender : Lands(t, k) \in 0..1 /\ Lands(t, k)' \in 0..1
    BY DEF Lands
  <2>2. \A t \in Sender : (t # s \/ k # m) => Lands(t, k)' = Lands(t, k)
    BY <1>1, <1>last DEF Lands
  <2>3. Lands(s, k) = 0 \/ k # m
    BY <1>1 DEF Lands
  <2>4. Waiting(k) <= unsure[k] /\ unsure[k] \in Nat
    BY <1>2 DEF OutboxInv, WaitingInv
  <2>5. CASE k = m
    BY <1>5, <2>1, <2>2, <2>3, <2>4, <2>5 DEF Waiting, Sender
  <2>6. CASE k # m
    BY <1>5, <2>1, <2>2, <2>4, <2>6 DEF Waiting, Sender
  <2> QED
    BY <2>5, <2>6
<1>9. ASSUME NEW k \in Msg PROVE Explained(k)'
  <2>1. (ByWorker(k)' => ByWorker(k)) /\ (ByRoute(k)' => ByRoute(k))
    BY <1>1 DEF ByWorker, ByRoute, Hands, Queued
  <2>2. /\ Explained(k) /\ posts[k] \in Nat /\ unsure[k] \in Nat /\ posts'[k] \in Nat /\ unsure'[k] \in Nat
        /\ posts'[k] + unsure[k] <= posts[k] + unsure'[k]
    BY <1>2, <1>4, <1>5 DEF OutboxInv
  <2> QED
    BY <2>1, <2>2, StaysExplained
<1> QED
  BY <1>6, <1>7, <1>8, <1>9 DEF OutboxInv, WaitingInv

LEMMA DeliveredExplained ==
    ASSUME OutboxInv, Delivered PROVE OutboxInv'
<1> DEFINE rest == IF daemon = "up" THEN batch ELSE <<>>
<1>1. PICK m \in Msg : m = call["worker"] /\ m \in Hands /\ Queued(m)
  BY DEF Delivered, OutboxInv, OutboxTyped, SenderInv, Sender, Hands, Queued
<1>2. rest \in Seq(Msg) /\ IsInjective(rest) /\ Range(rest) \subseteq Range(batch)
  <2>1. <<>> \in Seq(Msg) /\ IsInjective(<<>>) /\ Range(<<>>) = {}
    BY EmptySeq DEF IsInjective, Range
  <2> QED
    BY <2>1 DEF OutboxInv, OutboxTyped, SenderInv
<1>3. <<m>> \in Seq(Msg) /\ <<>> \in Seq(Msg)
  BY <1>1
<1> HIDE DEF rest
<1>4. PICK failed \in {<<>>, <<m>>} : Continue(rest, failed)
  BY <1>1 DEF Delivered, rest
<1>5. /\ attempts' \in [Msg -> Nat]
      /\ batch' \in Seq(Msg) /\ IsInjective(batch')
      /\ call' \in [Sender -> Msg \cup {None}] /\ call'["route"] = call["route"]
      /\ call'["worker"] \notin Range(batch')
      /\ Hands' \subseteq Range(batch) /\ landed' = landed \ {"worker"}
  BY <1>2, <1>3, <1>4, ContinueHolds DEF OutboxInv, OutboxTyped
<1>6. m \notin Hands' /\ Hands' \subseteq Hands /\ UNCHANGED <<daemon, starts, channel, queue>>
  BY <1>1, <1>5 DEF OutboxInv, SenderInv, Hands, Delivered, life
<1>7. Recorded("worker", m) \/ Unrecorded
  BY <1>1 DEF Delivered
<1>last. m = call["worker"] /\ UNCHANGED posts
  BY <1>1 DEF Delivered
<1>counts. /\ unsure' \in [Msg -> Nat] /\ WaitingInv' /\ \A t \in landed' : call'[t] # None
           /\ \A k \in Msg : k # m \/ Unrecorded => unsure'[k] = unsure[k]
           /\ Recorded("worker", m) => unsure'[m] + 1 = unsure[m]
  <2>1. \A t \in Sender \ {"worker"} : call'[t] = call[t]
    BY <1>5 DEF Sender
  <2>2. landed \subseteq Sender /\ unsure \in [Msg -> Nat]
    BY DEF OutboxInv, OutboxTyped
  <2>3. CASE Recorded("worker", m)
    <3>1. "worker" \in Sender
      BY DEF Sender
    <3>2. ~Unrecorded
      <4>1. unsure'[m] + 1 = unsure[m]
        BY <1>1, <1>5, <1>last, <2>1, <2>3, <3>1, OneLess
      <4>2. unsure[m] + 1 # unsure[m]
        BY <1>1, <2>2
      <4> QED
        BY <4>1, <4>2 DEF Unrecorded
    <3> QED
      BY <1>1, <1>5, <1>last, <2>1, <2>3, <3>1, <3>2, OneLess
  <2>4. CASE Unrecorded
    <3>1. UNCHANGED unsure
      BY <2>4 DEF Unrecorded
    <3>2. ~Recorded("worker", m)
      <4>1. unsure[m] - 1 # unsure[m]
        BY <1>1, <2>2
      <4>2. Recorded("worker", m) => unsure'[m] = unsure[m] - 1
        BY <1>1, <2>2 DEF Recorded
      <4> QED
        BY <3>1, <4>1, <4>2
    <3>3. WaitingInv' /\ \A t \in landed' : call'[t] # None
      BY <1>5, <2>1, <2>2, <3>1, StillWaiting
    <3> QED
      BY <2>2, <3>1, <3>2, <3>3
  <2> QED
    BY <1>7, <2>3, <2>4
<1>8. OutboxTyped'
  <2>1. delivered' \subseteq Range(queue)
    BY <1>1, <1>7 DEF OutboxInv, OutboxTyped, Queued, Recorded, Unrecorded
  <2> QED
    BY <2>1, <1>counts, <1>5, <1>6, <1>last DEF OutboxInv, OutboxTyped
<1>9. SenderInv'
  BY <1>5, <1>6, <1>counts, <1>last DEF OutboxInv, SenderInv, Queued
<1>10. \A k \in Msg : /\ ByWorker(k)' => ByWorker(k)
                      /\ ByRoute(k)' <=> ByRoute(k)
                      /\ Recorded("worker", m) => ~ByWorker(m)'
                      /\ ByWorker(m)
  <2>1. delivered' = delivered \cup {m} \/ delivered' = delivered
    BY <1>7 DEF Recorded, Unrecorded
  <2>2. Recorded("worker", m) => m \in delivered'
    BY DEF Recorded
  <2>3. ByWorker(m) /\ (Recorded("worker", m) => ~ByWorker(m)')
    BY <1>1, <1>6, <2>2 DEF ByWorker
  <2>4. ASSUME NEW k \in Msg PROVE ByWorker(k)' => ByWorker(k)
    BY <1>6, <2>1 DEF ByWorker
  <2>5. ASSUME NEW k \in Msg PROVE ByRoute(k)' <=> ByRoute(k)
    BY <1>5, <1>6 DEF ByRoute, Queued
  <2> QED
    BY <2>3, <2>4, <2>5
<1>11. ASSUME NEW k \in Msg PROVE Explained(k)'
  <2>1. posts[k] \in Nat /\ unsure[k] \in Nat /\ posts'[k] = posts[k] /\ unsure'[k] \in Nat
    BY <1>counts, <1>last DEF OutboxInv, OutboxTyped
  <2>2. \/ posts'[k] + unsure[k] <= posts[k] + unsure'[k]
        \/ posts'[k] + unsure[k] <= posts[k] + unsure'[k] + 1 /\ ByWorker(k) /\ ~ByWorker(k)'
    <3>1. CASE k # m \/ ~Recorded("worker", m)
      <4>1. unsure'[k] = unsure[k]
        BY <1>7, <1>counts, <3>1
      <4> QED
        BY <2>1, <4>1
    <3>2. CASE k = m /\ Recorded("worker", m)
      <4>1. unsure'[k] + 1 = unsure[k] /\ ByWorker(k) /\ ~ByWorker(k)'
        BY <1>1, <1>10, <1>counts, <3>2
      <4> QED
        BY <2>1, <4>1
    <3> QED
      BY <3>1, <3>2
  <2>3. Explained(k)
    BY DEF OutboxInv
  <2> QED
    BY <1>10, <2>1, <2>2, <2>3, StaysExplained
<1> QED
  BY <1>8, <1>9, <1>11, <1>counts DEF OutboxInv

LEMMA SentExplained ==
    ASSUME OutboxInv, Sent PROVE OutboxInv'
<1>1. PICK m \in Msg : m = call["route"] /\ m \in Direct /\ Queued(m)
  BY DEF Sent, OutboxInv, OutboxTyped, SenderInv, Sender, Queued
<1>2. /\ call' \in [Sender -> Msg \cup {None}] /\ call'["route"] = None /\ call'["worker"] = call["worker"]
      /\ UNCHANGED <<daemon, starts, channel, queue, batch>>
      /\ Hands' = Hands
  BY DEF Sent, OutboxInv, OutboxTyped, Sender, life, Hands
<1>3. attempts' \in [Msg -> Nat]
  <2>1. <<m>> \in Seq(Msg)
    BY <1>1
  <2> QED
    BY <1>1, <2>1, FailuresCount DEF Sent, OutboxInv, OutboxTyped
<1>4. Recorded("route", m) \/ Unrecorded
  BY <1>1 DEF Sent
<1>5. m = call["route"] /\ UNCHANGED posts /\ landed' = landed \ {"route"}
  BY <1>1 DEF Sent
<1>counts. /\ unsure' \in [Msg -> Nat] /\ WaitingInv' /\ \A t \in landed' : call'[t] # None
           /\ \A k \in Msg : k # m \/ ~Recorded("route", m) => unsure'[k] = unsure[k]
           /\ Recorded("route", m) => unsure'[m] + 1 = unsure[m]
  <2>1. \A t \in Sender \ {"route"} : call'[t] = call[t]
    BY <1>2 DEF Sender
  <2>2. landed \subseteq Sender /\ unsure \in [Msg -> Nat]
    BY DEF OutboxInv, OutboxTyped
  <2>3. CASE Recorded("route", m)
    <3>1. "route" \in Sender
      BY DEF Sender
    <3> QED
      BY <1>1, <1>2, <1>5, <2>1, <2>3, <3>1, OneLess
  <2>4. CASE ~Recorded("route", m)
    <3>1. UNCHANGED unsure
      BY <1>4, <2>4 DEF Unrecorded
    <3>2. WaitingInv' /\ \A t \in landed' : call'[t] # None
      BY <1>2, <1>5, <2>1, <2>2, <3>1, StillWaiting
    <3> QED
      BY <2>2, <2>4, <3>1, <3>2
  <2> QED
    BY <2>3, <2>4
<1>6. OutboxTyped'
  <2>1. delivered' \subseteq Range(queue)
    BY <1>1, <1>4 DEF OutboxInv, OutboxTyped, Queued, Recorded, Unrecorded
  <2> QED
    BY <2>1, <1>counts, <1>2, <1>3, <1>5 DEF OutboxInv, OutboxTyped
<1>7. SenderInv'
  BY <1>2, <1>5, <1>counts DEF OutboxInv, SenderInv, Queued
<1>8. \A k \in Msg : /\ ByWorker(k)' => ByWorker(k)
                     /\ ByRoute(k)' => ByRoute(k)
                     /\ ByRoute(m) /\ ~ByRoute(m)'
  <2>1. delivered \subseteq delivered'
    BY <1>4 DEF Recorded, Unrecorded
  <2>2. m # None
    BY <1>1, MessagingAssumption
  <2>3. ByRoute(m) /\ ~ByRoute(m)'
    BY <1>1, <1>2, <1>5, <2>2 DEF ByRoute, Queued
  <2>4. ASSUME NEW k \in Msg PROVE ByWorker(k)' => ByWorker(k)
    BY <1>2, <2>1 DEF ByWorker
  <2>5. ASSUME NEW k \in Msg PROVE ByRoute(k)' => ByRoute(k)
    <3>1. k # None
      BY MessagingAssumption
    <3> QED
      BY <1>2, <3>1 DEF ByRoute, Queued
  <2> QED
    BY <2>3, <2>4, <2>5
<1>9. ASSUME NEW k \in Msg PROVE Explained(k)'
  <2>1. posts[k] \in Nat /\ unsure[k] \in Nat /\ posts'[k] = posts[k] /\ unsure'[k] \in Nat
    BY <1>counts, <1>5 DEF OutboxInv, OutboxTyped
  <2>2. \/ posts'[k] + unsure[k] <= posts[k] + unsure'[k]
        \/ posts'[k] + unsure[k] <= posts[k] + unsure'[k] + 1 /\ ByRoute(k) /\ ~ByRoute(k)'
    <3>1. CASE k # m \/ ~Recorded("route", m)
      <4>1. unsure'[k] = unsure[k]
        BY <1>counts, <3>1
      <4> QED
        BY <2>1, <4>1
    <3>2. CASE k = m /\ Recorded("route", m)
      <4>1. unsure'[k] + 1 = unsure[k] /\ ByRoute(k) /\ ~ByRoute(k)'
        BY <1>1, <1>8, <1>counts, <3>2
      <4> QED
        BY <2>1, <4>1
    <3> QED
      BY <3>1, <3>2
  <2>3. Explained(k)
    BY DEF OutboxInv
  <2> QED
    BY <1>8, <2>1, <2>2, <2>3, StaysExplained
<1> QED
  BY <1>6, <1>7, <1>9, <1>counts DEF OutboxInv

LEMMA CliDrainExplained ==
    ASSUME OutboxInv, CliDrain PROVE OutboxInv'
<1> DEFINE shown == Among(queue, Msg \ delivered)
           rows == Prefix(shown, Window)
<1>1. PICK mine \in SUBSET Range(rows) : delivered' = delivered \cup mine
  BY DEF CliDrain
<1>2. UNCHANGED <<daemon, starts, channel, queue, attempts, batch, call, landed, posts, unsure>>
  BY DEF CliDrain, life, sending
<1>3. Range(rows) \subseteq Range(queue)
  <2>1. shown \in Seq(Msg) /\ Range(shown) \subseteq Range(queue)
    BY AmongPicks, SelectedAreThere DEF OutboxInv, OutboxTyped
  <2> HIDE DEF shown
  <2>2. Len(shown) \in Nat /\ Window \in Nat
    BY <2>1, LenProperties, MessagingAssumption
  <2> DEFINE n == IF Len(shown) < Window THEN Len(shown) ELSE Window
  <2>3. n \in (1 - 1)..Len(shown) /\ 1 \in 1..(Len(shown) + 1)
    BY <2>2
  <2>4. rows = SubSeq(shown, 1, n)
    BY DEF Prefix
  <2> HIDE DEF n, rows
  <2> QED
    BY <2>1, <2>3, <2>4, PieceOnce
<1> HIDE DEF rows
<1>4. OutboxTyped'
  BY <1>1, <1>2, <1>3 DEF OutboxInv, OutboxTyped
<1>5. SenderInv' /\ WaitingInv'
  BY <1>2 DEF OutboxInv, SenderInv, Hands, Queued, WaitingInv, Waiting, Lands
<1>6. \A k \in Msg : (ByWorker(k)' => ByWorker(k)) /\ (ByRoute(k)' => ByRoute(k))
  BY <1>1, <1>2 DEF ByWorker, ByRoute, Hands, Queued
<1>7. \A k \in Msg : Explained(k)'
  BY <1>2, <1>6, StillExplained
<1> QED
  BY <1>4, <1>5, <1>7 DEF OutboxInv

\* The memory of the daemon is lost.
LEMMA Forgotten ==
    ASSUME Forget
    PROVE  /\ channel' \in [Channel -> {"disabled", "ready", "failed"}]
           /\ batch' = <<>> /\ batch' \in Seq(Msg) /\ IsInjective(batch') /\ Range(batch') = {}
           /\ call' \in [Sender -> Msg \cup {None}] /\ \A s \in Sender : call'[s] = None
           /\ Hands' = {} /\ landed' = {}
<1>1. batch' = <<>>
  BY DEF Forget
<1>2. batch' \in Seq(Msg) /\ IsInjective(batch') /\ Range(batch') = {}
  BY <1>1, EmptySeq DEF IsInjective, Range
<1>3. call' \in [Sender -> Msg \cup {None}] /\ \A s \in Sender : call'[s] = None
  BY DEF Forget
<1>4. Hands' = {}
  BY <1>2, <1>3 DEF Hands, Sender
<1> QED
  BY <1>1, <1>2, <1>3, <1>4 DEF Forget

\* Then nobody has a message in hand.
LEMMA NobodyHas ==
    ASSUME OutboxInv, Forget, UNCHANGED <<queue, delivered>>
    PROVE  \A k \in Msg : (ByWorker(k)' => ByWorker(k)) /\ (ByRoute(k)' => ByRoute(k))
  BY Forgotten, MessagingAssumption DEF ByWorker, ByRoute, Queued, Sender

\* What a call in flight has posted stays as it is.
LEMMA ForgetExplained ==
    ASSUME OutboxInv, Forget, UNCHANGED <<starts, queue, delivered, attempts, posts, unsure>>, daemon' = "down"
    PROVE  OutboxInv'
<1>1. OutboxTyped'
  BY Forgotten DEF OutboxInv, OutboxTyped
<1>2. SenderInv'
  BY Forgotten DEF OutboxInv, SenderInv, Sender, Queued
<1>3. WaitingInv'
  <2>1. landed' = {} /\ \A s \in landed' : call'[s] = call[s]
    BY Forgotten
  <2> QED
    BY <2>1, Forgotten, StillWaiting
<1>4. \A k \in Msg : Explained(k)'
  BY NobodyHas, StillExplained
<1> QED
  BY <1>1, <1>2, <1>3, <1>4 DEF OutboxInv

LEMMA BootExplained ==
    ASSUME OutboxInv, Boot PROVE OutboxInv'
<1>1. /\ daemon' = "up" /\ starts' = starts + 1 /\ starts < MaxStarts
      /\ UNCHANGED <<queue, delivered, attempts, batch, call, landed, posts, unsure>>
  BY DEF Boot, outbox, sending
<1>2. channel' \in [Channel -> {"disabled", "ready", "failed"}]
  BY DEF Boot, Channel, TelegramStarts, DiscordStarts, CliStarts
<1>3. OutboxTyped'
  BY <1>1, <1>2, MessagingAssumption DEF OutboxInv, OutboxTyped
<1> QED
  BY <1>1, <1>3 DEF OutboxInv, SenderInv, WaitingInv, Waiting, Lands, Explained, Due, ByWorker, ByRoute, Hands, Queued

LEMMA StopExplained ==
    ASSUME OutboxInv, Stop PROVE OutboxInv'
  BY DEF Stop, outbox, sending, OutboxInv, OutboxTyped, SenderInv, WaitingInv, Waiting, Lands, Explained, Due,
     ByWorker, ByRoute, Hands, Queued

\* What users do and what the handlers do leaves the queue alone.
LEMMA HandlerLeavesOutbox ==
    ASSUME NEW i, Handler(i) PROVE UNCHANGED outboxVars
<1> USE DEF outboxVars, life
<1>1. CASE \E text \in Command : Usage(i, text)
  BY <1>1 DEF Usage, Ends
<1>2. CASE ReadCommand(i) \/ CancelCommand(i) \/ BudgetCommand(i) \/ ResumeCommand(i) \/ BuildCommand(i) \/ Unrouted(i)
  BY <1>2 DEF ReadCommand, CancelCommand, BudgetCommand, ResumeCommand, BuildCommand, Unrouted, Ends
<1>3. CASE AnswerQuestion(i) \/ Ignore(i) \/ ToClassifier(i) \/ Routed(i) \/ ToCommand(i)
  BY <1>3 DEF AnswerQuestion, Ignore, ToClassifier, Routed, ToCommand
<1> QED
  BY <1>1, <1>2, <1>3 DEF Handler

LEMMA OutboxInvKept ==
    ASSUME OutboxInv, [Next]_vars PROVE OutboxInv'
<1>1. CASE \E m \in Msg : Enqueue(m) \/ Send(m)
  BY <1>1, EnqueueExplained, SendExplained
<1>2. CASE \E i \in Id : Handler(i)
  BY <1>2, HandlerLeavesOutbox, OutboxKept
<1>3. CASE GetUpdates \/ (\E e \in Event : UserActs(e)) \/ (\E q \in Question : AnsweredElsewhere(q)) \/ UNCHANGED vars
  <2>1. UNCHANGED outboxVars
    BY <1>3 DEF GetUpdates, UserActs, AnsweredElsewhere, vars, outboxVars, life
  <2> QED
    BY <2>1, OutboxKept
<1>4. CASE Crash \/ Stopped
  <2>1. Forget /\ daemon' = "down" /\ UNCHANGED <<starts, queue, delivered, attempts, posts, unsure>>
    BY <1>4 DEF Crash, Stopped, outbox
  <2> QED
    BY <2>1, ForgetExplained
<1> QED
  BY <1>1, <1>2, <1>3, <1>4, LandExplained, DrainExplained, DeliveredExplained, SentExplained, CliDrainExplained,
     BootExplained, StopExplained DEF Next, Step

LEMMA OutboxAlways == Spec => []OutboxInv
<1>1. OutboxInv /\ [Next]_vars => OutboxInv'
  BY OutboxInvKept
<1> QED
  BY <1>1, OutboxInitially, PTL DEF Spec

\* A message stands in its chat once, once more per post that is not recorded,
\* and once more for POST /send, which delivers beside the worker
\* (outbound-worker.ts:84-119, server.ts:364-417).
THEOREM EveryPostExplained == Spec => []PostsExplained
<1>1. ASSUME OutboxInv, NEW m \in Msg
      PROVE  posts[m] <= (IF m \in Direct THEN 2 ELSE 1) + unsure[m]
  <2>1. Explained(m) /\ posts[m] \in Nat /\ unsure[m] \in Nat
    BY <1>1 DEF OutboxInv, OutboxTyped
  <2>2. Due(m) \in 0..2
    BY DEF Due
  <2> QED
    BY <2>1, <2>2 DEF Explained
<1>2. OutboxInv => PostsExplained
  BY <1>1 DEF PostsExplained
<1> QED
  BY <1>2, OutboxAlways, PTL
-----------------------------------------------------------------------------
(* The inbound side: its types, and what a step of a handler may be.       *)

InboundTyped ==
    /\ open \subseteq Question /\ bare \subseteq Question
    /\ by \in [Question -> 0..MaxEvents]
    /\ stamp \in [Question -> Nat]
    /\ inbox \in Seq(Inbound) /\ Len(inbox) <= MaxEvents
    /\ at \in [Id -> {"idle", "classify", "resolve"}]
    /\ handled \subseteq Id
    /\ effects \in [Id -> Nat]
    /\ updates \in Seq(Id)
    /\ offset \in Nat /\ confirmed \in Nat

inboundVars == <<questions, handlers, polling>>

LEMMA InboundInitially == Init => InboundTyped
<1> SUFFICES ASSUME Init PROVE InboundTyped
  OBVIOUS
<1>1. inbox \in Seq(Inbound) /\ Len(inbox) = 0 /\ updates \in Seq(Id)
  BY EmptySeq DEF Init
<1> QED
  BY <1>1, MessagingAssumption DEF Init, InboundTyped

LEMMA InboundStays ==
    ASSUME InboundTyped, UNCHANGED inboundVars PROVE InboundTyped'
  BY DEF InboundTyped, inboundVars, questions, handlers, polling

\* The handler of i has begun, or may.
Begun(i) == CanBegin(i) \/ at[i] # "idle"

\* It begins to wait ...
Waits(i) ==
    /\ at' \in {[at EXCEPT ![i] = "classify"], [at EXCEPT ![i] = "resolve"]}
    /\ UNCHANGED <<questions, inbox, handled, effects, polling>>

\* ... or ends, with one effect at most.
Completes(i) ==
    /\ Finish(i)
    /\ Effect(i) \/ UNCHANGED effects
    /\ UNCHANGED <<stamp, bare, inbox, confirmed>>

LEMMA HandlerForms ==
    ASSUME NEW i, Handler(i)
    PROVE  /\ Begun(i)
           /\ Waits(i) \/ Completes(i)
           /\ AnswerQuestion(i) \/ UNCHANGED questions
<1> USE DEF Begun
<1>1. CASE AnswerQuestion(i)
  BY <1>1 DEF AnswerQuestion, Completes
<1>2. CASE Ignore(i)
  BY <1>2 DEF Ignore, Completes, questions
<1>3. CASE ToClassifier(i) \/ Routed(i) \/ ToCommand(i)
  BY <1>3 DEF ToClassifier, Routed, ToCommand, Waits
<1>4. \A text : Runs(i, text) => Begun(i)
  BY DEF Runs, Deferred, Spelt, FromChat, AtOnce
<1>5. CASE \E text \in Command : Usage(i, text)
  <2>1. Begun(i)
    BY <1>5 DEF Usage, Spelt, AtOnce
  <2> QED
    BY <1>5, <2>1 DEF Usage, Ends, Completes, questions
<1>6. CASE Unrouted(i) \/ ReadCommand(i) \/ CancelCommand(i) \/ BudgetCommand(i) \/ ResumeCommand(i) \/ BuildCommand(i)
  <2>1. Begun(i)
    BY <1>4, <1>6 DEF Unrouted, ReadCommand, CancelCommand, BudgetCommand, ResumeCommand, BuildCommand
  <2> QED
    BY <1>6, <2>1 DEF Unrouted, ReadCommand, CancelCommand, BudgetCommand, ResumeCommand, BuildCommand, Insert, Ends, Completes, questions
<1> QED
  BY <1>1, <1>2, <1>3, <1>5, <1>6 DEF Handler

\* Telegram's updates from an id on, in order and complete.
LEMMA UpdatesInOrder ==
    ASSUME InboundTyped, NEW first
    PROVE  LET new == UpdatesFrom(first) IN
           /\ new \in Seq(Id)
           /\ \A k \in 1..Len(new) : /\ new[k] \in 1..Len(inbox) /\ new[k] >= first
                                     /\ inbox[new[k]].via = "telegram"
           /\ \A k, l \in 1..Len(new) : k < l => new[k] < new[l]
           /\ \A i \in 1..Len(inbox) : inbox[i].via = "telegram" /\ i >= first =>
                  \E k \in 1..Len(new) : new[k] = i
<1> DEFINE ids == [i \in 1..Len(inbox) |-> i]
           wanted == {i \in 1..Len(inbox) : inbox[i].via = "telegram" /\ i >= first}
           new == Among(ids, wanted)
<1>1. Len(inbox) \in Nat /\ 1..Len(inbox) \subseteq Id
  BY LenProperties, MessagingAssumption DEF InboundTyped, Id
<1>2. ids \in Seq(Id) /\ Len(ids) = Len(inbox) /\ \A i \in 1..Len(inbox) : ids[i] = i
  <2>1. \A i \in 1..Len(inbox) : i \in Id
    BY <1>1
  <2>2. ids \in Seq(Id)
    BY <1>1, <2>1, IsASeq
  <2>3. DOMAIN ids = 1..Len(inbox) /\ DOMAIN ids = 1..Len(ids) /\ Len(ids) \in Nat
    BY <2>2, LenProperties
  <2>4. Len(ids) = Len(inbox)
    BY <1>1, <2>3
  <2> QED
    BY <2>2, <2>4
<1> HIDE DEF ids
<1>3. new \in Seq(Id)
  BY <1>2, AmongPicks
<1>4. PICK g : Picks(new, g, ids, wanted, Len(inbox))
  BY <1>2, AmongPicks
<1> HIDE DEF new
<1>5. \A k \in 1..Len(new) : g[k] \in 1..Len(inbox) /\ new[k] = g[k] /\ new[k] \in wanted
  BY <1>2, <1>4 DEF Picks
<1>6. \A k, l \in 1..Len(new) : k < l => new[k] < new[l]
  BY <1>4, <1>5 DEF Picks
<1>7. \A i \in 1..Len(inbox) : i \in wanted => \E k \in 1..Len(new) : new[k] = i
  BY <1>2, <1>4, <1>5 DEF Picks
<1>8. new = UpdatesFrom(first)
  BY DEF new, ids, UpdatesFrom
<1> QED
  BY <1>3, <1>5, <1>6, <1>7, <1>8

LEMMA CursorMoves ==
    ASSUME InboundTyped, GetUpdates
    PROVE  /\ confirmed' \in {confirmed, offset} /\ confirmed' >= confirmed /\ confirmed' >= offset
           /\ updates' = UpdatesFrom(confirmed')
<1> DEFINE both == {confirmed, offset}
<1>1. \E x \in both : \A y \in both : x >= y
  BY DEF InboundTyped
<1>2. Max(both) \in both /\ \A y \in both : Max(both) >= y
  BY <1>1, Zenon DEF Max
<1> QED
  BY <1>2 DEF GetUpdates

-----------------------------------------------------------------------------
(* The poll loop, and how often a handler ends.                            *)

\* The updates that Telegram holds.
Telegram == {i \in 1..Len(inbox) : inbox[i].via = "telegram"}

\* The batch holds updates from the cursor on, in order, and every update before
\* one of them is handled or in the batch too.
BatchInv ==
    /\ \A k \in 1..Len(updates) : updates[k] \in Telegram /\ updates[k] >= offset
    /\ \A k, l \in 1..Len(updates) : k < l => updates[k] < updates[l]
    /\ \A k \in 1..Len(updates), i \in Telegram : i < updates[k] =>
           i \in handled \/ \E l \in 1..Len(updates) : updates[l] = i

\* What lies below the two cursors is handled.
CursorInv ==
    /\ offset <= Len(inbox) + 1 /\ confirmed <= Len(inbox) + 1
    /\ \A i \in Telegram : i < offset \/ i < confirmed => i \in handled

\* A daemon that is down remembers nothing.
LifeInv ==
    /\ starts \in Nat
    /\ daemon = "down" => updates = <<>> /\ offset = 0
    /\ daemon # "down" => starts >= 1

\* A handler that waits is the one of the update at the head of the batch, or
\* that of a Discord event that is not handled.
WaitInv ==
    \A i \in Id : at[i] # "idle" =>
        /\ i \in 1..Len(inbox)
        /\ IF inbox[i].via = "telegram" THEN updates # <<>> /\ Head(updates) = i
           ELSE i \notin handled /\ daemon # "down"

\* An update has an effect for each start that has handled it, at most.
EffectInv ==
    /\ \A i \in Telegram : effects[i] + (IF daemon # "down" /\ i >= offset THEN 1 ELSE 0) <= starts
    /\ \A i \in Id \ Telegram : effects[i] <= 1 /\ (i \notin handled => effects[i] = 0)
    /\ \A i \in Id \ (1..Len(inbox)) : i \notin handled /\ effects[i] = 0

PollInv == InboundTyped /\ BatchInv /\ CursorInv /\ LifeInv /\ WaitInv /\ EffectInv

pollVars == <<inboundVars, daemon, starts>>

LEMMA PollInitially == Init => PollInv
<1> SUFFICES ASSUME Init PROVE PollInv
  OBVIOUS
<1>1. InboundTyped
  BY InboundInitially
<1>2. Len(inbox) = 0 /\ Len(updates) = 0 /\ Telegram = {}
  BY DEF Init, Telegram
<1>3. BatchInv /\ CursorInv /\ LifeInv
  BY <1>2 DEF Init, BatchInv, CursorInv, LifeInv
<1>4. WaitInv /\ EffectInv
  BY <1>2 DEF Init, WaitInv, EffectInv
<1> QED
  BY <1>1, <1>3, <1>4 DEF PollInv

LEMMA Sizes ==
    ASSUME InboundTyped
    PROVE  /\ Len(inbox) \in Nat /\ 1..Len(inbox) \subseteq Id /\ Telegram \subseteq Id
           /\ Len(updates) \in Nat
           /\ \A k \in 1..Len(updates) : updates[k] \in Id
           /\ updates # <<>> => /\ 1 \in 1..Len(updates) /\ Head(updates) = updates[1]
                                /\ Tail(updates) \in Seq(Id) /\ Len(Tail(updates)) = Len(updates) - 1
                                /\ \A k \in 1..(Len(updates) - 1) : Tail(updates)[k] = updates[k + 1]
  BY LenProperties, HeadTailProperties, ElementOfSeq, EmptySeq, MessagingAssumption DEF InboundTyped, Id, Telegram

\* A telegram handler that has begun is that of the head.
LEMMA AtHead ==
    ASSUME PollInv, NEW i \in Id, Begun(i)
    PROVE  /\ i \in 1..Len(inbox) /\ daemon # "down"
           /\ inbox[i].via = "telegram" => updates # <<>> /\ Head(updates) = i
           /\ inbox[i].via # "telegram" => i \notin handled
  BY DEF PollInv, Begun, CanBegin, WaitInv, LifeInv

LEMMA WaitsKeep ==
    ASSUME PollInv, NEW i \in Id, Begun(i), Waits(i), UNCHANGED <<daemon, starts>> PROVE PollInv'
<1>1. /\ UNCHANGED <<inbox, handled, effects, updates, offset, confirmed>>
      /\ Telegram' = Telegram
  BY DEF Waits, polling, Telegram
<1>2. at' \in [Id -> {"idle", "classify", "resolve"}] /\ \A j \in Id : j # i => at'[j] = at[j]
  BY DEF Waits, PollInv, InboundTyped
<1>3. InboundTyped'
  BY <1>1, <1>2 DEF Waits, PollInv, InboundTyped, questions
<1>4. WaitInv'
  BY <1>1, <1>2, AtHead DEF PollInv, WaitInv
<1> QED
  BY <1>1, <1>3, <1>4 DEF PollInv, BatchInv, CursorInv, LifeInv, EffectInv

LEMMA EndTyped ==
    ASSUME PollInv, NEW i \in Id, Begun(i), Completes(i),
           open' \subseteq open, by' \in [Question -> 0..MaxEvents]
    PROVE  InboundTyped'
<1>1. updates' \in Seq(Id) /\ offset' \in Nat
  <2>1. CASE inbox[i].via = "telegram"
    <3>1. updates' = Tail(updates) /\ offset' = i + 1 /\ updates # <<>>
      BY <2>1, AtHead DEF Completes, Finish
    <3>2. Tail(updates) \in Seq(Id)
      BY <3>1, Sizes DEF PollInv
    <3> QED
      BY <3>1, <3>2 DEF Id
  <2>2. CASE inbox[i].via # "telegram"
    BY <2>2 DEF Completes, Finish, PollInv, InboundTyped
  <2> QED
    BY <2>1, <2>2
<1>2. effects' \in [Id -> Nat]
  <2>1. effects \in [Id -> Nat]
    BY DEF PollInv, InboundTyped
  <2>2. effects[i] + 1 \in Nat
    BY <2>1
  <2> QED
    BY <2>1, <2>2 DEF Completes, Effect
<1>3. at' \in [Id -> {"idle", "classify", "resolve"}] /\ handled' \subseteq Id
  BY DEF PollInv, InboundTyped, Completes, Finish
<1>4. UNCHANGED <<stamp, bare, inbox, confirmed>>
  BY DEF Completes
<1> QED
  BY <1>1, <1>2, <1>3, <1>4 DEF PollInv, InboundTyped

\* Discord's handler ends.
LEMMA EndElsewhere ==
    ASSUME PollInv, NEW i \in Id, Begun(i), Completes(i), inbox[i].via # "telegram", InboundTyped',
           UNCHANGED <<daemon, starts>>
    PROVE  PollInv'
<1>1. /\ UNCHANGED <<inbox, updates, offset, confirmed>>
      /\ handled' = handled \cup {i} /\ Telegram' = Telegram
      /\ i \in 1..Len(inbox) /\ i \notin handled /\ i \notin Telegram
  BY AtHead DEF Completes, Finish, Telegram
<1>2. BatchInv' /\ CursorInv' /\ LifeInv'
  BY <1>1 DEF PollInv, BatchInv, CursorInv, LifeInv
<1>3. at'[i] = "idle" /\ \A j \in Id : j # i => at'[j] = at[j]
  BY DEF Completes, Finish, PollInv, InboundTyped
<1>4. WaitInv'
  BY <1>1, <1>3 DEF PollInv, WaitInv
<1>5. /\ \A j \in Id : j # i => effects'[j] = effects[j]
      /\ effects'[i] <= 1
  BY <1>1 DEF Completes, Effect, PollInv, InboundTyped, EffectInv
<1>6. EffectInv'
  BY <1>1, <1>5, Sizes DEF PollInv, EffectInv
<1> QED
  BY <1>2, <1>4, <1>6 DEF PollInv

\* Telegram's handler ends, and the cursor moves past its update.
LEMMA EndAtHead ==
    ASSUME PollInv, NEW i \in Id, Begun(i), Completes(i), inbox[i].via = "telegram", InboundTyped',
           UNCHANGED <<daemon, starts>>
    PROVE  PollInv'
<1>1. /\ UNCHANGED <<inbox, confirmed>>
      /\ handled' = handled \cup {i} /\ Telegram' = Telegram
      /\ i \in Telegram /\ daemon # "down"
      /\ updates # <<>> /\ updates' = Tail(updates) /\ offset' = i + 1
  BY AtHead DEF Completes, Finish, Telegram
<1>2. /\ Len(updates) \in Nat \ {0} /\ updates[1] = i /\ Len(updates') = Len(updates) - 1
      /\ \A k \in 1..Len(updates') : k + 1 \in 1..Len(updates) /\ updates'[k] = updates[k + 1]
      /\ \A k \in 1..Len(updates) : updates[k] \in Nat
  BY <1>1, AtHead, Sizes DEF PollInv, Id
<1>3. \A k \in 1..Len(updates') : updates'[k] > i
  BY <1>2 DEF PollInv, BatchInv
<1>4. BatchInv'
  <2>1. \A k \in 1..Len(updates') : updates'[k] \in Telegram' /\ updates'[k] >= offset'
    BY <1>1, <1>2, <1>3 DEF PollInv, BatchInv
  <2>2. \A k, l \in 1..Len(updates') : k < l => updates'[k] < updates'[l]
    BY <1>2 DEF PollInv, BatchInv
  <2>3. ASSUME NEW k \in 1..Len(updates'), NEW j \in Telegram, j < updates'[k], j \notin handled'
        PROVE  \E l \in 1..Len(updates') : updates'[l] = j
    <3>1. PICK l \in 1..Len(updates) : updates[l] = j
      BY <1>1, <1>2, <2>3 DEF PollInv, BatchInv
    <3>2. l # 1
      BY <1>1, <1>2, <2>3, <3>1
    <3>3. l - 1 \in 1..Len(updates') /\ updates'[l - 1] = j
      BY <1>2, <3>1, <3>2
    <3> QED
      BY <3>3
  <2> QED
    BY <1>1, <2>1, <2>2, <2>3 DEF BatchInv
<1>5. CursorInv'
  <2>1. ASSUME NEW j \in Telegram, j < i PROVE j \in handled
    <3>1. 1 \in 1..Len(updates) /\ \A l \in 1..Len(updates) : updates[l] >= i
      BY <1>2 DEF PollInv, BatchInv
    <3>2. j \in handled \/ \E l \in 1..Len(updates) : updates[l] = j
      BY <1>2, <2>1, <3>1 DEF PollInv, BatchInv
    <3>3. j \in Nat /\ i \in Nat
      BY Sizes DEF PollInv, Id
    <3> QED
      BY <2>1, <3>1, <3>2, <3>3
  <2>2. \A j \in Telegram : j < i + 1 => j \in handled'
    BY <1>1, <2>1, Sizes DEF PollInv, Id
  <2>3. i + 1 <= Len(inbox) + 1
    BY <1>1, Sizes DEF PollInv, Telegram
  <2> QED
    BY <1>1, <2>2, <2>3 DEF PollInv, CursorInv
<1>6. LifeInv'
  BY <1>1 DEF PollInv, LifeInv
<1>7. at'[i] = "idle" /\ \A j \in Id : j # i => at'[j] = at[j]
  BY DEF Completes, Finish, PollInv, InboundTyped
<1>8. WaitInv'
  <2> SUFFICES ASSUME NEW j \in Id, at'[j] # "idle"
               PROVE  j \in 1..Len(inbox) /\ inbox[j].via # "telegram" /\ j \notin handled' /\ daemon' # "down"
    BY <1>1 DEF WaitInv
  <2>1. j # i /\ at[j] # "idle"
    BY <1>7
  <2>2. Head(updates) = i
    BY AtHead
  <2> QED
    BY <1>1, <2>1, <2>2 DEF PollInv, WaitInv
<1>9. /\ \A j \in Id : j # i => effects'[j] = effects[j]
      /\ effects'[i] <= effects[i] + 1 /\ effects[i] \in Nat /\ effects'[i] \in Nat
  BY DEF Completes, Effect, PollInv, InboundTyped
<1>10. EffectInv'
  <2>1. i >= offset
    BY <1>1, <1>2 DEF PollInv, BatchInv
  <2>2. effects[i] + 1 <= starts
    BY <1>1, <2>1 DEF PollInv, EffectInv
  <2>3. \A j \in Telegram : effects'[j] + (IF daemon' # "down" /\ j >= offset' THEN 1 ELSE 0) <= starts'
    <3> TAKE j \in Telegram
    <3>1. j \in Id /\ j \in Nat /\ i \in Nat
      BY Sizes DEF PollInv, Id
    <3>2. /\ effects[j] \in Nat /\ starts \in Nat /\ offset \in Nat
          /\ effects[j] <= starts /\ (j >= offset => effects[j] + 1 <= starts)
      BY <1>1, <3>1 DEF PollInv, EffectInv, LifeInv, InboundTyped
    <3>3. starts' = starts /\ offset' = i + 1
      BY <1>1
    <3>4. CASE j = i
      <4>1. ~(j >= offset') /\ effects'[j] <= starts
        BY <1>9, <2>2, <3>1, <3>2, <3>3, <3>4
      <4>2. effects'[j] \in Nat
        BY <1>9, <3>4
      <4> QED
        BY <3>2, <3>3, <4>1, <4>2
    <3>5. CASE j # i
      <4>1. effects'[j] = effects[j]
        BY <1>9, <3>1, <3>5
      <4>2. j >= offset' => j >= offset
        BY <2>1, <3>1, <3>2, <3>3
      <4> QED
        BY <3>2, <3>3, <4>1, <4>2
    <3> QED
      BY <3>4, <3>5
  <2>4. \A j \in Id \ Telegram : effects'[j] <= 1 /\ (j \notin handled' => effects'[j] = 0)
    BY <1>1, <1>9 DEF PollInv, EffectInv
  <2>5. \A j \in Id \ (1..Len(inbox)) : j \notin handled' /\ effects'[j] = 0
    BY <1>1, <1>9 DEF PollInv, EffectInv, Telegram
  <2> QED
    BY <1>1, <2>3, <2>4, <2>5 DEF EffectInv
<1> QED
  BY <1>4, <1>5, <1>6, <1>8, <1>10 DEF PollInv

LEMMA HandlerKeeps ==
    ASSUME PollInv, NEW i \in Id, Handler(i) PROVE PollInv'
<1>1. Begun(i) /\ (Waits(i) \/ Completes(i)) /\ (AnswerQuestion(i) \/ UNCHANGED questions)
  BY HandlerForms
<1>2. UNCHANGED <<daemon, starts>>
  BY HandlerLeavesOutbox DEF outboxVars, life
<1>3. open' \subseteq open /\ by' \in [Question -> 0..MaxEvents]
  <2>1. by \in [Question -> 0..MaxEvents] /\ i \in 0..MaxEvents
    BY MessagingAssumption DEF PollInv, InboundTyped, Id
  <2>2. CASE AnswerQuestion(i)
    <3>1. PICK q \in Answers(inbox[i]) : open' = open \ {q} /\ by' = [by EXCEPT ![q] = i]
      BY <2>2 DEF AnswerQuestion
    <3> QED
      BY <2>1, <3>1
  <2>3. CASE UNCHANGED questions
    BY <2>1, <2>3 DEF questions
  <2> QED
    BY <1>1, <2>2, <2>3
<1>4. CASE Waits(i)
  BY <1>1, <1>2, <1>4, WaitsKeep
<1>5. CASE Completes(i)
  <2>1. InboundTyped'
    BY <1>1, <1>3, <1>5, EndTyped
  <2> QED
    BY <1>1, <1>2, <1>5, <2>1, EndElsewhere, EndAtHead
<1> QED
  BY <1>1, <1>4, <1>5

LEMMA GetUpdatesKeeps ==
    ASSUME PollInv, GetUpdates PROVE PollInv'
<1>1. /\ UNCHANGED <<questions, inbox, at, handled, effects, offset, daemon, starts>>
      /\ Telegram' = Telegram /\ daemon = "up" /\ updates = <<>>
  BY DEF GetUpdates, life, handlers, Telegram
<1>2. /\ confirmed' \in {confirmed, offset} /\ confirmed' >= confirmed /\ confirmed' >= offset
      /\ updates' = UpdatesFrom(confirmed')
  BY CursorMoves DEF PollInv
<1>3. /\ offset \in Nat /\ confirmed \in Nat /\ confirmed' \in Nat
      /\ Len(inbox) \in Nat /\ Telegram \subseteq Id
  BY <1>2, Sizes DEF PollInv, InboundTyped
<1>4. /\ updates' \in Seq(Id)
      /\ \A k \in 1..Len(updates') : updates'[k] \in Telegram /\ updates'[k] >= confirmed'
      /\ \A k, l \in 1..Len(updates') : k < l => updates'[k] < updates'[l]
      /\ \A i \in Telegram : i >= confirmed' => \E k \in 1..Len(updates') : updates'[k] = i
  BY <1>2, UpdatesInOrder DEF PollInv, Telegram
<1>5. InboundTyped'
  BY <1>1, <1>3, <1>4 DEF PollInv, InboundTyped, questions
<1>6. \A i \in Telegram : i < confirmed' => i \in handled
  BY <1>2 DEF PollInv, CursorInv
<1>7. BatchInv'
  <2>1. ASSUME NEW k \in 1..Len(updates') PROVE updates'[k] >= offset
    <3>1. updates'[k] \in Id /\ updates'[k] >= confirmed'
      BY <1>3, <1>4
    <3> QED
      BY <1>2, <1>3, <3>1 DEF Id
  <2>2. \A i \in Telegram : i \in handled \/ \E k \in 1..Len(updates') : updates'[k] = i
    BY <1>3, <1>4, <1>6 DEF Id
  <2> QED
    BY <1>1, <1>4, <2>1, <2>2 DEF BatchInv
<1>8. CursorInv'
  BY <1>1, <1>2, <1>6 DEF PollInv, CursorInv
<1>9. WaitInv'
  BY <1>1 DEF PollInv, WaitInv
<1>10. LifeInv' /\ EffectInv'
  BY <1>1 DEF PollInv, LifeInv, EffectInv
<1> QED
  BY <1>5, <1>7, <1>8, <1>9, <1>10 DEF PollInv

\* What a user does comes last, and is about a post that is there.
LEMMA NewEvent ==
    ASSUME PollInv, NEW e \in Event, UserActs(e)
    PROVE  LET new == Len(inbox) + 1 IN
           /\ inbox' \in Seq(Inbound) /\ Len(inbox') = new /\ new \in Id
           /\ \A i \in 1..Len(inbox) : inbox'[i] = inbox[i]
           /\ inbox'[new].on # None => inbox'[new].post \in 1..posts[inbox'[new].on]
<1> DEFINE new == Len(inbox) + 1
<1>1. PICK n \in Visible(e) : inbox' = Append(inbox, [e EXCEPT !.post = n])
  BY DEF UserActs
<1> DEFINE x == [e EXCEPT !.post = n]
<1>2. x \in Inbound /\ (x.on # None => x.post \in 1..posts[x.on])
  <2>1. n \in Nat /\ e \in Inbound /\ (e.on # None => n \in 1..posts[e.on])
    BY MessagingAssumption DEF Visible
  <2>2. x \in Inbound /\ x.on = e.on /\ x.post = n
    BY <2>1 DEF Inbound
  <2> QED
    BY <2>1, <2>2
<1>3. inbox \in Seq(Inbound) /\ Len(inbox) < MaxEvents /\ inbox' = Append(inbox, x)
  BY <1>1 DEF UserActs, PollInv, InboundTyped
<1> HIDE DEF x
<1>4. /\ inbox' \in Seq(Inbound) /\ Len(inbox') = new /\ inbox'[new] = x
      /\ \A i \in 1..Len(inbox) : inbox'[i] = inbox[i]
  BY <1>2, <1>3, AppendProperties
<1> QED
  BY <1>2, <1>3, <1>4, LenProperties, MessagingAssumption DEF Id

LEMMA UserActsKeeps ==
    ASSUME PollInv, NEW e \in Event, UserActs(e) PROVE PollInv'
<1> DEFINE new == Len(inbox) + 1
<1>3. /\ inbox' \in Seq(Inbound) /\ Len(inbox') = new /\ new \in Id
      /\ \A i \in 1..Len(inbox) : inbox'[i] = inbox[i]
  BY NewEvent
<1>4. UNCHANGED <<questions, at, handled, effects, polling, daemon, starts>>
  BY DEF UserActs, life
<1>5. /\ Len(inbox) \in Nat /\ Telegram \subseteq 1..Len(inbox) /\ Telegram \subseteq Id
      /\ Telegram \subseteq Telegram' /\ Telegram' \subseteq Telegram \cup {new}
      /\ new \notin 1..Len(inbox) /\ 1..new = 1..Len(inbox) \cup {new}
  BY <1>3, Sizes DEF PollInv, Telegram
<1> HIDE DEF new
<1>6. InboundTyped'
  BY <1>3, <1>4, MessagingAssumption DEF PollInv, InboundTyped, questions, polling, Id
<1>7. offset \in Nat /\ confirmed \in Nat /\ offset <= new /\ confirmed <= new /\ new \in Nat
  BY <1>5 DEF PollInv, InboundTyped, CursorInv, new
<1>8. BatchInv'
  <2>1. \A k \in 1..Len(updates) : updates[k] \in Telegram /\ ~(new < updates[k])
    <3> TAKE k \in 1..Len(updates)
    <3>1. updates[k] \in Telegram
      BY DEF PollInv, BatchInv
    <3>2. updates[k] \in 1..Len(inbox)
      BY <1>5, <3>1
    <3> QED
      BY <1>5, <3>1, <3>2 DEF new
  <2> QED
    BY <1>4, <1>5, <2>1 DEF PollInv, BatchInv, polling
<1>9. CursorInv'
  <2>1. offset <= new + 1 /\ confirmed <= new + 1 /\ ~(new < offset) /\ ~(new < confirmed)
    BY <1>7
  <2> QED
    BY <1>3, <1>4, <1>5, <2>1 DEF PollInv, CursorInv, polling
<1>10. LifeInv'
  BY <1>4 DEF PollInv, LifeInv, polling
<1>11. WaitInv'
  BY <1>3, <1>4, <1>5 DEF PollInv, WaitInv, polling
<1>12. EffectInv'
  <2>1. new \notin handled /\ effects[new] = 0
    BY <1>3, <1>5 DEF PollInv, EffectInv
  <2>2. daemon # "down" => starts >= 1
    BY DEF PollInv, LifeInv
  <2>3. starts \in Nat
    BY DEF PollInv, LifeInv
  <2>4. 0 + (IF daemon # "down" /\ new >= offset THEN 1 ELSE 0) <= starts
    BY <2>2, <2>3
  <2>5. \A i \in Telegram' : effects[i] + (IF daemon # "down" /\ i >= offset THEN 1 ELSE 0) <= starts
    BY <1>5, <2>1, <2>4 DEF PollInv, EffectInv
  <2>6. \A i \in Id \ Telegram' : effects[i] <= 1 /\ (i \notin handled => effects[i] = 0)
    BY <1>5 DEF PollInv, EffectInv
  <2>7. \A i \in Id \ (1..Len(inbox')) : i \notin handled /\ effects[i] = 0
    BY <1>3, <1>5 DEF PollInv, EffectInv
  <2> QED
    BY <1>4, <2>5, <2>6, <2>7 DEF EffectInv, polling
<1> QED
  BY <1>6, <1>8, <1>9, <1>10, <1>11, <1>12 DEF PollInv

LEMMA BootKeeps ==
    ASSUME PollInv, Boot PROVE PollInv'
<1>1. /\ UNCHANGED inboundVars /\ daemon = "down" /\ daemon' = "up" /\ starts' = starts + 1
      /\ UNCHANGED <<inbox, at, handled, effects, updates, offset, confirmed>> /\ Telegram' = Telegram
  BY DEF Boot, inboundVars, handlers, polling, Telegram
<1>2. InboundTyped'
  BY <1>1, InboundStays DEF PollInv
<1>3. starts \in Nat /\ updates = <<>> /\ offset = 0
  BY <1>1 DEF PollInv, LifeInv
<1>4. BatchInv' /\ CursorInv'
  BY <1>1 DEF PollInv, BatchInv, CursorInv
<1>5. LifeInv'
  BY <1>1, <1>3 DEF LifeInv
<1>6. WaitInv'
  BY <1>1, <1>3 DEF PollInv, WaitInv
<1>7. EffectInv'
  <2>1. \A i \in Telegram : effects[i] \in Nat /\ effects[i] + 0 <= starts
    BY <1>1, Sizes DEF PollInv, EffectInv, InboundTyped
  <2>2. \A i \in Telegram : effects[i] + (IF i >= offset THEN 1 ELSE 0) <= starts + 1
    BY <1>3, <2>1
  <2> QED
    BY <1>1, <2>2 DEF PollInv, EffectInv
<1> QED
  BY <1>2, <1>4, <1>5, <1>6, <1>7 DEF PollInv

LEMMA StopKeeps ==
    ASSUME PollInv, Stop PROVE PollInv'
<1>1. /\ UNCHANGED inboundVars /\ daemon = "up" /\ daemon' = "stopping" /\ starts' = starts
      /\ UNCHANGED <<inbox, at, handled, effects, updates, offset, confirmed>> /\ Telegram' = Telegram
  BY DEF Stop, inboundVars, handlers, polling, Telegram
<1>2. InboundTyped'
  BY <1>1, InboundStays DEF PollInv
<1>3. BatchInv' /\ CursorInv' /\ LifeInv'
  BY <1>1 DEF PollInv, BatchInv, CursorInv, LifeInv
<1>4. WaitInv' /\ EffectInv'
  BY <1>1 DEF PollInv, WaitInv, EffectInv
<1> QED
  BY <1>2, <1>3, <1>4 DEF PollInv

\* A crash, or the end of a stop.
LEMMA ForgetKeeps ==
    ASSUME PollInv, Forget, daemon' = "down",
           UNCHANGED <<starts, questions, inbox, handled, effects, confirmed>>
    PROVE  PollInv'
<1>1. /\ at' = [i \in Id |-> "idle"] /\ updates' = <<>> /\ offset' = 0 /\ Telegram' = Telegram
  BY DEF Forget, Telegram
<1>2. updates' \in Seq(Id) /\ Len(updates') = 0
  BY <1>1, EmptySeq
<1>3. InboundTyped'
  BY <1>1, <1>2 DEF PollInv, InboundTyped, questions
<1>4. Len(inbox) \in Nat /\ Telegram \subseteq Id
  BY Sizes DEF PollInv
<1>5. BatchInv'
  BY <1>2 DEF BatchInv
<1>6. CursorInv'
  BY <1>1, <1>4 DEF PollInv, CursorInv, Id
<1>7. LifeInv' /\ WaitInv'
  BY <1>1 DEF PollInv, LifeInv, WaitInv
<1>8. EffectInv'
  <2>1. \A i \in Telegram : effects[i] \in Nat /\ starts \in Nat
                          /\ effects[i] + (IF daemon # "down" /\ i >= offset THEN 1 ELSE 0) <= starts
    BY <1>4 DEF PollInv, InboundTyped, LifeInv, EffectInv
  <2>2. \A i \in Telegram : effects[i] + 0 <= starts
    BY <2>1
  <2> QED
    BY <1>1, <2>2 DEF PollInv, EffectInv
<1> QED
  BY <1>3, <1>5, <1>6, <1>7, <1>8 DEF PollInv

\* Questions are asked, stamped and answered beside the handlers.
LEMMA BesideKeeps ==
    ASSUME PollInv, UNCHANGED <<by, handlers, polling, daemon, starts>>,
           open' \subseteq Question, bare' \subseteq Question, stamp' \in [Question -> Nat]
    PROVE  PollInv'
<1>1. /\ UNCHANGED <<inbox, at, handled, effects, updates, offset, confirmed>> /\ Telegram' = Telegram
  BY DEF handlers, polling, Telegram
<1>2. InboundTyped'
  BY <1>1 DEF PollInv, InboundTyped
<1> QED
  BY <1>1, <1>2 DEF PollInv, BatchInv, CursorInv, LifeInv, WaitInv, EffectInv

LEMMA DeliveredStamps ==
    ASSUME OutboxInv, PollInv, Delivered
    PROVE  stamp' \in [Question -> Nat] /\ bare' \subseteq Question
<1> DEFINE m == call["worker"]
<1>1. stamp \in [Question -> Nat] /\ bare \subseteq Question
  BY DEF PollInv, InboundTyped
<1>2. posts[m] \in Nat
  BY DEF Delivered, OutboxInv, OutboxTyped, Sender
<1>3. Stamped(m) \/ UNCHANGED <<stamp, bare>>
  BY DEF Delivered
<1> HIDE DEF m
<1> QED
  BY <1>1, <1>2, <1>3 DEF Stamped

LEMMA PollInvKept ==
    ASSUME OutboxInv, PollInv, [Next]_vars PROVE PollInv'
<1>1. open \subseteq Question /\ bare \subseteq Question /\ stamp \in [Question -> Nat]
  BY DEF PollInv, InboundTyped
<1>2. CASE \E m \in Msg : Enqueue(m) \/ Send(m)
  <2>1. UNCHANGED <<by, handlers, polling, daemon, starts, stamp, bare>> /\ open' \subseteq Question
    BY <1>1, <1>2 DEF Enqueue, Send, questions, life
  <2> QED
    BY <1>1, <2>1, BesideKeeps
<1>3. CASE Drain \/ Sent \/ CliDrain \/ (\E s \in Sender : Land(s)) \/ UNCHANGED vars
  <2>1. UNCHANGED <<by, handlers, polling, daemon, starts, stamp, bare, open>>
    BY <1>3 DEF Drain, Sent, CliDrain, Land, vars, questions, life
  <2> QED
    BY <1>1, <2>1, BesideKeeps
<1>4. CASE Delivered
  <2>1. UNCHANGED <<by, handlers, polling, daemon, starts, open>>
    BY <1>4 DEF Delivered, life
  <2> QED
    BY <1>1, <1>4, <2>1, BesideKeeps, DeliveredStamps
<1>5. CASE \E q \in Question : AnsweredElsewhere(q)
  <2>1. UNCHANGED <<by, handlers, polling, daemon, starts, stamp, bare>> /\ open' \subseteq Question
    BY <1>1, <1>5 DEF AnsweredElsewhere, life
  <2> QED
    BY <1>1, <2>1, BesideKeeps
<1>6. CASE Crash \/ Stopped
  <2>1. Forget /\ daemon' = "down" /\ UNCHANGED <<starts, questions, inbox, handled, effects, confirmed>>
    BY <1>6 DEF Crash, Stopped
  <2> QED
    BY <2>1, ForgetKeeps
<1> QED
  BY <1>2, <1>3, <1>4, <1>5, <1>6, HandlerKeeps, GetUpdatesKeeps, UserActsKeeps, BootKeeps, StopKeeps
  DEF Next, Step

LEMMA PollAlways == Spec => [](OutboxInv /\ PollInv)
<1>1. OutboxInv /\ PollInv /\ [Next]_vars => (OutboxInv /\ PollInv)'
  BY OutboxInvKept, PollInvKept
<1> QED
  BY <1>1, OutboxInitially, PollInitially, PTL DEF Spec

\* Telegram forgets no update that no handler has seen to its end: the poll
\* loop's cursor moves past an update when its handler has ended, and only a
\* cursor that was sent confirms (telegram.ts:690-735).
THEOREM NothingConfirmedUnhandled == Spec => []ConfirmedHandled
<1>1. PollInv => ConfirmedHandled
  BY DEF PollInv, CursorInv, Telegram, ConfirmedHandled
<1> QED
  BY <1>1, PollAlways, PTL

\* An event causes one directive, answer or cancel, a Telegram update at most
\* one per start of the daemon that it is handed to (telegram.ts:708-716,
\* index.ts:410-419).
THEOREM EffectsCounted == Spec => []EffectsBounded
<1>1. ASSUME PollInv, NEW i \in 1..Len(inbox)
      PROVE  effects[i] <= IF inbox[i].via = "telegram" THEN starts ELSE 1
  <2>1. i \in Id /\ effects[i] \in Nat /\ starts \in Nat
    BY <1>1, Sizes DEF PollInv, InboundTyped, LifeInv
  <2>2. CASE inbox[i].via = "telegram"
    <3>1. effects[i] + (IF daemon # "down" /\ i >= offset THEN 1 ELSE 0) <= starts
      BY <1>1, <2>2 DEF PollInv, EffectInv, Telegram
    <3> QED
      BY <2>1, <2>2, <3>1
  <2>3. CASE inbox[i].via # "telegram"
    BY <1>1, <2>1, <2>3 DEF PollInv, EffectInv, Telegram
  <2> QED
    BY <2>2, <2>3
<1>2. PollInv => EffectsBounded
  BY <1>1 DEF EffectsBounded
<1> QED
  BY <1>2, PollAlways, PTL

-----------------------------------------------------------------------------
(* Which question a reply answers.                                         *)

\* Unless a post was not recorded or not stamped, a question's row names it.
StampInv == \A q \in Question : unsure[q] = 0 /\ q \notin bare => stamp[q] = posts[q]

\* Users react to posts that are there.
SeenInv == \A i \in 1..Len(inbox) : inbox[i].on # None => inbox[i].post \in 1..posts[inbox[i].on]

StrayInv == StampInv /\ SeenInv

LEMMA StrayInitially == Init => StrayInv
<1> SUFFICES ASSUME Init PROVE StrayInv
  OBVIOUS
<1>1. Len(inbox) = 0
  BY DEF Init
<1> QED
  BY <1>1, MessagingAssumption DEF Init, StrayInv, StampInv, SeenInv

LEMMA OnTyped ==
    ASSUME PollInv
    PROVE  \A i \in 1..Len(inbox) : inbox[i] \in Inbound /\ inbox[i].on \in Msg \cup {None}
<1>1. \A i \in 1..Len(inbox) : inbox[i] \in Inbound
  BY ElementOfSeq DEF PollInv, InboundTyped
<1> QED
  BY <1>1 DEF Inbound

\* What is posted stays, so users have seen it still.
LEMMA StillSeen ==
    ASSUME OutboxInv, OutboxInv', PollInv, SeenInv, UNCHANGED inbox, \A m \in Msg : posts'[m] >= posts[m]
    PROVE  SeenInv'
<1> SUFFICES ASSUME NEW i \in 1..Len(inbox), inbox[i].on # None
             PROVE  inbox[i].post \in 1..posts'[inbox[i].on]
  BY DEF SeenInv
<1>1. inbox[i].on \in Msg
  BY OnTyped
<1>2. inbox[i].post \in 1..posts[inbox[i].on]
  BY DEF SeenInv
<1>3. \A m \in Msg : posts[m] \in Nat /\ posts'[m] \in Nat /\ posts'[m] >= posts[m]
  BY DEF OutboxInv, OutboxTyped
<1> QED
  BY <1>1, <1>2, <1>3

\* A reply answers the question whose row names its very post.
LEMMA ReplyMeant ==
    ASSUME OutboxInv, PollInv, StrayInv, NEW i \in 1..Len(inbox), NEW q \in Answers(inbox[i])
    PROVE  ReplyOnly(inbox[i], q)
<1> DEFINE e == inbox[i]
           on == e.on
           named == {p \in open : SameId(<<p, stamp[p]>>, <<on, e.post>>)}
<1>1. e \in Inbound /\ on \in Msg \cup {None}
  BY OnTyped
<1> SUFFICES ASSUME e.via = "telegram", on # q, on \in open, ~(unsure[on] > 0), on \notin bare
             PROVE  \E same \in Alike : {<<q, stamp[q]>>, <<on, e.post>>} \subseteq same
  BY DEF ReplyOnly
<1>2. on \in Question /\ on \in Msg /\ on \notin Direct /\ on # None
  BY MessagingAssumption DEF PollInv, InboundTyped
<1>3. e.kind \in {"message", "slash", "button", "modal"}
  BY <1>1 DEF Inbound
<1>4. e.kind = "message" /\ q \in Targeted(e)
  BY <1>3 DEF Answers, Pressed, Submitted, Named
<1>5. q \in IF named # {} THEN named ELSE Oldest(Chat[on])
  BY <1>2, <1>4 DEF Targeted
<1>6. e.post \in 1..posts[on] /\ posts[on] \in Nat /\ unsure[on] \in Nat
  BY <1>2 DEF StrayInv, SeenInv, OutboxInv, OutboxTyped
<1>7. posts[on] + Due(on) <= 1 + unsure[on] /\ Due(on) \in 0..2
  BY <1>2 DEF OutboxInv, Explained, Due
<1>8. unsure[on] = 0
  BY <1>6
<1>9. stamp[on] = posts[on]
  BY <1>2, <1>8 DEF StrayInv, StampInv
<1> HIDE DEF e, on
<1>10. posts[on] <= 1
  BY <1>6, <1>7, <1>8
<1>11. e.post = stamp[on]
  BY <1>6, <1>9, <1>10
<1>12. on \in named
  BY <1>11 DEF SameId
<1>13. SameId(<<q, stamp[q]>>, <<on, e.post>>)
  BY <1>5, <1>12
<1>14. <<q, stamp[q]>> # <<on, e.post>>
  OBVIOUS
<1> QED
  BY <1>13, <1>14 DEF SameId

LEMMA HandlerStrays ==
    ASSUME OutboxInv, OutboxInv', PollInv, StrayInv, NEW i \in Id, Handler(i)
    PROVE  StrayInv' /\ \A q \in Question : by'[q] # by[q] => ReplyOnly(inbox[by'[q]], q)
<1>1. /\ i \in 1..Len(inbox)
      /\ AnswerQuestion(i) \/ UNCHANGED questions
      /\ UNCHANGED <<posts, unsure, inbox, stamp, bare>>
  <2>1. /\ Begun(i) /\ (Waits(i) \/ Completes(i)) /\ (AnswerQuestion(i) \/ UNCHANGED questions)
        /\ UNCHANGED outboxVars
    BY HandlerForms, HandlerLeavesOutbox
  <2> QED
    BY <2>1, AtHead DEF outboxVars, sending, Waits, Completes, questions
<1>2. StrayInv'
  BY <1>1 DEF StrayInv, StampInv, SeenInv
<1>3. CASE UNCHANGED questions
  BY <1>2, <1>3 DEF questions
<1>4. CASE AnswerQuestion(i)
  <2>1. PICK q \in Answers(inbox[i]) : by' = [by EXCEPT ![q] = i]
    BY <1>4 DEF AnswerQuestion
  <2>2. ReplyOnly(inbox[i], q)
    BY <1>1, ReplyMeant
  <2>3. \A p \in Question : by'[p] = IF p = q THEN i ELSE by[p]
    BY <2>1 DEF PollInv, InboundTyped
  <2> QED
    BY <1>2, <2>2, <2>3
<1> QED
  BY <1>1, <1>3, <1>4

LEMMA UserActsStrays ==
    ASSUME PollInv, StrayInv, NEW e \in Event, UserActs(e) PROVE StrayInv'
<1> DEFINE new == Len(inbox) + 1
<1>1. /\ UNCHANGED <<posts, unsure, stamp, bare>> /\ Len(inbox') = new /\ Len(inbox) \in Nat
      /\ \A i \in 1..Len(inbox) : inbox'[i] = inbox[i]
      /\ inbox'[new].on # None => inbox'[new].post \in 1..posts[inbox'[new].on]
  BY NewEvent, Sizes DEF UserActs, sending, questions, PollInv
<1>2. 1..new = 1..Len(inbox) \cup {new}
  BY <1>1
<1> HIDE DEF new
<1> QED
  BY <1>1, <1>2 DEF StrayInv, StampInv, SeenInv

\* A post of a question is unsure from its first moment.
LEMMA LandStrays ==
    ASSUME OutboxInv, OutboxInv', PollInv, StrayInv, NEW s \in Sender, Land(s) PROVE StrayInv'
<1> DEFINE m == call[s]
<1>1. /\ posts \in [Msg -> Nat] /\ unsure \in [Msg -> Nat] /\ m \in Msg /\ Question \subseteq Msg
      /\ UNCHANGED <<inbox, stamp, bare>>
  BY MessagingAssumption DEF Land, OutboxInv, OutboxTyped, handlers, questions, Sender
<1>2. posts' = [posts EXCEPT ![m] = @ + 1] /\ unsure' = [unsure EXCEPT ![m] = @ + 1]
  BY DEF Land
<1> HIDE DEF m
<1>3. \A k \in Msg : /\ posts'[k] = IF k = m THEN posts[k] + 1 ELSE posts[k]
                    /\ unsure'[k] = IF k = m THEN unsure[k] + 1 ELSE unsure[k]
  BY <1>1, <1>2
<1>nats. \A k \in Msg : posts[k] \in Nat /\ unsure[k] \in Nat
  BY <1>1
<1>4. StampInv'
  <2> SUFFICES ASSUME NEW q \in Question, unsure'[q] = 0, q \notin bare PROVE stamp[q] = posts'[q]
    BY <1>1 DEF StampInv
  <2>1. q \in Msg /\ unsure[q] \in Nat
    BY <1>1, <1>nats
  <2>2. q # m
    BY <1>3, <2>1
  <2>3. unsure[q] = 0 /\ posts'[q] = posts[q]
    BY <1>3, <2>1, <2>2
  <2> QED
    BY <2>3 DEF StrayInv, StampInv
<1>5. \A k \in Msg : posts'[k] >= posts[k]
  <2> TAKE k \in Msg
  <2>1. posts[k] \in Nat
    BY <1>nats
  <2> QED
    BY <1>3, <2>1
<1> QED
  BY <1>1, <1>4, <1>5, StillSeen DEF StrayInv

\* One that is recorded is stamped, unless that failed.
LEMMA DeliveredStrays ==
    ASSUME OutboxInv, OutboxInv', PollInv, StrayInv, Delivered PROVE StrayInv'
<1> DEFINE m == call["worker"]
<1>1. /\ UNCHANGED <<inbox, posts>>
      /\ posts \in [Msg -> Nat] /\ unsure \in [Msg -> Nat] /\ stamp \in [Question -> Nat] /\ m \in Msg
  BY DEF Delivered, handlers, OutboxInv, OutboxTyped, PollInv, InboundTyped, Sender
<1>2. \/ Recorded("worker", m) /\ Stamped(m)
      \/ UNCHANGED <<unsure, stamp, bare>>
  BY DEF Delivered, Unrecorded
<1> HIDE DEF m
<1>3. Recorded("worker", m) => \A k \in Msg : k # m => unsure'[k] = unsure[k]
  BY <1>1 DEF Recorded
<1>4. Stamped(m) => /\ \A q \in Question : q # m => stamp'[q] = stamp[q] /\ (q \in bare => q \in bare')
                    /\ m \in Question => stamp'[m] = posts[m] \/ m \in bare'
  BY <1>1 DEF Stamped
<1>5. \A q \in Question : q \in Msg /\ (unsure[q] = 0 /\ q \notin bare => stamp[q] = posts[q])
  BY MessagingAssumption DEF StrayInv, StampInv
<1>6. StampInv'
  BY <1>1, <1>2, <1>3, <1>4, <1>5 DEF StampInv
<1>7. \A k \in Msg : posts'[k] >= posts[k]
  BY <1>1
<1> QED
  BY <1>1, <1>6, <1>7, StillSeen DEF StrayInv

\* POST /send carries no question.
LEMMA SentStrays ==
    ASSUME OutboxInv, OutboxInv', PollInv, StrayInv, Sent PROVE StrayInv'
<1> DEFINE m == call["route"]
<1>1. /\ UNCHANGED <<inbox, stamp, bare, posts>>
      /\ posts \in [Msg -> Nat] /\ unsure \in [Msg -> Nat] /\ m \notin Question /\ Question \subseteq Msg
  BY MessagingAssumption DEF Sent, handlers, questions, OutboxInv, OutboxTyped, SenderInv, Sender
<1>2. Recorded("route", m) \/ UNCHANGED unsure
  BY DEF Sent, Unrecorded
<1> HIDE DEF m
<1>3. \A k \in Msg : k # m => unsure'[k] = unsure[k]
  BY <1>1, <1>2 DEF Recorded
<1>4. StampInv'
  BY <1>1, <1>3 DEF StrayInv, StampInv
<1>5. \A k \in Msg : posts'[k] >= posts[k]
  BY <1>1
<1> QED
  BY <1>1, <1>4, <1>5, StillSeen DEF StrayInv

StraySteps == \A q \in Question : by'[q] # by[q] => ReplyOnly(inbox[by'[q]], q)

LEMMA StrayInvKept ==
    ASSUME OutboxInv, OutboxInv', PollInv, StrayInv, [Next]_vars PROVE StrayInv' /\ StraySteps
<1>1. CASE \E i \in Id : Handler(i)
  BY <1>1, HandlerStrays DEF StraySteps
<1>2. CASE \E e \in Event : UserActs(e)
  <2>1. UNCHANGED by
    BY <1>2 DEF UserActs, questions
  <2> QED
    BY <1>2, <2>1, UserActsStrays DEF StraySteps
<1>3. CASE (\E s \in Sender : Land(s)) \/ Delivered \/ Sent
  <2>1. UNCHANGED by
    BY <1>3 DEF Land, Delivered, Sent, questions
  <2> QED
    BY <1>3, <2>1, LandStrays, DeliveredStrays, SentStrays DEF StraySteps
<1>4. CASE \/ \E m \in Msg : Enqueue(m) \/ Send(m)
           \/ \E q \in Question : AnsweredElsewhere(q)
           \/ Drain \/ GetUpdates \/ Stopped \/ CliDrain \/ Boot \/ Crash \/ Stop \/ UNCHANGED vars
  <2>1. UNCHANGED <<inbox, by, posts, unsure, stamp, bare>>
    BY <1>4 DEF Enqueue, Send, AnsweredElsewhere, Drain, GetUpdates, Stopped, CliDrain, Boot, Crash, Stop, vars,
       handlers, sending, questions
  <2> QED
    BY <2>1 DEF StrayInv, StampInv, SeenInv, StraySteps
<1> QED
  BY <1>1, <1>2, <1>3, <1>4 DEF Next, Step

\* A Telegram reply answers another question than its own only if its own is
\* no longer open, has a post that is not recorded or a stamp that could not
\* be written, or if the other's row names the same message_id in another
\* chat (telegram.ts:1047-1090, pending-questions.ts:94-100,
\* outbound-worker.ts:96-112).
THEOREM StraysExplained == Spec => StraysOnlyBy
<1>1. OutboxInv /\ PollInv /\ StrayInv /\ [Next]_vars => (OutboxInv /\ PollInv /\ StrayInv)'
  BY OutboxInvKept, PollInvKept, StrayInvKept
<1>2. OutboxInv /\ PollInv /\ StrayInv /\ [Next]_vars
      => [\A q \in Question : by'[q] # by[q] => ReplyOnly(inbox[by'[q]], q)]_vars
  BY OutboxInvKept, StrayInvKept DEF StraySteps
<1> QED
  BY <1>1, <1>2, OutboxInitially, PollInitially, StrayInitially, PTL DEF Spec, StraysOnlyBy

\* Every variable has its type throughout.
THEOREM TypesKept == Spec => []TypeOK
<1>1. OutboxInv /\ PollInv => TypeOK
  BY DEF OutboxInv, PollInv, OutboxTyped, InboundTyped, TypeOK
<1> QED
  BY <1>1, PollAlways, PTL
=============================================================================
