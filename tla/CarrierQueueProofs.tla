------------------------- MODULE CarrierQueueProofs -------------------------
(***************************************************************************)
(* Proofs about the event queue of the security processor actor, for any   *)
(* set of carriers and any queue size: what the replacement loop leaves,   *)
(* that one event per carrier and class waits, that a queue with room for  *)
(* all of them never drops one, and that the queue and the actor implement *)
(* the mailbox LatestEvent.                                                *)
(***************************************************************************)
EXTENDS CarrierSecProc, FiniteSetTheorems, SequenceTheorems, TLAPS

(***************************************************************************)
(* The loop erases position by position, so what it leaves is shown by     *)
(* induction on the position.  The induction is the least counterexample   *)
(* of a set of numbers.                                                    *)
(***************************************************************************)
LEMMA LeastOf ==
    ASSUME NEW T \in SUBSET Nat, T # {}
    PROVE  \E n \in T : \A m \in T : n <= m
<1>. DEFINE R == OpToRel(<, Nat)
<1>1. \A m, n \in Nat : m < n => <<m, n>> \in R
  BY DEF OpToRel
<1>2. \E n \in T : \A m \in T : <<m, n>> \notin R
  <2>1. IsWellFoundedOn(R, Nat)
    BY NatLessThanWellFounded
  <2>. HIDE DEF R
  <2>. QED  BY <2>1, WFMin
<1>. HIDE DEF R
<1>3. PICK n \in T : \A m \in T : <<m, n>> \notin R
  BY <1>2
<1>4. \A m \in T : n <= m
  <2>1. \A m \in T : ~ (m < n)
    BY <1>1, <1>3
  <2>. QED  BY <2>1
<1>. QED  BY <1>4

LEMMA UpTo ==
    ASSUME NEW n \in Nat, NEW S, 0 \in S, \A i \in 0 .. (n - 1) : i \in S => i + 1 \in S
    PROVE  0 .. n \subseteq S
<1>. SUFFICES ASSUME NEW k \in 0 .. n, k \notin S PROVE FALSE
  OBVIOUS
<1>. DEFINE T == {i \in 0 .. n : i \notin S}
<1>1. PICK i \in T : \A m \in T : i <= m
  <2>1. T \in SUBSET Nat /\ k \in T
    OBVIOUS
  <2>. HIDE DEF T
  <2>. QED  BY <2>1, LeastOf
<1>2. i # 0 /\ i - 1 \in 0 .. (n - 1)
  BY <1>1
<1>3. i - 1 \in S
  BY <1>1, <1>2
<1>. QED  BY <1>1, <1>2, <1>3

\* f tells, per position n, what the loop has left of the first n events of q.
LoopOf(f, q, k, n) ==
    f = [i \in 0 .. n |-> IF i = 0 THEN <<>>
                          ELSE IF KeyOf(q[i]) = k THEN f[i - 1]
                          ELSE Append(f[i - 1], q[i])]

LEMMA LoopExists ==
    ASSUME NEW q \in Seq(Events), NEW k
    PROVE  \E f : LoopOf(f, q, k, Len(q))
<1>. DEFINE S == {n \in Nat : \E f : LoopOf(f, q, k, n)}
<1>1. 0 \in S
  <2>1. LoopOf([i \in 0 .. 0 |-> <<>>], q, k, 0)
    BY DEF LoopOf
  <2>. QED  BY <2>1
<1>2. ASSUME NEW n \in Nat, n \in S PROVE n + 1 \in S
  <2>1. PICK f : LoopOf(f, q, k, n)
    BY <1>2
  <2>. DEFINE next == IF KeyOf(q[n + 1]) = k THEN f[n] ELSE Append(f[n], q[n + 1])
              g == [i \in 0 .. (n + 1) |-> IF i = n + 1 THEN next ELSE f[i]]
  <2>2. \A i \in 0 .. n : g[i] = f[i]
    OBVIOUS
  <2>3. ASSUME NEW i \in 0 .. (n + 1)
        PROVE g[i] = IF i = 0 THEN <<>>
                     ELSE IF KeyOf(q[i]) = k THEN g[i - 1]
                     ELSE Append(g[i - 1], q[i])
    <3>1. CASE i = n + 1
      <4>1. g[i] = next /\ g[i - 1] = f[n] /\ i # 0
        BY <3>1
      <4>. QED  BY <3>1, <4>1
    <3>2. CASE i # n + 1
      <4>1. i \in 0 .. n /\ (i # 0 => i - 1 \in 0 .. n)
        BY <3>2
      <4>2. f[i] = IF i = 0 THEN <<>> ELSE IF KeyOf(q[i]) = k THEN f[i - 1]
                                      ELSE Append(f[i - 1], q[i])
        BY <2>1, <4>1 DEF LoopOf
      <4>. QED  BY <2>2, <4>1, <4>2
    <3>. QED  BY <3>1, <3>2
  <2>4. LoopOf(g, q, k, n + 1)
    <3>. DEFINE h == [i \in 0 .. (n + 1) |-> IF i = 0 THEN <<>>
                          ELSE IF KeyOf(q[i]) = k THEN g[i - 1]
                          ELSE Append(g[i - 1], q[i])]
    <3>1. \A i \in 0 .. (n + 1) : g[i] = h[i]
      BY <2>3
    <3>2. g = [i \in 0 .. (n + 1) |-> g[i]] /\ h = [i \in 0 .. (n + 1) |-> h[i]]
      OBVIOUS
    <3>3. g = h
      <4>. HIDE DEF g, h
      <4>. QED  BY <3>1, <3>2
    <3>. QED  BY <3>3 DEF LoopOf
  <2>. QED  BY <2>4
<1>3. 0 .. Len(q) \subseteq S
  <2>1. Len(q) \in Nat
    OBVIOUS
  <2>. HIDE DEF S
  <2>. QED  BY <1>1, <1>2, <2>1, UpTo
<1>4. Len(q) \in S
  <2>1. Len(q) \in 0 .. Len(q)
    OBVIOUS
  <2>. HIDE DEF S
  <2>. QED  BY <1>3, <2>1
<1>. QED  BY <1>4

OncePerKey(q) == \A i, j \in 1 .. Len(q) : KeyOf(q[i]) = KeyOf(q[j]) => i = j

\* s is what is left of the first n events of q without those of key k.
LeftOf(s, q, k, n) ==
    /\ s \in Seq(Events) /\ Len(s) <= n
    /\ \A m \in 1 .. Len(s) : \E i \in 1 .. n : s[m] = q[i] /\ KeyOf(q[i]) # k
    /\ \A i \in 1 .. n : KeyOf(q[i]) # k => \E m \in 1 .. Len(s) : s[m] = q[i]
    /\ OncePerKey(q) => OncePerKey(s)

LEMMA LeftByOneMore ==
    ASSUME NEW q \in Seq(Events), NEW k, NEW n \in 1 .. Len(q), NEW s,
           LeftOf(s, q, k, n - 1)
    PROVE  LeftOf(IF KeyOf(q[n]) = k THEN s ELSE Append(s, q[n]), q, k, n)
<1>0. n \in Nat \ {0} /\ s \in Seq(Events) /\ Len(s) \in Nat /\ q[n] \in Events
  BY DEF LeftOf
<1>1. CASE KeyOf(q[n]) = k
  <2>1. \A i \in 1 .. n : KeyOf(q[i]) # k => i \in 1 .. (n - 1)
    BY <1>0, <1>1
  <2>2. 1 .. (n - 1) \subseteq 1 .. n
    BY <1>0
  <2>. QED  BY <1>0, <1>1, <2>1, <2>2 DEF LeftOf
<1>2. CASE KeyOf(q[n]) # k
  <2>. DEFINE t == Append(s, q[n])
  <2>1. /\ t \in Seq(Events) /\ Len(t) = Len(s) + 1
        /\ \A m \in 1 .. Len(s) : t[m] = s[m]
        /\ t[Len(s) + 1] = q[n]
    BY <1>0, AppendProperties
  <2>. HIDE DEF t
  <2>2. \A m \in 1 .. Len(t) : m # Len(t) => m \in 1 .. Len(s)
    BY <1>0, <2>1
  <2>3. Len(t) <= n
    BY <1>0, <2>1 DEF LeftOf
  <2>4. ASSUME NEW m \in 1 .. Len(t)
        PROVE  \E i \in 1 .. n : t[m] = q[i] /\ KeyOf(q[i]) # k
    <3>1. CASE m = Len(t)
      BY <1>0, <1>2, <2>1, <3>1
    <3>2. CASE m # Len(t)
      <4>1. m \in 1 .. Len(s) /\ t[m] = s[m]
        BY <2>1, <2>2, <3>2
      <4>2. PICK i \in 1 .. (n - 1) : s[m] = q[i] /\ KeyOf(q[i]) # k
        BY <4>1 DEF LeftOf
      <4>. QED  BY <1>0, <4>1, <4>2
    <3>. QED  BY <3>1, <3>2
  <2>5. ASSUME NEW i \in 1 .. n, KeyOf(q[i]) # k
        PROVE  \E m \in 1 .. Len(t) : t[m] = q[i]
    <3>1. CASE i = n
      BY <1>0, <2>1, <3>1
    <3>2. CASE i # n
      <4>1. PICK m \in 1 .. Len(s) : s[m] = q[i]
        BY <1>0, <2>5, <3>2 DEF LeftOf
      <4>. QED  BY <1>0, <2>1, <4>1
    <3>. QED  BY <3>1, <3>2
  <2>6. ASSUME OncePerKey(q) PROVE OncePerKey(t)
    <3>1. ASSUME NEW m \in 1 .. Len(s) PROVE KeyOf(s[m]) # KeyOf(q[n])
      <4>1. PICK i \in 1 .. (n - 1) : s[m] = q[i]
        BY DEF LeftOf
      <4>2. i \in 1 .. Len(q) /\ i # n
        BY <1>0
      <4>. QED  BY <2>6, <4>1, <4>2 DEF OncePerKey
    <3>2. OncePerKey(s)
      BY <2>6 DEF LeftOf
    <3>. SUFFICES ASSUME NEW i \in 1 .. Len(t), NEW j \in 1 .. Len(t),
                         KeyOf(t[i]) = KeyOf(t[j])
                  PROVE  i = j
      BY DEF OncePerKey
    <3>3. CASE i # Len(t) /\ j # Len(t)
      BY <2>1, <2>2, <3>2, <3>3 DEF OncePerKey
    <3>4. CASE i = Len(t) /\ j # Len(t)
      BY <2>1, <2>2, <3>1, <3>4
    <3>5. CASE i # Len(t) /\ j = Len(t)
      BY <2>1, <2>2, <3>1, <3>5
    <3>. QED  BY <3>3, <3>4, <3>5
  <2>7. LeftOf(t, q, k, n)
    BY <2>1, <2>3, <2>4, <2>5, <2>6 DEF LeftOf
  <2>. QED  BY <1>2, <2>7 DEF t
<1>. QED  BY <1>1, <1>2

(***************************************************************************)
(* WithoutLeaves.  The loop leaves the events of the other keys and no     *)
(* others.                                                                 *)
(***************************************************************************)
LEMMA WithoutLeaves ==
    ASSUME NEW q \in Seq(Events), NEW k
    PROVE  LeftOf(Without(q, k), q, k, Len(q))
<1>. DEFINE f == CHOOSE g : LoopOf(g, q, k, Len(q))
<1>1. LoopOf(f, q, k, Len(q))
  BY LoopExists
<1>2. Without(q, k) = f[Len(q)]
  BY DEF Without, LoopOf
<1>. HIDE DEF f
<1>. DEFINE S == {n \in Nat : n <= Len(q) => LeftOf(f[n], q, k, n)}
<1>3. Len(q) \in Nat
  OBVIOUS
<1>4. 0 \in S
  <2>1. f[0] = <<>>
    BY <1>1, <1>3 DEF LoopOf
  <2>2. LeftOf(<<>>, q, k, 0)
    BY DEF LeftOf, OncePerKey
  <2>. QED  BY <2>1, <2>2
<1>5. ASSUME NEW n \in 0 .. (Len(q) - 1), n \in S PROVE n + 1 \in S
  <2>1. n + 1 \in 1 .. Len(q) /\ n = (n + 1) - 1 /\ n <= Len(q)
    BY <1>3
  <2>2. LeftOf(f[n], q, k, n)
    BY <1>5, <2>1
  <2>3. f[n + 1] = IF KeyOf(q[n + 1]) = k THEN f[n] ELSE Append(f[n], q[n + 1])
    <3>1. n + 1 \in 0 .. Len(q) /\ n + 1 # 0
      BY <1>3, <2>1
    <3>2. f[n + 1] = IF KeyOf(q[n + 1]) = k THEN f[(n + 1) - 1]
                     ELSE Append(f[(n + 1) - 1], q[n + 1])
      BY <1>1, <3>1 DEF LoopOf
    <3>. QED  BY <2>1, <3>2
  <2>4. LeftOf(f[n + 1], q, k, n + 1)
    BY <2>1, <2>2, <2>3, LeftByOneMore
  <2>. QED  BY <2>4
<1>6. Len(q) \in S
  <2>1. Len(q) \in 0 .. Len(q)
    BY <1>3
  <2>. HIDE DEF S
  <2>. QED  BY <1>3, <1>4, <1>5, <2>1, UpTo
<1>. QED  BY <1>2, <1>3, <1>6
-----------------------------------------------------------------------------
(* EnQueue and DeQueue.                                                    *)

LEMMA KeyType == \A e \in Events : KeyOf(e) \in Keys
  BY DEF Events, KeyOf, Keys, Classes, ClassOf

LEMMA QueuedIs ==
    ASSUME NEW q \in Seq(Events), NEW k, NEW e
    PROVE  e \in Queued(q, k) <=> \E i \in 1 .. Len(q) : q[i] = e /\ KeyOf(e) = k
  BY DEF Queued

(***************************************************************************)
(* EnQueueKeeps.  A queue that is not full holds the new event alone for   *)
(* its key afterwards, and what it held of every other key.                *)
(***************************************************************************)
LEMMA EnQueueKeeps ==
    ASSUME QueueAssumption, NEW q \in Seq(Events), NEW e \in Events
    PROVE  /\ EnQueue(q, e) \in Seq(Events)
           /\ OncePerKey(q) => OncePerKey(EnQueue(q, e))
           /\ Len(q) < QueueSize =>
                \A k : Queued(EnQueue(q, e), k) =
                         IF k = KeyOf(e) THEN {e} ELSE Queued(q, k)
<1>0. Len(q) \in Nat /\ QueueSize \in Nat
  BY DEF QueueAssumption
<1>1. CASE Len(q) >= QueueSize
  BY <1>0, <1>1 DEF EnQueue
<1>2. CASE ~ (Len(q) >= QueueSize)
  <2>. DEFINE s == Without(q, KeyOf(e))
              t == Append(s, e)
  <2>1. EnQueue(q, e) = t
    BY <1>2 DEF EnQueue
  <2>2. LeftOf(s, q, KeyOf(e), Len(q))
    BY WithoutLeaves
  <2>3. s \in Seq(Events) /\ Len(s) \in Nat
    BY <2>2 DEF LeftOf
  <2>4. /\ t \in Seq(Events) /\ Len(t) = Len(s) + 1
        /\ \A i \in 1 .. Len(s) : t[i] = s[i]
        /\ t[Len(s) + 1] = e
    <3>. HIDE DEF s
    <3>. QED  BY <2>3, AppendProperties
  <2>. HIDE DEF t, s
  <2>5. \A i \in 1 .. Len(s) : KeyOf(s[i]) # KeyOf(e)
    BY <2>2 DEF LeftOf
  <2>6. \A i \in 1 .. Len(t) : i # Len(t) => i \in 1 .. Len(s) /\ t[i] = s[i]
    BY <2>3, <2>4
  <2>7. ASSUME OncePerKey(q) PROVE OncePerKey(t)
    <3>1. OncePerKey(s)
      BY <2>2, <2>7 DEF LeftOf
    <3>. SUFFICES ASSUME NEW i \in 1 .. Len(t), NEW j \in 1 .. Len(t),
                         KeyOf(t[i]) = KeyOf(t[j])
                  PROVE  i = j
      BY DEF OncePerKey
    <3>2. CASE i # Len(t) /\ j # Len(t)
      BY <2>6, <3>1, <3>2 DEF OncePerKey
    <3>3. CASE i = Len(t) /\ j # Len(t)
      BY <2>4, <2>5, <2>6, <3>3
    <3>4. CASE i # Len(t) /\ j = Len(t)
      BY <2>4, <2>5, <2>6, <3>4
    <3>. QED  BY <3>2, <3>3, <3>4
  <2>8. Queued(t, KeyOf(e)) = {e}
    <3>1. e \in Queued(t, KeyOf(e))
      BY <2>3, <2>4, QueuedIs
    <3>2. ASSUME NEW x \in Queued(t, KeyOf(e)) PROVE x = e
      <4>1. PICK i \in 1 .. Len(t) : t[i] = x /\ KeyOf(x) = KeyOf(e)
        BY <2>4, QueuedIs
      <4>. QED  BY <2>4, <2>5, <2>6, <4>1
    <3>. QED  BY <3>1, <3>2
  <2>9. ASSUME NEW k, k # KeyOf(e) PROVE Queued(t, k) = Queued(q, k)
    <3>1. ASSUME NEW x \in Queued(t, k) PROVE x \in Queued(q, k)
      <4>1. PICK i \in 1 .. Len(t) : t[i] = x /\ KeyOf(x) = k
        BY <2>4, QueuedIs
      <4>2. i \in 1 .. Len(s) /\ s[i] = x
        BY <2>4, <2>6, <2>9, <4>1
      <4>3. \E j \in 1 .. Len(q) : x = q[j]
        BY <2>2, <4>2 DEF LeftOf
      <4>. QED  BY <4>1, <4>3, QueuedIs
    <3>2. ASSUME NEW x \in Queued(q, k) PROVE x \in Queued(t, k)
      <4>1. PICK i \in 1 .. Len(q) : q[i] = x /\ KeyOf(x) = k
        BY QueuedIs
      <4>2. PICK m \in 1 .. Len(s) : s[m] = x
        BY <2>2, <2>9, <4>1 DEF LeftOf
      <4>3. m \in 1 .. Len(t) /\ t[m] = x
        BY <2>3, <2>4, <4>2
      <4>. QED  BY <2>4, <4>1, <4>3, QueuedIs
    <3>. QED  BY <3>1, <3>2
  <2>. QED  BY <2>1, <2>4, <2>7, <2>8, <2>9
<1>. QED  BY <1>1, <1>2

(***************************************************************************)
(* DeQueueKeeps.  Taking the first event empties the place of its key, if  *)
(* every key has one event at most.                                        *)
(***************************************************************************)
LEMMA DeQueueKeeps ==
    ASSUME NEW q \in Seq(Events), q # <<>>
    PROVE  /\ Head(q) \in Events /\ Tail(q) \in Seq(Events)
           /\ OncePerKey(q) =>
                /\ OncePerKey(Tail(q))
                /\ Queued(q, KeyOf(Head(q))) = {Head(q)}
                /\ \A k : Queued(Tail(q), k) =
                            IF k = KeyOf(Head(q)) THEN {} ELSE Queued(q, k)
<1>. DEFINE t == Tail(q)
            h == Head(q)
<1>1. /\ h \in Events /\ t \in Seq(Events) /\ Len(q) \in Nat \ {0}
      /\ Len(t) = Len(q) - 1 /\ \A i \in 1 .. Len(t) : t[i] = q[i + 1]
      /\ h = q[1]
  BY HeadTailProperties, EmptySeq
<1>. HIDE DEF t, h
<1>2. \A i \in 1 .. Len(t) : i + 1 \in 1 .. Len(q) /\ i + 1 # 1
  BY <1>1
<1>3. \A i \in 1 .. Len(q) : i # 1 => i - 1 \in 1 .. Len(t) /\ t[i - 1] = q[i]
  BY <1>1
<1>4. 1 \in 1 .. Len(q)
  BY <1>1
<1>5. ASSUME OncePerKey(q) PROVE OncePerKey(t)
  <2>. SUFFICES ASSUME NEW i \in 1 .. Len(t), NEW j \in 1 .. Len(t),
                       KeyOf(t[i]) = KeyOf(t[j])
                PROVE  i = j
    BY DEF OncePerKey
  <2>1. i + 1 = j + 1
    BY <1>1, <1>2, <1>5 DEF OncePerKey
  <2>. QED  BY <1>1, <2>1
<1>6. ASSUME OncePerKey(q) PROVE Queued(q, KeyOf(h)) = {h}
  <2>1. h \in Queued(q, KeyOf(h))
    BY <1>1, <1>4, QueuedIs
  <2>2. ASSUME NEW x \in Queued(q, KeyOf(h)) PROVE x = h
    <3>1. PICK i \in 1 .. Len(q) : q[i] = x /\ KeyOf(x) = KeyOf(h)
      BY QueuedIs
    <3>. QED  BY <1>1, <1>4, <1>6, <3>1 DEF OncePerKey
  <2>. QED  BY <2>1, <2>2
<1>7. ASSUME OncePerKey(q), NEW k
      PROVE  Queued(t, k) = IF k = KeyOf(h) THEN {} ELSE Queued(q, k)
  <2>1. ASSUME NEW x \in Queued(t, k) PROVE x \in Queued(q, k) /\ k # KeyOf(h)
    <3>1. PICK i \in 1 .. Len(t) : t[i] = x /\ KeyOf(x) = k
      BY <1>1, QueuedIs
    <3>2. q[i + 1] = x /\ i + 1 \in 1 .. Len(q) /\ i + 1 # 1
      BY <1>1, <1>2, <3>1
    <3>3. KeyOf(x) # KeyOf(h)
      BY <1>1, <1>4, <1>7, <3>2 DEF OncePerKey
    <3>. QED  BY <3>1, <3>2, <3>3, QueuedIs
  <2>2. ASSUME NEW x \in Queued(q, k), k # KeyOf(h) PROVE x \in Queued(t, k)
    <3>1. PICK i \in 1 .. Len(q) : q[i] = x /\ KeyOf(x) = k
      BY QueuedIs
    <3>2. i # 1
      BY <1>1, <2>2, <3>1
    <3>3. i - 1 \in 1 .. Len(t) /\ t[i - 1] = x
      BY <1>3, <3>1, <3>2
    <3>. QED  BY <1>1, <3>1, <3>3, QueuedIs
  <2>. QED  BY <2>1, <2>2
<1>. QED  BY <1>1, <1>5, <1>6, <1>7 DEF t, h

(***************************************************************************)
(* HasRoom.  One event per key never fills a queue with more places than   *)
(* there are keys.                                                         *)
(***************************************************************************)
RoomForAll == IsFiniteSet(Carriers) /\ 2 * Cardinality(Carriers) < QueueSize

LEMMA HasRoom ==
    ASSUME QueueAssumption, RoomForAll, NEW q \in Seq(Events), OncePerKey(q)
    PROVE  Len(q) < QueueSize
<1>1. IsFiniteSet(Classes) /\ Cardinality(Classes) = 2
  <2>1. Classes = {"ofec"} \cup {"rx"} /\ "rx" \notin {"ofec"}
    BY DEF Classes
  <2>2. IsFiniteSet({"ofec"}) /\ Cardinality({"ofec"}) = 1
    BY FS_Singleton
  <2>3. /\ IsFiniteSet({"ofec"} \cup {"rx"})
        /\ Cardinality({"ofec"} \cup {"rx"}) = Cardinality({"ofec"}) + 1
    BY <2>1, <2>2, FS_AddElement
  <2>. QED  BY <2>1, <2>2, <2>3
<1>2. IsFiniteSet(Keys) /\ Cardinality(Keys) = 2 * Cardinality(Carriers)
  BY <1>1, FS_Product DEF Keys, RoomForAll
<1>. DEFINE f == [i \in 1 .. Len(q) |-> KeyOf(q[i])]
<1>3. f \in Injection(1 .. Len(q), Keys)
  BY KeyType DEF OncePerKey, Injection, IsInjective
<1>4. Cardinality(1 .. Len(q)) <= Cardinality(Keys)
  BY <1>2, <1>3, FS_Injection
<1>5. Cardinality(1 .. Len(q)) = Len(q)
  <2>1. Len(q) \in Nat /\ 1 \in Int /\ Len(q) \in Int
    OBVIOUS
  <2>2. Cardinality(1 .. Len(q)) = IF 1 > Len(q) THEN 0 ELSE Len(q) - 1 + 1
    BY <2>1, FS_Interval
  <2>. QED  BY <2>1, <2>2
<1>6. Cardinality(Carriers) \in Nat /\ QueueSize \in Nat
  BY FS_CardinalityType DEF QueueAssumption, RoomForAll
<1>. QED  BY <1>2, <1>4, <1>5, <1>6 DEF RoomForAll
-----------------------------------------------------------------------------
(* The types.                                                              *)

LEMMA CountsAreNumbers ==
    {changes, confs, troubles} \subseteq Nat
       <=> changes \in Nat /\ confs \in Nat /\ troubles \in Nat
  OBVIOUS

LEMMA EventTypes ==
    \A c \in Carriers, v \in BOOLEAN :
        /\ Event("update", c, v) \in Events
        /\ Event("delete", c, v) \in Events
        /\ Event("rx", c, v) \in Events
  BY DEF Event, Events, Kinds

LEMMA AfterSetType ==
    ASSUME NEW obj \in Objects, NEW e \in Events PROVE AfterSet(obj, e) \in Objects
  BY DEF AfterSet, Objects, Events, Kinds

LEMMA BooleanExcept ==
    ASSUME NEW f \in [Carriers -> BOOLEAN], NEW c \in Carriers, NEW v \in BOOLEAN
    PROVE  [f EXCEPT ![c] = v] \in [Carriers -> BOOLEAN]
  OBVIOUS

\* The configuration of a carrier in its object, and nothing else.
LEMMA CfgTypes ==
    ASSUME NEW obj \in [Carriers -> Objects], NEW c \in Carriers
    PROVE  /\ [obj EXCEPT ![c].cfg = TRUE] \in [Carriers -> Objects]
           /\ [obj EXCEPT ![c].cfg = FALSE, ![c].rx = "none"] \in [Carriers -> Objects]
<1>1. obj[c] \in Objects
  OBVIOUS
<1>2. /\ [obj[c] EXCEPT !.cfg = TRUE] \in Objects
      /\ [obj[c] EXCEPT !.cfg = FALSE, !.rx = "none"] \in Objects
  BY <1>1 DEF Objects
<1>3. [obj EXCEPT ![c].cfg = TRUE] = [obj EXCEPT ![c] = [obj[c] EXCEPT !.cfg = TRUE]]
  OBVIOUS
<1>4. [obj EXCEPT ![c].cfg = FALSE, ![c].rx = "none"] =
        [obj EXCEPT ![c] = [obj[c] EXCEPT !.cfg = FALSE, !.rx = "none"]]
  OBVIOUS
<1>. QED  BY <1>2, <1>3, <1>4

LEMMA TypesInit == Init => TypeOK
<1>. SUFFICES ASSUME Init PROVE TypeOK
  OBVIOUS
<1>1. NoObject \in Objects
  BY DEF NoObject, Objects
<1>2. queue \in Seq(Events)
  BY DEF Init
<1>. QED  BY <1>1, <1>2, CountsAreNumbers DEF Init, TypeOK

LEMMA CollectorTypes ==
    ASSUME CarrierAssumption, QueueAssumption, TypeOK, NEW c \in Carriers,
           DcoChange(c) \/ CollectFaults(c) \/ CollectState(c) \/ ClearForce
    PROVE  TypeOK'
<1>. USE CountsAreNumbers
     DEF TypeOK, collVars, forceVars, timerVars, linkVars, dcoVars, counters
<1>1. CASE DcoChange(c)
  <2>1. bitmap' \in [Carriers -> Bitmaps]
    BY <1>1 DEF DcoChange
  <2>2. rx' \in [Carriers -> BOOLEAN]
    <3>1. (~ rx[c]) \in BOOLEAN
      BY Zenon
    <3>. QED  BY <1>1, <3>1, BooleanExcept DEF DcoChange
  <2>3. /\ UNCHANGED <<conf, seenBitmap, seenRx, forceF, forceS, clearing, queue, actor,
                      timer, inCallback, collUp, toSync, nxpUp, nxp, last>>
        /\ changes' = changes + 1 /\ confs' = confs /\ troubles' = troubles
    BY <1>1 DEF DcoChange
  <2>4. {changes, confs, troubles}' \subseteq Nat
    BY <2>3
  <2>. QED  BY <2>1, <2>2, <2>3, <2>4
<1>2. CASE CollectFaults(c)
  <2>1. Event("update", c, IsOfecUp(bitmap[c])) \in Events
    BY EventTypes DEF IsOfecUp
  <2>2. queue' \in Seq(Events)
    BY <1>2, <2>1, EnQueueKeeps DEF CollectFaults
  <2>3. clearing' \subseteq Keys /\ forceF' \subseteq Carriers
    BY <1>2 DEF CollectFaults, Keys, Classes
  <2>4. seenBitmap' \in [Carriers -> Bitmaps \cup {"default"}]
    BY <1>2 DEF CollectFaults
  <2>5. /\ UNCHANGED <<conf, bitmap, rx, seenRx, forceS, actor, timer, inCallback,
                      collUp, toSync, nxpUp, nxp, last, changes, confs, troubles>>
    BY <1>2 DEF CollectFaults
  <2>. QED  BY <2>2, <2>3, <2>4, <2>5
<1>3. CASE CollectState(c)
  <2>1. Event("rx", c, rx[c]) \in Events
    BY EventTypes
  <2>2. queue' \in Seq(Events)
    BY <1>3, <2>1, EnQueueKeeps DEF CollectState
  <2>3. clearing' \subseteq Keys
    BY <1>3 DEF CollectState, Keys, Classes
  <2>4. seenRx' \in [Carriers -> {"none", "unspecified", "active", "inactive"}]
    BY <1>3 DEF CollectState, RxState
  <2>5. UNCHANGED <<conf, bitmap, rx, seenBitmap, forceF, forceS, actor, timer, inCallback,
                    collUp, toSync, nxpUp, nxp, last, changes, confs, troubles>>
    BY <1>3 DEF CollectState
  <2>. QED  BY <2>2, <2>3, <2>4, <2>5
<1>4. CASE ClearForce
  BY <1>4 DEF ClearForce
<1>. QED  BY <1>1, <1>2, <1>3, <1>4

LEMMA ActorTypes ==
    ASSUME CarrierAssumption, TypeOK, Take \/ SetDone \/ SetFails PROVE TypeOK'
<1>. USE CountsAreNumbers
     DEF TypeOK, collVars, forceVars, timerVars, linkVars, dcoVars, counters
<1>1. CASE Take
  <2>. DEFINE e == Head(queue)
  <2>1. e \in Events /\ queue' \in Seq(Events)
    BY <1>1, DeQueueKeeps DEF Take
  <2>2. e.car \in Carriers
    BY <2>1 DEF Events
  <2>. HIDE DEF e
  <2>3. actor' \subseteq Events
    BY <1>1, <2>1 DEF Take, e
  <2>4. /\ timer' \in [Carriers -> {"none", "idle", "running"}]
        /\ last' \in [Carriers -> {"none", "up", "down"}]
    <3>1. /\ timer' \in {timer, [timer EXCEPT ![e.car] = "running"], [timer EXCEPT ![e.car] = "idle"]}
          /\ last' \in {last, [last EXCEPT ![e.car] = "up"], [last EXCEPT ![e.car] = "down"]}
      BY <1>1 DEF Take, e
    <3>. QED  BY <2>2, <3>1
  <2>5. UNCHANGED <<conf, bitmap, rx, seenBitmap, seenRx, forceF, forceS, clearing,
                    inCallback, collUp, toSync, nxpUp, nxp, changes, confs, troubles>>
    BY <1>1 DEF Take
  <2>. QED  BY <2>1, <2>3, <2>4, <2>5
<1>2. CASE SetDone
  BY <1>2, AfterSetType DEF SetDone, Events
<1>3. CASE SetFails
  BY <1>3 DEF SetFails, CountFail, SetForceCarrStateToNxp, SetForceCarrFaultToNxp, Events
<1>. QED  BY <1>1, <1>2, <1>3

LEMMA TimerTypes ==
    ASSUME TypeOK, NEW c \in Carriers,
           TimerExpired(c) \/ TimerSetDone(c) \/ TimerSetFails(c)
    PROVE  TypeOK'
<1>. USE CountsAreNumbers
     DEF TypeOK, collVars, forceVars, timerVars, linkVars, dcoVars, counters
<1>1. CASE TimerExpired(c)
  BY <1>1 DEF TimerExpired
<1>2. CASE TimerSetDone(c)
  BY <1>2 DEF TimerSetDone, Objects
<1>3. CASE TimerSetFails(c)
  BY <1>3 DEF TimerSetFails, CountFail, SetForceCarrFaultToNxp
<1>. QED  BY <1>1, <1>2, <1>3

LEMMA ConfigTypes ==
    ASSUME QueueAssumption, TypeOK, NEW c \in Carriers,
           \/ CreateCarrier(c) \/ CreateRefused(c)
           \/ DeleteConfig(c) \/ DeleteCarrier(c) \/ DeleteRefused(c) \/ SyncConfig(c)
    PROVE  TypeOK'
<1>. USE CountsAreNumbers
     DEF TypeOK, collVars, forceVars, timerVars, linkVars, dcoVars, counters
<1>1. CASE CreateCarrier(c)
  <2>1. nxp' \in [Carriers -> Objects]
    <3>1. nxp' = nxp \/ nxp' = [nxp EXCEPT ![c].cfg = TRUE]
      BY <1>1 DEF CreateCarrier
    <3>2. nxp \in [Carriers -> Objects]
      OBVIOUS
    <3>3. [nxp EXCEPT ![c].cfg = TRUE] \in [Carriers -> Objects]
      BY <3>2, CfgTypes
    <3>. QED  BY ONLY <3>1, <3>2, <3>3
  <2>2. conf' \in [Carriers -> {"absent", "present", "deleting", "kept"}]
    BY <1>1 DEF CreateCarrier
  <2>3. {changes, confs, troubles}' \subseteq Nat
    <3>1. changes' = changes /\ confs' = confs + 1 /\ troubles' \in {troubles, troubles + 1}
      BY <1>1 DEF CreateCarrier, CreateConfig, CountFail
    <3>. QED  BY <3>1
  <2>4. /\ seenBitmap' \in [Carriers -> Bitmaps \cup {"default"}]
        /\ seenRx' \in [Carriers -> {"none", "unspecified", "active", "inactive"}]
        /\ forceF' \subseteq Carriers /\ forceS' \subseteq Carriers
        /\ UNCHANGED <<bitmap, rx, clearing, queue, actor, timer, inCallback, collUp,
                       toSync, nxpUp, last>>
    BY <1>1 DEF CreateCarrier
  <2>. QED  BY <2>1, <2>2, <2>3, <2>4
<1>2. CASE DeleteConfig(c)
  <2>1. nxp' \in [Carriers -> Objects]
    <3>1. nxp' = nxp \/ nxp' = [nxp EXCEPT ![c].cfg = FALSE, ![c].rx = "none"]
      BY <1>2 DEF DeleteConfig
    <3>2. nxp \in [Carriers -> Objects]
      OBVIOUS
    <3>3. [nxp EXCEPT ![c].cfg = FALSE, ![c].rx = "none"] \in [Carriers -> Objects]
      BY <3>2, CfgTypes
    <3>. QED  BY ONLY <3>1, <3>2, <3>3
  <2>2. conf' \in [Carriers -> {"absent", "present", "deleting", "kept"}]
    BY <1>2 DEF DeleteConfig
  <2>3. {changes, confs, troubles}' \subseteq Nat
    BY <1>2 DEF DeleteConfig, CountFail
  <2>4. UNCHANGED <<bitmap, rx, seenBitmap, seenRx, forceF, forceS, clearing, queue,
                    actor, timer, inCallback, collUp, toSync, nxpUp, last>>
    BY <1>2 DEF DeleteConfig
  <2>. QED  BY <2>1, <2>2, <2>3, <2>4
<1>3. CASE DeleteCarrier(c)
  <2>1. EnQueue(queue, Event("delete", c, FALSE)) \in Seq(Events)
    BY EnQueueKeeps, EventTypes
  <2>2. queue' \in Seq(Events)
    BY <1>3, <2>1 DEF DeleteCarrier
  <2>3. seenBitmap' \in [Carriers -> Bitmaps \cup {"default"}]
    BY <1>3 DEF DeleteCarrier
  <2>4. /\ conf' \in [Carriers -> {"absent", "present", "deleting", "kept"}]
        /\ seenRx' \in [Carriers -> {"none", "unspecified", "active", "inactive"}]
        /\ forceF' \subseteq Carriers /\ forceS' \subseteq Carriers
        /\ UNCHANGED <<bitmap, rx, clearing, actor, timer, inCallback, collUp, toSync,
                       nxpUp, nxp, last, changes, confs, troubles>>
    BY <1>3 DEF DeleteCarrier
  <2>. QED  BY <2>2, <2>3, <2>4
<1>4. CASE SyncConfig(c)
  <2>1. nxp' \in [Carriers -> Objects]
    BY <1>4, CfgTypes DEF SyncConfig
  <2>. QED  BY <1>4, <2>1 DEF SyncConfig
<1>5. CASE CreateRefused(c)
  <2>1. nxp' \in [Carriers -> Objects]
    <3>1. nxp' = nxp \/ nxp' = [nxp EXCEPT ![c].cfg = TRUE]
      BY <1>5 DEF CreateRefused
    <3>2. nxp \in [Carriers -> Objects]
      OBVIOUS
    <3>3. [nxp EXCEPT ![c].cfg = TRUE] \in [Carriers -> Objects]
      BY <3>2, CfgTypes
    <3>. QED  BY ONLY <3>1, <3>2, <3>3
  <2>2. conf' \in [Carriers -> {"absent", "present", "deleting", "kept"}]
    BY <1>5 DEF CreateRefused
  <2>3. {changes, confs, troubles}' \subseteq Nat
    BY <1>5 DEF CreateRefused, CreateConfig
  <2>4. UNCHANGED <<bitmap, rx, seenBitmap, seenRx, forceF, forceS, clearing, queue,
                    actor, timer, inCallback, collUp, toSync, nxpUp, last>>
    BY <1>5 DEF CreateRefused
  <2>. QED  BY <2>1, <2>2, <2>3, <2>4
<1>6. CASE DeleteRefused(c)
  BY <1>6 DEF DeleteRefused
<1>. QED  BY <1>1, <1>2, <1>3, <1>4, <1>5, <1>6

LEMMA OutageTypes ==
    ASSUME TypeOK, NxpDown \/ NxpBack \/ SetIsConnectionUp PROVE TypeOK'
<1>. USE CountsAreNumbers
     DEF TypeOK, collVars, forceVars, timerVars, linkVars, dcoVars, counters
<1>1. CASE NxpDown
  <2>1. nxp' \in [Carriers -> Objects]
    BY <1>1 DEF NxpDown, NoObject, Objects
  <2>2. {changes, confs, troubles}' \subseteq Nat
    BY <1>1 DEF NxpDown
  <2>. QED  BY <1>1, <2>1, <2>2 DEF NxpDown
<1>2. CASE NxpBack
  BY <1>2 DEF NxpBack
<1>3. CASE SetIsConnectionUp
  BY <1>3 DEF SetIsConnectionUp, ForceAll
<1>. QED  BY <1>1, <1>2, <1>3

LEMMA TypesStep ==
    ASSUME CarrierAssumption, QueueAssumption, TypeOK, [Next]_vars PROVE TypeOK'
<1>1. CASE UNCHANGED vars
  BY <1>1, CountsAreNumbers DEF vars, TypeOK
<1>2. CASE Next
  <2>1. ASSUME NEW c \in Carriers,
               DcoChange(c) \/ CollectFaults(c) \/ CollectState(c)
        PROVE  TypeOK'
    BY <2>1, CollectorTypes
  <2>2. ASSUME NEW c \in Carriers,
               TimerExpired(c) \/ TimerSetDone(c) \/ TimerSetFails(c)
        PROVE  TypeOK'
    BY <2>2, TimerTypes
  <2>3. ASSUME NEW c \in Carriers,
               \/ CreateCarrier(c) \/ CreateRefused(c)
               \/ DeleteConfig(c) \/ DeleteCarrier(c) \/ DeleteRefused(c)
               \/ SyncConfig(c)
        PROVE  TypeOK'
    BY <2>3, ConfigTypes
  <2>4. CASE ClearForce
    BY <2>4, CountsAreNumbers
       DEF ClearForce, TypeOK, timerVars, linkVars, dcoVars, counters
  <2>5. CASE Take \/ SetDone \/ SetFails
    BY <2>5, ActorTypes
  <2>6. CASE NxpDown \/ NxpBack \/ SetIsConnectionUp
    BY <2>6, OutageTypes
  <2>. QED  BY <1>2, <2>1, <2>2, <2>3, <2>4, <2>5, <2>6 DEF Next
<1>. QED  BY <1>1, <1>2

(***************************************************************************)
(* CarrierTypes.  The type invariant of the run, for every carrier set,    *)
(* every queue size and every behaviour of the environment.                *)
(***************************************************************************)
THEOREM CarrierTypes == Spec => []TypeOK
<1>1. TypeOK /\ [Next]_vars => TypeOK'
  BY TypesStep, CarrierAssumption, QueueAssumption
<1>. QED  BY <1>1, TypesInit, PTL DEF Spec
-----------------------------------------------------------------------------
(***************************************************************************)
(* The mailbox.  Its invariant: one event per carrier and class waits.     *)
(* With room for every key it is what keeps the queue from ever being full.*)
(***************************************************************************)
QueueInv == TypeOK /\ OncePerKey(queue)

\* What a step does to the queue: nothing, one EnQueue, or one DeQueue.
LEMMA QueueSteps ==
    ASSUME TypeOK, [Next]_vars
    PROVE  \/ UNCHANGED queue
           \/ UNCHANGED actor /\ \E e \in Events : queue' = EnQueue(queue, e)
           \/ Take
<1>1. ASSUME NEW c \in Carriers, CollectFaults(c)
      PROVE  UNCHANGED queue \/ (UNCHANGED actor /\ \E e \in Events : queue' = EnQueue(queue, e))
  <2>1. Event("update", c, IsOfecUp(bitmap[c])) \in Events
    BY EventTypes DEF IsOfecUp
  <2>. QED  BY <1>1, <2>1 DEF CollectFaults
<1>2. ASSUME NEW c \in Carriers, CollectState(c)
      PROVE  UNCHANGED actor /\ \E e \in Events : queue' = EnQueue(queue, e)
  <2>1. Event("rx", c, rx[c]) \in Events
    BY EventTypes DEF TypeOK
  <2>. QED  BY <1>2, <2>1 DEF CollectState
<1>3. ASSUME NEW c \in Carriers, DeleteCarrier(c)
      PROVE  UNCHANGED queue \/ (UNCHANGED actor /\ \E e \in Events : queue' = EnQueue(queue, e))
  <2>1. Event("delete", c, FALSE) \in Events
    BY EventTypes
  <2>. QED  BY <1>3, <2>1 DEF DeleteCarrier
<1>4. ASSUME NEW c \in Carriers,
             \/ DcoChange(c) \/ TimerExpired(c) \/ TimerSetDone(c) \/ TimerSetFails(c)
             \/ CreateCarrier(c) \/ CreateRefused(c) \/ DeleteConfig(c) \/ DeleteRefused(c)
             \/ SyncConfig(c)
      PROVE  UNCHANGED queue
  BY <1>4 DEF DcoChange, TimerExpired, TimerSetDone, TimerSetFails, CreateCarrier,
     CreateRefused, DeleteConfig, DeleteRefused, SyncConfig
<1>5. CASE ClearForce \/ SetDone \/ SetFails \/ NxpDown \/ NxpBack \/ SetIsConnectionUp
  BY <1>5 DEF ClearForce, SetDone, SetFails, NxpDown, NxpBack, SetIsConnectionUp
<1>6. CASE UNCHANGED vars
  BY <1>6 DEF vars
<1>. QED  BY <1>1, <1>2, <1>3, <1>4, <1>5, <1>6 DEF Next

LEMMA QueueInvInit == Init => QueueInv
<1>1. Init => OncePerKey(queue)
  BY DEF Init, OncePerKey
<1>. QED  BY <1>1, TypesInit DEF QueueInv

LEMMA QueueInvStep ==
    ASSUME CarrierAssumption, QueueAssumption, QueueInv, [Next]_vars PROVE QueueInv'
<1>1. TypeOK'
  BY TypesStep DEF QueueInv
<1>2. queue \in Seq(Events) /\ OncePerKey(queue)
  BY DEF QueueInv, TypeOK
<1>3. CASE UNCHANGED queue
  BY <1>1, <1>2, <1>3 DEF QueueInv, OncePerKey
<1>4. CASE \E e \in Events : queue' = EnQueue(queue, e)
  <2>1. PICK e \in Events : queue' = EnQueue(queue, e)
    BY <1>4
  <2>2. OncePerKey(EnQueue(queue, e))
    BY <1>2, EnQueueKeeps
  <2>. QED  BY <1>1, <2>1, <2>2 DEF QueueInv, OncePerKey
<1>5. CASE Take
  <2>1. queue # <<>> /\ queue' = Tail(queue)
    BY <1>5 DEF Take
  <2>2. OncePerKey(Tail(queue))
    BY <1>2, <2>1, DeQueueKeeps
  <2>. QED  BY <1>1, <2>1, <2>2 DEF QueueInv, OncePerKey
<1>. QED  BY <1>3, <1>4, <1>5, QueueSteps DEF QueueInv

THEOREM AlwaysQueueInv == Spec => []QueueInv
<1>1. QueueInv /\ [Next]_vars => QueueInv'
  BY QueueInvStep, CarrierAssumption, QueueAssumption
<1>. QED  BY <1>1, QueueInvInit, PTL DEF Spec

(***************************************************************************)
(* NeverFull.  EnQueue never drops an event.                               *)
(***************************************************************************)
THEOREM NeverFull == ASSUME RoomForAll PROVE Spec => [](Len(queue) < QueueSize)
<1>1. QueueInv => Len(queue) < QueueSize
  BY HasRoom, QueueAssumption DEF QueueInv, TypeOK
<1>. QED  BY <1>1, AlwaysQueueInv, PTL

(***************************************************************************)
(* The steps of the mailbox.                                               *)
(***************************************************************************)
LEMMA BoxStep ==
    ASSUME CarrierAssumption, QueueAssumption, RoomForAll, QueueInv, [Next]_vars
    PROVE  [Box!BoxNext]_Box!boxVars
<1>0. /\ queue \in Seq(Events) /\ OncePerKey(queue) /\ actor \subseteq Events
      /\ Len(queue) < QueueSize
  BY HasRoom DEF QueueInv, TypeOK
<1>. DEFINE P == [k \in Keys |-> Queued(queue, k)]
<1>1. CASE UNCHANGED actor /\ \E e \in Events : queue' = EnQueue(queue, e)
  <2>1. PICK e \in Events : queue' = EnQueue(queue, e)
    BY <1>1
  <2>2. \A k \in Keys : Queued(queue', k) = IF k = KeyOf(e) THEN {e} ELSE Queued(queue, k)
    BY <1>0, <2>1, EnQueueKeeps
  <2>3. [k \in Keys |-> Queued(queue', k)] =
            [[k \in Keys |-> Queued(queue, k)] EXCEPT ![KeyOf(e)] = {e}]
    BY <2>2
  <2>4. Box!Post(e)
    BY <1>1, <2>3 DEF Box!Post
  <2>. QED  BY <2>4 DEF Box!BoxNext
<1>2. CASE Take
  <2>1. /\ actor = {} /\ queue # <<>> /\ queue' = Tail(queue)
        /\ actor' \in {{Head(queue)}, {}}
    BY <1>2 DEF Take
  <2>2. /\ Head(queue) \in Events
        /\ Queued(queue, KeyOf(Head(queue))) = {Head(queue)}
        /\ \A k \in Keys : Queued(queue', k) =
                             IF k = KeyOf(Head(queue)) THEN {} ELSE Queued(queue, k)
    BY <1>0, <2>1, DeQueueKeeps
  <2>3. KeyOf(Head(queue)) \in Keys
    BY <2>2, KeyType
  <2>4. [k \in Keys |-> Queued(queue', k)] =
            [[k \in Keys |-> Queued(queue, k)] EXCEPT ![KeyOf(Head(queue))] = {}]
    BY <2>2
  <2>5. P[KeyOf(Head(queue))] = {Head(queue)}
    BY <2>2, <2>3
  <2>6. Box!Read(KeyOf(Head(queue)))
    BY <2>1, <2>4, <2>5 DEF Box!Read
  <2>. QED  BY <2>3, <2>6 DEF Box!BoxNext
<1>3. CASE UNCHANGED queue /\ actor # {} /\ actor' = {}
  <2>1. Box!Finish
    BY <1>3 DEF Box!Finish
  <2>. QED  BY <2>1 DEF Box!BoxNext
<1>4. CASE UNCHANGED queue /\ UNCHANGED actor
  BY <1>4 DEF Box!boxVars
<1>5. UNCHANGED queue => UNCHANGED actor \/ (actor # {} /\ actor' = {}) \/ Take
  <2>1. ASSUME NEW c \in Carriers,
             \/ DcoChange(c) \/ TimerExpired(c) \/ TimerSetDone(c) \/ TimerSetFails(c)
             \/ CreateCarrier(c) \/ CreateRefused(c) \/ DeleteConfig(c) \/ DeleteRefused(c)
             \/ SyncConfig(c)
             \/ CollectFaults(c) \/ CollectState(c) \/ DeleteCarrier(c)
        PROVE  UNCHANGED actor
    BY <2>1 DEF DcoChange, TimerExpired, TimerSetDone, TimerSetFails, CreateCarrier,
       CreateRefused, DeleteConfig, DeleteRefused, SyncConfig, CollectFaults, CollectState, DeleteCarrier
  <2>2. ClearForce \/ NxpDown \/ NxpBack \/ SetIsConnectionUp \/ UNCHANGED vars
          => UNCHANGED actor
    BY DEF ClearForce, NxpDown, NxpBack, SetIsConnectionUp, vars
  <2>3. SetDone \/ SetFails => actor # {} /\ actor' = {}
    BY DEF SetDone, SetFails
  <2>. QED  BY <2>1, <2>2, <2>3 DEF Next
<1>. QED  BY <1>1, <1>2, <1>3, <1>4, <1>5, QueueSteps DEF QueueInv

(***************************************************************************)
(* QueueIsMailbox.  The queue with its replacement rule, and the actor,    *)
(* implement LatestEvent, if the queue has more places than there are      *)
(* carriers and classes.                                                   *)
(***************************************************************************)
THEOREM QueueIsMailbox == ASSUME RoomForAll PROVE Spec => LatestEventFirst
<1>1. Init => Box!BoxInit
  BY DEF Init, Box!BoxInit, Queued
<1>2. QueueInv /\ [Next]_vars => [Box!BoxNext]_Box!boxVars
  BY BoxStep, CarrierAssumption, QueueAssumption
<1>. QED  BY <1>1, <1>2, AlwaysQueueInv, PTL DEF Spec, LatestEventFirst, Box!BoxSpec
=============================================================================
