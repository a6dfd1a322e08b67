-------------------------- MODULE TimerIndexProofs --------------------------
(***************************************************************************)
(* Timers in the order of their index, and what both queues keep of them.  *)
(***************************************************************************)
EXTENDS TimerIndex, WellFoundedInduction, TLAPS

-----------------------------------------------------------------------------
(* The index.                                                              *)

TimerType == [sequence : Nat, expiration : Nat, interval : Nat]

OneEach(T) == \A t, u \in T : t.sequence = u.sequence => t = u

IsEarliest(T, t) == t \in T /\ \A u \in T \ {t} : TimerLess(t, u)

(* A set of numbers has a least one. *)
LEMMA LeastNumber ==
  ASSUME NEW S \in SUBSET Nat, S # {}
  PROVE  \E n \in S : \A m \in S : n <= m
  <1> DEFINE R == OpToRel(<, Nat)
  <1>1. IsWellFoundedOn(R, Nat)
    BY NatLessThanWellFounded, Zenon
  <1>2. \A m, n \in Nat : <<m, n>> \notin R => n <= m
    BY DEF OpToRel
  <1> HIDE DEF R
  <1>3. S \subseteq Nat
    OBVIOUS
  <1>4. PICK n \in S : \A m \in S : ~(<<m, n>> \in R)
    BY <1>1, <1>3, WFMin, Zenon
  <1>5. QED
    BY <1>2, <1>4, Zenon

(* The order of the index is total on timers with different sequence numbers, so there is
   a first one, which PopWhile() and Reconcile() look at. *)
LEMMA EarliestIs ==
  ASSUME NEW T \in SUBSET TimerType, OneEach(T), T # {}
  PROVE  IsEarliest(T, Earliest(T))
  <1> DEFINE E == {t.expiration : t \in T}
  <1>1. PICK e \in E : \A f \in E : e <= f
    <2>1. E \in SUBSET Nat /\ E # {}
      BY DEF TimerType
    <2> HIDE DEF E
    <2>2. QED
      BY <2>1, LeastNumber
  <1> DEFINE F == {t \in T : t.expiration = e}
             S == {t.sequence : t \in F}
  <1>2. PICK s \in S : \A n \in S : s <= n
    <2>1. S \in SUBSET Nat /\ S # {}
      BY DEF TimerType
    <2> HIDE DEF S
    <2>2. QED
      BY <2>1, LeastNumber
  <1>3. PICK t \in F : t.sequence = s
    BY <1>2
  <1>4. ASSUME NEW u \in T \ {t} PROVE TimerLess(t, u)
    <2>1. /\ t \in T /\ t.expiration = e /\ e \in Nat /\ u.expiration \in Nat
          /\ t.sequence \in Nat /\ u.sequence \in Nat /\ t.sequence # u.sequence
      BY <1>1, <1>3 DEF TimerType, OneEach
    <2>2. e <= u.expiration
      BY <1>1
    <2>3. u.expiration = e => t.sequence <= u.sequence
      BY <1>2, <1>3
    <2>4. QED
      BY <2>1, <2>2, <2>3 DEF TimerLess
  <1>5. t \in T
    BY <1>3
  <1>6. QED
    BY <1>4, <1>5 DEF Earliest, IsEarliest

(* No two timers come first. *)
LEMMA EarliestOnly ==
  ASSUME NEW T \in SUBSET TimerType, OneEach(T), NEW t, IsEarliest(T, t)
  PROVE  t = Earliest(T)
  <1>1. IsEarliest(T, Earliest(T))
    BY EarliestIs DEF IsEarliest
  <1>2. ASSUME t # Earliest(T) PROVE FALSE
    <2>1. TimerLess(t, Earliest(T)) /\ TimerLess(Earliest(T), t)
      BY <1>1, <1>2 DEF IsEarliest
    <2>2. t \in TimerType /\ Earliest(T) \in TimerType
      BY <1>1 DEF IsEarliest
    <2>3. QED
      BY <2>1, <2>2 DEF TimerLess, TimerType
  <1>3. QED
    BY <1>2

(* A new timer comes first if it expires first; otherwise the first stays. *)
LEMMA EarliestAdd ==
  ASSUME NEW T \in SUBSET TimerType, OneEach(T), NEW t \in TimerType,
         \A u \in T : u.sequence < t.sequence
  PROVE  /\ OneEach(T \cup {t})
         /\ T = {} \/ t.expiration < Earliest(T).expiration => Earliest(T \cup {t}) = t
         /\ T # {} /\ ~(t.expiration < Earliest(T).expiration)
              => Earliest(T \cup {t}) = Earliest(T)
  <1>1. OneEach(T \cup {t})
    BY DEF OneEach, TimerType
  <1>2. T \cup {t} \in SUBSET TimerType
    OBVIOUS
  <1>3. CASE T = {}
    <2>1. IsEarliest(T \cup {t}, t)
      BY <1>3 DEF IsEarliest
    <2>2. QED
      BY <1>1, <1>2, <1>3, <2>1, EarliestOnly
  <1>4. CASE T # {}
    <2> DEFINE e == Earliest(T)
    <2>1. IsEarliest(T, e)
      BY <1>4, EarliestIs
    <2> HIDE DEF e
    <2>2. e \in TimerType
      BY <2>1 DEF IsEarliest
    <2>3. ASSUME t.expiration < e.expiration PROVE IsEarliest(T \cup {t}, t)
      <3>1. ASSUME NEW u \in T PROVE e.expiration <= u.expiration
        BY <2>1, <2>2 DEF IsEarliest, TimerLess, TimerType
      <3>2. ASSUME NEW u \in T PROVE TimerLess(t, u)
        BY <2>2, <2>3, <3>1 DEF TimerLess, TimerType
      <3>3. QED
        BY <3>2 DEF IsEarliest
    <2>4. ASSUME ~(t.expiration < e.expiration) PROVE IsEarliest(T \cup {t}, e)
      <3>1. TimerLess(e, t)
        BY <2>1, <2>2, <2>4 DEF IsEarliest, TimerLess, TimerType
      <3>2. QED
        BY <2>1, <3>1 DEF IsEarliest
    <2>5. QED
      BY <1>1, <1>2, <1>4, <2>3, <2>4, EarliestOnly DEF e
  <1>5. QED
    BY <1>3, <1>4

(* Taking out another timer leaves the first one first. *)
LEMMA EarliestRemove ==
  ASSUME NEW T \in SUBSET TimerType, OneEach(T), NEW t, t # Earliest(T), T # {}
  PROVE  Earliest(T \ {t}) = Earliest(T) /\ T \ {t} # {}
  <1>1. IsEarliest(T, Earliest(T))
    BY EarliestIs
  <1>2. IsEarliest(T \ {t}, Earliest(T))
    BY <1>1 DEF IsEarliest
  <1>3. T \ {t} \in SUBSET TimerType /\ OneEach(T \ {t})
    BY DEF OneEach
  <1>4. QED
    BY <1>2, <1>3, EarliestOnly DEF IsEarliest

-----------------------------------------------------------------------------
(* What both queues keep of their timers.                                  *)

(* T is the index, A the registry, r the timer that runs and c whether it was cancelled
   meanwhile; n timers were added, at most max of them. *)
Book(T, A, r, c, n, ran, gone, max) ==
  /\ T \in SUBSET TimerType /\ OneEach(T) /\ A = Sequences(T) /\ A \subseteq 1..n
  /\ r \in TimerType /\ r.sequence <= n /\ r.sequence \notin A
  /\ n \in Nat /\ max \in Nat /\ n <= max
  /\ gone \subseteq 1..n /\ A \cap gone = {}
  /\ r.sequence \in gone /\ Repeat(r) => c
  /\ ran \in [1..max -> Nat] /\ \A i \in 1..max : i > n => ran[i] = 0
  /\ \A t \in T : Repeat(t) \/ ran[t.sequence] = 0

(* AddTimer() enters a timer, or takes it back and has only used up its number. *)
LEMMA BookAdd ==
  ASSUME NEW T, NEW A, NEW r, NEW c, NEW n, NEW ran, NEW gone, NEW max,
         Book(T, A, r, c, n, ran, gone, max), n < max, NEW when \in Nat, NEW interval \in Nat
  PROVE  LET t == Timer(n + 1, when, interval)
         IN  /\ Book(T \cup {t}, A \cup {t.sequence}, r, c, n + 1, ran, gone, max)
             /\ t \in TimerType /\ \A u \in T : u.sequence < t.sequence
             /\ Book(T, A, r, c, n + 1, ran, gone, max)
  <1> DEFINE t == Timer(n + 1, when, interval)
  <1>1. /\ T \in SUBSET TimerType /\ OneEach(T) /\ A = Sequences(T) /\ A \subseteq 1..n
        /\ n \in Nat /\ max \in Nat
    BY DEF Book
  <1>2. t \in TimerType /\ t.sequence = n + 1
    BY <1>1 DEF Timer, TimerType
  <1>3. ASSUME NEW u \in T PROVE u.sequence \in 1..n
    BY <1>1 DEF Sequences
  <1>4. \A u \in T : u.sequence < t.sequence
    BY <1>1, <1>2, <1>3
  <1> HIDE DEF t
  <1>5. OneEach(T \cup {t})
    BY <1>1, <1>2, <1>4, EarliestAdd
  <1>6. A \cup {t.sequence} = Sequences(T \cup {t})
    BY <1>1 DEF Sequences
  <1>7. /\ A \cup {t.sequence} \subseteq 1..(n + 1) /\ 1..n \subseteq 1..(n + 1)
        /\ n + 1 \in Nat /\ n + 1 <= max /\ n + 1 \notin 1..n
    BY <1>1, <1>2
  <1>8. r.sequence # t.sequence /\ r.sequence <= n + 1
    BY <1>1, <1>2 DEF Book, TimerType
  <1>9. ran[t.sequence] = 0 /\ \A i \in 1..max : i > n + 1 => ran[i] = 0
    BY <1>1, <1>2 DEF Book
  <1>10. gone \subseteq 1..(n + 1) /\ t.sequence \notin gone
    BY <1>2, <1>7 DEF Book
  <1>11. Book(T \cup {t}, A \cup {t.sequence}, r, c, n + 1, ran, gone, max)
    BY <1>1, <1>2, <1>5, <1>6, <1>7, <1>8, <1>9, <1>10, Zenon DEF Book
  <1>12. Book(T, A, r, c, n + 1, ran, gone, max)
    BY <1>1, <1>7, <1>8, <1>9, <1>10 DEF Book
  <1>13. QED
    BY <1>2, <1>4, <1>11, <1>12 DEF t

(* Cancel() of a timer in the registry takes it out of the index. *)
LEMMA BookCancel ==
  ASSUME NEW T, NEW A, NEW r, NEW c, NEW n, NEW ran, NEW gone, NEW max,
         Book(T, A, r, c, n, ran, gone, max), NEW id \in A, NEW t \in T, t.sequence = id
  PROVE  /\ T \ {t} = {u \in T : u.sequence # id}
         /\ Book(T \ {t}, A \ {id}, r, c, n, ran, gone \cup {id}, max)
  <1>1. T \ {t} = {u \in T : u.sequence # id}
    BY DEF Book, OneEach
  <1>2. A \ {id} = Sequences(T \ {t})
    BY <1>1 DEF Book, Sequences
  <1>3. OneEach(T \ {t}) /\ T \ {t} \in SUBSET TimerType
    BY DEF Book, OneEach
  <1>4. Book(T \ {t}, A \ {id}, r, c, n, ran, gone \cup {id}, max)
    BY <1>2, <1>3, Zenon DEF Book
  <1>5. QED
    BY <1>1, <1>4

(* Cancel() of another one is remembered if it runs and repeats. *)
LEMMA BookCancelRunning ==
  ASSUME NEW T, NEW A, NEW r, NEW c, NEW n, NEW ran, NEW gone, NEW max,
         Book(T, A, r, c, n, ran, gone, max), NEW id \in 1..n, id \notin A,
         NEW d, c => d, r.sequence = id /\ Repeat(r) => d
  PROVE  Book(T, A, r, d, n, ran, gone \cup {id}, max)
  BY DEF Book

(* The earliest timer is taken out and runs. *)
LEMMA BookRun ==
  ASSUME NEW T, NEW A, NEW r, NEW c, NEW n, NEW ran, NEW gone, NEW max,
         Book(T, A, r, c, n, ran, gone, max), NEW t \in T, NEW d
  PROVE  Book(T \ {t}, A \ {t.sequence}, t, d, n, [ran EXCEPT ![t.sequence] = @ + 1], gone, max)
  <1>1. t \in TimerType /\ t.sequence \in A /\ t.sequence \in 1..max
    <2>1. T \in SUBSET TimerType /\ A = Sequences(T) /\ A \subseteq 1..n
      BY DEF Book
    <2>2. n \in Nat /\ max \in Nat /\ n <= max
      BY DEF Book
    <2>3. t.sequence \in A
      BY <2>1 DEF Sequences
    <2>4. QED
      BY <2>1, <2>2, <2>3
  <1>2. \A u \in T \ {t} : u.sequence # t.sequence
    BY DEF Book, OneEach
  <1>3. A \ {t.sequence} = Sequences(T \ {t})
    BY <1>2 DEF Book, Sequences
  <1>4. OneEach(T \ {t}) /\ T \ {t} \in SUBSET TimerType
    BY DEF Book, OneEach
  <1> DEFINE f == [ran EXCEPT ![t.sequence] = @ + 1]
  <1>5. f \in [1..max -> Nat] /\ \A i \in 1..max : i # t.sequence => f[i] = ran[i]
    BY <1>1 DEF Book
  <1> HIDE DEF f
  <1>6. \A i \in 1..max : i > n => f[i] = 0
    BY <1>1, <1>5 DEF Book
  <1>7. \A u \in T \ {t} : Repeat(u) \/ f[u.sequence] = 0
    <2>1. T \in SUBSET TimerType /\ A = Sequences(T) /\ A \subseteq 1..n
      BY DEF Book
    <2>2. n \in Nat /\ max \in Nat /\ n <= max
      BY DEF Book
    <2>3. ASSUME NEW u \in T \ {t} PROVE u.sequence \in 1..max
      BY <2>1, <2>2 DEF Sequences
    <2>4. \A u \in T : Repeat(u) \/ ran[u.sequence] = 0
      BY DEF Book
    <2>5. QED
      BY <1>2, <1>5, <2>3, <2>4
  <1>8. t.sequence <= n /\ t.sequence \notin gone
    BY <1>1 DEF Book, TimerType
  <1>9. Book(T \ {t}, A \ {t.sequence}, t, d, n, f, gone, max)
    BY <1>1, <1>3, <1>4, <1>5, <1>6, <1>7, <1>8, Zenon DEF Book
  <1>10. QED
    BY <1>9 DEF f

(* Its callback returns; it is entered again if it repeats and was not cancelled. *)
LEMMA BookReturn ==
  ASSUME NEW T, NEW A, NEW r, NEW c \in BOOLEAN, NEW n, NEW ran, NEW gone, NEW max,
         Book(T, A, r, c, n, ran, gone, max), r.sequence # 0, NEW now \in Nat, NEW d
  PROVE  LET again == IF Repeat(r) /\ ~c THEN {Restart(r, now)} ELSE {}
         IN  Book(T \cup again, A \cup Sequences(again), Timer(0, 0, 0), d, n, ran, gone, max)
  <1> DEFINE t == Restart(r, now)
             none == Timer(0, 0, 0)
  <1>1. /\ none \in TimerType /\ none.sequence = 0 /\ n \in Nat /\ A \subseteq 1..n
        /\ gone \subseteq 1..n /\ r \in TimerType
    BY DEF Book, Timer, TimerType
  <1>2. t \in TimerType /\ t.sequence = r.sequence /\ (Repeat(t) <=> Repeat(r))
    BY <1>1 DEF Restart, TimerType, Repeat
  <1> HIDE DEF t, none
  <1>3. /\ none.sequence <= n /\ none.sequence \notin A \cup {t.sequence}
        /\ none.sequence \notin gone /\ t.sequence \in 1..n
    BY <1>1, <1>2 DEF Book, TimerType
  <1>4. CASE Repeat(r) /\ ~c
    <2>1. OneEach(T \cup {t}) /\ A \cup {t.sequence} = Sequences(T \cup {t})
      BY <1>2 DEF Book, OneEach, Sequences
    <2>2. t.sequence \notin gone
      BY <1>2, <1>4 DEF Book
    <2>3. Book(T \cup {t}, A \cup {t.sequence}, none, d, n, ran, gone, max)
      BY <1>1, <1>2, <1>3, <1>4, <2>1, <2>2, Zenon DEF Book
    <2>4. Sequences({t}) = {t.sequence}
      BY DEF Sequences
    <2>5. QED
      BY <1>4, <2>3, <2>4 DEF t, none
  <1>5. CASE ~(Repeat(r) /\ ~c)
    <2>1. Book(T, A, none, d, n, ran, gone, max)
      BY <1>1, <1>3 DEF Book
    <2>2. Sequences({}) = {} /\ T \cup {} = T /\ A \cup {} = A
      BY DEF Sequences
    <2>3. QED
      BY <1>5, <2>1, <2>2, Zenon DEF none
  <1>6. QED
    BY <1>4, <1>5

(* The queue is destroyed. *)
LEMMA BookClear ==
  ASSUME NEW T, NEW A, NEW r, NEW c, NEW n, NEW ran, NEW gone, NEW max,
         Book(T, A, r, c, n, ran, gone, max)
  PROVE  Book({}, {}, r, c, n, ran, gone, max)
  BY DEF Book, OneEach, Sequences
================================================================================
