----------------------------- MODULE QueueFacts -----------------------------
(***************************************************************************)
(* Facts about the lists of q[] as sequences without repetition, for the   *)
(* proof modules: what insert(), dequeue(), getfirst(), getlast() and      *)
(* enqueue() do to the set of processes a list holds; and about the least  *)
(* number of a set and the number of entries in a table of queues.         *)
(***************************************************************************)
EXTENDS SequencesExt, SequenceTheorems, FiniteSetTheorems, WellFoundedInduction, TLAPS

\* q is a list over T of exactly the members of S, each once.
Lists(q, S, T) == q \in Seq(T) /\ IsInjective(q) /\ Range(q) = S

-----------------------------------------------------------------------------
\* The elements of two sequences, one behind the other.
LEMMA ConcatElements ==
    ASSUME NEW S, NEW s \in Seq(S), NEW t \in Seq(S)
    PROVE  /\ s \o t \in Seq(S) /\ Len(s \o t) = Len(s) + Len(t)
           /\ \A i \in 1..Len(s) : (s \o t)[i] = s[i]
           /\ \A k \in 1..Len(t) : (s \o t)[Len(s) + k] = t[k]
  OBVIOUS

\* The elements of a (possibly empty) piece of a sequence.
LEMMA SubSeqElements ==
    ASSUME NEW S, NEW q \in Seq(S), NEW m \in 1..(Len(q)+1), NEW n \in 0..Len(q), m <= n + 1
    PROVE  /\ SubSeq(q, m, n) \in Seq(S)
           /\ Len(SubSeq(q, m, n)) = n - m + 1
           /\ \A j \in 1..(n-m+1) : SubSeq(q, m, n)[j] = q[m + j - 1]
<1>1. CASE m = n + 1
  BY <1>1, SubSeqProperties
<1>2. CASE m <= n
  BY <1>2, SubSeqProperties
<1> QED BY <1>1, <1>2

\* The elements of InsertAt: those before position i stay, the rest move up.
LEMMA InsertAtElements ==
    ASSUME NEW S, NEW q \in Seq(S), NEW i \in 1..(Len(q)+1), NEW e \in S
    PROVE  /\ InsertAt(q, i, e) \in Seq(S)
           /\ Len(InsertAt(q, i, e)) = Len(q) + 1
           /\ \A j \in 1..(i-1) : InsertAt(q, i, e)[j] = q[j]
           /\ InsertAt(q, i, e)[i] = e
           /\ \A j \in i..Len(q) : InsertAt(q, i, e)[j+1] = q[j]
<1> DEFINE a == SubSeq(q, 1, i-1)
           b == SubSeq(q, i, Len(q))
<1>0. Len(q) \in Nat
  OBVIOUS
<1>1. /\ a \in Seq(S) /\ Len(a) = i - 1
      /\ \A j \in 1..(i-1) : a[j] = q[j]
  BY <1>0, SubSeqElements
<1>2. /\ b \in Seq(S) /\ Len(b) = Len(q) - i + 1
      /\ \A j \in 1..(Len(q)-i+1) : b[j] = q[i + j - 1]
  BY <1>0, SubSeqElements
<1> HIDE DEF a, b
<1>3. <<e>> \in Seq(S) /\ Len(<<e>>) = 1 /\ <<e>>[1] = e
  OBVIOUS
<1> DEFINE c == a \o <<e>>
<1>4. /\ c \in Seq(S) /\ Len(c) = i
      /\ \A j \in 1..i : c[j] = IF j < i THEN q[j] ELSE e
  BY <1>0, <1>1, <1>3
<1> HIDE DEF c
<1>5. /\ c \o b \in Seq(S) /\ Len(c \o b) = Len(c) + Len(b)
      /\ \A j \in 1..(Len(c) + Len(b)) : (c \o b)[j] = IF j <= Len(c) THEN c[j] ELSE b[j - Len(c)]
  BY <1>2, <1>4, ConcatProperties
<1>6. /\ Len(c \o b) = Len(q) + 1
      /\ \A j \in 1..(i-1) : (c \o b)[j] = q[j]
      /\ (c \o b)[i] = e
      /\ \A j \in i..Len(q) : (c \o b)[j+1] = q[j]
  <2>1. Len(c \o b) = Len(q) + 1
    BY <1>0, <1>2, <1>4, <1>5
  <2>2. \A j \in 1..(i-1) : (c \o b)[j] = q[j]
    BY <1>0, <1>2, <1>4, <1>5
  <2>3. (c \o b)[i] = e
    BY <1>0, <1>2, <1>4, <1>5
  <2>4. ASSUME NEW j \in i..Len(q) PROVE (c \o b)[j+1] = q[j]
    <3>1. j + 1 \in 1..(Len(c) + Len(b)) /\ ~(j + 1 <= Len(c)) /\ (j + 1) - Len(c) = j + 1 - i
      BY <1>0, <1>2, <1>4
    <3>2. (c \o b)[j+1] = b[j + 1 - i]
      BY <1>5, <3>1
    <3>3. j + 1 - i \in 1..(Len(q)-i+1) /\ i + (j + 1 - i) - 1 = j
      BY <1>0
    <3> QED BY <1>2, <3>2, <3>3
  <2> QED BY <2>1, <2>2, <2>3, <2>4
<1>7. InsertAt(q, i, e) = c \o b
  BY DEF InsertAt, a, b, c
<1> QED BY <1>5, <1>6, <1>7

\* r is q with e put in behind the first p entries, place for place.
Inserted(r, q, p, e) ==
    /\ Len(r) = Len(q) + 1
    /\ \A j \in 1..Len(r) : \/ j <= p /\ j \in 1..Len(q) /\ r[j] = q[j]
                            \/ j = p + 1 /\ r[j] = e
                            \/ j > p + 1 /\ j - 1 \in 1..Len(q) /\ r[j] = q[j-1]

LEMMA InsertAtPlace ==
    ASSUME NEW S, NEW q \in Seq(S), NEW p \in 0..Len(q), NEW e \in S
    PROVE  InsertAt(q, p + 1, e) \in Seq(S) /\ Inserted(InsertAt(q, p + 1, e), q, p, e)
<1>1. PICK n \in Nat : n = Len(q)
  OBVIOUS
<1>2. PICK i \in 1..(Len(q)+1) : i = p + 1
  BY <1>1
<1> DEFINE r == InsertAt(q, i, e)
<1>3. /\ r \in Seq(S) /\ Len(r) = Len(q) + 1
      /\ \A j \in 1..(i-1) : r[j] = q[j]
      /\ r[i] = e
      /\ \A j \in i..Len(q) : r[j+1] = q[j]
  BY InsertAtElements
<1> HIDE DEF r
<1>4. ASSUME NEW j \in 1..Len(r)
      PROVE  \/ j <= p /\ j \in 1..Len(q) /\ r[j] = q[j]
             \/ j = p + 1 /\ r[j] = e
             \/ j > p + 1 /\ j - 1 \in 1..Len(q) /\ r[j] = q[j-1]
  <2>1. j \in 1..(n + 1) /\ p \in 0..n
    BY <1>1, <1>3
  <2>2. CASE j <= p
    <3>1. j \in 1..n /\ j \in 1..(i-1)
      BY <1>2, <2>1, <2>2
    <3> QED  BY <1>1, <1>3, <2>2, <3>1
  <2>3. CASE j = p + 1
    BY <1>2, <1>3, <2>3
  <2>4. CASE j > p + 1
    <3>1. j - 1 \in 1..n /\ j - 1 \in i..n /\ j - 1 + 1 = j
      BY <1>2, <2>1, <2>4
    <3> QED  BY <1>1, <1>3, <2>4, <3>1
  <2> QED  BY <2>1, <2>2, <2>3, <2>4
<1>5. r \in Seq(S) /\ Inserted(r, q, p, e)
  BY <1>3, <1>4 DEF Inserted
<1> QED  BY <1>2, <1>5 DEF r

\* The elements of RemoveAt: those behind position i move down.
LEMMA RemoveAtElements ==
    ASSUME NEW S, NEW q \in Seq(S), NEW i \in 1..Len(q)
    PROVE  /\ RemoveAt(q, i) \in Seq(S)
           /\ Len(RemoveAt(q, i)) = Len(q) - 1
           /\ \A j \in 1..(Len(q)-1) :
                RemoveAt(q, i)[j] = IF j < i THEN q[j] ELSE q[j+1]
<1> DEFINE a == SubSeq(q, 1, i-1)
           b == SubSeq(q, i+1, Len(q))
<1>0. Len(q) \in Nat
  OBVIOUS
<1>1. /\ a \in Seq(S) /\ Len(a) = i - 1
      /\ \A j \in 1..(i-1) : a[j] = q[j]
  BY <1>0, SubSeqElements
<1>2. /\ b \in Seq(S) /\ Len(b) = Len(q) - i
      /\ \A j \in 1..(Len(q)-i) : b[j] = q[i + j]
  BY <1>0, SubSeqElements
<1> HIDE DEF a, b
<1>3. /\ a \o b \in Seq(S) /\ Len(a \o b) = Len(a) + Len(b)
      /\ \A j \in 1..(Len(a) + Len(b)) : (a \o b)[j] = IF j <= Len(a) THEN a[j] ELSE b[j - Len(a)]
  BY <1>1, <1>2, ConcatProperties
<1>4. RemoveAt(q, i) = a \o b
  BY DEF RemoveAt, a, b
<1>5. \A j \in 1..(Len(q)-1) : (a \o b)[j] = IF j < i THEN q[j] ELSE q[j+1]
  BY <1>0, <1>1, <1>2, <1>3
<1>6. Len(a \o b) = Len(q) - 1
  BY <1>0, <1>1, <1>2, <1>3
<1> QED BY <1>3, <1>4, <1>5, <1>6

\* Every entry of a list after insert() is the new one or was there before.
LEMMA InsertAtOld ==
    ASSUME NEW S, NEW q \in Seq(S), NEW i \in 1..(Len(q)+1), NEW e \in S
    PROVE  \A k \in 1..Len(InsertAt(q, i, e)) :
              InsertAt(q, i, e)[k] = e \/ \E j \in 1..Len(q) : InsertAt(q, i, e)[k] = q[j]
<1> DEFINE r == InsertAt(q, i, e)
<1>1. Len(r) = Len(q) + 1 /\ r[i] = e /\ Len(q) \in Nat
  BY InsertAtElements
<1>2. \A j \in 1..(i-1) : r[j] = q[j]
  BY InsertAtElements
<1>3. \A j \in i..Len(q) : r[j+1] = q[j]
  BY InsertAtElements
<1> HIDE DEF r
<1>4. SUFFICES ASSUME NEW k \in 1..Len(r), k # i PROVE \E j \in 1..Len(q) : r[k] = q[j]
  BY <1>1 DEF r
<1>5. CASE k < i
  <2>1. k \in 1..(i-1) /\ k \in 1..Len(q)
    BY <1>1, <1>5
  <2> QED BY <1>2, <2>1
<1>6. CASE k > i
  <2>1. k - 1 \in i..Len(q) /\ k - 1 \in 1..Len(q) /\ (k - 1) + 1 = k
    BY <1>1, <1>6
  <2>2. r[(k - 1) + 1] = q[k - 1]
    BY <1>3, <2>1
  <2> QED BY <2>1, <2>2
<1> QED BY <1>1, <1>4, <1>5, <1>6

\* Every entry of a list after dequeue() was there before.
LEMMA RemoveAtOld ==
    ASSUME NEW S, NEW q \in Seq(S), NEW i \in 1..Len(q)
    PROVE  \A k \in 1..Len(RemoveAt(q, i)) : \E j \in 1..Len(q) : RemoveAt(q, i)[k] = q[j]
<1> DEFINE r == RemoveAt(q, i)
<1>1. /\ Len(r) = Len(q) - 1 /\ Len(q) \in Nat
      /\ \A j \in 1..(Len(q)-1) : r[j] = IF j < i THEN q[j] ELSE q[j+1]
  BY RemoveAtElements
<1> HIDE DEF r
<1>2. \A k \in 1..Len(r) : \E j \in 1..Len(q) : r[k] = q[j]
  BY <1>1
<1> QED BY <1>2 DEF r

\* insert() of a new process adds exactly that process.
LEMMA InsertLists ==
    ASSUME NEW T, NEW S, NEW q, Lists(q, S, T), NEW e \in T, e \notin S, NEW i \in 1..(Len(q)+1)
    PROVE  Lists(InsertAt(q, i, e), S \cup {e}, T) /\ Len(InsertAt(q, i, e)) = Len(q) + 1
<1>1. q \in Seq(T) /\ IsInjective(q) /\ Range(q) = S /\ Len(q) \in Nat
  BY DEF Lists
<1> DEFINE r == InsertAt(q, i, e)
<1>2. /\ r \in Seq(T) /\ Len(r) = Len(q) + 1
      /\ \A j \in 1..(i-1) : r[j] = q[j]
      /\ r[i] = e
      /\ \A j \in i..Len(q) : r[j+1] = q[j]
  <2>1. r \in Seq(T) /\ Len(r) = Len(q) + 1 /\ r[i] = e
    BY <1>1, InsertAtElements
  <2>2. \A j \in 1..(i-1) : r[j] = q[j]
    BY <1>1, InsertAtElements
  <2>3. \A j \in i..Len(q) : r[j+1] = q[j]
    BY <1>1, InsertAtElements
  <2> QED BY <2>1, <2>2, <2>3
<1> HIDE DEF r
<1>3. \A j \in 1..Len(q) : q[j] \in S
  BY <1>1 DEF Range
\* every position of r but i holds the element of one position of q
<1>4. \A k \in 1..Len(r) : k # i =>
         \E j \in 1..Len(q) : r[k] = q[j] /\ j = IF k < i THEN k ELSE k - 1
  <2> SUFFICES ASSUME NEW k \in 1..Len(r), k # i
               PROVE  \E j \in 1..Len(q) : r[k] = q[j] /\ j = IF k < i THEN k ELSE k - 1
    OBVIOUS
  <2>1. CASE k < i
    BY <1>1, <1>2, <2>1
  <2>2. CASE k > i
    <3>1. k - 1 \in i..Len(q) /\ k - 1 \in 1..Len(q) /\ (k - 1) + 1 = k
      BY <1>1, <1>2, <2>2
    <3>2. r[(k - 1) + 1] = q[k - 1]
      BY <1>2, <3>1
    <3> QED BY <2>2, <3>1, <3>2
  <2> QED BY <2>1, <2>2
<1>5. IsInjective(r)
  <2> SUFFICES ASSUME NEW j \in 1..Len(r), NEW k \in 1..Len(r), r[j] = r[k]
               PROVE  j = k
    BY <1>2 DEF IsInjective
  <2>1. \A m, n \in 1..Len(q) : q[m] = q[n] => m = n
    BY <1>1 DEF IsInjective
  <2>2. CASE j = i \/ k = i
    BY <1>2, <1>3, <1>4, <2>2
  <2>3. CASE j # i /\ k # i
    <3>1. PICK m \in 1..Len(q) : r[j] = q[m] /\ m = IF j < i THEN j ELSE j - 1
      BY <1>4, <2>3
    <3>2. PICK n \in 1..Len(q) : r[k] = q[n] /\ n = IF k < i THEN k ELSE k - 1
      BY <1>4, <2>3
    <3>3. m = n
      BY <2>1, <3>1, <3>2
    <3> QED BY <1>1, <1>2, <2>3, <3>1, <3>2, <3>3
  <2> QED BY <2>2, <2>3
<1>6. Range(r) \subseteq S \cup {e}
  BY <1>2, <1>3, <1>4 DEF Range
<1>7. ASSUME NEW x \in S PROVE x \in Range(r)
  <2>1. PICK j \in 1..Len(q) : q[j] = x
    BY <1>1, <1>7 DEF Range
  <2>2. CASE j < i
    BY <1>1, <1>2, <2>1, <2>2 DEF Range
  <2>3. CASE j >= i
    <3>1. j + 1 \in 1..Len(r) /\ r[j+1] = x
      BY <1>1, <1>2, <2>1, <2>3
    <3> QED BY <3>1, <1>2, SMTT(40) DEF Range
  <2> QED BY <2>2, <2>3
<1>8. e \in Range(r)
  BY <1>1, <1>2 DEF Range
<1> QED BY <1>2, <1>5, <1>6, <1>7, <1>8 DEF Lists, r

\* dequeue() of an entry removes exactly that process.
LEMMA RemoveLists ==
    ASSUME NEW T, NEW S, NEW q, Lists(q, S, T), NEW i \in 1..Len(q)
    PROVE  Lists(RemoveAt(q, i), S \ {q[i]}, T) /\ Len(RemoveAt(q, i)) = Len(q) - 1
<1>1. q \in Seq(T) /\ IsInjective(q) /\ Range(q) = S
  BY DEF Lists
<1> DEFINE r == RemoveAt(q, i)
<1>2. /\ r \in Seq(T) /\ Len(r) = Len(q) - 1
      /\ \A j \in 1..(Len(q)-1) : r[j] = IF j < i THEN q[j] ELSE q[j+1]
  BY <1>1, RemoveAtElements
<1> HIDE DEF r
<1>3. IsInjective(r)
  <2>1. DOMAIN r = 1..(Len(q)-1) /\ DOMAIN q = 1..Len(q) /\ Len(q) \in Nat
    BY <1>1, <1>2
  <2>2. SUFFICES ASSUME NEW a \in 1..(Len(q)-1), NEW b \in 1..(Len(q)-1), r[a] = r[b]
                 PROVE  a = b
    BY <2>1 DEF IsInjective
  <2>3. \A x, y \in 1..Len(q) : q[x] = q[y] => x = y
    BY <1>1, <2>1 DEF IsInjective
  <2>4. r[a] = (IF a < i THEN q[a] ELSE q[a+1]) /\ r[b] = (IF b < i THEN q[b] ELSE q[b+1])
    BY <1>2
  <2>5. /\ a \in 1..Len(q) /\ a+1 \in 1..Len(q) /\ b \in 1..Len(q) /\ b+1 \in 1..Len(q)
        /\ a \in Int /\ b \in Int /\ i \in Int
    BY <2>1
  <2>6. CASE a < i /\ b < i
    BY <2>2, <2>3, <2>4, <2>5, <2>6
  <2>7. CASE ~(a < i) /\ ~(b < i)
    <3>1. q[a+1] = q[b+1]
      BY <2>2, <2>4, <2>7
    <3>2. a + 1 = b + 1
      BY <3>1, <2>3, <2>5
    <3> QED BY <3>2, <2>5
  <2>8. CASE a < i /\ ~(b < i)
    <3>1. q[a] = q[b+1]
      BY <2>2, <2>4, <2>8
    <3>2. a = b + 1
      BY <3>1, <2>3, <2>5
    <3> QED BY <3>2, <2>5, <2>8
  <2>9. CASE ~(a < i) /\ b < i
    <3>1. q[a+1] = q[b]
      BY <2>2, <2>4, <2>9
    <3>2. a + 1 = b
      BY <3>1, <2>3, <2>5
    <3> QED BY <3>2, <2>5, <2>9
  <2> QED BY <2>5, <2>6, <2>7, <2>8, <2>9
<1>4. Range(r) \subseteq S \ {q[i]}
  BY <1>1, <1>2, SMTT(40) DEF Range, IsInjective
<1>5. ASSUME NEW x \in S \ {q[i]} PROVE x \in Range(r)
  <2>1. PICK j \in 1..Len(q) : q[j] = x
    BY <1>1, <1>5 DEF Range
  <2>2. CASE j < i
    BY <1>2, <2>1, <2>2 DEF Range
  <2>3. CASE j > i
    <3>1. j - 1 \in 1..Len(r) /\ r[j-1] = x
      BY <1>2, <2>1, <2>3
    <3> QED BY <3>1, <1>2 DEF Range
  <2> QED BY <2>1, <2>2, <2>3, <1>5
<1> QED BY <1>2, <1>3, <1>4, <1>5 DEF Lists, r

\* getfirst() removes the head.
LEMMA TailLists ==
    ASSUME NEW T, NEW S, NEW q, Lists(q, S, T), q # <<>>
    PROVE  /\ Lists(Tail(q), S \ {Head(q)}, T) /\ Head(q) \in S
           /\ Len(Tail(q)) = Len(q) - 1
<1>1. q \in Seq(T) /\ Len(q) > 0 /\ Len(q) \in Nat
  BY DEF Lists
<1>2. Tail(q) = RemoveAt(q, 1)
  <2>1. /\ RemoveAt(q, 1) \in Seq(T) /\ Len(RemoveAt(q, 1)) = Len(q) - 1
        /\ \A j \in 1..(Len(q)-1) : RemoveAt(q, 1)[j] = q[j+1]
    BY <1>1, RemoveAtElements
  <2>2. /\ Tail(q) \in Seq(T) /\ Len(Tail(q)) = Len(q) - 1
        /\ \A j \in 1..(Len(q)-1) : Tail(q)[j] = q[j+1]
    BY <1>1
  <2> QED BY <2>1, <2>2, SeqEqual
<1>3. Head(q) = q[1] /\ 1 \in 1..Len(q)
  BY <1>1
<1>4. q[1] \in S
  BY <1>1, <1>3 DEF Lists, Range
<1>5. Lists(RemoveAt(q, 1), S \ {q[1]}, T) /\ Len(RemoveAt(q, 1)) = Len(q) - 1
  BY <1>3, RemoveLists
<1> QED BY <1>2, <1>3, <1>4, <1>5

\* getlast() is the removal of the last position.
LEMMA FrontRemoves ==
    ASSUME NEW T, NEW q \in Seq(T), q # <<>>
    PROVE  /\ Front(q) = RemoveAt(q, Len(q)) /\ Len(q) \in 1..Len(q)
           /\ Last(q) = q[Len(q)] /\ Last(q) \in T
<1>1. Len(q) > 0 /\ Len(q) \in Nat
  OBVIOUS
<1>2. /\ RemoveAt(q, Len(q)) \in Seq(T) /\ Len(RemoveAt(q, Len(q))) = Len(q) - 1
      /\ \A j \in 1..(Len(q)-1) : RemoveAt(q, Len(q))[j] = q[j]
  BY <1>1, RemoveAtElements
<1>3. /\ Front(q) \in Seq(T) /\ Len(Front(q)) = Len(q) - 1
      /\ \A j \in 1..(Len(q)-1) : Front(q)[j] = q[j]
  <2>1. 1 \in 1..(Len(q)+1) /\ Len(q)-1 \in 0..Len(q) /\ 1 <= (Len(q)-1) + 1
    BY <1>1
  <2>2. /\ SubSeq(q, 1, Len(q)-1) \in Seq(T) /\ Len(SubSeq(q, 1, Len(q)-1)) = (Len(q)-1) - 1 + 1
        /\ \A j \in 1..((Len(q)-1)-1+1) : SubSeq(q, 1, Len(q)-1)[j] = q[1 + j - 1]
    BY <1>1, <2>1, SubSeqElements
  <2> QED BY <1>1, <2>2 DEF Front
<1> QED BY <1>1, <1>2, <1>3, SeqEqual DEF Last

\* getlast() removes the last entry.
LEMMA FrontLists ==
    ASSUME NEW T, NEW S, NEW q, Lists(q, S, T), q # <<>>
    PROVE  Lists(Front(q), S \ {Last(q)}, T) /\ Last(q) \in S
<1>1. q \in Seq(T)
  BY DEF Lists
<1>2. Front(q) = RemoveAt(q, Len(q)) /\ Len(q) \in 1..Len(q) /\ Last(q) = q[Len(q)]
  BY <1>1, FrontRemoves
<1>3. q[Len(q)] \in S
  BY <1>1, <1>2 DEF Lists, Range
<1>4. Lists(RemoveAt(q, Len(q)), S \ {q[Len(q)]}, T)
  BY <1>2, RemoveLists
<1> QED BY <1>2, <1>3, <1>4

\* enqueue() adds a process at the tail.
LEMMA AppendLists ==
    ASSUME NEW T, NEW S, NEW q, Lists(q, S, T), NEW e \in T, e \notin S
    PROVE  Lists(Append(q, e), S \cup {e}, T) /\ Len(Append(q, e)) = Len(q) + 1
<1>1. q \in Seq(T) /\ Len(q) \in Nat
  BY DEF Lists
<1>2. Append(q, e) = InsertAt(q, Len(q)+1, e)
  <2> DEFINE i == Len(q) + 1
  <2>0. i \in 1..(Len(q)+1)
    BY <1>1
  <2>1. /\ InsertAt(q, i, e) \in Seq(T) /\ Len(InsertAt(q, i, e)) = Len(q) + 1
        /\ \A j \in 1..(i-1) : InsertAt(q, i, e)[j] = q[j]
        /\ InsertAt(q, i, e)[i] = e
    BY <1>1, <2>0, InsertAtElements
  <2>2. /\ Append(q, e) \in Seq(T) /\ Len(Append(q, e)) = Len(q) + 1
        /\ \A j \in 1..(i-1) : Append(q, e)[j] = q[j]
        /\ Append(q, e)[i] = e
    BY <1>1
  <2>3. \A j \in 1..(Len(q)+1) : Append(q, e)[j] = InsertAt(q, i, e)[j]
    BY <1>1, <2>1, <2>2
  <2> QED BY <2>1, <2>2, <2>3, SeqEqual
<1> QED BY <1>1, <1>2, InsertLists

\* The empty list.
LEMMA EmptyLists == \A T : Lists(<<>>, {}, T)
BY DEF Lists, IsInjective, Range

-----------------------------------------------------------------------------
(* Lists in key order.                                                     *)

\* q is in the order of the keys its entries have in key.
Sorted(q, key) == \A i, j \in 1..Len(q) : i < j => key[q[i]] <= key[q[j]]

\* insert() at a position no lower key follows and no higher key precedes
\* keeps the order.
LEMMA InsertSorted ==
    ASSUME NEW T, NEW q \in Seq(T), NEW e \in T, NEW i \in 1..(Len(q)+1),
           NEW key \in [T -> Int], NEW new \in [T -> Int],
           Sorted(q, key), \A j \in 1..Len(q) : new[q[j]] = key[q[j]],
           \A j \in 1..(i-1) : key[q[j]] <= new[e],
           i <= Len(q) => key[q[i]] >= new[e]
    PROVE  Sorted(InsertAt(q, i, e), new)
<1> DEFINE r == InsertAt(q, i, e)
<1>1. Len(q) \in Nat /\ \A j \in 1..Len(q) : q[j] \in T /\ key[q[j]] \in Int
  OBVIOUS
<1>2. /\ Len(r) = Len(q) + 1 /\ r[i] = e
      /\ \A j \in 1..(i-1) : r[j] = q[j]
      /\ \A j \in i..Len(q) : r[j+1] = q[j]
  <2>1. Len(r) = Len(q) + 1 /\ r[i] = e
    BY InsertAtElements
  <2>2. \A j \in 1..(i-1) : r[j] = q[j]
    BY InsertAtElements
  <2>3. \A j \in i..Len(q) : r[j+1] = q[j]
    BY InsertAtElements
  <2> QED BY <2>1, <2>2, <2>3
<1> HIDE DEF r
<1>3. \A j \in (i+1)..(Len(q)+1) : r[j] = q[j-1]
  <2> TAKE j \in (i+1)..(Len(q)+1)
  <2>1. j - 1 \in i..Len(q) /\ (j - 1) + 1 = j
    BY <1>1
  <2>2. r[(j - 1) + 1] = q[j - 1]
    BY <1>2, <2>1
  <2> QED BY <2>1, <2>2
<1>4. \A j \in i..Len(q) : new[e] <= key[q[j]]
  <2> TAKE j \in i..Len(q)
  <2>1. key[q[i]] >= new[e] /\ key[q[i]] <= key[q[j]]
    BY <1>1 DEF Sorted
  <2> QED BY <1>1, <2>1, SMTT(40)
<1>5. SUFFICES ASSUME NEW j \in 1..(Len(q)+1), NEW k \in 1..(Len(q)+1), j < k
               PROVE  new[r[j]] <= new[r[k]]
  BY <1>2 DEF Sorted, r
<1> DEFINE n == Len(q)
<1>6. n \in Nat /\ i \in 1..(n+1) /\ j \in 1..(n+1) /\ k \in 1..(n+1)
  BY <1>1
<1> HIDE DEF n
<1>7. CASE k < i
  <2>1. j \in 1..(i-1) /\ k \in 1..(i-1) /\ j \in 1..n /\ k \in 1..n
    BY <1>5, <1>6, <1>7
  <2> QED BY <1>2, <1>5, <2>1, ZenonT(50) DEF Sorted, n
<1>8. CASE k = i
  <2>1. j \in 1..(i-1) /\ j \in 1..n
    BY <1>5, <1>6, <1>8
  <2> QED BY <1>2, <1>8, <2>1 DEF n
<1>9. CASE j = i
  <2>1. k \in (i+1)..(n+1) /\ k - 1 \in i..n /\ k - 1 \in 1..n
    BY <1>5, <1>6, <1>9
  <2> QED BY <1>2, <1>3, <1>4, <1>9, <2>1 DEF n
<1>10. CASE j < i /\ i < k
  <2>1. k \in (i+1)..(n+1) /\ k - 1 \in 1..n /\ j \in 1..(i-1) /\ j \in 1..n /\ j < k - 1
    BY <1>5, <1>6, <1>10
  <2>2. r[j] = q[j] /\ r[k] = q[k-1]
    BY <1>2, <1>3, <2>1 DEF n
  <2>3. key[q[j]] <= key[q[k-1]]
    BY <2>1 DEF Sorted, n
  <2> QED BY <2>1, <2>2, <2>3 DEF n
<1>11. CASE i < j
  <2>1. /\ k \in (i+1)..(n+1) /\ k - 1 \in 1..n /\ j \in (i+1)..(n+1) /\ j - 1 \in 1..n
        /\ j - 1 < k - 1
    BY <1>5, <1>6, <1>11
  <2>2. r[j] = q[j-1] /\ r[k] = q[k-1]
    BY <1>3, <2>1 DEF n
  <2>3. key[q[j-1]] <= key[q[k-1]]
    BY <2>1 DEF Sorted, n
  <2> QED BY <2>1, <2>2, <2>3 DEF n
<1> QED BY <1>5, <1>6, <1>7, <1>8, <1>9, <1>10, <1>11

\* dequeue() keeps the order.
LEMMA RemoveSorted ==
    ASSUME NEW T, NEW q \in Seq(T), NEW i \in 1..Len(q), NEW key \in [T -> Int], Sorted(q, key)
    PROVE  Sorted(RemoveAt(q, i), key)
<1> DEFINE r == RemoveAt(q, i)
<1>1. /\ Len(r) = Len(q) - 1
      /\ \A j \in 1..(Len(q)-1) : r[j] = IF j < i THEN q[j] ELSE q[j+1]
  BY RemoveAtElements
<1> HIDE DEF r
<1>2. SUFFICES ASSUME NEW j \in 1..Len(r), NEW k \in 1..Len(r), j < k
               PROVE  key[r[j]] <= key[r[k]]
  BY DEF Sorted, r
<1>3. Len(q) \in Nat /\ j \in 1..(Len(q)-1) /\ k \in 1..(Len(q)-1)
  BY <1>1
<1>4. PICK a \in 1..Len(q) : r[j] = q[a] /\ a = IF j < i THEN j ELSE j + 1
  BY <1>1, <1>3, SMTT(40)
<1>5. PICK b \in 1..Len(q) : r[k] = q[b] /\ b = IF k < i THEN k ELSE k + 1
  BY <1>1, <1>3, SMTT(40)
<1>6. a < b
  BY <1>2, <1>3, <1>4, <1>5, SMTT(40)
<1> QED BY <1>4, <1>5, <1>6 DEF Sorted

-----------------------------------------------------------------------------
(* Numbers.                                                                *)

\* Every set of numbers that is not empty has a smallest.
LEMMA Smallest ==
    ASSUME NEW S \in SUBSET Nat, S # {}
    PROVE  Min(S) \in S /\ \A y \in S : Min(S) <= y
<1> DEFINE R == {ss \in Nat \X Nat : ss[1] < ss[2]}
<1>1. IsWellFoundedOn(R, Nat)
  BY NatLessThanWellFounded DEF OpToRel
<1>2. PICK x \in S : \A y \in S : ~(<<y, x>> \in R)
  BY <1>1, WFMin
<1>3. ASSUME NEW y \in S PROVE x <= y
  <2>1. x \in Nat /\ y \in Nat /\ ~(<<y, x>> \in R)
    BY <1>2
  <2>2. y < x => <<y, x>> \in R
    BY <2>1
  <2> HIDE DEF R
  <2> QED  BY <2>1, <2>2
<1>4. \E z \in S : \A y \in S : z <= y
  BY <1>3
<1> QED  BY <1>4 DEF Min

\* If it is bounded it has a largest.
LEMMA Largest ==
    ASSUME NEW n \in Nat, NEW S \in SUBSET (0..n), S # {}
    PROVE  Max(S) \in S /\ \A y \in S : Max(S) >= y
<1> DEFINE T == {n - y : y \in S}
<1>1. T \in SUBSET Nat /\ T # {}
  <2>1. \A y \in S : n - y \in Nat
    OBVIOUS
  <2>2. PICK y \in S : TRUE
    OBVIOUS
  <2>3. n - y \in T
    OBVIOUS
  <2> QED  BY <2>1, <2>3
<1>2. Min(T) \in T /\ \A z \in T : Min(T) <= z
  BY <1>1, Smallest
<1>3. PICK x \in S : n - x = Min(T)
  BY <1>2
<1>4. ASSUME NEW y \in S PROVE x >= y
  <2>1. n - y \in T
    OBVIOUS
  <2>2. n - x <= n - y
    BY <1>2, <1>3, <2>1
  <2>3. x \in Int /\ y \in Int
    OBVIOUS
  <2> QED  BY <2>2, <2>3
<1>5. \E z \in S : \A y \in S : z >= y
  BY <1>4
<1> QED  BY <1>5 DEF Max

-----------------------------------------------------------------------------
(* A table of queues, each of at most m entries; l has their lengths.      *)
InTable(S, m, l) == {n \in S \X (1..m) : n[2] <= l[n[1]]}

\* The entries of one queue, as pairs of the queue and a place in it.
Row(x, k) == {x} \X (1..k)

LEMMA RowCount ==
    ASSUME NEW x, NEW k \in Nat
    PROVE  IsFiniteSet(Row(x, k)) /\ Cardinality(Row(x, k)) = k
<1>1. IsFiniteSet({x}) /\ Cardinality({x}) = 1
  BY FS_Singleton
<1>2. IsFiniteSet(1..k) /\ Cardinality(1..k) = k
  BY FS_Interval
<1>3. IsFiniteSet({x} \X (1..k)) /\ Cardinality({x} \X (1..k)) = Cardinality({x}) * Cardinality(1..k)
  BY <1>1, <1>2, FS_Product
<1> QED  BY <1>1, <1>2, <1>3 DEF Row

LEMMA TableFinite ==
    ASSUME NEW S, IsFiniteSet(S), NEW m \in Nat, NEW P \in SUBSET (S \X (1..m))
    PROVE  IsFiniteSet(P) /\ Cardinality(P) \in Nat
<1>1. IsFiniteSet(1..m)
  BY FS_Interval
<1>2. IsFiniteSet(S \X (1..m))
  BY <1>1, FS_Product
<1>3. IsFiniteSet(P)
  BY <1>2, FS_Subset
<1> QED  BY <1>3, FS_CardinalityType

\* Whatever happens to one queue, the count follows its length.
LEMMA TableCount ==
    ASSUME NEW S, IsFiniteSet(S), NEW m \in Nat, NEW x \in S,
           NEW l \in [S -> 0..m], NEW r \in [S -> 0..m], \A y \in S : y # x => r[y] = l[y]
    PROVE  /\ Cardinality(InTable(S, m, l)) \in Nat
           /\ Cardinality(InTable(S, m, r)) = Cardinality(InTable(S, m, l)) - l[x] + r[x]
<1> DEFINE rest == {n \in InTable(S, m, l) : n[1] # x}
<1>1. l[x] \in Nat /\ r[x] \in Nat /\ l[x] <= m /\ r[x] <= m
  OBVIOUS
<1>2. rest = {n \in InTable(S, m, r) : n[1] # x}
  BY DEF InTable
<1>3. InTable(S, m, l) = rest \cup Row(x, l[x]) /\ rest \cap Row(x, l[x]) = {}
  BY <1>1 DEF InTable, Row
<1>4. InTable(S, m, r) = rest \cup Row(x, r[x]) /\ rest \cap Row(x, r[x]) = {}
  <2>1. InTable(S, m, r) = {n \in InTable(S, m, r) : n[1] # x} \cup Row(x, r[x])
    BY <1>1 DEF InTable, Row
  <2>2. rest \cap Row(x, r[x]) = {}
    BY DEF Row
  <2> QED  BY <1>2, <2>1, <2>2
<1>5. rest \in SUBSET (S \X (1..m)) /\ InTable(S, m, l) \in SUBSET (S \X (1..m))
  BY DEF InTable
<1> HIDE DEF rest
<1>6. IsFiniteSet(rest) /\ Cardinality(rest) \in Nat /\ Cardinality(InTable(S, m, l)) \in Nat
  BY <1>5, TableFinite
<1>7. ASSUME NEW k \in Nat, rest \cap Row(x, k) = {}
      PROVE  Cardinality(rest \cup Row(x, k)) = Cardinality(rest) + k
  <2>1. IsFiniteSet(Row(x, k)) /\ Cardinality(Row(x, k)) = k
    BY RowCount
  <2>2. Cardinality(rest \cup Row(x, k)) =
          Cardinality(rest) + Cardinality(Row(x, k)) - Cardinality(rest \cap Row(x, k))
    BY <1>6, <2>1, FS_Union
  <2>3. Cardinality(rest \cap Row(x, k)) = 0
    BY <1>7, FS_EmptySet
  <2> QED  BY <1>6, <2>1, <2>2, <2>3
<1>8. Cardinality(InTable(S, m, l)) = Cardinality(rest) + l[x]
  BY <1>1, <1>3, <1>7
<1>9. Cardinality(InTable(S, m, r)) = Cardinality(rest) + r[x]
  BY <1>1, <1>4, <1>7
<1> QED  BY <1>1, <1>6, <1>8, <1>9

-----------------------------------------------------------------------------
\* What is at most t in a row of numbers in order is how many there are, from
\* the front: where a scan that passes them stops.
LEMMA SortedPrefix ==
    ASSUME NEW n \in Nat, NEW h \in [1..n -> Int], NEW t \in Int,
           \A i, j \in 1..n : i <= j => h[i] <= h[j]
    PROVE  \E k \in 0..n : /\ Cardinality({j \in 1..n : h[j] <= t}) = k
                           /\ \A j \in 1..n : j <= k <=> h[j] <= t
<1> DEFINE B == {j \in 0..n : j > 0 => h[j] <= t}
           A == {j \in 1..n : h[j] <= t}
<1>1. PICK k : k \in B /\ \A j \in B : k >= j
  <2>1. B \in SUBSET (0..n) /\ 0 \in B
    OBVIOUS
  <2> HIDE DEF B
  <2> QED  BY <2>1, Largest
<1>2. k \in 0..n /\ (k > 0 => h[k] <= t)
  BY <1>1
<1>3. ASSUME NEW j \in 1..n PROVE j <= k <=> h[j] <= t
  <2>1. CASE j <= k
    <3>1. k \in 1..n /\ h[j] <= h[k] /\ h[k] <= t /\ h[j] \in Int /\ h[k] \in Int
      BY <1>2, <2>1
    <3> QED  BY <2>1, <3>1
  <2>2. CASE ~(j <= k)
    <3>1. j \notin B /\ j \in 0..n /\ j > 0
      BY <1>1, <1>2, <2>2
    <3> QED  BY <2>2, <3>1
  <2> QED  BY <2>1, <2>2
<1>4. A = 1..k
  <2>1. \A j \in 1..k : j \in 1..n /\ j <= k
    BY <1>2
  <2>2. \A j \in 1..n : j <= k => j \in 1..k
    BY <1>2
  <2> HIDE DEF B
  <2> QED  BY <1>3, <2>1, <2>2
<1>5. Cardinality(A) = k
  <2>1. k \in Nat
    BY <1>2
  <2>2. Cardinality(1..k) = k
    BY <2>1, FS_Interval
  <2> HIDE DEF A
  <2> QED  BY <1>4, <2>2
<1> HIDE DEF B
<1> QED  BY <1>2, <1>3, <1>5
=============================================================================
