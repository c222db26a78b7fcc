--------------------------- MODULE BlockAccessProofs ---------------------------
(***************************************************************************)
(* BlockAccess for every number of threads, handles and files and every    *)
(* size of the cache: the locks exclude what they are to exclude, the list *)
(* of the cache holds a block once, and a Block in use is deleted only     *)
(* after as many other blocks have been used as the cache holds.           *)
(***************************************************************************)
EXTENDS BlockAccess, FiniteSetTheorems, TLAPS

\* The provers a step is given to in turn, with their time in seconds.
USE ZenonT(3), SMTT(40), ZenonT(60)
USE DEF At

(***************************************************************************)
(* Sequences without repetition.                                           *)
(***************************************************************************)
LEMMA SeqOf ==
  ASSUME NEW S, NEW s \in Seq(S)
  PROVE  /\ Len(s) \in Nat /\ DOMAIN s = 1 .. Len(s) /\ (s = << >> <=> Len(s) = 0)
         /\ \A j \in 1 .. Len(s) : s[j] \in S
<1>1. Len(s) \in Nat /\ DOMAIN s = 1 .. Len(s)
  OBVIOUS
<1>2. s = << >> <=> Len(s) = 0
  OBVIOUS
<1>3. \A j \in 1 .. Len(s) : s[j] \in S
  OBVIOUS
<1> QED  BY <1>1, <1>2, <1>3

LEMMA ConcatOf ==
  ASSUME NEW S, NEW s \in Seq(S), NEW r \in Seq(S)
  PROVE  /\ s \o r \in Seq(S) /\ Len(s \o r) = Len(s) + Len(r)
         /\ \A j \in 1 .. Len(s) + Len(r) : (s \o r)[j] = IF j <= Len(s) THEN s[j] ELSE r[j - Len(s)]
OBVIOUS

LEMMA SubSeqOf ==
  ASSUME NEW S, NEW s \in Seq(S), NEW m \in Int, NEW n \in Int, \A j \in m .. n : s[j] \in S
  PROVE  /\ SubSeq(s, m, n) \in Seq(S)
         /\ Len(SubSeq(s, m, n)) = IF m <= n THEN n - m + 1 ELSE 0
         /\ \A j \in 1 .. n - m + 1 : SubSeq(s, m, n)[j] = s[m + j - 1]
OBVIOUS

LEMMA TailOf ==
  ASSUME NEW S, NEW s \in Seq(S), s # << >>
  PROVE  /\ Head(s) \in S /\ Head(s) = s[1] /\ Tail(s) \in Seq(S) /\ Len(Tail(s)) = Len(s) - 1
         /\ \A j \in 1 .. Len(Tail(s)) : Tail(s)[j] = s[j + 1]
OBVIOUS

LEMMA SubSeqParts ==
  ASSUME NEW S, NEW s \in Seq(S), NEW m \in 1 .. Len(s) + 1, NEW n \in 0 .. Len(s), m <= n + 1
  PROVE  /\ SubSeq(s, m, n) \in Seq(S)
         /\ Len(SubSeq(s, m, n)) = n + 1 - m
         /\ \A j \in 1 .. n + 1 - m : SubSeq(s, m, n)[j] = s[m - 1 + j]
<1>1. /\ SubSeq(s, m, n) \in Seq(S)
      /\ Len(SubSeq(s, m, n)) = IF m <= n THEN n - m + 1 ELSE 0
      /\ \A i \in 1 .. n - m + 1 : SubSeq(s, m, n)[i] = s[m + i - 1]
  <2>1. Len(s) \in Nat /\ \A i \in m .. n : s[i] \in S
    BY SeqOf
  <2>2. m \in Int /\ n \in Int /\ \A i \in m .. n : s[i] \in S
    BY <2>1
  <2> QED  BY <2>2, SubSeqOf
<1> DEFINE q == SubSeq(s, m, n)
<1> HIDE DEF q
<1>2. ASSUME NEW j \in 1 .. n + 1 - m PROVE q[j] = s[m - 1 + j]
  <2>1. j \in 1 .. n - m + 1 /\ m + j - 1 = m - 1 + j
    OBVIOUS
  <2>2. q[j] = s[m + j - 1]
    BY <1>1, <2>1 DEF q
  <2> QED  BY <2>1, <2>2
<1> QED  BY <1>1, <1>2 DEF q

\* A new element before the others, all but the last element, and an element
\* moved to the front, as functions on an interval.
LEMMA PushedPoints ==
  ASSUME NEW n \in Nat, NEW s, NEW r, NEW b, DOMAIN s = 1 .. n, DOMAIN r = 1 .. n + 1,
         IsInjective(s), b \notin Range(s), r[1] = b, \A j \in 1 .. n : r[j + 1] = s[j]
  PROVE  IsInjective(r) /\ Range(r) = Range(s) \cup {b}
<1>1. \A j \in 2 .. n + 1 : j - 1 \in 1 .. n /\ r[j] = s[j - 1]
  <2> SUFFICES ASSUME NEW j \in 2 .. n + 1 PROVE j - 1 \in 1 .. n /\ r[j] = s[j - 1]
    OBVIOUS
  <2>1. j - 1 \in 1 .. n /\ (j - 1) + 1 = j
    OBVIOUS
  <2> QED  BY <2>1
<1>2. \A j \in 1 .. n : s[j] # b
  BY DEF Range
<1>3. IsInjective(r)
  <2> SUFFICES ASSUME NEW j \in 1 .. n + 1, NEW k \in 1 .. n + 1, r[j] = r[k] PROVE j = k
    BY DEF IsInjective
  <2>1. CASE j = 1
    BY <1>1, <1>2, <2>1
  <2>2. CASE k = 1
    BY <1>1, <1>2, <2>2
  <2>3. CASE j # 1 /\ k # 1
    <3>1. j - 1 \in 1 .. n /\ k - 1 \in 1 .. n /\ s[j - 1] = s[k - 1]
      BY <1>1, <2>3
    <3>2. j - 1 = k - 1
      BY <3>1 DEF IsInjective
    <3> QED  BY <3>2
  <2> QED  BY <2>1, <2>2, <2>3
<1>4. \A j \in 1 .. n + 1 : r[j] \in Range(s) \cup {b}
  <2> SUFFICES ASSUME NEW j \in 1 .. n + 1, j # 1 PROVE r[j] \in Range(s)
    OBVIOUS
  <2>1. j - 1 \in 1 .. n /\ r[j] = s[j - 1]
    BY <1>1
  <2> QED  BY <2>1 DEF Range
<1>5. \A j \in 1 .. n : s[j] \in Range(r)
  <2> SUFFICES ASSUME NEW j \in 1 .. n PROVE s[j] \in Range(r)
    OBVIOUS
  <2>1. j + 1 \in 1 .. n + 1 /\ r[j + 1] = s[j]
    OBVIOUS
  <2> QED  BY <2>1 DEF Range
<1>6. b \in Range(r)
  BY DEF Range
<1> QED  BY <1>3, <1>4, <1>5, <1>6 DEF Range

LEMMA DroppedPoints ==
  ASSUME NEW n \in Nat \ {0}, NEW s, NEW r, DOMAIN s = 1 .. n, DOMAIN r = 1 .. n - 1,
         IsInjective(s), \A j \in 1 .. n - 1 : r[j] = s[j]
  PROVE  IsInjective(r) /\ s[n] \in Range(s) /\ Range(r) = Range(s) \ {s[n]}
<1>1. IsInjective(r)
  BY DEF IsInjective
<1>2. s[n] \in Range(s)
  BY DEF Range
<1>3. \A j \in 1 .. n - 1 : r[j] \in Range(s) \ {s[n]}
  <2> SUFFICES ASSUME NEW j \in 1 .. n - 1 PROVE r[j] \in Range(s) \ {s[n]}
    OBVIOUS
  <2>1. j \in 1 .. n /\ n \in 1 .. n /\ j # n /\ r[j] = s[j]
    OBVIOUS
  <2> QED  BY <2>1 DEF Range, IsInjective
<1>4. \A j \in 1 .. n : s[j] # s[n] => s[j] \in Range(r)
  <2> SUFFICES ASSUME NEW j \in 1 .. n, s[j] # s[n] PROVE s[j] \in Range(r)
    OBVIOUS
  <2>1. j \in 1 .. n - 1 /\ r[j] = s[j]
    OBVIOUS
  <2> QED  BY <2>1 DEF Range
<1> QED  BY <1>1, <1>2, <1>3, <1>4, ZenonT(60) DEF Range

LEMMA MovedPoints ==
  ASSUME NEW n \in Nat, NEW s, NEW r, NEW i \in 1 .. n, DOMAIN s = 1 .. n, DOMAIN r = 1 .. n,
         IsInjective(s), r[1] = s[i],
         \A j \in 2 .. n : r[j] = IF j <= i THEN s[j - 1] ELSE s[j]
  PROVE  IsInjective(r) /\ Range(r) = Range(s)
<1> DEFINE From(j) == IF j = 1 THEN i ELSE IF j <= i THEN j - 1 ELSE j
           To(j) == IF j = i THEN 1 ELSE IF j < i THEN j + 1 ELSE j
<1>1. \A j \in 1 .. n : From(j) \in 1 .. n /\ r[j] = s[From(j)]
  OBVIOUS
<1>2. \A j \in 1 .. n : To(j) \in 1 .. n /\ From(To(j)) = j
  OBVIOUS
<1>3. \A j, k \in 1 .. n : From(j) = From(k) => j = k
  OBVIOUS
<1> HIDE DEF From, To
<1>4. IsInjective(r)
  BY <1>1, <1>3 DEF IsInjective
<1>5. \A j \in 1 .. n : r[j] \in Range(s)
  BY <1>1 DEF Range
<1>6. \A j \in 1 .. n : s[j] \in Range(r)
  <2> SUFFICES ASSUME NEW j \in 1 .. n PROVE s[j] \in Range(r)
    OBVIOUS
  <2>1. r[To(j)] = s[j] /\ To(j) \in 1 .. n
    BY <1>1, <1>2
  <2> QED  BY <2>1 DEF Range
<1> QED  BY <1>4, <1>5, <1>6 DEF Range

\* y comes before x in s.
IsBefore(s, y, x) == \E i, j \in DOMAIN s : i < j /\ s[i] = y /\ s[j] = x

LEMMA PushedBefore ==
  ASSUME NEW n \in Nat, NEW s, NEW r, NEW b, DOMAIN s = 1 .. n, DOMAIN r = 1 .. n + 1,
         IsInjective(r), r[1] = b, \A j \in 1 .. n : r[j + 1] = s[j]
  PROVE  \A y, x : IsBefore(r, y, x) => x # b /\ (y = b \/ IsBefore(s, y, x))
<1> SUFFICES ASSUME NEW y, NEW x, NEW i \in 1 .. n + 1, NEW j \in 1 .. n + 1,
                    i < j, r[i] = y, r[j] = x
             PROVE  x # b /\ (y = b \/ IsBefore(s, y, x))
  BY DEF IsBefore
<1>1. j # 1 /\ 1 \in 1 .. n + 1
  OBVIOUS
<1>2. x # b
  BY <1>1 DEF IsInjective
<1>3. ASSUME i # 1 PROVE IsBefore(s, y, x)
  <2>1. PICK k, l \in 1 .. n : k = i - 1 /\ l = j - 1 /\ k < l /\ k + 1 = i /\ l + 1 = j
    BY <1>3
  <2>2. s[k] = y /\ s[l] = x
    BY <2>1
  <2> QED  BY <2>1, <2>2 DEF IsBefore
<1> QED  BY <1>2, <1>3

LEMMA DroppedBefore ==
  ASSUME NEW n \in Nat \ {0}, NEW s, NEW r, DOMAIN s = 1 .. n, DOMAIN r = 1 .. n - 1,
         \A j \in 1 .. n - 1 : r[j] = s[j]
  PROVE  /\ \A y, x : IsBefore(r, y, x) => IsBefore(s, y, x)
         /\ \A y \in Range(r) : IsBefore(s, y, s[n])
<1>1. ASSUME NEW y, NEW x, IsBefore(r, y, x) PROVE IsBefore(s, y, x)
  BY <1>1 DEF IsBefore
<1>2. ASSUME NEW y \in Range(r) PROVE IsBefore(s, y, s[n])
  <2>1. PICK i \in 1 .. n - 1 : r[i] = y
    BY DEF Range
  <2>2. i \in 1 .. n /\ n \in 1 .. n /\ i < n /\ s[i] = y
    BY <2>1
  <2> QED  BY <2>2 DEF IsBefore
<1> QED  BY <1>1, <1>2

LEMMA MovedBefore ==
  ASSUME NEW n \in Nat, NEW s, NEW r, NEW i \in 1 .. n, DOMAIN s = 1 .. n, DOMAIN r = 1 .. n,
         IsInjective(r), r[1] = s[i],
         \A j \in 2 .. n : r[j] = IF j <= i THEN s[j - 1] ELSE s[j]
  PROVE  \A y, x : IsBefore(r, y, x) => x # s[i] /\ (y = s[i] \/ IsBefore(s, y, x))
<1> SUFFICES ASSUME NEW y, NEW x, NEW j \in 1 .. n, NEW k \in 1 .. n, j < k, r[j] = y, r[k] = x
             PROVE  x # s[i] /\ (y = s[i] \/ IsBefore(s, y, x))
  BY DEF IsBefore
<1>1. k # 1 /\ 1 \in 1 .. n
  OBVIOUS
<1>2. x # s[i]
  BY <1>1 DEF IsInjective
<1>3. ASSUME j # 1 PROVE IsBefore(s, y, x)
  <2>1. PICK a, c \in 1 .. n : /\ a = (IF j <= i THEN j - 1 ELSE j)
                              /\ c = (IF k <= i THEN k - 1 ELSE k) /\ a < c
    BY <1>3
  <2>2. s[a] = y /\ s[c] = x
    BY <1>3, <2>1
  <2> QED  BY <2>1, <2>2 DEF IsBefore
<1> QED  BY <1>2, <1>3

LEMMA PushFront ==
  ASSUME NEW S, NEW s \in Seq(S), IsInjective(s), NEW b \in S, b \notin Range(s)
  PROVE  /\ <<b>> \o s \in Seq(S) /\ IsInjective(<<b>> \o s)
         /\ Len(<<b>> \o s) = Len(s) + 1 /\ Range(<<b>> \o s) = Range(s) \cup {b}
         /\ \A y, x : IsBefore(<<b>> \o s, y, x) => x # b /\ (y = b \/ IsBefore(s, y, x))
<1> DEFINE r == <<b>> \o s
<1>1. DOMAIN s = 1 .. Len(s) /\ Len(s) \in Nat
  BY SeqOf
<1>2. <<b>> \in Seq(S) /\ Len(<<b>>) = 1 /\ <<b>>[1] = b
  OBVIOUS
<1>3. /\ r \in Seq(S) /\ Len(r) = 1 + Len(s)
      /\ \A j \in 1 .. 1 + Len(s) : r[j] = IF j <= 1 THEN <<b>>[j] ELSE s[j - 1]
  BY <1>2, ConcatOf
<1> HIDE DEF r
<1>4. Len(r) = Len(s) + 1 /\ DOMAIN r = 1 .. Len(s) + 1 /\ r[1] = b
  BY <1>1, <1>2, <1>3
<1>5. ASSUME NEW j \in 1 .. Len(s) PROVE r[j + 1] = s[j]
  <2>1. j + 1 \in 1 .. 1 + Len(s) /\ ~(j + 1 <= 1) /\ (j + 1) - 1 = j
    BY <1>1
  <2> QED  BY <1>3, <2>1
<1>6. IsInjective(r) /\ Range(r) = Range(s) \cup {b}
  BY <1>1, <1>4, <1>5, PushedPoints
<1>7. \A y, x : IsBefore(r, y, x) => x # b /\ (y = b \/ IsBefore(s, y, x))
  BY <1>1, <1>4, <1>5, <1>6, PushedBefore
<1> QED  BY <1>3, <1>4, <1>6, <1>7 DEF r

LEMMA DropLast ==
  ASSUME NEW S, NEW s \in Seq(S), IsInjective(s), s # << >>
  PROVE  /\ SubSeq(s, 1, Len(s) - 1) \in Seq(S) /\ IsInjective(SubSeq(s, 1, Len(s) - 1)) /\ Len(SubSeq(s, 1, Len(s) - 1)) = Len(s) - 1
         /\ s[Len(s)] \in Range(s) /\ Range(SubSeq(s, 1, Len(s) - 1)) = Range(s) \ {s[Len(s)]}
         /\ \A y, x : IsBefore(SubSeq(s, 1, Len(s) - 1), y, x) => IsBefore(s, y, x)
         /\ \A y \in Range(SubSeq(s, 1, Len(s) - 1)) : IsBefore(s, y, s[Len(s)])
<1> DEFINE r == SubSeq(s, 1, Len(s) - 1)
<1>0. PICK n \in Nat \ {0} : Len(s) = n /\ DOMAIN s = 1 .. n
  BY SeqOf
<1>1. /\ r \in Seq(S) /\ Len(r) = (n - 1) + 1 - 1
      /\ \A j \in 1 .. (n - 1) + 1 - 1 : r[j] = s[1 - 1 + j]
  <2>1. PICK m \in 0 .. Len(s) : m = n - 1 /\ 1 <= m + 1
    BY <1>0
  <2>2. 1 \in 1 .. Len(s) + 1
    BY <1>0
  <2>3. /\ SubSeq(s, 1, m) \in Seq(S) /\ Len(SubSeq(s, 1, m)) = m + 1 - 1
        /\ \A j \in 1 .. m + 1 - 1 : SubSeq(s, 1, m)[j] = s[1 - 1 + j]
    BY <2>1, <2>2, SubSeqParts
  <2> QED  BY <1>0, <2>1, <2>3
<1> HIDE DEF r
<1>2. (n - 1) + 1 - 1 = n - 1
  OBVIOUS
<1>3. ASSUME NEW j \in 1 .. n - 1 PROVE r[j] = s[j]
  <2>1. 1 - 1 + j = j
    OBVIOUS
  <2> QED  BY <1>1, <1>2, <2>1
<1>4. DOMAIN r = 1 .. n - 1
  BY <1>1, <1>2, SeqOf
<1>5. IsInjective(r) /\ s[n] \in Range(s) /\ Range(r) = Range(s) \ {s[n]}
  BY <1>0, <1>3, <1>4, DroppedPoints
<1>6. /\ \A y, x : IsBefore(r, y, x) => IsBefore(s, y, x)
      /\ \A y \in Range(r) : IsBefore(s, y, s[n])
  BY <1>0, <1>3, <1>4, DroppedBefore
<1> QED  BY <1>0, <1>1, <1>2, <1>5, <1>6 DEF r

LEMMA MoveFront ==
  ASSUME NEW S, NEW s \in Seq(S), IsInjective(s), NEW b \in Range(s)
  PROVE  /\ MoveToFront(s, b) \in Seq(S) /\ IsInjective(MoveToFront(s, b))
         /\ Len(MoveToFront(s, b)) = Len(s) /\ Range(MoveToFront(s, b)) = Range(s)
         /\ \A y, x : IsBefore(MoveToFront(s, b), y, x) => x # b /\ (y = b \/ IsBefore(s, y, x))
<1>0. PICK n \in Nat : Len(s) = n /\ DOMAIN s = 1 .. n
  BY SeqOf
<1>1. PICK i \in 1 .. n : s[i] = b
  BY <1>0 DEF Range
<1>b. b \in S
  BY <1>0, <1>1, SeqOf
<1> DEFINE front == SubSeq(s, 1, i - 1)
           rest == SubSeq(s, i + 1, n)
           q == front \o rest
           r == <<b>> \o q
<1>2. MoveToFront(s, b) = r
  <2>1. (CHOOSE j \in 1 .. Len(s) : s[j] = b) = i
    BY <1>0, <1>1 DEF IsInjective
  <2> QED  BY <1>0, <2>1 DEF MoveToFront
<1>3. /\ front \in Seq(S) /\ Len(front) = (i - 1) + 1 - 1
      /\ \A j \in 1 .. (i - 1) + 1 - 1 : front[j] = s[1 - 1 + j]
  BY <1>0, SubSeqParts
<1>4. /\ rest \in Seq(S) /\ Len(rest) = n + 1 - (i + 1)
      /\ \A j \in 1 .. n + 1 - (i + 1) : rest[j] = s[(i + 1) - 1 + j]
  BY <1>0, SubSeqParts
<1> HIDE DEF front, rest
<1>5. /\ q \in Seq(S) /\ Len(q) = Len(front) + Len(rest)
      /\ \A j \in 1 .. Len(front) + Len(rest) :
           q[j] = IF j <= Len(front) THEN front[j] ELSE rest[j - Len(front)]
  BY <1>3, <1>4, ConcatOf
<1> HIDE DEF q
<1>6. <<b>> \in Seq(S) /\ Len(<<b>>) = 1 /\ <<b>>[1] = b
  BY <1>b
<1>7. /\ r \in Seq(S) /\ Len(r) = 1 + Len(q)
      /\ \A j \in 1 .. 1 + Len(q) : r[j] = IF j <= 1 THEN <<b>>[j] ELSE q[j - 1]
  BY <1>5, <1>6, ConcatOf
<1> HIDE DEF r
<1>8. Len(front) = i - 1 /\ Len(rest) = n - i /\ Len(q) = n - 1 /\ Len(r) = n
  <2>1. (i - 1) + 1 - 1 = i - 1 /\ n + 1 - (i + 1) = n - i /\ (i - 1) + (n - i) = n - 1
        /\ 1 + (n - 1) = n
    OBVIOUS
  <2> QED  BY <1>3, <1>4, <1>5, <1>7, <2>1
<1>9. DOMAIN r = 1 .. n /\ r[1] = s[i]
  <2>1. DOMAIN r = 1 .. n
    BY <1>7, <1>8, SeqOf
  <2>2. 1 \in 1 .. 1 + Len(q)
    BY <1>8
  <2>3. r[1] = b
    BY <1>6, <1>7, <2>2
  <2> QED  BY <1>1, <2>1, <2>3
<1>10. ASSUME NEW j \in 2 .. n PROVE r[j] = IF j <= i THEN s[j - 1] ELSE s[j]
  <2>1. j \in 1 .. 1 + Len(q) /\ ~(j <= 1) /\ j - 1 \in 1 .. Len(front) + Len(rest)
    BY <1>8
  <2>2. r[j] = q[j - 1]
    BY <1>7, <2>1
  <2>3. q[j - 1] = IF j - 1 <= Len(front) THEN front[j - 1] ELSE rest[j - 1 - Len(front)]
    BY <1>5, <2>1
  <2>4. CASE j <= i
    <3>1. j - 1 <= Len(front) /\ j - 1 \in 1 .. (i - 1) + 1 - 1 /\ 1 - 1 + (j - 1) = j - 1
      BY <1>8, <2>4
    <3> QED  BY <1>3, <2>2, <2>3, <2>4, <3>1
  <2>5. CASE ~(j <= i)
    <3>1. /\ ~(j - 1 <= Len(front)) /\ j - 1 - Len(front) = j - i
          /\ j - i \in 1 .. n + 1 - (i + 1) /\ (i + 1) - 1 + (j - i) = j
      BY <1>8, <2>5
    <3> QED  BY <1>4, <2>2, <2>3, <2>5, <3>1
  <2> QED  BY <2>4, <2>5
<1>11. IsInjective(r) /\ Range(r) = Range(s)
  BY <1>0, <1>9, <1>10, MovedPoints
<1>12. \A y, x : IsBefore(r, y, x) => x # s[i] /\ (y = s[i] \/ IsBefore(s, y, x))
  BY <1>0, <1>9, <1>10, <1>11, MovedBefore
<1>13. \A y, x : IsBefore(r, y, x) => x # b /\ (y = b \/ IsBefore(s, y, x))
  BY <1>1, <1>12
<1> QED  BY <1>0, <1>2, <1>7, <1>8, <1>11, <1>13 DEF r

(***************************************************************************)
(* The locks.                                                              *)
(***************************************************************************)
Labels == {"idle", "big", "rwlock", "inode", "upgrade", "inode_unique", "alloc",
           "insert", "run", "probe", "miss", "fill", "copy"}
CallKinds == {"none", "read", "write", "extend", "getattr"}

LockType ==
  /\ on \in [Threads -> Handles]
  /\ pc \in [Threads -> Labels]
  /\ kind \in [Threads -> CallKinds]
  /\ lock \in [Locks -> [r : SUBSET Threads, w : SUBSET Threads]]

\* A lock held alone is held by one thread and by no reader.
Alone == \A l \in Locks : \A t \in lock[l].w : lock[l].w = {t} /\ lock[l].r = {}

Past(t) == pc[t] \notin {"idle", "big"}

\* What a thread holds follows from where it is and what it does.
Holds(t) ==
  /\ Past(t) /\ kind[t] # "getattr" => t \in lock[BigLock].r
  /\ Past(t) /\ kind[t] = "getattr" => t \in lock[BigLock].w /\ Running(t)
  /\ pc[t] \in {"upgrade", "inode_unique", "alloc", "insert"} => kind[t] = "extend"
  /\ Running(t) /\ kind[t] \in {"none", "read", "write"} => t \in lock[InodeLock(FileOf[on[t]])].r
  /\ Extending(t) => t \in lock[InodeLock(FileOf[on[t]])].w
  /\ pc[t] = "probe" => t \in lock[MLock].r
  /\ pc[t] = "fill" => t \in lock[MLock].w
  /\ pc[t] = "copy" => t \in lock[MLock].r \cup lock[MLock].w

LockInv == LockType /\ Alone /\ \A t \in Threads : Holds(t)

LEMMA LockNames ==
  /\ BigLock \in Locks /\ AllocLock \in Locks /\ MLock \in Locks
  /\ \A h \in Handles : RwLock(h) \in Locks
  /\ \A f \in Files : InodeLock(f) \in Locks
  /\ BigLock # AllocLock /\ BigLock # MLock /\ AllocLock # MLock
  /\ \A h : RwLock(h) # BigLock /\ RwLock(h) # MLock
  /\ \A f : InodeLock(f) # BigLock /\ InodeLock(f) # MLock /\ InodeLock(f) # AllocLock
  /\ \A h, f : RwLock(h) # InodeLock(f)
BY DEF Locks, BigLock, AllocLock, MLock, RwLock, InodeLock

\* The inductive invariant gives the exclusion.
LEMMA InvExcludes == LockInv => CallsExclude
<1> SUFFICES ASSUME LockInv, NEW t \in Threads, NEW u \in Threads, t # u
             PROVE  /\ Extending(t) /\ (Running(u) \/ Extending(u)) => FileOf[on[t]] # FileOf[on[u]]
                    /\ kind[t] = "getattr" /\ Running(t) => pc[u] \in {"idle", "big"}
                    /\ pc[t] = "fill" => pc[u] \notin {"probe", "fill", "copy"}
  BY DEF CallsExclude
<1>1. /\ Holds(t) /\ Holds(u) /\ Alone
      /\ kind[t] \in CallKinds /\ kind[u] \in CallKinds
      /\ InodeLock(FileOf[on[t]]) \in Locks /\ BigLock \in Locks /\ MLock \in Locks
  BY LockNames, FileOfAssumption DEF LockInv, LockType
<1>2. ASSUME kind[t] = "getattr", Running(t) PROVE pc[u] \in {"idle", "big"}
  <2>1. t \in lock[BigLock].w
    BY <1>1, <1>2 DEF Holds, Past, Running
  <2>2. lock[BigLock].w = {t} /\ lock[BigLock].r = {}
    BY <1>1, <2>1 DEF Alone
  <2> QED  BY <1>1, <2>2 DEF Holds, Past
<1>3. ASSUME kind[u] = "getattr", Running(u) PROVE ~Extending(t)
  <2>1. u \in lock[BigLock].w
    BY <1>1, <1>3 DEF Holds, Past, Running
  <2>2. lock[BigLock].w = {u} /\ lock[BigLock].r = {}
    BY <1>1, <2>1 DEF Alone
  <2> QED  BY <1>1, <2>2 DEF Holds, Past, Extending, Running
<1>4. ASSUME Extending(t), Running(u) \/ Extending(u) PROVE FileOf[on[t]] # FileOf[on[u]]
  <2> DEFINE l == InodeLock(FileOf[on[t]])
  <2>1. lock[l].w = {t} /\ lock[l].r = {}
    BY <1>1, <1>4 DEF Holds, Alone
  <2>2. CASE Extending(u)
    BY <1>1, <2>1, <2>2 DEF Holds
  <2>3. CASE Running(u) /\ ~Extending(u)
    <3>1. kind[u] \in {"none", "read", "write"}
      BY <1>1, <1>3, <1>4, <2>3 DEF Extending, CallKinds
    <3> QED  BY <1>1, <2>1, <2>3, <3>1 DEF Holds
  <2> QED  BY <1>4, <2>2, <2>3
<1>5. ASSUME pc[t] = "fill" PROVE pc[u] \notin {"probe", "fill", "copy"}
  <2>1. lock[MLock].w = {t} /\ lock[MLock].r = {}
    BY <1>1, <1>5 DEF Holds, Alone
  <2> QED  BY <1>1, <2>1 DEF Holds
<1> QED  BY <1>2, <1>4, <1>5

LEMMA LockInit == Init => LockInv
BY OpeningsAssumption DEF Init, LockInv, LockType, Alone, Holds, Past, Running, Extending, Labels, CallKinds

(***************************************************************************)
(* What the operations on a lock do: the locks keep their type, one held   *)
(* alone stays so, and no other thread loses one.                          *)
(***************************************************************************)
LockOK == lock \in [Locks -> [r : SUBSET Threads, w : SUBSET Threads]] /\ Alone

\* Every lock that thread u holds, it still holds.
Keeps(u) == \A k \in Locks : /\ u \in lock[k].r => u \in lock'[k].r
                             /\ u \in lock[k].w => u \in lock'[k].w

LEMMA SharedLock ==
  ASSUME LockOK, NEW t \in Threads, NEW l \in Locks, lock_shared(t, l)
  PROVE  LockOK' /\ t \in lock'[l].r /\ \A u \in Threads : Keeps(u)
<1>1. lock' \in [Locks -> [r : SUBSET Threads, w : SUBSET Threads]]
  BY DEF LockOK, lock_shared
<1>2. /\ lock[l].w = {}
      /\ lock'[l] = [r |-> lock[l].r \cup {t}, w |-> lock[l].w]
      /\ \A k \in Locks \ {l} : lock'[k] = lock[k]
  BY DEF LockOK, lock_shared
<1> QED  BY <1>1, <1>2 DEF LockOK, Alone, Keeps

LEMMA UniqueLock ==
  ASSUME LockOK, NEW t \in Threads, NEW l \in Locks, lock_unique(t, l)
  PROVE  LockOK' /\ t \in lock'[l].w /\ \A u \in Threads : Keeps(u)
<1>1. lock' \in [Locks -> [r : SUBSET Threads, w : SUBSET Threads]]
  BY DEF LockOK, lock_unique
<1>2. lock[l].r = {} /\ lock[l].w = {}
  BY DEF lock_unique
<1>3. lock'[l].r = lock[l].r /\ lock'[l].w = {t} /\ \A k \in Locks \ {l} : lock'[k] = lock[k]
  BY DEF LockOK, lock_unique
<1> QED  BY <1>1, <1>2, <1>3 DEF LockOK, Alone, Keeps

LEMMA Unlock ==
  ASSUME LockOK, NEW t \in Threads, NEW l \in Locks, unlock(t, l)
  PROVE  /\ LockOK'
         /\ \A u \in Threads \ {t} : Keeps(u)
         /\ \A k \in Locks \ {l} : lock'[k] = lock[k]
<1>1. lock' \in [Locks -> [r : SUBSET Threads, w : SUBSET Threads]]
  BY DEF LockOK, unlock
<1>2. /\ lock'[l] = [r |-> lock[l].r \ {t}, w |-> lock[l].w \ {t}]
      /\ \A k \in Locks \ {l} : lock'[k] = lock[k]
  BY DEF LockOK, unlock
<1> QED  BY <1>1, <1>2 DEF LockOK, Alone, Keeps

LEMMA UnlockAll ==
  ASSUME LockOK, NEW t \in Threads, unlock_all(t)
  PROVE  LockOK' /\ \A u \in Threads \ {t} : Keeps(u)
BY DEF LockOK, Alone, Keeps, unlock_all

\* A thread that stays where it is, in the call it is in, holds what it must.
LEMMA HoldsKept ==
  ASSUME LockInv, NEW u \in Threads, Keeps(u),
         pc'[u] = pc[u], kind'[u] = kind[u], on' = on
  PROVE  Holds(u)'
<1>1. Holds(u) /\ InodeLock(FileOf[on[u]]) \in Locks /\ BigLock \in Locks /\ MLock \in Locks
  BY LockNames, FileOfAssumption DEF LockInv, LockType
<1>2. InodeLock(FileOf[on[u]])' = InodeLock(FileOf[on[u]]) /\ BigLock' = BigLock /\ MLock' = MLock
  BY DEF InodeLock, BigLock, MLock
<1> QED  BY <1>1, <1>2 DEF Holds, Keeps, Past, Running, Extending

\* The same where nothing but the locks could have changed.
LEMMA LockInvStutter ==
  ASSUME LockInv, UNCHANGED <<on, pc, kind, lock>>
  PROVE  LockInv'
<1>1. LockType' /\ Alone'
  BY DEF LockInv, LockType, Alone
<1>2. \A u \in Threads : Keeps(u)
  BY DEF Keeps
<1> QED  BY <1>1, <1>2, HoldsKept DEF LockInv

\* A step of thread t to a label, in a call of kind k.
LEMMA StepKeepsInv ==
  ASSUME LockInv, NEW t \in Threads, NEW label \in Labels, NEW k \in CallKinds,
         on' = on, pc' = [pc EXCEPT ![t] = label], kind' = [kind EXCEPT ![t] = k],
         LockOK', \A u \in Threads \ {t} : Keeps(u), Holds(t)'
  PROVE  LockInv'
<1>1. LockType'
  BY DEF LockInv, LockType, LockOK
<1>2. \A u \in Threads \ {t} : Holds(u)'
  <2> SUFFICES ASSUME NEW u \in Threads \ {t} PROVE Holds(u)'
    OBVIOUS
  <2>1. pc'[u] = pc[u] /\ kind'[u] = kind[u] /\ Keeps(u)
    BY DEF LockInv, LockType
  <2> QED  BY <2>1, HoldsKept
<1> QED  BY <1>1, <1>2 DEF LockInv, LockOK

\* Every step of a call keeps the invariant.
LEMMA LockStep ==
  ASSUME LockInv, NEW t \in Threads, Step(t)
  PROVE  LockInv'
<1> DEFINE inode == InodeLock(FileOf[on[t]])
<1> USE DEF Labels, CallKinds
<1>0. /\ LockOK /\ Holds(t) /\ pc[t] \in Labels /\ kind[t] \in CallKinds
      /\ pc \in [Threads -> Labels] /\ kind \in [Threads -> CallKinds]
      /\ on[t] \in Handles /\ RwLock(on[t]) \in Locks /\ inode \in Locks
      /\ BigLock \in Locks /\ MLock \in Locks /\ AllocLock \in Locks
  BY LockNames, FileOfAssumption DEF LockInv, LockType, LockOK
<1>n. /\ inode # BigLock /\ inode # MLock /\ inode # AllocLock
      /\ BigLock # MLock /\ BigLock # AllocLock /\ MLock # AllocLock
  BY LockNames
<1>k. kind = [kind EXCEPT ![t] = kind[t]]
  BY <1>0
<1>1. CASE LockBig(t)
  <2>1. CASE kind[t] # "getattr" /\ lock_shared(t, BigLock) /\ Goto(t, "rwlock")
    <3>1. LockOK' /\ t \in lock'[BigLock].r /\ \A u \in Threads : Keeps(u)
      BY <1>0, <2>1, SharedLock
    <3>2. on' = on /\ kind' = kind /\ pc' = [pc EXCEPT ![t] = "rwlock"]
      BY <1>1, <2>1 DEF LockBig, Goto
    <3>3. Holds(t)'
      BY <1>0, <2>1, <3>1, <3>2 DEF Holds, Past, Running, Extending
    <3> QED  BY <1>0, <1>k, <3>1, <3>2, <3>3, StepKeepsInv
  <2>2. CASE kind[t] = "getattr" /\ lock_unique(t, BigLock) /\ Goto(t, "run")
    <3>1. LockOK' /\ t \in lock'[BigLock].w /\ \A u \in Threads : Keeps(u)
      BY <1>0, <2>2, UniqueLock
    <3>2. on' = on /\ kind' = kind /\ pc' = [pc EXCEPT ![t] = "run"]
      BY <1>1, <2>2 DEF LockBig, Goto
    <3>3. Holds(t)'
      BY <1>0, <2>2, <3>1, <3>2 DEF Holds, Past, Running, Extending
    <3> QED  BY <1>0, <1>k, <3>1, <3>2, <3>3, StepKeepsInv
  <2> QED  BY <1>1, <2>1, <2>2 DEF LockBig
<1>2. CASE LockStatus(t)
  <2>1. LockOK' /\ \A u \in Threads : Keeps(u)
    BY <1>0, <1>2, UniqueLock DEF LockStatus
  <2>2. on' = on /\ kind' = kind /\ pc' = [pc EXCEPT ![t] = "inode"] /\ pc[t] = "rwlock"
    BY <1>2 DEF LockStatus, Goto
  <2>3. Holds(t)'
    BY <1>0, <2>1, <2>2 DEF Holds, Past, Running, Extending, Keeps
  <2> QED  BY <1>0, <1>k, <2>1, <2>2, <2>3, StepKeepsInv
<1>3. CASE LockInode(t)
  <2>1. LockOK' /\ t \in lock'[inode].r /\ \A u \in Threads : Keeps(u)
    BY <1>0, <1>3, SharedLock DEF LockInode, File
  <2>2. on' = on /\ kind' = kind /\ pc[t] = "inode"
    BY <1>3 DEF LockInode
  <2>3. CASE kind[t] = "extend"
    <3>1. pc' = [pc EXCEPT ![t] = "upgrade"]
      BY <1>3, <2>3 DEF LockInode, Goto
    <3>2. Holds(t)'
      BY <1>0, <2>1, <2>2, <2>3, <3>1 DEF Holds, Past, Running, Extending, Keeps
    <3> QED  BY <1>0, <1>k, <2>1, <2>2, <3>1, <3>2, StepKeepsInv
  <2>4. CASE kind[t] # "extend"
    <3>1. pc' = [pc EXCEPT ![t] = "run"]
      BY <1>3, <2>4 DEF LockInode, Goto
    <3>2. Holds(t)'
      BY <1>0, <2>1, <2>2, <2>4, <3>1 DEF Holds, Past, Running, Extending, Keeps
    <3> QED  BY <1>0, <1>k, <2>1, <2>2, <3>1, <3>2, StepKeepsInv
  <2> QED  BY <2>3, <2>4
<1>4. CASE UnlockShared(t)
  <2>1. LockOK' /\ (\A u \in Threads \ {t} : Keeps(u)) /\ \A l \in Locks \ {inode} : lock'[l] = lock[l]
    BY <1>0, <1>4, Unlock DEF UnlockShared, File
  <2>2. on' = on /\ kind' = kind /\ pc' = [pc EXCEPT ![t] = "inode_unique"] /\ pc[t] = "upgrade"
    BY <1>4 DEF UnlockShared, Goto
  <2>3. Holds(t)'
    BY <1>0, <1>n, <2>1, <2>2 DEF Holds, Past, Running, Extending, Keeps
  <2> QED  BY <1>0, <1>k, <2>1, <2>2, <2>3, StepKeepsInv
<1>5. CASE LockInodeUnique(t)
  <2>1. LockOK' /\ t \in lock'[inode].w /\ \A u \in Threads : Keeps(u)
    BY <1>0, <1>5, UniqueLock DEF LockInodeUnique, File
  <2>2. on' = on /\ kind' = kind /\ pc' = [pc EXCEPT ![t] = "alloc"] /\ pc[t] = "inode_unique"
    BY <1>5 DEF LockInodeUnique, Goto
  <2>3. Holds(t)'
    BY <1>0, <1>n, <2>1, <2>2 DEF Holds, Past, Running, Extending, Keeps
  <2> QED  BY <1>0, <1>k, <2>1, <2>2, <2>3, StepKeepsInv
<1>6. CASE LockAlloc(t)
  <2>1. LockOK' /\ \A u \in Threads : Keeps(u)
    BY <1>0, <1>6, UniqueLock DEF LockAlloc
  <2>2. on' = on /\ kind' = kind /\ pc' = [pc EXCEPT ![t] = "insert"] /\ pc[t] = "alloc"
    BY <1>6 DEF LockAlloc, Goto
  <2>3. Holds(t)'
    BY <1>0, <1>n, <2>1, <2>2 DEF Holds, Past, Running, Extending, Keeps
  <2> QED  BY <1>0, <1>k, <2>1, <2>2, <2>3, StepKeepsInv
<1>7. CASE AllocInsert(t)
  <2>1. LockOK' /\ \A u \in Threads : Keeps(u)
    BY <1>0, <1>7 DEF AllocInsert, LockOK, Alone, Keeps
  <2>2. on' = on /\ kind' = kind /\ pc' = [pc EXCEPT ![t] = "run"] /\ pc[t] = "insert"
    BY <1>7 DEF AllocInsert, Goto
  <2>3. Holds(t)'
    BY <1>0, <2>1, <2>2 DEF Holds, Past, Running, Extending, Keeps
  <2> QED  BY <1>0, <1>k, <2>1, <2>2, <2>3, StepKeepsInv
<1>8. CASE GetShared(t)
  <2>1. LockOK' /\ t \in lock'[MLock].r /\ \A u \in Threads : Keeps(u)
    BY <1>0, <1>8, SharedLock DEF GetShared
  <2>2. on' = on /\ kind' = kind /\ pc' = [pc EXCEPT ![t] = "probe"] /\ pc[t] = "run"
    BY <1>8 DEF GetShared, Goto
  <2>3. Holds(t)'
    BY <1>0, <1>n, <2>1, <2>2 DEF Holds, Past, Running, Extending, Keeps
  <2> QED  BY <1>0, <1>k, <2>1, <2>2, <2>3, StepKeepsInv
<1>9. CASE Hit(t)
  <2>1. LockOK' /\ \A u \in Threads : Keeps(u)
    BY <1>0, <1>9 DEF Hit, Got, LockOK, Alone, Keeps
  <2>2. on' = on /\ kind' = kind /\ pc' = [pc EXCEPT ![t] = "copy"] /\ pc[t] = "probe"
    BY <1>9 DEF Hit, Goto, Got
  <2>3. Holds(t)'
    BY <1>0, <1>n, <2>1, <2>2 DEF Holds, Past, Running, Extending, Keeps
  <2> QED  BY <1>0, <1>k, <2>1, <2>2, <2>3, StepKeepsInv
<1>10. CASE Miss(t)
  <2>1. LockOK' /\ (\A u \in Threads \ {t} : Keeps(u)) /\ \A l \in Locks \ {MLock} : lock'[l] = lock[l]
    BY <1>0, <1>10, Unlock DEF Miss
  <2>2. on' = on /\ kind' = kind /\ pc' = [pc EXCEPT ![t] = "miss"] /\ pc[t] = "probe"
    BY <1>10 DEF Miss, Goto
  <2>3. Holds(t)'
    BY <1>0, <1>n, <2>1, <2>2 DEF Holds, Past, Running, Extending, Keeps
  <2> QED  BY <1>0, <1>k, <2>1, <2>2, <2>3, StepKeepsInv
<1>11. CASE GetUnique(t)
  <2>1. LockOK' /\ t \in lock'[MLock].w /\ \A u \in Threads : Keeps(u)
    BY <1>0, <1>11, UniqueLock DEF GetUnique
  <2>2. on' = on /\ kind' = kind /\ pc' = [pc EXCEPT ![t] = "fill"] /\ pc[t] = "miss"
    BY <1>11 DEF GetUnique, Goto
  <2>3. Holds(t)'
    BY <1>0, <1>n, <2>1, <2>2 DEF Holds, Past, Running, Extending, Keeps
  <2> QED  BY <1>0, <1>k, <2>1, <2>2, <2>3, StepKeepsInv
<1>12. CASE Fill(t)
  <2>1. LockOK' /\ \A u \in Threads : Keeps(u)
    BY <1>0, <1>12 DEF Fill, Got, LockOK, Alone, Keeps
  <2>2. on' = on /\ kind' = kind /\ pc' = [pc EXCEPT ![t] = "copy"] /\ pc[t] = "fill"
    BY <1>12 DEF Fill, Goto, Got
  <2>3. Holds(t)'
    BY <1>0, <1>n, <2>1, <2>2 DEF Holds, Past, Running, Extending, Keeps
  <2> QED  BY <1>0, <1>k, <2>1, <2>2, <2>3, StepKeepsInv
<1>13. CASE UsePointer(t)
  BY <1>13, LockInvStutter DEF UsePointer
<1>14. CASE StoreLink(t)
  BY <1>14, LockInvStutter DEF StoreLink
<1>15. CASE Copy(t)
  <2>1. LockOK' /\ (\A u \in Threads \ {t} : Keeps(u)) /\ \A l \in Locks \ {MLock} : lock'[l] = lock[l]
    BY <1>0, <1>15, Unlock DEF Copy
  <2>2. on' = on /\ kind' = kind /\ pc' = [pc EXCEPT ![t] = "run"] /\ pc[t] = "copy"
    BY <1>15 DEF Copy, Goto
  <2>3. Holds(t)'
    BY <1>0, <1>n, <2>1, <2>2 DEF Holds, Past, Running, Extending, Keeps
  <2> QED  BY <1>0, <1>k, <2>1, <2>2, <2>3, StepKeepsInv
<1>16. CASE Modify(t)
  <2>1. LockOK' /\ (\A u \in Threads \ {t} : Keeps(u)) /\ \A l \in Locks \ {AllocLock} : lock'[l] = lock[l]
    BY <1>0, <1>16, Unlock DEF Modify
  <2>2. on' = on /\ kind' = kind /\ pc' = [pc EXCEPT ![t] = "run"] /\ pc[t] = "run"
    BY <1>0, <1>16 DEF Modify
  <2>3. Holds(t)'
    BY <1>0, <1>n, <2>1, <2>2 DEF Holds, Past, Running, Extending, Keeps
  <2> QED  BY <1>0, <1>k, <2>1, <2>2, <2>3, StepKeepsInv
<1>17. CASE Return(t)
  <2>1. LockOK' /\ \A u \in Threads \ {t} : Keeps(u)
    BY <1>0, <1>17, UnlockAll DEF Return
  <2>2. on' = on /\ kind' = [kind EXCEPT ![t] = "none"] /\ pc' = [pc EXCEPT ![t] = "idle"]
    BY <1>17 DEF Return, Goto
  <2>3. Holds(t)'
    BY <1>0, <2>2 DEF Holds, Past, Running, Extending
  <2> QED  BY <1>0, <2>1, <2>2, <2>3, StepKeepsInv
<1> QED
  BY <1>1, <1>2, <1>3, <1>4, <1>5, <1>6, <1>7, <1>8, <1>9, <1>10, <1>11, <1>12, <1>13, <1>14,
     <1>15, <1>16, <1>17 DEF Step

LEMMA LockNext == LockInv /\ [Next]_vars => LockInv'
<1> SUFFICES ASSUME LockInv, [Next]_vars PROVE LockInv'
  OBVIOUS
<1>1. ASSUME NEW t \in Threads, NEW k \in KindsOf[t], Call(t, k) PROVE LockInv'
  <2>1. /\ pc \in [Threads -> Labels] /\ kind \in [Threads -> CallKinds]
        /\ k \in CallKinds /\ "big" \in Labels
    BY <1>1, KindsAssumption DEF LockInv, LockType, Labels, CallKinds
  <2>2. on' = on /\ kind' = [kind EXCEPT ![t] = k] /\ pc' = [pc EXCEPT ![t] = "big"] /\ lock' = lock
    BY <1>1 DEF Call, Goto
  <2>3. LockOK' /\ \A u \in Threads : Keeps(u)
    BY <2>2 DEF LockInv, LockType, LockOK, Alone, Keeps
  <2>4. Holds(t)'
    BY <2>1, <2>2 DEF Holds, Past, Running, Extending
  <2> QED  BY <2>1, <2>2, <2>3, <2>4, StepKeepsInv
<1>2. CASE UNCHANGED vars
  BY <1>2, LockInvStutter DEF vars
<1> QED  BY <1>1, <1>2, LockStep DEF Next

\* The strengthening of CallsExclude holds in every reachable state, with any
\* number of threads.
THEOREM LocksHeld == Spec => []LockInv
BY LockInit, LockNext, PTL DEF Spec

\* Calls that must not run together do not: fuse_write extending a file against
\* fuse_read and fuse_write of it through any handle, the handlers that hold
\* _big_lock alone, and get_block inserting a block from disk.
THEOREM Exclusion == Spec => []CallsExclude
BY LocksHeld, InvExcludes, PTL

(***************************************************************************)
(* The cache.                                                              *)
(***************************************************************************)
In(c) == Range(c.lru)

CacheOK(c) ==
  /\ c = [lru |-> c.lru, dirty |-> c.dirty, mem |-> c.mem, disk |-> c.disk]
  /\ c.lru \in Seq(Blocks)
  /\ IsInjective(c.lru)
  /\ Len(c.lru) <= Size
  /\ c.dirty \subseteq In(c)
  /\ c.mem = [b \in Blocks |-> c.mem[b]]
  /\ c.disk = [b \in Blocks |-> c.disk[b]]

\* What a reader of block b finds; a clean block is as on disk.
Val(c, b) == IF b \in In(c) THEN c.mem[b] ELSE c.disk[b]
CleanOn(c, b) == b \in In(c) /\ b \notin c.dirty => c.mem[b] = c.disk[b]

\* Block b has been used last; a block that left the cache had all the others
\* before it.
Ordered(c, d, b) ==
  /\ \A y, x : IsBefore(d.lru, y, x) => x # b /\ (y = b \/ IsBefore(c.lru, y, x))
  /\ \A x \in In(c) \ In(d) :
       Len(d.lru) = Size /\ \A y \in In(d) : y = b \/ IsBefore(c.lru, y, x)

LEMMA FieldsSet ==
  ASSUME NEW c, c = [lru |-> c.lru, dirty |-> c.dirty, mem |-> c.mem, disk |-> c.disk],
         NEW l, NEW d, NEW m
  PROVE  /\ [c EXCEPT !.lru = l] = [lru |-> l, dirty |-> c.dirty, mem |-> c.mem, disk |-> c.disk]
         /\ [c EXCEPT !.dirty = d] = [lru |-> c.lru, dirty |-> d, mem |-> c.mem, disk |-> c.disk]
         /\ [c EXCEPT !.mem = m] = [lru |-> c.lru, dirty |-> c.dirty, mem |-> m, disk |-> c.disk]
<1>1. PICK x, y, z, w : c = [lru |-> x, dirty |-> y, mem |-> z, disk |-> w]
  OBVIOUS
<1>2. c.lru = x /\ c.dirty = y /\ c.mem = z /\ c.disk = w
  BY <1>1
<1>3. [c EXCEPT !.lru = l] = [lru |-> l, dirty |-> y, mem |-> z, disk |-> w]
  BY <1>1
<1>4. [c EXCEPT !.dirty = d] = [lru |-> x, dirty |-> d, mem |-> z, disk |-> w]
  BY <1>1
<1>5. [c EXCEPT !.mem = m] = [lru |-> x, dirty |-> y, mem |-> m, disk |-> w]
  BY <1>1
<1> QED  BY <1>2, <1>3, <1>4, <1>5

LEMMA CachedIn ==
  ASSUME NEW c, CacheOK(c), NEW b
  PROVE  Cached(c, b) <=> b \in In(c)
BY DEF Cached, In

LEMMA Touched ==
  ASSUME NEW c, CacheOK(c), NEW b \in In(c)
  PROVE  /\ CacheOK(Touch(c, b)) /\ In(Touch(c, b)) = In(c) /\ Ordered(c, Touch(c, b), b)
         /\ Touch(c, b).dirty = c.dirty /\ Touch(c, b).mem = c.mem /\ Touch(c, b).disk = c.disk
<1> DEFINE l == MoveToFront(c.lru, b)
<1>1. /\ l \in Seq(Blocks) /\ IsInjective(l) /\ Len(l) = Len(c.lru) /\ Range(l) = Range(c.lru)
      /\ \A y, x : IsBefore(l, y, x) => x # b /\ (y = b \/ IsBefore(c.lru, y, x))
  BY MoveFront DEF CacheOK, In
<1>2. Touch(c, b) = [lru |-> l, dirty |-> c.dirty, mem |-> c.mem, disk |-> c.disk]
  BY FieldsSet DEF Touch, CacheOK
<1> HIDE DEF l
<1>3. Touch(c, b).lru = l /\ CacheOK(Touch(c, b)) /\ In(Touch(c, b)) = In(c)
  BY <1>1, <1>2 DEF CacheOK, In
<1>4. Ordered(c, Touch(c, b), b)
  BY <1>1, <1>3 DEF Ordered
<1> QED  BY <1>2, <1>3, <1>4

LEMMA Marked ==
  ASSUME NEW c, CacheOK(c), NEW b \in In(c), NEW w \in BOOLEAN
  PROVE  /\ CacheOK(Mark(c, b, w)) /\ In(Mark(c, b, w)) = In(c)
         /\ Mark(c, b, w).dirty = (IF w THEN c.dirty \cup {b} ELSE c.dirty)
         /\ Mark(c, b, w).mem = c.mem /\ Mark(c, b, w).disk = c.disk
         /\ Mark(c, b, w).lru = c.lru
<1> DEFINE d == IF w THEN c.dirty \cup {b} ELSE c.dirty
<1>1. Mark(c, b, w) = [lru |-> c.lru, dirty |-> d, mem |-> c.mem, disk |-> c.disk]
  BY FieldsSet DEF Mark, CacheOK
<1>2. d \subseteq In(c)
  BY DEF CacheOK
<1> HIDE DEF d
<1>3. CacheOK(Mark(c, b, w)) /\ In(Mark(c, b, w)) = In(c)
  BY <1>1, <1>2 DEF CacheOK, In
<1> QED  BY <1>1, <1>3 DEF d

LEMMA Evicted ==
  ASSUME NEW c, CacheOK(c), c.lru # << >>
  PROVE  \E e \in In(c) :
           /\ CacheOK(Evict(c)) /\ Len(Evict(c).lru) = Len(c.lru) - 1
           /\ In(Evict(c)) = In(c) \ {e} /\ Evict(c).dirty = c.dirty \ {e}
           /\ Evict(c).mem = c.mem
           /\ \A x \in Blocks : Evict(c).disk[x] = IF x = e /\ e \in c.dirty THEN c.mem[e] ELSE c.disk[x]
           /\ \A y, x : IsBefore(Evict(c).lru, y, x) => IsBefore(c.lru, y, x)
           /\ \A y \in In(Evict(c)) : IsBefore(c.lru, y, e)
<1> DEFINE e == c.lru[Len(c.lru)]
           l == SubSeq(c.lru, 1, Len(c.lru) - 1)
           k == IF e \in c.dirty THEN [c.disk EXCEPT ![e] = c.mem[e]] ELSE c.disk
<1>1. /\ l \in Seq(Blocks) /\ IsInjective(l) /\ Len(l) = Len(c.lru) - 1
      /\ e \in In(c) /\ Range(l) = In(c) \ {e}
      /\ \A y, x : IsBefore(l, y, x) => IsBefore(c.lru, y, x)
      /\ \A y \in Range(l) : IsBefore(c.lru, y, e)
  BY DropLast DEF CacheOK, In
<1>2. Evict(c) = [lru |-> l, dirty |-> c.dirty \ {e}, mem |-> c.mem, disk |-> k]
  BY DEF Evict
<1>3. /\ k = [b \in Blocks |-> k[b]]
      /\ \A x \in Blocks : k[x] = IF x = e /\ e \in c.dirty THEN c.mem[e] ELSE c.disk[x]
  BY DEF CacheOK
<1>4. Len(c.lru) \in Nat /\ Len(l) <= Size
  BY <1>1, SeqOf, SizeAssumption DEF CacheOK
<1> HIDE DEF l, k, e
<1>5. CacheOK(Evict(c)) /\ In(Evict(c)) = In(c) \ {e}
  BY <1>1, <1>2, <1>3, <1>4 DEF CacheOK, In
<1>6. Evict(c).lru = l /\ Evict(c).dirty = c.dirty \ {e} /\ Evict(c).mem = c.mem /\ Evict(c).disk = k
  BY <1>2
<1>7. /\ \A y, x : IsBefore(Evict(c).lru, y, x) => IsBefore(c.lru, y, x)
      /\ \A y \in In(Evict(c)) : IsBefore(c.lru, y, e)
  <2>1. In(Evict(c)) = Range(l) /\ Evict(c).lru = l
    BY <1>1, <1>5, <1>6
  <2> QED  BY <1>1, <2>1
<1>8. /\ CacheOK(Evict(c)) /\ Len(Evict(c).lru) = Len(c.lru) - 1
      /\ In(Evict(c)) = In(c) \ {e} /\ Evict(c).dirty = c.dirty \ {e}
      /\ Evict(c).mem = c.mem
      /\ \A x \in Blocks : Evict(c).disk[x] = IF x = e /\ e \in c.dirty THEN c.mem[e] ELSE c.disk[x]
  BY <1>1, <1>3, <1>5, <1>6
<1>9. e \in In(c)
  BY <1>1
<1> QED  BY <1>7, <1>8, <1>9

\* Room for one more block.
Room(c) == IF Len(c.lru) = Size THEN Evict(c) ELSE c

LEMMA RoomMade ==
  ASSUME NEW c, CacheOK(c)
  PROVE  /\ CacheOK(Room(c)) /\ Len(Room(c).lru) < Size
         /\ In(Room(c)) \subseteq In(c) /\ Room(c).mem = c.mem
         /\ \A x \in Blocks :
              /\ CleanOn(c, x) => Val(Room(c), x) = Val(c, x) /\ CleanOn(Room(c), x)
              /\ Room(c).disk[x] \in {c.mem[x], c.disk[x]}
              /\ x \notin In(c) => Room(c).disk[x] = c.disk[x]
              /\ x \in In(Room(c)) /\ x \in c.dirty => x \in Room(c).dirty
         /\ \A y, x : IsBefore(Room(c).lru, y, x) => IsBefore(c.lru, y, x)
         /\ \A x \in In(c) \ In(Room(c)) :
              Len(Room(c).lru) + 1 = Size /\ \A y \in In(Room(c)) : IsBefore(c.lru, y, x)
<1>0. Len(c.lru) \in Nat /\ Len(c.lru) <= Size /\ Size \in Nat \ {0}
  BY SeqOf, SizeAssumption DEF CacheOK
<1>1. CASE Len(c.lru) # Size
  BY <1>0, <1>1 DEF Room
<1>2. CASE Len(c.lru) = Size
  <2>1. c.lru # << >>
    BY <1>0, <1>2
  <2>2. PICK e \in In(c) :
           /\ CacheOK(Evict(c)) /\ Len(Evict(c).lru) = Len(c.lru) - 1
           /\ In(Evict(c)) = In(c) \ {e} /\ Evict(c).dirty = c.dirty \ {e}
           /\ Evict(c).mem = c.mem
           /\ \A x \in Blocks : Evict(c).disk[x] = IF x = e /\ e \in c.dirty THEN c.mem[e] ELSE c.disk[x]
           /\ \A y, x : IsBefore(Evict(c).lru, y, x) => IsBefore(c.lru, y, x)
           /\ \A y \in In(Evict(c)) : IsBefore(c.lru, y, e)
    BY <2>1, Evicted
  <2>3. Room(c) = Evict(c)
    BY <1>2 DEF Room
  <2>4. ASSUME NEW x \in Blocks, CleanOn(c, x)
        PROVE  Val(Evict(c), x) = Val(c, x) /\ CleanOn(Evict(c), x)
    BY <2>2, <2>4 DEF Val, CleanOn
  <2>5. Len(Evict(c).lru) < Size
    BY <1>0, <1>2, <2>2
  <2>6. \A x \in Blocks : /\ Evict(c).disk[x] \in {c.mem[x], c.disk[x]}
                          /\ x \notin In(c) => Evict(c).disk[x] = c.disk[x]
                          /\ x \in In(Evict(c)) /\ x \in c.dirty => x \in Evict(c).dirty
    BY <2>2
  <2>7. \A x \in In(c) \ In(Evict(c)) :
          Len(Evict(c).lru) + 1 = Size /\ \A y \in In(Evict(c)) : IsBefore(c.lru, y, x)
    BY <1>0, <1>2, <2>2
  <2> QED  BY <2>2, <2>3, <2>4, <2>5, <2>6, <2>7
<1> QED  BY <1>1, <1>2

LEMMA Inserted ==
  ASSUME NEW c, CacheOK(c), NEW b \in Blocks \ In(c), NEW v, NEW w \in BOOLEAN
  PROVE  /\ CacheOK(Insert(c, b, v, w)) /\ b \in In(Insert(c, b, v, w))
         /\ In(Insert(c, b, v, w)) \subseteq In(c) \cup {b}
         /\ w => b \in Insert(c, b, v, w).dirty
         /\ \A x \in Blocks \ {b} :
              /\ CleanOn(c, x) => Val(Insert(c, b, v, w), x) = Val(c, x)
                                  /\ CleanOn(Insert(c, b, v, w), x)
              /\ Insert(c, b, v, w).mem[x] = c.mem[x]
              /\ Insert(c, b, v, w).disk[x] \in {c.mem[x], c.disk[x]}
              /\ x \in In(Insert(c, b, v, w)) /\ x \in c.dirty => x \in Insert(c, b, v, w).dirty
         /\ Ordered(c, Insert(c, b, v, w), b)
         /\ b \in Blocks => Insert(c, b, v, w).mem[b] = v /\ Insert(c, b, v, w).disk[b] = c.disk[b]
<1> DEFINE r == Room(c)
           l == <<b>> \o r.lru
           m == [r.mem EXCEPT ![b] = v]
           i == [lru |-> l, dirty |-> r.dirty, mem |-> m, disk |-> r.disk]
           d == Insert(c, b, v, w)
<1>1. /\ CacheOK(r) /\ Len(r.lru) < Size
      /\ In(r) \subseteq In(c) /\ r.mem = c.mem
      /\ \A x \in Blocks :
              /\ CleanOn(c, x) => Val(r, x) = Val(c, x) /\ CleanOn(r, x)
              /\ r.disk[x] \in {c.mem[x], c.disk[x]}
              /\ x \notin In(c) => r.disk[x] = c.disk[x]
              /\ x \in In(r) /\ x \in c.dirty => x \in r.dirty
      /\ \A y, x : IsBefore(r.lru, y, x) => IsBefore(c.lru, y, x)
      /\ \A x \in In(c) \ In(r) :
           Len(r.lru) + 1 = Size /\ \A y \in In(r) : IsBefore(c.lru, y, x)
  BY RoomMade
<1>2. d = Mark(i, b, w)
  BY DEF Insert, Room
<1> HIDE DEF d, r
<1>3. r.lru \in Seq(Blocks) /\ IsInjective(r.lru) /\ b \in Blocks /\ b \notin Range(r.lru)
  BY <1>1 DEF CacheOK, In
<1>4. /\ l \in Seq(Blocks) /\ IsInjective(l) /\ Len(l) = Len(r.lru) + 1 /\ Range(l) = In(r) \cup {b}
      /\ \A y, x : IsBefore(l, y, x) => x # b /\ (y = b \/ IsBefore(r.lru, y, x))
  BY <1>3, PushFront DEF In
<1>5. /\ m = [x \in Blocks |-> m[x]] /\ \A x \in Blocks \ {b} : m[x] = c.mem[x]
      /\ b \in Blocks => m[b] = v
  BY <1>1 DEF CacheOK
<1>6. Len(l) <= Size
  <2>1. Len(r.lru) \in Nat
    BY <1>3, SeqOf
  <2> QED  BY <1>1, <1>4, <2>1, SizeAssumption
<1> HIDE DEF l, m
<1>7. i.lru = l /\ i.dirty = r.dirty /\ i.mem = m /\ i.disk = r.disk
      /\ i = [lru |-> i.lru, dirty |-> i.dirty, mem |-> i.mem, disk |-> i.disk]
  OBVIOUS
<1> HIDE DEF i
<1>8. CacheOK(i) /\ In(i) = In(r) \cup {b}
  BY <1>1, <1>4, <1>5, <1>6, <1>7 DEF CacheOK, In
<1>9. /\ CacheOK(d) /\ In(d) = In(r) \cup {b}
      /\ d.dirty = (IF w THEN r.dirty \cup {b} ELSE r.dirty) /\ d.mem = m /\ d.disk = r.disk
      /\ d.lru = l
  <2>1. b \in In(i)
    BY <1>8
  <2>2. /\ CacheOK(Mark(i, b, w)) /\ In(Mark(i, b, w)) = In(i)
        /\ Mark(i, b, w).dirty = (IF w THEN i.dirty \cup {b} ELSE i.dirty)
        /\ Mark(i, b, w).mem = i.mem /\ Mark(i, b, w).disk = i.disk /\ Mark(i, b, w).lru = i.lru
    BY <1>8, <2>1, Marked
  <2> QED  BY <1>2, <1>7, <1>8, <2>2
<1>10. ASSUME NEW x \in Blocks \ {b}, CleanOn(c, x)
       PROVE  Val(d, x) = Val(c, x) /\ CleanOn(d, x)
  <2>1. Val(r, x) = Val(c, x) /\ CleanOn(r, x)
    BY <1>1, <1>10
  <2>2. (x \in In(d) <=> x \in In(r)) /\ (x \in d.dirty <=> x \in r.dirty)
        /\ d.mem[x] = r.mem[x] /\ d.disk[x] = r.disk[x]
    BY <1>1, <1>5, <1>9
  <2> QED  BY <2>1, <2>2 DEF Val, CleanOn
<1>11. /\ b \in In(d) /\ In(d) \subseteq In(c) \cup {b} /\ (w => b \in d.dirty)
       /\ \A x \in Blocks \ {b} : /\ d.mem[x] = c.mem[x] /\ d.disk[x] \in {c.mem[x], c.disk[x]}
                                  /\ x \in In(d) /\ x \in c.dirty => x \in d.dirty
       /\ b \in Blocks => d.mem[b] = v /\ d.disk[b] = c.disk[b]
  BY <1>1, <1>5, <1>9
<1>12. Ordered(c, d, b)
  <2>1. \A y, x : IsBefore(d.lru, y, x) => x # b /\ (y = b \/ IsBefore(c.lru, y, x))
    BY <1>1, <1>4, <1>9
  <2>2. \A x \in In(c) \ In(d) : Len(d.lru) = Size /\ \A y \in In(d) : y = b \/ IsBefore(c.lru, y, x)
    BY <1>1, <1>4, <1>9
  <2> QED  BY <2>1, <2>2 DEF Ordered
<1> QED  BY <1>9, <1>10, <1>11, <1>12 DEF d

\* get_block has turned cache c into d: block b is there, marked if w; every
\* block has the content it had.
Fetches(c, d, b, w) ==
  /\ CacheOK(d) /\ b \in In(d) /\ In(d) \subseteq In(c) \cup {b}
  /\ w => b \in d.dirty
  /\ \A x \in Blocks :
       /\ CleanOn(c, x) => Val(d, x) = Val(c, x) /\ CleanOn(d, x)
       /\ d.mem[x] \in {c.mem[x], c.disk[x]}
       /\ d.disk[x] \in {c.mem[x], c.disk[x]}
       /\ x \in In(c) => d.mem[x] = c.mem[x]
       /\ x \in In(d) /\ x \in c.dirty => x \in d.dirty
  /\ Ordered(c, d, b)

LEMMA GotCached ==
  ASSUME NEW c, CacheOK(c), NEW b \in In(c), NEW w \in BOOLEAN
  PROVE  Fetches(c, Mark(Touch(c, b), b, w), b, w) /\ Fetches(c, Touch(c, b), b, FALSE)
<1>1. PICK d : d = Touch(c, b)
  OBVIOUS
<1>2. /\ CacheOK(d) /\ In(d) = In(c) /\ d.dirty = c.dirty /\ d.mem = c.mem /\ d.disk = c.disk
      /\ Ordered(c, d, b)
  BY <1>1, Touched
<1>3. Fetches(c, d, b, FALSE)
  BY <1>2 DEF Fetches, Val, CleanOn
<1>4. PICK e : e = Mark(d, b, w)
  OBVIOUS
<1>5. CacheOK(e) /\ In(e) = In(c) /\ e.dirty = (IF w THEN c.dirty \cup {b} ELSE c.dirty)
      /\ e.mem = c.mem /\ e.disk = c.disk /\ Ordered(c, e, b)
  <2>1. CacheOK(d) /\ b \in In(d)
    BY <1>2
  <2>2. /\ CacheOK(e) /\ In(e) = In(d)
        /\ e.dirty = (IF w THEN d.dirty \cup {b} ELSE d.dirty)
        /\ e.mem = d.mem /\ e.disk = d.disk /\ e.lru = d.lru
    BY <1>4, <2>1, Marked
  <2>3. Ordered(c, e, b)
    BY <1>2, <2>2 DEF Ordered
  <2> QED  BY <1>2, <2>2, <2>3
<1>6. \A x \in Blocks : CleanOn(c, x) => Val(e, x) = Val(c, x) /\ CleanOn(e, x)
  BY <1>5 DEF Val, CleanOn
<1>7. Fetches(c, e, b, w)
  <2>1. CacheOK(e) /\ b \in In(e) /\ In(e) \subseteq In(c) \cup {b} /\ (w => b \in e.dirty)
    BY <1>5
  <2>2. \A x \in Blocks : /\ e.mem[x] \in {c.mem[x], c.disk[x]} /\ e.disk[x] \in {c.mem[x], c.disk[x]}
                          /\ e.mem[x] = c.mem[x] /\ (x \in c.dirty => x \in e.dirty)
    BY <1>5
  <2> QED  BY <1>5, <1>6, <2>1, <2>2 DEF Fetches
<1> QED  BY <1>1, <1>3, <1>4, <1>7

LEMMA GotFromDisk ==
  ASSUME NEW c, CacheOK(c), NEW b \in Blocks \ In(c), NEW w \in BOOLEAN
  PROVE  Fetches(c, Insert(c, b, c.disk[b], w), b, w)
<1>1. PICK d : d = Insert(c, b, c.disk[b], w)
  OBVIOUS
<1>2. /\ CacheOK(d) /\ b \in In(d) /\ In(d) \subseteq In(c) \cup {b} /\ (w => b \in d.dirty)
      /\ \A x \in Blocks \ {b} :
              /\ CleanOn(c, x) => Val(d, x) = Val(c, x) /\ CleanOn(d, x)
              /\ d.mem[x] = c.mem[x]
              /\ d.disk[x] \in {c.mem[x], c.disk[x]}
              /\ x \in In(d) /\ x \in c.dirty => x \in d.dirty
      /\ Ordered(c, d, b)
      /\ b \in Blocks => d.mem[b] = c.disk[b] /\ d.disk[b] = c.disk[b]
  BY <1>1, Inserted
<1>3. b \in Blocks => Val(d, b) = Val(c, b) /\ CleanOn(d, b)
  BY <1>2 DEF Val, CleanOn
<1>4. b \notin c.dirty
  BY DEF CacheOK
<1> QED  BY <1>1, <1>2, <1>3, <1>4 DEF Fetches

(***************************************************************************)
(* Blocks that calls know, and the cache that holds them.                  *)
(***************************************************************************)
Ops == [op : {"get", "use", "link", "modify"}, b : Blocks, w : BOOLEAN]
Ptrs == {PtrBlock(f) : f \in Files}

\* The blocks that calls have come to know: the first ones and the new ones.
Known == {DirBlock} \cup Ptrs \cup {DataBlock(t) : t \in Threads} \cup Allocated

\* An operation of thread t when the blocks of A are allocated: on the block of
\* the directory, on an indirect block, which is never gotten to be written, on
\* its own data, on a new block.
OpOK(t, o, A) ==
  /\ o.b \in {DirBlock, DataBlock(t)} \cup Ptrs \cup A
  /\ o.w => o.b \notin Ptrs
  /\ o.op \in {"link", "modify"} => o.b = PtrBlock(File(t))

\* A link is to be stored, or its block to be marked.
Links(s) == \E o \in Range(s) : o.op \in {"link", "modify"}

\* The link is stored and its block is to be marked.
Marking(s) == s # << >> /\ Head(s).op = "modify"

\* A Block is used right after it was gotten, and marked right after a link was
\* stored in it.
Chained(s) ==
  /\ \A i \in 1 .. Len(s) : s[i].op = "link" => i + 1 \in 1 .. Len(s) /\ s[i + 1].op = "modify"
  /\ \A i \in 1 .. Len(s) - 1 :
       s[i + 1].op # "get" =>
         s[i + 1].b = s[i].b /\ s[i].op = IF s[i + 1].op = "modify" THEN "link" ELSE "get"

\* Thread t at label l of a call of kind k, with the operations s to do.
CallOK(t, l, k, s, A) ==
  /\ s \in Seq(Ops)
  /\ \A o \in Range(s) : OpOK(t, o, A)
  /\ l \notin {"run", "probe", "miss", "fill", "copy"} => s = << >>
  /\ l \in {"probe", "miss", "fill", "copy"} => s # << >> /\ Head(s).op = "get"
  /\ Links(s) => k = "extend"
  /\ Chained(s)

\* A thread that is to use a Block has it.
PtrOK(l, s, p) ==
  /\ p \in Blocks \cup {NoBlock}
  /\ l = "copy" => p = Head(s).b
  /\ l = "run" /\ s # << >> /\ Head(s).op # "get" => p = Head(s).b

AllocInv ==
  /\ linked = [f \in Files |-> linked[f]]
  /\ Allocated \subseteq {NewBlock(k) : k \in 1 .. MaxNew}

CallsInv ==
  /\ todo \in [Threads -> Seq(Ops)]
  /\ ptr \in [Threads -> Blocks \cup {NoBlock}]
  /\ \A t \in Threads : CallOK(t, pc[t], kind[t], todo[t], Allocated) /\ PtrOK(pc[t], todo[t], ptr[t])

BlocksInv == CacheOK(Cache) /\ In(Cache) \subseteq Known /\ AllocInv /\ CallsInv

LEMMA NewBlocks ==
  ASSUME AllocInv, NEW k \in 1 .. MaxNew, NewBlock(k) \notin Allocated
  PROVE  NewBlock(k) \in Blocks \ Known
<1>1. NewBlock(k) \notin {DirBlock} \cup Ptrs \cup {DataBlock(t) : t \in Threads}
  BY DEF NewBlock, DirBlock, Ptrs, PtrBlock, DataBlock
<1>2. NewBlock(k) \in Blocks
  BY DEF Blocks
<1> QED  BY <1>1, <1>2 DEF Known

LEMMA TailParts ==
  ASSUME NEW S, NEW s \in Seq(S), s # << >>
  PROVE  Tail(s) \in Seq(S) /\ Head(s) \in S /\ Range(s) = {Head(s)} \cup Range(Tail(s))
<1>1. PICK n \in Nat \ {0} : Len(s) = n /\ DOMAIN s = 1 .. n
  BY SeqOf
<1> DEFINE r == Tail(s)
<1>2. /\ Head(s) \in S /\ Head(s) = s[1]
      /\ r \in Seq(S) /\ Len(r) = n - 1 /\ \A j \in 1 .. Len(r) : r[j] = s[j + 1]
  BY <1>1, TailOf
<1> HIDE DEF r
<1>3. DOMAIN r = 1 .. n - 1 /\ \A j \in 1 .. n - 1 : r[j] = s[j + 1]
  BY <1>2, SeqOf
<1>4. \A j \in 1 .. n : s[j] \in {s[1]} \cup Range(r)
  <2> SUFFICES ASSUME NEW j \in 1 .. n, j # 1 PROVE s[j] \in Range(r)
    OBVIOUS
  <2>1. j - 1 \in 1 .. n - 1 /\ (j - 1) + 1 = j
    BY <1>1
  <2>2. r[j - 1] = s[j]
    BY <1>3, <2>1
  <2> QED  BY <1>3, <2>1, <2>2 DEF Range
<1>5. \A j \in 1 .. n - 1 : r[j] \in Range(s)
  <2> SUFFICES ASSUME NEW j \in 1 .. n - 1 PROVE r[j] \in Range(s)
    OBVIOUS
  <2>1. j + 1 \in 1 .. n /\ r[j] = s[j + 1]
    BY <1>1, <1>3
  <2> QED  BY <1>1, <2>1 DEF Range
<1>6. s[1] \in Range(s)
  BY <1>1 DEF Range
<1>7. Range(s) = {s[1]} \cup Range(r)
  BY <1>1, <1>3, <1>4, <1>5, <1>6 DEF Range
<1> QED  BY <1>2, <1>7 DEF r

LEMMA ConcatParts ==
  ASSUME NEW S, NEW s \in Seq(S), NEW q \in Seq(S)
  PROVE  s \o q \in Seq(S) /\ Range(s \o q) = Range(s) \cup Range(q)
<1>1. PICK m \in Nat : Len(s) = m /\ DOMAIN s = 1 .. m
  BY SeqOf
<1>2. PICK n \in Nat : Len(q) = n /\ DOMAIN q = 1 .. n
  BY SeqOf
<1> DEFINE r == s \o q
<1>3. /\ r \in Seq(S) /\ Len(r) = m + n
      /\ \A j \in 1 .. m + n : r[j] = IF j <= m THEN s[j] ELSE q[j - m]
  BY <1>1, <1>2, ConcatOf
<1> HIDE DEF r
<1>4. DOMAIN r = 1 .. m + n
  BY <1>3, SeqOf
<1>5. ASSUME NEW j \in 1 .. m + n PROVE r[j] \in Range(s) \cup Range(q)
  <2>1. CASE j <= m
    <3>1. j \in 1 .. m /\ r[j] = s[j]
      BY <1>3, <2>1
    <3> QED  BY <1>1, <3>1 DEF Range
  <2>2. CASE ~(j <= m)
    <3>1. j - m \in 1 .. n /\ r[j] = q[j - m]
      BY <1>3, <2>2
    <3> QED  BY <1>2, <3>1 DEF Range
  <2> QED  BY <2>1, <2>2
<1>6. ASSUME NEW j \in 1 .. m PROVE s[j] \in Range(r)
  <2>1. j \in 1 .. m + n /\ j <= m
    OBVIOUS
  <2>2. r[j] = s[j]
    BY <1>3, <2>1
  <2> QED  BY <1>4, <2>1, <2>2 DEF Range
<1>7. ASSUME NEW j \in 1 .. n PROVE q[j] \in Range(r)
  <2>1. j + m \in 1 .. m + n /\ ~(j + m <= m) /\ (j + m) - m = j
    OBVIOUS
  <2>2. r[j + m] = q[j]
    BY <1>3, <2>1
  <2> QED  BY <1>4, <2>1, <2>2 DEF Range
<1>8. Range(r) \subseteq Range(s) \cup Range(q)
  BY <1>4, <1>5 DEF Range
<1>9. Range(s) \subseteq Range(r) /\ Range(q) \subseteq Range(r)
  BY <1>1, <1>2, <1>6, <1>7 DEF Range
<1> QED  BY <1>3, <1>8, <1>9 DEF r

LEMMA PairParts ==
  ASSUME NEW S, NEW a \in S, NEW b \in S
  PROVE  <<a, b>> \in Seq(S) /\ Range(<<a, b>>) = {a, b}
BY DEF Range

LEMMA TripleParts ==
  ASSUME NEW S, NEW a \in S, NEW b \in S, NEW c \in S
  PROVE  <<a, b, c>> \in Seq(S) /\ Range(<<a, b, c>>) = {a, b, c}
BY DEF Range

LEMMA ChainTail ==
  ASSUME NEW s \in Seq(Ops), s # << >>, Chained(s)
  PROVE  /\ Chained(Tail(s))
         /\ Head(s).op = "link" => Marking(Tail(s))
         /\ Tail(s) # << >> /\ Head(Tail(s)).op # "get" =>
              /\ Head(Tail(s)).b = Head(s).b
              /\ Head(s).op = IF Head(Tail(s)).op = "modify" THEN "link" ELSE "get"
         /\ (Len(s) > 1 /\ s[2].op # "get") <=> (Tail(s) # << >> /\ Head(Tail(s)).op # "get")
<1>1. PICK n \in Nat \ {0} : Len(s) = n
  BY SeqOf
<1> DEFINE r == Tail(s)
<1>2. Head(s) = s[1] /\ r \in Seq(Ops) /\ Len(r) = n - 1 /\ \A j \in 1 .. n - 1 : r[j] = s[j + 1]
  BY <1>1, TailOf
<1> HIDE DEF r
<1>3. (r = << >> <=> n = 1) /\ (r # << >> => Head(r) = r[1])
  BY <1>1, <1>2, SeqOf, TailOf
<1>4. r # << >> => n > 1 /\ Head(r) = s[2]
  BY <1>1, <1>2, <1>3
<1>5. Chained(r)
  <2>1. ASSUME NEW i \in 1 .. n - 1, r[i].op = "link"
        PROVE  i + 1 \in 1 .. n - 1 /\ r[i + 1].op = "modify"
    <3>1. i + 1 \in 1 .. n /\ r[i] = s[i + 1]
      BY <1>1, <1>2
    <3>2. (i + 1) + 1 \in 1 .. n /\ s[(i + 1) + 1].op = "modify"
      BY <1>1, <2>1, <3>1 DEF Chained
    <3>3. i + 1 \in 1 .. n - 1
      BY <3>2
    <3> QED  BY <1>2, <3>2, <3>3
  <2>2. ASSUME NEW i \in 1 .. (n - 1) - 1, r[i + 1].op # "get"
        PROVE  r[i + 1].b = r[i].b /\ r[i].op = IF r[i + 1].op = "modify" THEN "link" ELSE "get"
    <3>1. i + 1 \in 1 .. n - 1 /\ i \in 1 .. n - 1
      OBVIOUS
    <3>2. r[i] = s[i + 1] /\ r[i + 1] = s[(i + 1) + 1]
      BY <1>2, <3>1
    <3> QED  BY <1>1, <2>2, <3>1, <3>2 DEF Chained
  <2> QED  BY <1>2, <2>1, <2>2 DEF Chained
<1>6. Head(s).op = "link" => r # << >> /\ Head(r).op = "modify"
  <2> SUFFICES ASSUME s[1].op = "link" PROVE r # << >> /\ Head(r).op = "modify"
    BY <1>2
  <2>1. 1 + 1 \in 1 .. n /\ s[1 + 1].op = "modify"
    BY <1>1 DEF Chained
  <2> QED  BY <1>3, <1>4, <2>1
<1>7. ASSUME r # << >>, Head(r).op # "get"
      PROVE  Head(r).b = Head(s).b /\ Head(s).op = IF Head(r).op = "modify" THEN "link" ELSE "get"
  <2>1. 1 \in 1 .. n - 1 /\ s[1 + 1] = Head(r)
    BY <1>1, <1>4, <1>7
  <2> QED  BY <1>1, <1>2, <1>7, <2>1 DEF Chained
<1>8. (n > 1 /\ s[2].op # "get") <=> (r # << >> /\ Head(r).op # "get")
  BY <1>3, <1>4
<1> QED  BY <1>1, <1>5, <1>6, <1>7, <1>8 DEF r, Marking

\* The rest of the operations is as good as the operations.
LEMMA RestOK ==
  ASSUME NEW t, NEW l, NEW k, NEW s, NEW A, CallOK(t, l, k, s, A), s # << >>
  PROVE  /\ Head(s) \in Ops /\ OpOK(t, Head(s), A)
         /\ CallOK(t, "run", k, Tail(s), A)
         /\ Head(s).op \notin {"link", "modify"} => (Links(Tail(s)) <=> Links(s))
         /\ Head(s).op = "link" => Marking(Tail(s)) /\ Links(Tail(s))
         /\ Head(s).op # "link" => ~Marking(Tail(s))
         /\ Head(s).op \in {"use", "modify"} => Tail(s) = << >> \/ Head(Tail(s)).op = "get"
         /\ Tail(s) # << >> /\ Head(Tail(s)).op # "get" => Head(Tail(s)).b = Head(s).b
         /\ (Len(s) > 1 /\ s[2].op # "get") <=> (Tail(s) # << >> /\ Head(Tail(s)).op # "get")
<1>1. Tail(s) \in Seq(Ops) /\ Head(s) \in Ops /\ Range(s) = {Head(s)} \cup Range(Tail(s))
  BY TailParts DEF CallOK
<1>2. /\ Chained(Tail(s))
      /\ Head(s).op = "link" => Marking(Tail(s))
      /\ Tail(s) # << >> /\ Head(Tail(s)).op # "get" =>
           /\ Head(Tail(s)).b = Head(s).b
           /\ Head(s).op = IF Head(Tail(s)).op = "modify" THEN "link" ELSE "get"
      /\ (Len(s) > 1 /\ s[2].op # "get") <=> (Tail(s) # << >> /\ Head(Tail(s)).op # "get")
  BY ChainTail DEF CallOK
<1>3. PICK h, r : h = Head(s) /\ r = Tail(s)
  OBVIOUS
<1>4. CallOK(t, "run", k, r, A) /\ OpOK(t, h, A)
  BY <1>1, <1>2, <1>3 DEF CallOK, Links
<1>5. h.op \notin {"link", "modify"} => (Links(r) <=> Links(s))
  BY <1>1, <1>3 DEF Links
<1>6. h.op = "link" => Marking(r) /\ Links(r)
  <2> SUFFICES ASSUME h.op = "link" PROVE Marking(r) /\ Links(r)
    OBVIOUS
  <2>1. Marking(r)
    BY <1>2, <1>3
  <2>2. Head(r) \in Range(r)
    BY <1>1, <1>3, <2>1, TailParts DEF Marking
  <2> QED  BY <2>1, <2>2 DEF Marking, Links
<1>7. (h.op # "link" => ~Marking(r)) /\ (h.op \in {"use", "modify"} => r = << >> \/ Head(r).op = "get")
  BY <1>2, <1>3 DEF Marking
<1> QED  BY <1>1, <1>2, <1>3, <1>4, <1>5, <1>6, <1>7

\* A step of thread t: its call and its Block.
Moves(t, l, k, s, p) ==
  /\ ~Undefined
  /\ on' = on
  /\ pc' = [pc EXCEPT ![t] = l] /\ kind' = [kind EXCEPT ![t] = k] /\ todo' = [todo EXCEPT ![t] = s]
  /\ ptr' = [ptr EXCEPT ![t] = p]
  /\ CallOK(t, l, k, s, Allocated') /\ PtrOK(l, s, p)

\* The other calls are as good as they were when only more blocks are known.
LEMMA CallsMoved ==
  ASSUME LockType, CallsInv, NEW t \in Threads, NEW l, NEW k, NEW s, NEW p,
         Moves(t, l, k, s, p), Allocated \subseteq Allocated'
  PROVE  /\ CallsInv'
         /\ \A u \in Threads : /\ pc'[u] = IF u = t THEN l ELSE pc[u]
                               /\ todo'[u] = IF u = t THEN s ELSE todo[u]
                               /\ ptr'[u] = IF u = t THEN p ELSE ptr[u]
<1>1. pc \in [Threads -> Labels] /\ kind \in [Threads -> CallKinds] /\ todo \in [Threads -> Seq(Ops)]
      /\ ptr \in [Threads -> Blocks \cup {NoBlock}]
  BY DEF LockType, CallsInv
<1>2. /\ pc' = [pc EXCEPT ![t] = l] /\ kind' = [kind EXCEPT ![t] = k] /\ todo' = [todo EXCEPT ![t] = s]
      /\ ptr' = [ptr EXCEPT ![t] = p] /\ CallOK(t, l, k, s, Allocated') /\ PtrOK(l, s, p) /\ on' = on
  BY DEF Moves
<1>3. s \in Seq(Ops) /\ p \in Blocks \cup {NoBlock}
  BY <1>2 DEF CallOK, PtrOK
<1>4. \A u \in Threads : /\ pc'[u] = IF u = t THEN l ELSE pc[u]
                         /\ kind'[u] = IF u = t THEN k ELSE kind[u]
                         /\ todo'[u] = IF u = t THEN s ELSE todo[u]
                         /\ ptr'[u] = IF u = t THEN p ELSE ptr[u]
  BY <1>1, <1>2
<1>5. todo' \in [Threads -> Seq(Ops)] /\ ptr' \in [Threads -> Blocks \cup {NoBlock}]
  BY <1>1, <1>2, <1>3
<1>6. \A u, o : OpOK(u, o, Allocated) => OpOK(u, o, Allocated')
  BY DEF OpOK
<1>7. ASSUME NEW u \in Threads
      PROVE  CallOK(u, pc'[u], kind'[u], todo'[u], Allocated') /\ PtrOK(pc'[u], todo'[u], ptr'[u])
  <2>1. CASE u = t
    BY <1>2, <1>4, <2>1
  <2>2. CASE u # t
    <3>1. CallOK(u, pc[u], kind[u], todo[u], Allocated) /\ PtrOK(pc[u], todo[u], ptr[u])
      BY DEF CallsInv
    <3>2. CallOK(u, pc[u], kind[u], todo[u], Allocated')
      BY <1>6, <3>1 DEF CallOK
    <3> QED  BY <1>4, <2>2, <3>1, <3>2
  <2> QED  BY <2>1, <2>2
<1>8. \A u \in Threads : /\ CallOK(u, pc[u], kind[u], todo[u], Allocated)' <=>
                            CallOK(u, pc'[u], kind'[u], todo'[u], Allocated')
                         /\ PtrOK(pc[u], todo[u], ptr[u])' <=> PtrOK(pc'[u], todo'[u], ptr'[u])
  BY <1>2 DEF CallOK, PtrOK, OpOK, File
<1> QED  BY <1>4, <1>5, <1>7, <1>8 DEF CallsInv

\* The operations that a call begins with.
LEMMA CallOps ==
  ASSUME LockType, NEW t \in Threads, NEW k, NEW w \in BOOLEAN, NEW A, NEW s,
         \/ s = <<Op("get", DirBlock, FALSE), Op("use", DirBlock, FALSE)>>
         \/ s = Through(t, DataBlock(t), w)
  PROVE  CallOK(t, "run", k, s, A) /\ ~Links(s) /\ s # << >> /\ Head(s).op = "get"
<1>1. PICK d1, d2, p1, p2, g : /\ d1 = Op("get", DirBlock, FALSE) /\ d2 = Op("use", DirBlock, FALSE)
                               /\ p1 = Op("get", PtrBlock(File(t)), FALSE)
                               /\ p2 = Op("use", PtrBlock(File(t)), FALSE)
                               /\ g = Op("get", DataBlock(t), w)
  OBVIOUS
<1>2. File(t) \in Files
  BY FileOfAssumption DEF File, LockType
<1>3. d1 \in Ops /\ d2 \in Ops /\ p1 \in Ops /\ p2 \in Ops /\ g \in Ops
  BY <1>1, <1>2 DEF Op, Ops, Blocks
<1>4. DataBlock(t) \notin Ptrs
  BY DEF DataBlock, Ptrs, PtrBlock
<1>5. \A o \in {d1, d2, p1, p2, g} : OpOK(t, o, A) /\ o.op \notin {"link", "modify"}
  BY <1>1, <1>2, <1>4 DEF Op, OpOK, Ptrs
<1>6. /\ d1.op = "get" /\ d2.op = "use" /\ d1.b = d2.b
      /\ p1.op = "get" /\ p2.op = "use" /\ g.op = "get" /\ p1.b = p2.b
  BY <1>1 DEF Op
<1>7. CASE s = <<d1, d2>>
  <2>1. s \in Seq(Ops) /\ Range(s) = {d1, d2}
    BY <1>3, <1>7, PairParts
  <2>2. Len(s) = 2 /\ s[1] = d1 /\ s[2] = d2 /\ s # << >> /\ Head(s) = d1
    BY <1>7
  <2>3. Chained(s)
    BY <1>6, <2>2 DEF Chained
  <2> QED  BY <1>5, <1>6, <2>1, <2>2, <2>3 DEF CallOK, Links
<1>8. CASE s = <<p1, p2, g>>
  <2>1. s \in Seq(Ops) /\ Range(s) = {p1, p2, g}
    BY <1>3, <1>8, TripleParts
  <2>2. Len(s) = 3 /\ s[1] = p1 /\ s[2] = p2 /\ s[3] = g /\ s # << >> /\ Head(s) = p1
    BY <1>8
  <2>3. Chained(s)
    BY <1>6, <2>2 DEF Chained
  <2> QED  BY <1>5, <1>6, <2>1, <2>2, <2>3 DEF CallOK, Links
<1> QED  BY <1>1, <1>7, <1>8 DEF Through

\* The list of the cache stays, and thread t keeps its Block or drops it.
Rests(t) == lru' = lru /\ (UNCHANGED pointers \/ Dropped(t))

\* Steps that leave the cache alone, with what they make of the thread's call:
\* l, k and s are its new label, kind and operations, p its Block.
QuietTo(t, l, k, s, p) ==
  /\ Moves(t, l, k, s, p) /\ Rests(t)
  /\ linked' = linked /\ UNCHANGED <<lru, dirty, mem, disk>>
  /\ Links(s) <=> Links(todo[t])
  /\ Marking(s) <=> Marking(todo[t])
  /\ l # "copy"
  /\ l \in {"miss", "fill"} => s = todo[t] /\ (pc[t] \in {"miss", "fill"} \/ Head(s).b \notin In(Cache))
  /\ wrote' = wrote /\ got' = got

Quiet(t) == \E l, k, s, p : QuietTo(t, l, k, s, p)

\* A step that leaves the thread its Block.
LEMMA QuietKept ==
  ASSUME LockType, BlocksInv, NEW t \in Threads, NEW l, NEW k, NEW s, ~Undefined, on' = on,
         pc' = [pc EXCEPT ![t] = l], kind' = [kind EXCEPT ![t] = k], todo' = [todo EXCEPT ![t] = s],
         UNCHANGED pointers, UNCHANGED cache, linked' = linked, wrote' = wrote, got' = got,
         CallOK(t, l, k, s, Allocated), PtrOK(l, s, ptr[t]),
         Links(s) <=> Links(todo[t]), Marking(s) <=> Marking(todo[t]), l # "copy",
         l \in {"miss", "fill"} => s = todo[t] /\ (pc[t] \in {"miss", "fill"} \/ Head(s).b \notin In(Cache))
  PROVE  Quiet(t)
<1>1. ptr' = [ptr EXCEPT ![t] = ptr[t]]
  BY DEF BlocksInv, CallsInv, pointers
<1>2. Allocated' = Allocated
  BY DEF Allocated
<1>3. Moves(t, l, k, s, ptr[t])
  BY <1>1, <1>2 DEF Moves
<1>4. Rests(t) /\ UNCHANGED <<lru, dirty, mem, disk>>
  BY DEF Rests, cache
<1>5. QuietTo(t, l, k, s, ptr[t])
  BY <1>3, <1>4 DEF QuietTo
<1> QED  BY <1>5 DEF Quiet

\* A step of a call that has no operations to do yet, or none any more.
LEMMA QuietWait ==
  ASSUME LockType, BlocksInv, NEW t \in Threads, NEW l, NEW k, ~Undefined, on' = on,
         pc' = [pc EXCEPT ![t] = l], kind' = [kind EXCEPT ![t] = k], todo' = todo,
         UNCHANGED pointers, UNCHANGED cache, UNCHANGED <<linked, wrote, got>>,
         todo[t] = << >>, l \notin {"probe", "miss", "fill", "copy"}
  PROVE  Quiet(t)
<1>1. ptr[t] \in Blocks \cup {NoBlock} /\ todo \in [Threads -> Seq(Ops)]
  BY DEF BlocksInv, CallsInv
<1>2. CallOK(t, l, k, todo[t], Allocated) /\ PtrOK(l, todo[t], ptr[t])
  BY <1>1 DEF CallOK, PtrOK, Links, Chained, Range
<1>3. todo' = [todo EXCEPT ![t] = todo[t]]
  BY <1>1
<1> QED  BY <1>2, <1>3, QuietKept

LEMMA QuietSteps ==
  ASSUME LockInv, BlocksInv, NEW t \in Threads,
         \/ LockBig(t) \/ LockStatus(t) \/ LockInode(t) \/ UnlockShared(t) \/ LockInodeUnique(t)
         \/ LockAlloc(t) \/ GetShared(t) \/ Miss(t) \/ GetUnique(t) \/ UsePointer(t) \/ Return(t)
         \/ \E k \in KindsOf[t] : Call(t, k)
  PROVE  Quiet(t)
<1>0. /\ LockType /\ CallOK(t, pc[t], kind[t], todo[t], Allocated) /\ PtrOK(pc[t], todo[t], ptr[t])
      /\ CacheOK(Cache)
      /\ pc \in [Threads -> Labels] /\ kind \in [Threads -> CallKinds] /\ todo \in [Threads -> Seq(Ops)]
  BY DEF LockInv, LockType, BlocksInv, CallsInv
<1>1. pc = [pc EXCEPT ![t] = pc[t]] /\ kind = [kind EXCEPT ![t] = kind[t]]
      /\ todo = [todo EXCEPT ![t] = todo[t]]
  BY <1>0
<1>2. pc[t] \notin {"run", "probe", "miss", "fill", "copy"} =>
        todo[t] = << >> /\ ~Links(todo[t]) /\ ~Marking(todo[t])
  BY <1>0 DEF CallOK, Links, Marking, Range
<1>g. \A s : s # << >> /\ Head(s).op = "get" => ~Marking(s) /\ PtrOK("run", s, ptr[t])
  BY <1>0 DEF Marking, PtrOK
<1>3. CASE LockBig(t)
  <2>1. CASE kind[t] = "getattr"
    <3>1. PICK s : s = <<Op("get", DirBlock, FALSE), Op("use", DirBlock, FALSE)>>
      OBVIOUS
    <3>2. CallOK(t, "run", kind[t], s, Allocated) /\ ~Links(s) /\ s # << >> /\ Head(s).op = "get"
      BY <1>0, <3>1, CallOps
    <3>3. /\ pc[t] = "big" /\ on' = on /\ kind' = kind /\ UNCHANGED <<linked, wrote, got>> /\ ~Undefined
          /\ pc' = [pc EXCEPT ![t] = "run"] /\ todo' = [todo EXCEPT ![t] = s]
          /\ UNCHANGED pointers /\ UNCHANGED cache
      BY <1>3, <2>1, <3>1 DEF LockBig, Goto, history
    <3> QED  BY <1>0, <1>1, <1>2, <1>g, <3>2, <3>3, QuietKept
  <2>2. CASE kind[t] # "getattr"
    <3>1. /\ pc[t] = "big" /\ on' = on /\ kind' = kind /\ UNCHANGED <<linked, wrote, got>> /\ ~Undefined
          /\ pc' = [pc EXCEPT ![t] = "rwlock"] /\ todo' = todo
          /\ UNCHANGED pointers /\ UNCHANGED cache
      BY <1>3, <2>2 DEF LockBig, Goto, history
    <3> QED  BY <1>0, <1>1, <1>2, <3>1, QuietWait
  <2> QED  BY <2>1, <2>2
<1>4. CASE LockStatus(t)
  <2>1. /\ pc[t] = "rwlock" /\ on' = on /\ kind' = kind /\ UNCHANGED <<linked, wrote, got>> /\ ~Undefined
        /\ pc' = [pc EXCEPT ![t] = "inode"] /\ todo' = todo
        /\ UNCHANGED pointers /\ UNCHANGED cache
    BY <1>4 DEF LockStatus, Goto, history
  <2> QED  BY <1>0, <1>1, <1>2, <2>1, QuietWait
<1>5. CASE LockInode(t)
  <2>1. CASE kind[t] = "extend"
    <3>1. /\ pc[t] = "inode" /\ on' = on /\ kind' = kind /\ UNCHANGED <<linked, wrote, got>> /\ ~Undefined
          /\ pc' = [pc EXCEPT ![t] = "upgrade"] /\ todo' = todo
          /\ UNCHANGED pointers /\ UNCHANGED cache
      BY <1>5, <2>1 DEF LockInode, Goto, history
    <3> QED  BY <1>0, <1>1, <1>2, <3>1, QuietWait
  <2>2. CASE kind[t] # "extend"
    <3>1. PICK s : s = Through(t, DataBlock(t), kind[t] = "write")
      OBVIOUS
    <3>2. CallOK(t, "run", kind[t], s, Allocated) /\ ~Links(s) /\ s # << >> /\ Head(s).op = "get"
      BY <1>0, <3>1, CallOps
    <3>3. /\ pc[t] = "inode" /\ on' = on /\ kind' = kind /\ UNCHANGED <<linked, wrote, got>> /\ ~Undefined
          /\ pc' = [pc EXCEPT ![t] = "run"] /\ todo' = [todo EXCEPT ![t] = s]
          /\ UNCHANGED pointers /\ UNCHANGED cache
      BY <1>5, <2>2, <3>1 DEF LockInode, Goto, history
    <3> QED  BY <1>0, <1>1, <1>2, <1>g, <3>2, <3>3, QuietKept
  <2> QED  BY <2>1, <2>2
<1>6. CASE UnlockShared(t)
  <2>1. /\ pc[t] = "upgrade" /\ on' = on /\ kind' = kind /\ UNCHANGED <<linked, wrote, got>> /\ ~Undefined
        /\ pc' = [pc EXCEPT ![t] = "inode_unique"] /\ todo' = todo
        /\ UNCHANGED pointers /\ UNCHANGED cache
    BY <1>6 DEF UnlockShared, Goto, history
  <2> QED  BY <1>0, <1>1, <1>2, <2>1, QuietWait
<1>7. CASE LockInodeUnique(t)
  <2>1. /\ pc[t] = "inode_unique" /\ on' = on /\ kind' = kind /\ UNCHANGED <<linked, wrote, got>> /\ ~Undefined
        /\ pc' = [pc EXCEPT ![t] = "alloc"] /\ todo' = todo
        /\ UNCHANGED pointers /\ UNCHANGED cache
    BY <1>7 DEF LockInodeUnique, Goto, history
  <2> QED  BY <1>0, <1>1, <1>2, <2>1, QuietWait
<1>8. CASE LockAlloc(t)
  <2>1. /\ pc[t] = "alloc" /\ on' = on /\ kind' = kind /\ UNCHANGED <<linked, wrote, got>> /\ ~Undefined
        /\ pc' = [pc EXCEPT ![t] = "insert"] /\ todo' = todo
        /\ UNCHANGED pointers /\ UNCHANGED cache
    BY <1>8 DEF LockAlloc, Goto, history
  <2> QED  BY <1>0, <1>1, <1>2, <2>1, QuietWait
<1>9. CASE GetShared(t)
  <2>1. /\ CallOK(t, "probe", kind[t], todo[t], Allocated) /\ PtrOK("probe", todo[t], ptr[t])
        /\ Links(todo[t]) <=> Links(todo[t])
    BY <1>0, <1>9 DEF GetShared, CallOK, PtrOK, Current
  <2>2. /\ on' = on /\ kind' = kind /\ UNCHANGED <<linked, wrote, got>> /\ ~Undefined
        /\ pc' = [pc EXCEPT ![t] = "probe"] /\ todo' = todo
        /\ UNCHANGED pointers /\ UNCHANGED cache
    BY <1>9 DEF GetShared, Goto, history
  <2> QED  BY <1>0, <1>1, <2>1, <2>2, QuietKept
<1>10. CASE Miss(t)
  <2>1. CallOK(t, "miss", kind[t], todo[t], Allocated) /\ PtrOK("miss", todo[t], ptr[t])
    BY <1>0, <1>10 DEF Miss, CallOK, PtrOK
  <2>2. Head(todo[t]).b \notin In(Cache)
    BY <1>0, <1>10, CachedIn DEF Miss, Current
  <2>3. /\ on' = on /\ kind' = kind /\ UNCHANGED <<linked, wrote, got>> /\ ~Undefined
        /\ pc' = [pc EXCEPT ![t] = "miss"] /\ todo' = todo
        /\ UNCHANGED pointers /\ UNCHANGED cache
    BY <1>10 DEF Miss, Goto, history
  <2> QED  BY <1>0, <1>1, <2>1, <2>2, <2>3, QuietKept
<1>11. CASE GetUnique(t)
  <2>1. CallOK(t, "fill", kind[t], todo[t], Allocated) /\ PtrOK("fill", todo[t], ptr[t])
    BY <1>0, <1>11 DEF GetUnique, CallOK, PtrOK
  <2>2. /\ on' = on /\ kind' = kind /\ UNCHANGED <<linked, wrote, got>> /\ ~Undefined /\ pc[t] = "miss"
        /\ pc' = [pc EXCEPT ![t] = "fill"] /\ todo' = todo
        /\ UNCHANGED pointers /\ UNCHANGED cache
    BY <1>11 DEF GetUnique, Goto, history
  <2> QED  BY <1>0, <1>1, <2>1, <2>2, QuietKept
<1>12. CASE UsePointer(t)
  <2>1. /\ pc[t] = "run" /\ on' = on /\ kind' = kind /\ pc' = pc /\ UNCHANGED <<linked, wrote, got>>
        /\ ~Undefined /\ todo' = [todo EXCEPT ![t] = Tail(todo[t])] /\ todo[t] # << >>
        /\ Head(todo[t]).op = "use" /\ Dropped(t) /\ UNCHANGED <<lru, dirty, mem, disk>>
    BY <1>12 DEF UsePointer, Done, Current, cache, history
  <2>2. /\ CallOK(t, "run", kind[t], Tail(todo[t]), Allocated)
        /\ Links(Tail(todo[t])) <=> Links(todo[t])
        /\ ~Marking(Tail(todo[t])) /\ (Tail(todo[t]) = << >> \/ Head(Tail(todo[t])).op = "get")
    BY <1>0, <2>1, RestOK
  <2>3. PtrOK("run", Tail(todo[t]), NoBlock) /\ ~Marking(todo[t])
    BY <2>1, <2>2 DEF PtrOK, Marking
  <2>4. Allocated' = Allocated
    BY <2>1 DEF Allocated
  <2>5. Moves(t, "run", kind[t], Tail(todo[t]), NoBlock)
    BY <1>1, <2>1, <2>2, <2>3, <2>4 DEF Moves, Dropped
  <2>6. QuietTo(t, "run", kind[t], Tail(todo[t]), NoBlock)
    BY <2>1, <2>2, <2>3, <2>5 DEF QuietTo, Rests
  <2> QED  BY <2>6 DEF Quiet
<1>13. CASE Return(t)
  <2>1. /\ todo[t] = << >> /\ on' = on /\ kind' = [kind EXCEPT ![t] = "none"]
        /\ UNCHANGED <<linked, wrote, got>> /\ ~Undefined
        /\ pc' = [pc EXCEPT ![t] = "idle"] /\ todo' = todo
        /\ UNCHANGED pointers /\ UNCHANGED cache
    BY <1>13 DEF Return, Goto, history
  <2> QED  BY <1>0, <1>1, <2>1, QuietWait
<1>14. ASSUME NEW k \in KindsOf[t], Call(t, k) PROVE Quiet(t)
  <2>1. /\ pc[t] = "idle" /\ on' = on /\ kind' = [kind EXCEPT ![t] = k]
        /\ UNCHANGED <<linked, wrote, got>> /\ ~Undefined
        /\ pc' = [pc EXCEPT ![t] = "big"] /\ todo' = todo
        /\ UNCHANGED pointers /\ UNCHANGED cache
    BY <1>14 DEF Call, Goto
  <2> QED  BY <1>0, <1>1, <1>2, <2>1, QuietWait
<1> QED  BY <1>3, <1>4, <1>5, <1>6, <1>7, <1>8, <1>9, <1>10, <1>11, <1>12, <1>13, <1>14

LEMMA BecomeCache ==
  ASSUME NEW c, CacheOK(c), Become(c)
  PROVE  Cache' = c
BY DEF Become, CacheOK, Cache

LEMMA CurrentOp ==
  ASSUME BlocksInv, NEW t \in Threads, todo[t] # << >>
  PROVE  /\ Current(t) \in Ops /\ OpOK(t, Current(t), Allocated) /\ Current(t).b \in Known
         /\ Current(t).b \in Blocks /\ Current(t).w \in BOOLEAN
         /\ CallOK(t, "run", kind[t], Tail(todo[t]), Allocated)
<1>1. CallOK(t, pc[t], kind[t], todo[t], Allocated)
  BY DEF BlocksInv, CallsInv
<1>2. /\ Current(t) \in Ops /\ OpOK(t, Current(t), Allocated)
      /\ CallOK(t, "run", kind[t], Tail(todo[t]), Allocated)
  BY <1>1, RestOK DEF Current
<1>3. Current(t).b \in Blocks /\ Current(t).w \in BOOLEAN
  BY <1>2 DEF Ops
<1>4. Current(t).b \in Known
  BY <1>2 DEF OpOK, Known
<1> QED  BY <1>2, <1>3, <1>4

\* A Block that a thread has is in the cache when it takes a step.
LEMMA PtrCached ==
  ASSUME CacheOK(Cache), ~Undefined, NEW t \in Threads, ptr[t] # NoBlock
  PROVE  ptr[t] \in In(Cache)
BY CachedIn DEF Undefined, Deleted

\* get_block in thread t: the cache d it leaves, in which the block is marked if m.
FetchedTo(t, d, m) ==
  /\ Moves(t, "copy", kind[t], todo[t], Current(t).b)
  /\ Fetches(Cache, d, Current(t).b, m)
  /\ Cache' = d
  /\ Used(Current(t).b, [ptr EXCEPT ![t] = Current(t).b])
  /\ Current(t).w /\ (pc[t] = "probe" \/ Current(t).b \notin In(Cache)) => m
  /\ pc[t] \in {"probe", "fill"} /\ todo[t] # << >> /\ Current(t).op = "get"
  /\ linked' = linked /\ wrote' = wrote /\ got' = got

LEMMA GotBlock ==
  ASSUME LockType, BlocksInv, NEW t \in Threads, todo[t] # << >>, Current(t).op = "get",
         pc[t] \in {"probe", "fill"}, ~Undefined,
         NEW d, NEW m \in BOOLEAN, Fetches(Cache, d, Current(t).b, m), Got(t, d),
         Current(t).w /\ (pc[t] = "probe" \/ Current(t).b \notin In(Cache)) => m
  PROVE  FetchedTo(t, d, m)
<1>1. Cache' = d
  BY BecomeCache DEF Got, Fetches
<1>2. /\ on' = on /\ linked' = linked /\ kind' = kind /\ todo' = todo /\ wrote' = wrote /\ got' = got
      /\ pc' = [pc EXCEPT ![t] = "copy"] /\ Used(Current(t).b, [ptr EXCEPT ![t] = Current(t).b])
      /\ ptr' = [ptr EXCEPT ![t] = Current(t).b]
  BY DEF Got, Goto, Used, history
<1>3. kind = [kind EXCEPT ![t] = kind[t]] /\ todo = [todo EXCEPT ![t] = todo[t]]
  BY DEF LockType, BlocksInv, CallsInv
<1>4. CallOK(t, pc[t], kind[t], todo[t], Allocated) /\ Current(t).b \in Blocks
  BY CurrentOp DEF BlocksInv, CallsInv
<1>5. Allocated' = Allocated
  BY <1>2 DEF Allocated
<1>6. CallOK(t, "copy", kind[t], todo[t], Allocated) /\ PtrOK("copy", todo[t], Current(t).b)
  BY <1>4 DEF CallOK, PtrOK, Current
<1>7. Moves(t, "copy", kind[t], todo[t], Current(t).b)
  BY <1>2, <1>3, <1>5, <1>6 DEF Moves
<1> QED  BY <1>1, <1>2, <1>7 DEF FetchedTo

LEMMA Fetched ==
  ASSUME LockType, BlocksInv, NEW t \in Threads, Hit(t) \/ Fill(t)
  PROVE  \E d : \E m \in BOOLEAN : FetchedTo(t, d, m)
<1>1. pc[t] \in {"probe", "fill"} /\ ~Undefined
  BY DEF Hit, Fill
<1>2. CacheOK(Cache) /\ CallOK(t, pc[t], kind[t], todo[t], Allocated)
  BY DEF BlocksInv, CallsInv
<1>3. todo[t] # << >> /\ Current(t).op = "get"
  BY <1>1, <1>2 DEF CallOK, Current
<1>4. PICK b, w : b = Current(t).b /\ w = Current(t).w /\ b \in Blocks /\ w \in BOOLEAN
  BY <1>3, CurrentOp
<1>5. Cached(Cache, b) <=> b \in In(Cache)
  BY <1>2, CachedIn
<1>6. CASE Hit(t)
  <2>1. b \in In(Cache) /\ pc[t] = "probe" /\ Got(t, Mark(Touch(Cache, b), b, w))
    BY <1>4, <1>5, <1>6 DEF Hit
  <2>2. Fetches(Cache, Mark(Touch(Cache, b), b, w), b, w)
    BY <1>2, <1>4, <2>1, GotCached
  <2>3. FetchedTo(t, Mark(Touch(Cache, b), b, w), w)
    BY <1>1, <1>3, <1>4, <2>1, <2>2, GotBlock
  <2> QED  BY <1>4, <2>3
<1>7. CASE Fill(t) /\ b \in In(Cache)
  <2>1. pc[t] = "fill" /\ Got(t, Touch(Cache, b))
    BY <1>4, <1>5, <1>7 DEF Fill
  <2>2. Fetches(Cache, Touch(Cache, b), b, FALSE)
    BY <1>2, <1>4, <1>7, GotCached
  <2>3. FetchedTo(t, Touch(Cache, b), FALSE)
    BY <1>1, <1>3, <1>4, <1>7, <2>1, <2>2, GotBlock
  <2> QED  BY <2>3
<1>8. CASE Fill(t) /\ b \notin In(Cache)
  <2>1. pc[t] = "fill" /\ Got(t, Insert(Cache, b, Cache.disk[b], w))
    BY <1>4, <1>5, <1>8 DEF Fill, Cache
  <2>2. Fetches(Cache, Insert(Cache, b, Cache.disk[b], w), b, w)
    BY <1>2, <1>4, <1>8, GotFromDisk
  <2>3. FetchedTo(t, Insert(Cache, b, Cache.disk[b], w), w)
    BY <1>1, <1>3, <1>4, <2>1, <2>2, GotBlock
  <2> QED  BY <1>4, <2>3
<1> QED  BY <1>6, <1>7, <1>8

\* What a step keeps of the cache when it changes only the content of block b.
OnlyIn(b) ==
  /\ CacheOK(Cache') /\ In(Cache') = In(Cache) /\ Cache'.disk = Cache.disk
  /\ \A x \in Blocks \ {b} : Cache'.mem[x] = Cache.mem[x] /\ (x \in Cache'.dirty <=> x \in Cache.dirty)

LEMMA OnlyInBlock ==
  ASSUME CacheOK(Cache), NEW b \in Blocks, lru' = lru, disk' = disk,
         dirty' \in {dirty, dirty \cup ({b} \cap Range(lru))},
         mem' = [x \in Blocks |-> mem'[x]], \A x \in Blocks \ {b} : mem'[x] = mem[x]
  PROVE  /\ OnlyIn(b) /\ Cache'.mem = mem' /\ Cache.mem = mem
         /\ Cache'.dirty = dirty' /\ Cache.dirty = dirty /\ In(Cache) = Range(lru)
<1>1. /\ lru \in Seq(Blocks) /\ IsInjective(lru) /\ Len(lru) <= Size /\ dirty \subseteq Range(lru)
      /\ disk = [x \in Blocks |-> disk[x]]
  BY DEF CacheOK, Cache, In
<1>2. PICK c : c = [lru |-> lru', dirty |-> dirty', mem |-> mem', disk |-> disk']
  OBVIOUS
<1>3. c.lru = lru /\ c.dirty = dirty' /\ c.mem = mem' /\ c.disk = disk /\ Cache' = c
  BY <1>2 DEF Cache
<1>4. c = [lru |-> c.lru, dirty |-> c.dirty, mem |-> c.mem, disk |-> c.disk]
  BY <1>2, <1>3
<1>5. dirty' \subseteq Range(lru) /\ \A x \in Blocks \ {b} : x \in dirty' <=> x \in dirty
  BY <1>1
<1>6. In(Cache) = Range(lru) /\ Cache.mem = mem /\ Cache.disk = disk /\ Cache.dirty = dirty
  BY DEF In, Cache
<1>7. CacheOK(c) /\ In(c) = Range(lru)
  BY <1>1, <1>3, <1>4, <1>5 DEF CacheOK, In
<1> QED  BY <1>3, <1>5, <1>6, <1>7 DEF OnlyIn

\* The copy of thread t, after which it has the Block p.
CopiedTo(t, p) ==
  /\ Moves(t, "run", kind[t], Tail(todo[t]), p) /\ Rests(t)
  /\ pc[t] = "copy" /\ todo[t] # << >> /\ Current(t).op = "get" /\ ptr[t] = Current(t).b
  /\ OnlyIn(Current(t).b) /\ Cache'.dirty = Cache.dirty
  /\ Cache'.mem[Current(t).b] = IF Current(t).w THEN [Cache.mem[Current(t).b] EXCEPT ![t] = calls[t]]
                                ELSE Cache.mem[Current(t).b]
  /\ (Links(Tail(todo[t])) <=> Links(todo[t])) /\ ~Marking(Tail(todo[t])) /\ ~Marking(todo[t])
  /\ linked' = linked
  /\ wrote' = IF Current(t).w /\ Current(t).b = DataBlock(t) THEN [wrote EXCEPT ![t] = calls[t]] ELSE wrote
  /\ got' = IF Current(t).b = DataBlock(t) THEN [got EXCEPT ![t] = Cache'.mem[Current(t).b][t]] ELSE got

LEMMA CopyStep ==
  ASSUME LockInv, BlocksInv, NEW t \in Threads, Copy(t)
  PROVE  \E p : CopiedTo(t, p)
<1>1. /\ pc[t] = "copy" /\ ~Undefined /\ on' = on /\ kind' = kind /\ linked' = linked
      /\ mem' = IF Current(t).w THEN [mem EXCEPT ![Current(t).b] = [@ EXCEPT ![t] = calls[t]]] ELSE mem
      /\ wrote' = IF Current(t).w /\ Current(t).b = DataBlock(t) THEN [wrote EXCEPT ![t] = calls[t]] ELSE wrote
      /\ got' = IF Current(t).b = DataBlock(t) THEN [got EXCEPT ![t] = mem'[Current(t).b][t]] ELSE got
      /\ todo' = [todo EXCEPT ![t] = Tail(todo[t])] /\ pc' = [pc EXCEPT ![t] = "run"]
      /\ IF Kept(t) THEN UNCHANGED pointers ELSE Dropped(t)
      /\ lru' = lru /\ dirty' = dirty /\ disk' = disk
  BY DEF Copy, Done, Goto
<1>2. /\ LockType /\ CacheOK(Cache) /\ CallOK(t, pc[t], kind[t], todo[t], Allocated)
      /\ PtrOK(pc[t], todo[t], ptr[t]) /\ ptr \in [Threads -> Blocks \cup {NoBlock}]
  BY DEF LockInv, BlocksInv, CallsInv
<1>3. todo[t] # << >> /\ Current(t).op = "get" /\ ptr[t] = Current(t).b
  BY <1>1, <1>2 DEF CallOK, PtrOK, Current
<1>4. PICK b, w : b = Current(t).b /\ w = Current(t).w /\ b \in Blocks /\ w \in BOOLEAN
  BY <1>3, CurrentOp
<1>5. /\ CallOK(t, "run", kind[t], Tail(todo[t]), Allocated)
      /\ (Links(Tail(todo[t])) <=> Links(todo[t])) /\ ~Marking(Tail(todo[t]))
      /\ Tail(todo[t]) # << >> /\ Head(Tail(todo[t])).op # "get" => Head(Tail(todo[t])).b = b
      /\ Kept(t) <=> (Tail(todo[t]) # << >> /\ Head(Tail(todo[t])).op # "get")
  BY <1>2, <1>3, <1>4, RestOK DEF Current, Kept
<1>6. ~Marking(todo[t])
  BY <1>3 DEF Marking, Current
<1>7. mem = [x \in Blocks |-> mem[x]]
  BY <1>2 DEF CacheOK, Cache
<1>8. /\ mem' = [x \in Blocks |-> mem'[x]] /\ \A x \in Blocks \ {b} : mem'[x] = mem[x]
      /\ mem'[b] = IF w THEN [mem[b] EXCEPT ![t] = calls[t]] ELSE mem[b]
  BY <1>1, <1>4, <1>7
<1>9. OnlyIn(b) /\ Cache'.mem = mem' /\ Cache.mem = mem /\ Cache'.dirty = dirty' /\ Cache.dirty = dirty
  BY <1>1, <1>2, <1>4, <1>8, OnlyInBlock
<1>10. Allocated' = Allocated /\ kind = [kind EXCEPT ![t] = kind[t]]
  BY <1>1, <1>2 DEF Allocated, LockType
<1>11. PICK p : /\ p = IF Kept(t) THEN ptr[t] ELSE NoBlock
                /\ ptr' = [ptr EXCEPT ![t] = p]
  <2>1. CASE Kept(t)
    BY <1>1, <1>2, <2>1 DEF pointers
  <2>2. CASE ~Kept(t)
    BY <1>1, <2>2 DEF Dropped
  <2> QED  BY <2>1, <2>2
<1>12. PtrOK("run", Tail(todo[t]), p)
  BY <1>3, <1>4, <1>5, <1>11 DEF PtrOK
<1>13. Moves(t, "run", kind[t], Tail(todo[t]), p)
  BY <1>1, <1>5, <1>10, <1>11, <1>12 DEF Moves
<1>14. Rests(t)
  BY <1>1 DEF Rests
<1>15. CopiedTo(t, p)
  BY <1>1, <1>3, <1>4, <1>5, <1>6, <1>8, <1>9, <1>13, <1>14 DEF CopiedTo
<1> QED  BY <1>15

\* alloc_block has put the new block b in the cache for thread t, to do s.
AllocatedTo(t, b, s) ==
  /\ Moves(t, "run", kind[t], s, ptr[t])
  /\ Used(b, ptr)
  /\ b \in Blocks \ Known /\ b \notin Ptrs /\ b \notin {DataBlock(u) : u \in Threads}
  /\ CacheOK(Cache') /\ b \in In(Cache') /\ In(Cache') \subseteq In(Cache) \cup {b}
  /\ \A x \in Blocks \ {b} :
       /\ CleanOn(Cache, x) => Val(Cache', x) = Val(Cache, x) /\ CleanOn(Cache', x)
       /\ Cache'.mem[x] = Cache.mem[x]
       /\ Cache'.disk[x] \in {Cache.mem[x], Cache.disk[x]}
       /\ x \in In(Cache') /\ x \in Cache.dirty => x \in Cache'.dirty
  /\ Ordered(Cache, Cache', b)
  /\ linked' = [linked EXCEPT ![File(t)] = @ \cup {b}]
  /\ Allocated' = Allocated \cup {b}
  /\ AllocInv'
  /\ pc[t] = "insert" /\ kind[t] = "extend" /\ todo[t] = << >>
  /\ wrote' = wrote /\ got' = got
  /\ Links(s) /\ ~Marking(s)

LEMMA AllocatedGrows ==
  ASSUME AllocInv, NEW f \in Files, NEW k \in 1 .. MaxNew, NEW b, b = NewBlock(k),
         linked' = [linked EXCEPT ![f] = @ \cup {b}]
  PROVE  Allocated' = Allocated \cup {b} /\ AllocInv'
<1>1. linked = [g \in Files |-> linked[g]]
  BY DEF AllocInv
<1>2. linked' = [g \in Files |-> linked'[g]] /\ \A g \in Files : linked'[g] = IF g = f THEN linked[g] \cup {b} ELSE linked[g]
  BY <1>1
<1>3. Allocated' = Allocated \cup {b}
  <2>1. linked'[f] = linked[f] \cup {b} /\ \A g \in Files : linked[g] \subseteq linked'[g]
    BY <1>2
  <2>2. \A x : x \in Allocated' <=> \E g \in Files : x \in linked'[g]
    BY DEF Allocated
  <2>3. \A x : x \in Allocated <=> \E g \in Files : x \in linked[g]
    BY DEF Allocated
  <2>4. ASSUME NEW x \in Allocated' PROVE x \in Allocated \cup {b}
    BY <1>2, <2>2, <2>3
  <2>5. ASSUME NEW x \in Allocated \cup {b} PROVE x \in Allocated'
    BY <2>1, <2>2, <2>3
  <2> QED  BY <2>4, <2>5
<1>4. Allocated \cup {b} \subseteq {NewBlock(j) : j \in 1 .. MaxNew}
  BY DEF AllocInv
<1> QED  BY <1>2, <1>3, <1>4 DEF AllocInv

\* Storing a link and seeking to the new block through it.
LEMMA TwoChains ==
  ASSUME NEW x \in Seq(Ops), NEW y \in Seq(Ops), Len(x) = 3, Len(y) = 3,
         x[1].op = "get", x[2].op = "link", x[3].op = "modify", x[1].b = x[2].b, x[2].b = x[3].b,
         y[1].op = "get", y[2].op = "use", y[3].op = "get", y[1].b = y[2].b
  PROVE  Chained(x \o y) /\ x \o y # << >> /\ Head(x \o y) = x[1]
<1> DEFINE s == x \o y
<1>0. /\ s \in Seq(Ops) /\ Len(s) = Len(x) + Len(y)
      /\ \A j \in 1 .. Len(x) + Len(y) : s[j] = IF j <= Len(x) THEN x[j] ELSE y[j - Len(x)]
  BY ConcatOf, Zenon
<1> HIDE DEF s
<1>1. s \in Seq(Ops) /\ Len(s) = 6 /\ \A j \in 1 .. 6 : s[j] = IF j <= 3 THEN x[j] ELSE y[j - 3]
  BY <1>0
<1>2. s # << >> /\ Head(s) = s[1]
  BY <1>1, SeqOf, TailOf
<1>3. s[1] = x[1] /\ s[2] = x[2] /\ s[3] = x[3] /\ s[4] = y[1] /\ s[5] = y[2] /\ s[6] = y[3]
  BY <1>1
<1>4. ASSUME NEW i \in 1 .. 6, s[i].op = "link" PROVE i + 1 \in 1 .. 6 /\ s[i + 1].op = "modify"
  <2>1. i \notin {1, 3, 4, 5, 6}
    BY <1>3, <1>4
  <2>2. i = 2 /\ i + 1 = 3
    BY <2>1
  <2> QED  BY <1>3, <2>2
<1>5. ASSUME NEW i \in 1 .. 5, s[i + 1].op # "get"
      PROVE  s[i + 1].b = s[i].b /\ s[i].op = IF s[i + 1].op = "modify" THEN "link" ELSE "get"
  <2>1. i + 1 \notin {1, 4, 6}
    BY <1>3, <1>5
  <2>2. (i = 1 /\ i + 1 = 2) \/ (i = 2 /\ i + 1 = 3) \/ (i = 4 /\ i + 1 = 5)
    BY <2>1
  <2> QED  BY <1>3, <2>2
<1>6. Chained(s)
  BY <1>1, <1>4, <1>5 DEF Chained
<1> QED  BY <1>2, <1>3, <1>6 DEF s

\* The operations of a call that extends, once its block b is allocated.
LEMMA ExtendOps ==
  ASSUME LockType, NEW t \in Threads, NEW b \in Blocks, b \notin Ptrs, NEW A, b \in A,
         NEW s, s = <<Op("get", PtrBlock(File(t)), FALSE), Op("link", PtrBlock(File(t)), FALSE),
                      Op("modify", PtrBlock(File(t)), FALSE)>> \o Through(t, b, TRUE)
  PROVE  CallOK(t, "run", "extend", s, A) /\ Links(s) /\ s # << >> /\ Head(s).op = "get"
<1>1. PICK p1, p2, p3, p4, p5, g : /\ p1 = Op("get", PtrBlock(File(t)), FALSE)
                                   /\ p2 = Op("link", PtrBlock(File(t)), FALSE)
                                   /\ p3 = Op("modify", PtrBlock(File(t)), FALSE)
                                   /\ p4 = Op("get", PtrBlock(File(t)), FALSE)
                                   /\ p5 = Op("use", PtrBlock(File(t)), FALSE)
                                   /\ g = Op("get", b, TRUE)
  OBVIOUS
<1>2. File(t) \in Files
  BY FileOfAssumption DEF File, LockType
<1>3. PtrBlock(File(t)) \in Blocks /\ PtrBlock(File(t)) \in Ptrs
  BY <1>2 DEF Blocks, Ptrs
<1>4. p1 \in Ops /\ p2 \in Ops /\ p3 \in Ops /\ p4 \in Ops /\ p5 \in Ops /\ g \in Ops
  BY <1>1, <1>3 DEF Op, Ops
<1>5. \A o \in {p1, p2, p3, p4, p5, g} : OpOK(t, o, A)
  BY <1>1, <1>2, <1>3 DEF Op, OpOK
<1>6. PICK x, y : x = <<p1, p2, p3>> /\ y = <<p4, p5, g>>
  OBVIOUS
<1>7. /\ x \in Seq(Ops) /\ Range(x) = {p1, p2, p3} /\ y \in Seq(Ops) /\ Range(y) = {p4, p5, g}
      /\ Len(x) = 3 /\ x[1] = p1 /\ x[2] = p2 /\ x[3] = p3
      /\ Len(y) = 3 /\ y[1] = p4 /\ y[2] = p5 /\ y[3] = g
  <2>1. x \in Seq(Ops) /\ Range(x) = {p1, p2, p3}
    BY <1>4, <1>6, TripleParts
  <2>2. y \in Seq(Ops) /\ Range(y) = {p4, p5, g}
    BY <1>4, <1>6, TripleParts
  <2>3. Len(x) = 3 /\ x[1] = p1 /\ x[2] = p2 /\ x[3] = p3
    BY <1>6
  <2>4. Len(y) = 3 /\ y[1] = p4 /\ y[2] = p5 /\ y[3] = g
    BY <1>6
  <2> QED  BY <2>1, <2>2, <2>3, <2>4
<1>8. s = x \o y
  BY <1>1, <1>6 DEF Through
<1>10. /\ p1.op = "get" /\ p2.op = "link" /\ p3.op = "modify" /\ p4.op = "get" /\ p5.op = "use"
       /\ g.op = "get" /\ p1.b = p2.b /\ p2.b = p3.b /\ p4.b = p5.b
  BY <1>1 DEF Op
<1>9. s \in Seq(Ops) /\ Range(s) = {p1, p2, p3, p4, p5, g} /\ Chained(s) /\ s # << >> /\ Head(s) = p1
  <2>0. x \in Seq(Ops) /\ y \in Seq(Ops) /\ Len(x) = 3 /\ Len(y) = 3
    BY <1>7
  <2>1. x \o y \in Seq(Ops) /\ Range(x \o y) = Range(x) \cup Range(y)
    BY <2>0, ConcatParts, ZenonT(60)
  <2>2. /\ x[1].op = "get" /\ x[2].op = "link" /\ x[3].op = "modify" /\ x[1].b = x[2].b /\ x[2].b = x[3].b
        /\ y[1].op = "get" /\ y[2].op = "use" /\ y[3].op = "get" /\ y[1].b = y[2].b
    BY <1>7, <1>10, ZenonT(60)
  <2>4. Chained(x \o y) /\ x \o y # << >> /\ Head(x \o y) = x[1]
    BY <2>0, <2>2, TwoChains, ZenonT(60)
  <2> QED  BY <1>7, <1>8, <2>1, <2>4, ZenonT(60)
<1>11. Links(s)
  BY <1>9, <1>10 DEF Links
<1>12. \A o \in Range(s) : OpOK(t, o, A)
  BY <1>5, <1>9
<1> QED  BY <1>9, <1>10, <1>11, <1>12 DEF CallOK

LEMMA AllocStep ==
  ASSUME LockInv, BlocksInv, NEW t \in Threads, AllocInsert(t)
  PROVE  \E b, s : AllocatedTo(t, b, s)
<1>0. PICK k \in 1 .. MaxNew :
        /\ NewBlock(k) \notin Allocated
        /\ Become(Insert(Cache, NewBlock(k), Zero, FALSE))
        /\ Used(NewBlock(k), ptr)
        /\ linked' = [linked EXCEPT ![File(t)] = @ \cup {NewBlock(k)}]
        /\ todo' = [todo EXCEPT ![t] = <<Op("get", PtrBlock(File(t)), FALSE), Op("link", PtrBlock(File(t)), FALSE),
                                         Op("modify", PtrBlock(File(t)), FALSE)>>
                                       \o Through(t, NewBlock(k), TRUE)]
  BY DEF AllocInsert
<1>1. PICK b : b = NewBlock(k)
  OBVIOUS
<1>2. PICK s : s = <<Op("get", PtrBlock(File(t)), FALSE), Op("link", PtrBlock(File(t)), FALSE),
                     Op("modify", PtrBlock(File(t)), FALSE)>> \o Through(t, b, TRUE)
  OBVIOUS
<1>3. /\ Become(Insert(Cache, b, Zero, FALSE)) /\ b \notin Allocated /\ Used(b, ptr)
      /\ linked' = [linked EXCEPT ![File(t)] = @ \cup {b}]
      /\ pc' = [pc EXCEPT ![t] = "run"] /\ todo' = [todo EXCEPT ![t] = s]
      /\ on' = on /\ kind' = kind /\ wrote' = wrote /\ got' = got /\ pc[t] = "insert" /\ ~Undefined
  BY <1>0, <1>1, <1>2 DEF AllocInsert, Goto
<1>4. LockType /\ kind[t] = "extend" /\ File(t) \in Files /\ CacheOK(Cache) /\ AllocInv
      /\ In(Cache) \subseteq Known /\ ptr \in [Threads -> Blocks \cup {NoBlock}] /\ todo[t] = << >>
  <2>1. LockType /\ kind[t] = "extend" /\ File(t) \in Files
    BY <1>3, FileOfAssumption DEF LockInv, LockType, Holds, File
  <2>2. CallOK(t, pc[t], kind[t], todo[t], Allocated)
    BY DEF BlocksInv, CallsInv
  <2>3. todo[t] = << >>
    BY <1>3, <2>2 DEF CallOK
  <2> QED  BY <2>1, <2>3 DEF BlocksInv, CallsInv
<1>5. b \in Blocks \ Known
  BY <1>1, <1>3, <1>4, NewBlocks
<1>6. b \notin Ptrs /\ b \notin {DataBlock(u) : u \in Threads} /\ b \notin In(Cache)
  BY <1>4, <1>5 DEF Known
<1>7. PICK d : d = Insert(Cache, b, Zero, FALSE)
  OBVIOUS
<1>8. /\ CacheOK(d) /\ b \in In(d) /\ In(d) \subseteq In(Cache) \cup {b} /\ Ordered(Cache, d, b)
      /\ \A x \in Blocks \ {b} :
           /\ CleanOn(Cache, x) => Val(d, x) = Val(Cache, x) /\ CleanOn(d, x)
           /\ d.mem[x] = Cache.mem[x]
           /\ d.disk[x] \in {Cache.mem[x], Cache.disk[x]}
           /\ x \in In(d) /\ x \in Cache.dirty => x \in d.dirty
  <2>1. PICK c, v : c = Cache /\ v = Zero
    OBVIOUS
  <2>w. PICK w \in BOOLEAN : w = FALSE
    OBVIOUS
  <2>2. CacheOK(c) /\ b \in Blocks \ In(c)
    BY <1>4, <1>5, <1>6, <2>1
  <2>3. PICK e : e = Insert(c, b, v, w)
    OBVIOUS
  <2>4. /\ CacheOK(e) /\ b \in In(e) /\ In(e) \subseteq In(c) \cup {b} /\ Ordered(c, e, b)
        /\ \A x \in Blocks \ {b} :
             /\ CleanOn(c, x) => Val(e, x) = Val(c, x) /\ CleanOn(e, x)
             /\ e.mem[x] = c.mem[x]
             /\ e.disk[x] \in {c.mem[x], c.disk[x]}
             /\ x \in In(e) /\ x \in c.dirty => x \in e.dirty
    BY <2>2, <2>3, Inserted
  <2>5. d = e
    BY <1>7, <2>1, <2>3, <2>w
  <2> QED  BY <2>1, <2>4, <2>5
<1>9. Cache' = d
  BY <1>3, <1>7, <1>8, BecomeCache
<1>10. Allocated' = Allocated \cup {b} /\ AllocInv'
  BY <1>1, <1>3, <1>4, AllocatedGrows
<1>11. CallOK(t, "run", kind[t], s, Allocated') /\ Links(s) /\ s # << >> /\ Head(s).op = "get"
  <2>1. b \in Allocated' /\ b \in Blocks
    BY <1>5, <1>10
  <2>2. CallOK(t, "run", "extend", s, Allocated') /\ Links(s) /\ s # << >> /\ Head(s).op = "get"
    BY <1>2, <1>4, <1>6, <2>1, ExtendOps
  <2> QED  BY <1>4, <2>2
<1>12. ~Marking(s) /\ PtrOK("run", s, ptr[t])
  BY <1>4, <1>11 DEF Marking, PtrOK
<1>13. ptr' = [ptr EXCEPT ![t] = ptr[t]] /\ kind = [kind EXCEPT ![t] = kind[t]]
  BY <1>3, <1>4 DEF Used, LockType
<1>14. Moves(t, "run", kind[t], s, ptr[t])
  BY <1>3, <1>11, <1>12, <1>13 DEF Moves
<1>15. AllocatedTo(t, b, s)
  BY <1>3, <1>4, <1>5, <1>6, <1>8, <1>9, <1>10, <1>11, <1>12, <1>14 DEF AllocatedTo
<1> QED  BY <1>15

\* alloc_block stores the links of f in its indirect block.
LinkedTo(t, f) ==
  /\ Moves(t, "run", kind[t], Tail(todo[t]), ptr[t]) /\ Rests(t)
  /\ f = File(t) /\ f \in Files /\ ptr[t] = PtrBlock(f)
  /\ OnlyIn(PtrBlock(f)) /\ Cache'.dirty = Cache.dirty
  /\ Cache'.mem[PtrBlock(f)] = Cache.mem[PtrBlock(f)] \cup linked[f]
  /\ Marking(Tail(todo[t])) /\ Links(Tail(todo[t]))
  /\ linked' = linked /\ wrote' = wrote /\ got' = got

\* alloc_block marks the indirect block of f.
MarkedTo(t, f) ==
  /\ Moves(t, "run", kind[t], Tail(todo[t]), NoBlock) /\ Rests(t)
  /\ f = File(t) /\ f \in Files /\ ptr[t] = PtrBlock(f) /\ Marking(todo[t])
  /\ OnlyIn(PtrBlock(f)) /\ Cache'.mem = Cache.mem
  /\ PtrBlock(f) \in In(Cache) => PtrBlock(f) \in Cache'.dirty
  /\ ~Marking(Tail(todo[t]))
  /\ linked' = linked /\ wrote' = wrote /\ got' = got

\* What is known of a thread that is to store a link or to mark its block.
LEMMA LinkOp ==
  ASSUME LockInv, BlocksInv, NEW t \in Threads, pc[t] = "run", todo[t] # << >>,
         Current(t).op \in {"link", "modify"}
  PROVE  /\ File(t) \in Files /\ Current(t).b = PtrBlock(File(t)) /\ PtrBlock(File(t)) \in Blocks
         /\ ptr[t] = PtrBlock(File(t))
         /\ pc = [pc EXCEPT ![t] = "run"] /\ kind = [kind EXCEPT ![t] = kind[t]]
         /\ ptr = [ptr EXCEPT ![t] = ptr[t]]
         /\ CallOK(t, "run", kind[t], Tail(todo[t]), Allocated)
<1>1. File(t) \in Files /\ pc \in [Threads -> Labels] /\ kind \in [Threads -> CallKinds]
      /\ ptr \in [Threads -> Blocks \cup {NoBlock}]
  BY FileOfAssumption DEF LockInv, LockType, BlocksInv, CallsInv, File
<1>2. PtrOK("run", todo[t], ptr[t])
  BY DEF BlocksInv, CallsInv
<1>3. OpOK(t, Current(t), Allocated) /\ CallOK(t, "run", kind[t], Tail(todo[t]), Allocated)
  BY CurrentOp
<1>4. Current(t).b = PtrBlock(File(t)) /\ PtrBlock(File(t)) \in Blocks
  BY <1>1, <1>3 DEF OpOK, Blocks
<1>5. ptr[t] = Current(t).b
  BY <1>2 DEF PtrOK, Current
<1> QED  BY <1>1, <1>3, <1>4, <1>5

LEMMA LinkStep ==
  ASSUME LockInv, BlocksInv, NEW t \in Threads, StoreLink(t)
  PROVE  LinkedTo(t, File(t))
<1>1. /\ pc[t] = "run" /\ todo[t] # << >> /\ Current(t).op = "link" /\ ~Undefined
      /\ mem' = [mem EXCEPT ![Current(t).b] = @ \cup linked[File(t)]]
      /\ todo' = [todo EXCEPT ![t] = Tail(todo[t])]
      /\ on' = on /\ pc' = pc /\ kind' = kind /\ lru' = lru /\ dirty' = dirty /\ disk' = disk
      /\ UNCHANGED pointers /\ linked' = linked /\ wrote' = wrote /\ got' = got
  BY DEF StoreLink, Done, history
<1>2. PICK p : p = PtrBlock(File(t)) /\ p \in Blocks /\ Current(t).b = p /\ ptr[t] = p /\ File(t) \in Files
  BY <1>1, LinkOp
<1>3. /\ pc = [pc EXCEPT ![t] = "run"] /\ kind = [kind EXCEPT ![t] = kind[t]]
      /\ ptr = [ptr EXCEPT ![t] = ptr[t]] /\ CallOK(t, "run", kind[t], Tail(todo[t]), Allocated)
  BY <1>1, LinkOp
<1>4. CacheOK(Cache) /\ CallOK(t, pc[t], kind[t], todo[t], Allocated)
  BY DEF BlocksInv, CallsInv
<1>5. mem = [x \in Blocks |-> mem[x]]
  BY <1>4 DEF CacheOK, Cache
<1>6. /\ mem' = [x \in Blocks |-> mem'[x]] /\ \A x \in Blocks \ {p} : mem'[x] = mem[x]
      /\ mem'[p] = mem[p] \cup linked[File(t)]
  BY <1>1, <1>2, <1>5
<1>7. /\ OnlyIn(p) /\ Cache'.mem = mem' /\ Cache.mem = mem /\ Cache'.dirty = dirty' /\ Cache.dirty = dirty
  BY <1>1, <1>2, <1>4, <1>6, OnlyInBlock
<1>8. /\ Marking(Tail(todo[t])) /\ Links(Tail(todo[t]))
      /\ Tail(todo[t]) # << >> /\ Head(Tail(todo[t])).op # "get" => Head(Tail(todo[t])).b = p
  BY <1>1, <1>2, <1>4, RestOK DEF Current
<1>9. PtrOK("run", Tail(todo[t]), ptr[t])
  BY <1>2, <1>8 DEF PtrOK
<1>10. Allocated' = Allocated /\ ptr' = ptr
  BY <1>1 DEF Allocated, pointers
<1>11. Moves(t, "run", kind[t], Tail(todo[t]), ptr[t])
  BY <1>1, <1>3, <1>9, <1>10 DEF Moves
<1>12. Rests(t)
  BY <1>1 DEF Rests
<1> QED  BY <1>1, <1>2, <1>6, <1>7, <1>8, <1>11, <1>12 DEF LinkedTo

LEMMA MarkStep ==
  ASSUME LockInv, BlocksInv, NEW t \in Threads, Modify(t)
  PROVE  MarkedTo(t, File(t))
<1>1. /\ pc[t] = "run" /\ todo[t] # << >> /\ Current(t).op = "modify" /\ ~Undefined
      /\ dirty' = dirty \cup ({Current(t).b} \cap Range(lru))
      /\ todo' = [todo EXCEPT ![t] = Tail(todo[t])]
      /\ on' = on /\ pc' = pc /\ kind' = kind /\ lru' = lru /\ mem' = mem /\ disk' = disk
      /\ Dropped(t) /\ linked' = linked /\ wrote' = wrote /\ got' = got
  BY DEF Modify, Done, history
<1>2. PICK p : p = PtrBlock(File(t)) /\ p \in Blocks /\ Current(t).b = p /\ ptr[t] = p /\ File(t) \in Files
  BY <1>1, LinkOp
<1>3. /\ pc = [pc EXCEPT ![t] = "run"] /\ kind = [kind EXCEPT ![t] = kind[t]]
      /\ CallOK(t, "run", kind[t], Tail(todo[t]), Allocated)
  BY <1>1, LinkOp
<1>4. CacheOK(Cache) /\ CallOK(t, pc[t], kind[t], todo[t], Allocated)
  BY DEF BlocksInv, CallsInv
<1>5. mem' = [x \in Blocks |-> mem'[x]] /\ \A x \in Blocks \ {p} : mem'[x] = mem[x]
  BY <1>1, <1>4 DEF CacheOK, Cache
<1>6. /\ OnlyIn(p) /\ Cache'.mem = mem' /\ Cache.mem = mem
      /\ Cache'.dirty = dirty' /\ In(Cache) = Range(lru)
  BY <1>1, <1>2, <1>4, <1>5, OnlyInBlock
<1>7. p \in In(Cache) => p \in Cache'.dirty
  BY <1>1, <1>2, <1>6
<1>8. ~Marking(Tail(todo[t])) /\ (Tail(todo[t]) = << >> \/ Head(Tail(todo[t])).op = "get")
  BY <1>1, <1>4, RestOK DEF Current
<1>9. PtrOK("run", Tail(todo[t]), NoBlock) /\ Marking(todo[t])
  BY <1>1, <1>8 DEF PtrOK, Marking, Current
<1>10. Allocated' = Allocated
  BY <1>1 DEF Allocated
<1>11. Moves(t, "run", kind[t], Tail(todo[t]), NoBlock)
  BY <1>1, <1>3, <1>9, <1>10 DEF Moves, Dropped
<1>12. Rests(t)
  BY <1>1 DEF Rests
<1> QED  BY <1>1, <1>2, <1>6, <1>7, <1>8, <1>9, <1>11, <1>12 DEF MarkedTo

\* Every step is one of these.
StepOf(t) ==
  \/ Quiet(t)
  \/ \E d : \E m \in BOOLEAN : FetchedTo(t, d, m)
  \/ \E p : CopiedTo(t, p)
  \/ \E b, s : AllocatedTo(t, b, s)
  \/ LinkedTo(t, File(t))
  \/ MarkedTo(t, File(t))

LEMMA StepsOf ==
  ASSUME LockInv, BlocksInv, Next
  PROVE  \E t \in Threads : StepOf(t)
<1>1. PICK t \in Threads : Step(t) \/ \E k \in KindsOf[t] : Call(t, k)
  BY DEF Next
<1>2. CASE Hit(t) \/ Fill(t)
  BY <1>2, Fetched DEF StepOf, LockInv
<1>3. CASE AllocInsert(t)
  BY <1>3, AllocStep DEF StepOf
<1>4. CASE StoreLink(t)
  BY <1>4, LinkStep DEF StepOf
<1>5. CASE Modify(t)
  BY <1>5, MarkStep DEF StepOf
<1>6. CASE Copy(t)
  BY <1>6, CopyStep DEF StepOf
<1>7. CASE \/ LockBig(t) \/ LockStatus(t) \/ LockInode(t) \/ UnlockShared(t) \/ LockInodeUnique(t)
           \/ LockAlloc(t) \/ GetShared(t) \/ Miss(t) \/ GetUnique(t) \/ UsePointer(t) \/ Return(t)
           \/ \E k \in KindsOf[t] : Call(t, k)
  <2>1. Quiet(t)
    BY <1>7, QuietSteps
  <2> QED  BY <2>1 DEF StepOf
<1> QED  BY <1>1, <1>2, <1>3, <1>4, <1>5, <1>6, <1>7 DEF Step

LEMMA BlocksInit == Init => BlocksInv
<1> SUFFICES ASSUME Init PROVE BlocksInv
  OBVIOUS
<1>1. CacheOK(Cache) /\ In(Cache) = {}
  BY SizeAssumption DEF Init, CacheOK, Cache, In, IsInjective, Range
<1>2. Allocated = {}
  BY DEF Init, Allocated
<1>3. AllocInv
  <2>1. linked = [f \in Files |-> linked[f]]
    BY DEF Init
  <2> QED  BY <1>2, <2>1 DEF AllocInv
<1>4. CallsInv
  <2>1. \A t \in Threads : pc[t] = "idle" /\ todo[t] = << >> /\ ptr[t] = NoBlock
    BY DEF Init
  <2>2. todo \in [Threads -> Seq(Ops)] /\ ptr \in [Threads -> Blocks \cup {NoBlock}]
    BY DEF Init
  <2> QED  BY <2>1, <2>2 DEF CallsInv, CallOK, PtrOK, Links, Chained, Range
<1> QED  BY <1>1, <1>3, <1>4 DEF BlocksInv

\* A step whose cache and calls are right leaves all right.
LEMMA BlocksKept ==
  ASSUME LockType, BlocksInv, NEW t \in Threads, NEW l, NEW k, NEW s, NEW p, Moves(t, l, k, s, p),
         linked' = linked, CacheOK(Cache'), NEW b \in Known, In(Cache') \subseteq In(Cache) \cup {b}
  PROVE  BlocksInv'
<1>1. Allocated' = Allocated /\ Known' = Known
  BY DEF Allocated, Known
<1>2. CacheOK(Cache)' /\ In(Cache)' = In(Cache')
  BY DEF CacheOK, In
<1>3. AllocInv'
  BY <1>1 DEF BlocksInv, AllocInv
<1>4. CallsInv'
  BY <1>1, CallsMoved DEF BlocksInv
<1> QED  BY <1>1, <1>2, <1>3, <1>4 DEF BlocksInv

LEMMA BlocksStep ==
  ASSUME LockType, BlocksInv, NEW t \in Threads, StepOf(t)
  PROVE  BlocksInv'
<1>0. CacheOK(Cache) /\ DirBlock \in Known
  BY DEF BlocksInv, Known
<1>1. ASSUME NEW l, NEW k, NEW s, NEW p, QuietTo(t, l, k, s, p) PROVE BlocksInv'
  <2>1. Cache' = Cache /\ linked' = linked /\ Moves(t, l, k, s, p)
    BY <1>1 DEF QuietTo, Cache
  <2> QED  BY <1>0, <2>1, BlocksKept
<1>2. ASSUME NEW d, NEW m \in BOOLEAN, FetchedTo(t, d, m) PROVE BlocksInv'
  <2>1. PICK k, s, b : /\ k = kind[t] /\ s = todo[t] /\ b = Current(t).b
    OBVIOUS
  <2>2. /\ Moves(t, "copy", k, s, b) /\ linked' = linked
        /\ CacheOK(Cache') /\ In(Cache') \subseteq In(Cache) \cup {b}
    BY <1>2, <2>1 DEF FetchedTo, Fetches
  <2>3. b \in Known
    BY <1>2, <2>1, CurrentOp DEF FetchedTo
  <2> QED  BY <2>2, <2>3, BlocksKept
<1>3. ASSUME NEW p, CopiedTo(t, p) PROVE BlocksInv'
  <2>1. PICK k, s : k = kind[t] /\ s = Tail(todo[t])
    OBVIOUS
  <2>2. Moves(t, "run", k, s, p) /\ linked' = linked /\ CacheOK(Cache') /\ In(Cache') = In(Cache)
    BY <1>3, <2>1 DEF CopiedTo, OnlyIn
  <2> QED  BY <1>0, <2>2, BlocksKept
<1>4. ASSUME NEW b, NEW s, AllocatedTo(t, b, s) PROVE BlocksInv'
  <2>1. Allocated' = Allocated \cup {b} /\ AllocInv' /\ Known' = Known \cup {b}
    BY <1>4 DEF AllocatedTo, Known
  <2>2. CacheOK(Cache)' /\ In(Cache)' = In(Cache') /\ In(Cache') \subseteq Known'
    BY <1>4, <2>1 DEF AllocatedTo, CacheOK, In, BlocksInv
  <2>3. PICK k, p : k = kind[t] /\ p = ptr[t]
    OBVIOUS
  <2>4. Moves(t, "run", k, s, p)
    BY <1>4, <2>3 DEF AllocatedTo
  <2>5. CallsInv'
    BY <2>1, <2>4, CallsMoved DEF BlocksInv
  <2> QED  BY <2>1, <2>2, <2>5 DEF BlocksInv
<1>5. CASE LinkedTo(t, File(t))
  <2>1. PICK k, s, p : k = kind[t] /\ s = Tail(todo[t]) /\ p = ptr[t]
    OBVIOUS
  <2>2. Moves(t, "run", k, s, p) /\ linked' = linked /\ CacheOK(Cache') /\ In(Cache') = In(Cache)
    BY <1>5, <2>1 DEF LinkedTo, OnlyIn
  <2> QED  BY <1>0, <2>2, BlocksKept
<1>6. CASE MarkedTo(t, File(t))
  <2>1. PICK k, s : k = kind[t] /\ s = Tail(todo[t])
    OBVIOUS
  <2>2. Moves(t, "run", k, s, NoBlock) /\ linked' = linked /\ CacheOK(Cache') /\ In(Cache') = In(Cache)
    BY <1>6, <2>1 DEF MarkedTo, OnlyIn
  <2> QED  BY <1>0, <2>2, BlocksKept
<1> QED  BY <1>1, <1>2, <1>3, <1>4, <1>5, <1>6 DEF StepOf, Quiet

LEMMA BlocksNext == LockInv /\ BlocksInv /\ [Next]_vars => BlocksInv'
<1> SUFFICES ASSUME LockInv, BlocksInv, [Next]_vars PROVE BlocksInv'
  OBVIOUS
<1>1. CASE Next
  <2>1. PICK t \in Threads : StepOf(t)
    BY <1>1, StepsOf
  <2> QED  BY <2>1, BlocksStep DEF LockInv
<1>2. CASE UNCHANGED vars
  <2>1. Cache' = Cache /\ Allocated' = Allocated /\ Known' = Known
    BY <1>2 DEF vars, Cache, Allocated, Known
  <2>2. CacheOK(Cache)' /\ In(Cache)' \subseteq Known' /\ AllocInv'
    BY <1>2, <2>1 DEF vars, BlocksInv, CacheOK, In, AllocInv
  <2>3. CallsInv'
    BY <1>2, <2>1 DEF vars, BlocksInv, CallsInv, CallOK, PtrOK, OpOK, File
  <2> QED  BY <2>2, <2>3 DEF BlocksInv
<1> QED  BY <1>1, <1>2

\* The strengthening of CachedOnce: the list of the cache, the new blocks and the
\* block operations left in each call fit together in every reachable state, and
\* a thread that is to use a Block has it.
THEOREM BlocksHeld == Spec => []BlocksInv
<1>1. Spec => []LockInv
  BY LocksHeld
<1> QED  BY <1>1, BlocksInit, BlocksNext, PTL DEF Spec

\* The cache never holds two copies of a block, though get_block looks, unlocks
\* and locks again before it inserts, and alloc_block inserts without m_.
THEOREM OneCopy == Spec => []CachedOnce
<1>1. BlocksInv => CachedOnce
  BY DEF BlocksInv, CacheOK, Cache, CachedOnce
<1> QED  BY <1>1, BlocksHeld, PTL

(***************************************************************************)
(* How long a Block lives.                                                 *)
(***************************************************************************)
\* The blocks before the Block of thread t in the list have been used since it
\* was, or it has left the list and they are as many as the cache holds.
Aged(t) ==
  /\ IsFiniteSet(since[t])
  /\ ptr[t] # NoBlock /\ ptr[t] \in In(Cache) => \A y : IsBefore(lru, y, ptr[t]) => y \in since[t]
  /\ ptr[t] # NoBlock /\ ptr[t] \notin In(Cache) => Cardinality(since[t]) >= Size

AgeInv == since = [t \in Threads |-> since[t]] /\ \A t \in Threads : Aged(t)

\* A list without repetition has as many elements as it is long.
LEMMA ListSize ==
  ASSUME NEW S, NEW s \in Seq(S), IsInjective(s)
  PROVE  IsFiniteSet(Range(s)) /\ Cardinality(Range(s)) = Len(s)
<1>1. Len(s) \in Nat /\ DOMAIN s = 1 .. Len(s) /\ s \in [1 .. Len(s) -> Range(s)]
  BY SeqOf DEF Range
<1>2. s \in Bijection(1 .. Len(s), Range(s))
  BY <1>1 DEF Bijection, Injection, Surjection, IsInjective, Range
<1>3. IsFiniteSet(1 .. Len(s)) /\ Cardinality(1 .. Len(s)) = Len(s)
  BY <1>1, FS_Interval
<1>4. ExistsBijection(1 .. Len(s), Range(s))
  BY <1>2 DEF ExistsBijection
<1> QED  BY <1>3, <1>4, FS_Bijection

LEMMA AgeRests ==
  ASSUME BlocksInv, AgeInv, NEW t \in Threads, Rests(t), In(Cache') = In(Cache)
  PROVE  AgeInv'
<1>1. /\ ptr \in [Threads -> Blocks \cup {NoBlock}] /\ since = [u \in Threads |-> since[u]]
      /\ lru' = lru /\ In(Cache)' = In(Cache)
  BY DEF BlocksInv, CallsInv, AgeInv, Rests, In
<1>2. CASE UNCHANGED pointers
  BY <1>1, <1>2 DEF AgeInv, Aged, pointers
<1>3. CASE Dropped(t)
  <2>1. since' = [u \in Threads |-> since'[u]] /\ ptr'[t] = NoBlock /\ since'[t] = {}
    BY <1>1, <1>3 DEF Dropped
  <2>2. ASSUME NEW u \in Threads \ {t} PROVE Aged(u)'
    <3>1. ptr'[u] = ptr[u] /\ since'[u] = since[u] /\ Aged(u)
      BY <1>1, <1>3 DEF Dropped, AgeInv
    <3> QED  BY <1>1, <3>1 DEF Aged
  <2>3. Aged(t)'
    BY <2>1, FS_EmptySet DEF Aged
  <2> QED  BY <2>1, <2>2, <2>3 DEF AgeInv
<1> QED  BY <1>2, <1>3 DEF Rests

LEMMA AgeUses ==
  ASSUME BlocksInv, AgeInv, ~Undefined, NEW b, b \in In(Cache'), CacheOK(Cache'), Ordered(Cache, Cache', b),
         NEW p, Used(b, p), \A u \in Threads : p[u] \in {b, ptr[u]}
  PROVE  AgeInv'
<1>1. /\ ptr' = p /\ since' = [u \in Threads |-> since'[u]] /\ In(Cache)' = In(Cache')
      /\ \A u \in Threads : since'[u] = IF p[u] \in {b, NoBlock} THEN {} ELSE since[u] \cup {b}
  BY DEF Used, In
<1>2. CacheOK(Cache) /\ Cache.lru = lru /\ Cache'.lru = lru'
  BY DEF BlocksInv, Cache
<1>3. /\ \A y, x : IsBefore(lru', y, x) => x # b /\ (y = b \/ IsBefore(lru, y, x))
      /\ \A x \in In(Cache) \ In(Cache') :
           Len(lru') = Size /\ \A y \in In(Cache') : y = b \/ IsBefore(lru, y, x)
  BY <1>2 DEF Ordered
<1>4. ASSUME NEW u \in Threads PROVE Aged(u)'
  <2>1. CASE p[u] = NoBlock
    BY <1>1, <2>1, FS_EmptySet DEF Aged
  <2>2. CASE p[u] = b /\ p[u] # NoBlock
    <3>1. ptr'[u] = b /\ since'[u] = {} /\ \A y : ~IsBefore(lru', y, b)
      BY <1>1, <1>3, <2>2
    <3> QED  BY <1>1, <3>1, FS_EmptySet DEF Aged
  <2>3. CASE p[u] # b /\ p[u] # NoBlock
    <3>1. PICK x : x = ptr[u] /\ x = ptr'[u] /\ x # b /\ x # NoBlock
      BY <1>1, <2>3
    <3>2. since'[u] = since[u] \cup {b}
      BY <1>1, <2>3
    <3>3. x \in In(Cache)
      BY <1>2, <3>1, PtrCached
    <3>4. IsFiniteSet(since[u]) /\ \A y : IsBefore(lru, y, x) => y \in since[u]
      BY <3>1, <3>3 DEF AgeInv, Aged
    <3>5. IsFiniteSet(since'[u]) /\ Cardinality(since'[u]) \in Nat
      BY <3>2, <3>4, FS_AddElement, FS_CardinalityType
    <3>6. \A y : IsBefore(lru', y, x) => y \in since'[u]
      BY <1>3, <3>2, <3>4
    <3>7. ASSUME x \notin In(Cache') PROVE Cardinality(since'[u]) >= Size
      <4>1. Len(lru') = Size /\ In(Cache') \subseteq since'[u]
        BY <1>3, <3>2, <3>3, <3>4, <3>7
      <4>2. In(Cache') = Range(lru') /\ lru' \in Seq(Blocks) /\ IsInjective(lru')
        BY <1>2 DEF CacheOK, In
      <4>3. IsFiniteSet(In(Cache')) /\ Cardinality(In(Cache')) = Size
        BY <4>1, <4>2, ListSize
      <4>4. Cardinality(In(Cache')) <= Cardinality(since'[u])
        BY <3>5, <4>1, FS_Subset
      <4> QED  BY <3>5, <4>3, <4>4, SizeAssumption
    <3> QED  BY <1>1, <3>1, <3>5, <3>6, <3>7 DEF Aged
  <2> QED  BY <2>1, <2>2, <2>3
<1> QED  BY <1>1, <1>4 DEF AgeInv

LEMMA AgeStep ==
  ASSUME LockType, BlocksInv, AgeInv, NEW t \in Threads, StepOf(t)
  PROVE  AgeInv'
<1>1. ASSUME NEW l, NEW k, NEW s, NEW p, QuietTo(t, l, k, s, p) PROVE AgeInv'
  <2>1. Rests(t) /\ In(Cache') = In(Cache)
    BY <1>1 DEF QuietTo, Cache
  <2> QED  BY <2>1, AgeRests
<1>2. ASSUME NEW d, NEW m \in BOOLEAN, FetchedTo(t, d, m) PROVE AgeInv'
  <2>1. PICK b, p : b = Current(t).b /\ p = [ptr EXCEPT ![t] = Current(t).b]
    OBVIOUS
  <2>2. /\ ~Undefined /\ b \in In(Cache') /\ CacheOK(Cache') /\ Ordered(Cache, Cache', b) /\ Used(b, p)
    BY <1>2, <2>1 DEF FetchedTo, Fetches, Moves
  <2>3. \A u \in Threads : p[u] \in {b, ptr[u]}
    BY <2>1 DEF BlocksInv, CallsInv
  <2> QED  BY <2>2, <2>3, AgeUses
<1>3. ASSUME NEW p, CopiedTo(t, p) PROVE AgeInv'
  BY <1>3, AgeRests DEF CopiedTo, OnlyIn
<1>4. ASSUME NEW b, NEW s, AllocatedTo(t, b, s) PROVE AgeInv'
  <2>1. PICK p : p = ptr
    OBVIOUS
  <2>2. /\ ~Undefined /\ b \in In(Cache') /\ CacheOK(Cache') /\ Ordered(Cache, Cache', b) /\ Used(b, p)
    BY <1>4, <2>1 DEF AllocatedTo, Moves
  <2>3. \A u \in Threads : p[u] \in {b, ptr[u]}
    BY <2>1
  <2> QED  BY <2>2, <2>3, AgeUses
<1>5. CASE LinkedTo(t, File(t))
  BY <1>5, AgeRests DEF LinkedTo, OnlyIn
<1>6. CASE MarkedTo(t, File(t))
  BY <1>6, AgeRests DEF MarkedTo, OnlyIn
<1> QED  BY <1>1, <1>2, <1>3, <1>4, <1>5, <1>6 DEF StepOf, Quiet

LEMMA AgeNext == LockInv /\ BlocksInv /\ AgeInv /\ [Next]_vars => AgeInv'
<1> SUFFICES ASSUME LockInv, BlocksInv, AgeInv, [Next]_vars PROVE AgeInv'
  OBVIOUS
<1>1. CASE Next
  <2>1. PICK t \in Threads : StepOf(t)
    BY <1>1, StepsOf
  <2> QED  BY <2>1, AgeStep DEF LockInv
<1>2. CASE UNCHANGED vars
  BY <1>2 DEF vars, AgeInv, Aged, In, Cache
<1> QED  BY <1>1, <1>2

LEMMA AgeInit == Init => AgeInv
<1> SUFFICES ASSUME Init PROVE AgeInv
  OBVIOUS
<1>1. \A t \in Threads : ptr[t] = NoBlock /\ since[t] = {}
  BY DEF Init
<1>2. since = [t \in Threads |-> since[t]]
  BY DEF Init
<1> QED  BY <1>1, <1>2, FS_EmptySet DEF AgeInv, Aged

\* A Block that get_block returned is deleted before its last use only after as
\* many other blocks have been used as the cache holds, for every size of it and
\* every number of threads.
THEOREM PointerLifetime == Spec => []PointersOutlast
<1>1. ASSUME BlocksInv, AgeInv, NEW t \in Threads, Deleted(t) PROVE Cardinality(since[t]) >= Size
  <2>1. ptr[t] # NoBlock /\ ptr[t] \notin In(Cache)
    BY <1>1, CachedIn DEF Deleted, BlocksInv
  <2> QED  BY <1>1, <2>1 DEF AgeInv, Aged
<1>2. BlocksInv /\ AgeInv => PointersOutlast
  BY <1>1 DEF PointersOutlast
<1> QED  BY <1>2, AgeInit, AgeNext, LocksHeld, BlocksHeld, PTL DEF Spec
==============================================================================
