---------------------------- MODULE KernelProofs ----------------------------
(***************************************************************************)
(* The invariants of Kernel, and that it implements RtosClient, for any    *)
(* mutexes and semaphores.                                                 *)
(*                                                                         *)
(* KernelInv is the inductive invariant: the ready and pend lists hold the *)
(* tasks the control blocks say, in order; mutex groups and owners agree;  *)
(* every task has the priority it is owed by those that wait for it; and a *)
(* most urgent task runs, or is switched to, or the running task is about  *)
(* to call OSSched.  Each kernel function is an operator, so each has a    *)
(* lemma about its result; the steps then cite the lemmas of the functions *)
(* they call.                                                              *)
(***************************************************************************)
EXTENDS Kernel, SequenceTheorems, TLAPS

-----------------------------------------------------------------------------
(* Lists *)

\* s lists the elements of S, each of them once.
Lists(s, S) ==
  /\ s \in Seq(S)
  /\ \A x \in S : \E i \in 1..Len(s) : s[i] = x
  /\ \A i, j \in 1..Len(s) : s[i] = s[j] => i = j

\* The elements of s are in the order of their priorities pr.
Sorted(s, pr) == \A i, j \in 1..Len(s) : i < j => pr[s[i]] <= pr[s[j]]

(* The empty list lists nothing, and it alone does. *)
LEMMA ListsEmpty ==
  ASSUME NEW s, NEW S, Lists(s, S)
  PROVE  s = <<>> <=> S = {}
<1>1. s \in Seq(S) BY DEF Lists
<1>2. s = <<>> => S = {} BY <1>1, EmptySeq DEF Lists
<1>3. ASSUME S = {}, s # <<>> PROVE FALSE
  <2>1. Len(s) \in Nat \ {0} BY <1>1, <1>3, EmptySeq
  <2>2. s[1] \in S BY <1>1, <2>1, ElementOfSeq
  <2> QED BY <2>2, <1>3
<1> QED BY <1>2, <1>3

(* A list without elements. *)
LEMMA ListsNone == Lists(<<>>, {})
BY EmptySeq DEF Lists

(* The first element is listed, and is the least one of a sorted list. *)
LEMMA ListsHead ==
  ASSUME NEW s, NEW S, Lists(s, S), s # <<>>
  PROVE  /\ Head(s) \in S
         /\ \A pr \in [S -> Nat] : Sorted(s, pr) => \A x \in S : pr[Head(s)] <= pr[x]
<1>1. s \in Seq(S) /\ Len(s) \in Nat \ {0} BY EmptySeq DEF Lists
<1>2. Head(s) = s[1] BY <1>1
<1>3. s[1] \in S BY <1>1, ElementOfSeq
<1>4. ASSUME NEW pr \in [S -> Nat], Sorted(s, pr), NEW x \in S PROVE pr[s[1]] <= pr[x]
  <2>1. PICK i \in 1..Len(s) : s[i] = x BY DEF Lists
  <2>2. CASE i = 1 BY <2>1, <2>2, <1>4
  <2>3. CASE 1 < i BY <2>1, <2>3, <1>4, <1>1 DEF Sorted
  <2> QED BY <2>1, <2>2, <2>3, <1>1
<1> QED BY <1>2, <1>3, <1>4

\* r is s with x put at place n.
Inserted(r, s, n, x) ==
  /\ Len(r) = Len(s) + 1
  /\ \A i \in 1..Len(s) + 1 :
       /\ i < n => r[i] = s[i]
       /\ i = n => r[i] = x
       /\ i > n => r[i] = s[i - 1]

(* An element put at any place. *)
LEMMA InsertAtPlace ==
  ASSUME NEW S, NEW s \in Seq(S), NEW x, NEW n \in 1..Len(s) + 1
  PROVE  /\ InsertAt(s, n, x) \in Seq(S \cup {x})
         /\ Inserted(InsertAt(s, n, x), s, n, x)
<1> DEFINE T == S \cup {x}
<1>0. s \in Seq(T) /\ x \in T /\ Len(s) \in Nat BY SeqMonotonic, LenProperties
<1> HIDE DEF T
<1> DEFINE a == SubSeq(s, 1, n - 1)
           b == SubSeq(s, n, Len(s))
<1>1. /\ a \in Seq(T) /\ Len(a) = n - 1
      /\ \A i \in 1..n - 1 : a[i] = s[i]
  BY <1>0, SubSeqProperties
<1>2. /\ b \in Seq(T) /\ Len(b) = Len(s) + 1 - n
      /\ \A i \in 1..Len(s) + 1 - n : b[i] = s[n + i - 1]
  BY <1>0, SubSeqProperties
<1> HIDE DEF a, b
<1> DEFINE c == a \o <<x>>
<1>3. <<x>> \in Seq(T) /\ Len(<<x>>) = 1 /\ <<x>>[1] = x BY <1>0
<1>4. /\ c \in Seq(T) /\ Len(c) = n
      /\ \A i \in 1..n : c[i] = IF i < n THEN a[i] ELSE x
  BY <1>0, <1>1, <1>3, ConcatProperties
<1> HIDE DEF c
<1>5. /\ c \o b \in Seq(T) /\ Len(c \o b) = Len(s) + 1
      /\ \A i \in 1..Len(s) + 1 : (c \o b)[i] = IF i <= n THEN c[i] ELSE b[i - n]
  <2>1. /\ c \o b \in Seq(T) /\ Len(c \o b) = Len(c) + Len(b)
        /\ \A i \in 1..Len(c) + Len(b) :
             (c \o b)[i] = IF i <= Len(c) THEN c[i] ELSE b[i - Len(c)]
    BY <1>2, <1>4, ConcatProperties
  <2>2. Len(c) + Len(b) = Len(s) + 1 BY <1>0, <1>2, <1>4
  <2> QED BY <2>1, <2>2, <1>4
<1>6. InsertAt(s, n, x) = c \o b BY DEF InsertAt, a, b, c
<1>7. ASSUME NEW i \in 1..Len(s) + 1
      PROVE  /\ i < n => (c \o b)[i] = s[i]
             /\ i = n => (c \o b)[i] = x
             /\ i > n => (c \o b)[i] = s[i - 1]
  <2>1. CASE i < n BY <2>1, <1>0, <1>1, <1>4, <1>5
  <2>2. CASE i = n BY <2>2, <1>0, <1>4, <1>5
  <2>3. CASE i > n
    <3>1. i - n \in 1..Len(s) + 1 - n BY <2>3, <1>0
    <3>2. b[i - n] = s[n + (i - n) - 1] BY <3>1, <1>2
    <3>3. n + (i - n) - 1 = i - 1 BY <1>0
    <3>4. ~(i <= n) /\ ~(i < n) /\ i # n BY <2>3, <1>0
    <3>5. (c \o b)[i] = b[i - n] BY <3>4, <1>5
    <3> QED BY <3>2, <3>3, <3>4, <3>5
  <2>4. i < n \/ i = n \/ i > n BY <1>0
  <2> QED BY <2>1, <2>2, <2>3, <2>4
<1> QED BY <1>5, <1>6, <1>7 DEF T, Inserted

(* A listed element taken out. *)
LEMMA RemoveAtPlace ==
  ASSUME NEW S, NEW s \in Seq(S), NEW n \in 1..Len(s)
  PROVE  /\ RemoveAt(s, n) \in Seq(S)
         /\ Len(RemoveAt(s, n)) = Len(s) - 1
         /\ \A i \in 1..Len(s) - 1 :
              RemoveAt(s, n)[i] = IF i < n THEN s[i] ELSE s[i + 1]
<1>0. Len(s) \in Nat BY LenProperties
<1> DEFINE a == SubSeq(s, 1, n - 1)
           b == SubSeq(s, n + 1, Len(s))
<1>1. /\ a \in Seq(S) /\ Len(a) = n - 1
      /\ \A i \in 1..n - 1 : a[i] = s[i]
  BY <1>0, SubSeqProperties
<1>2. /\ b \in Seq(S) /\ Len(b) = Len(s) - n
      /\ \A i \in 1..Len(s) - n : b[i] = s[n + 1 + i - 1]
  BY <1>0, SubSeqProperties
<1> HIDE DEF a, b
<1>3. /\ a \o b \in Seq(S) /\ Len(a \o b) = Len(s) - 1
      /\ \A i \in 1..Len(s) - 1 : (a \o b)[i] = IF i <= n - 1 THEN a[i] ELSE b[i - (n - 1)]
  <2>1. /\ a \o b \in Seq(S) /\ Len(a \o b) = Len(a) + Len(b)
        /\ \A i \in 1..Len(a) + Len(b) :
             (a \o b)[i] = IF i <= Len(a) THEN a[i] ELSE b[i - Len(a)]
    BY <1>1, <1>2, ConcatProperties
  <2>2. Len(a) + Len(b) = Len(s) - 1 BY <1>0, <1>1, <1>2
  <2> QED BY <2>1, <2>2, <1>1
<1>4. RemoveAt(s, n) = a \o b BY DEF RemoveAt, a, b
<1>5. ASSUME NEW i \in 1..Len(s) - 1
      PROVE  (a \o b)[i] = IF i < n THEN s[i] ELSE s[i + 1]
  <2>1. CASE i < n BY <2>1, <1>0, <1>1, <1>3
  <2>2. CASE i >= n
    <3>1. i - (n - 1) \in 1..Len(s) - n BY <2>2, <1>0
    <3>2. b[i - (n - 1)] = s[n + 1 + (i - (n - 1)) - 1] BY <3>1, <1>2
    <3>3. n + 1 + (i - (n - 1)) - 1 = i + 1 BY <1>0
    <3> QED BY <2>2, <3>2, <3>3, <1>0, <1>3
  <2>3. i < n \/ i >= n BY <1>0
  <2> QED BY <2>1, <2>2, <2>3
<1> QED BY <1>3, <1>4, <1>5

(* A task put into a list at any place. *)
LEMMA ListsInsert ==
  ASSUME NEW s, NEW S, Lists(s, S), NEW x, x \notin S, NEW n \in 1..Len(s) + 1
  PROVE  Lists(InsertAt(s, n, x), S \cup {x})
<1>0. s \in Seq(S) BY DEF Lists
<1>a. Len(s) \in Nat BY <1>0, LenProperties
<1> DEFINE r == InsertAt(s, n, x)
<1>1. /\ r \in Seq(S \cup {x}) /\ Len(r) = Len(s) + 1
      /\ \A i \in 1..Len(s) + 1 :
           /\ i < n => r[i] = s[i]
           /\ i = n => r[i] = x
           /\ i > n => r[i] = s[i - 1]
  <2>1. r \in Seq(S \cup {x}) /\ Inserted(r, s, n, x) BY <1>0, InsertAtPlace
  <2> HIDE DEF r
  <2> QED BY <2>1 DEF Inserted
<1> HIDE DEF r
<1>2. ASSUME NEW y \in S \cup {x} PROVE \E i \in 1..Len(r) : r[i] = y
  <2>1. CASE y = x BY <2>1, <1>a, <1>1
  <2>2. CASE y # x
    <3>1. PICK j \in 1..Len(s) : s[j] = y BY <2>2 DEF Lists
    <3>2. CASE j < n BY <3>1, <3>2, <1>a, <1>1
    <3>3. CASE j >= n
      <4>1. j + 1 \in 1..Len(r) /\ j + 1 > n /\ (j + 1) - 1 = j
        BY <3>3, <1>a, <1>1
      <4> QED BY <4>1, <3>1, <1>1
    <3>4. j < n \/ j >= n BY <1>a
    <3> QED BY <3>2, <3>3, <3>4
  <2> QED BY <2>1, <2>2
<1>3. ASSUME NEW i \in 1..Len(r), NEW j \in 1..Len(r), r[i] = r[j] PROVE i = j
  <2>0. i \in 1..Len(s) + 1 /\ j \in 1..Len(s) + 1 BY <1>1
  <2>1. \A a \in 1..Len(s) : s[a] # x BY <1>0, ElementOfSeq
  <2>2. \A a, b \in 1..Len(s) : s[a] = s[b] => a = b BY DEF Lists
  <2>3. \A c \in 1..Len(s) + 1 : c # n => r[c] # x
    <3> SUFFICES ASSUME NEW c \in 1..Len(s) + 1, c # n PROVE r[c] # x OBVIOUS
    <3>1. CASE c < n
      <4>1. c \in 1..Len(s) BY <3>1, <1>a
      <4> QED BY <4>1, <3>1, <2>1, <1>1
    <3>2. CASE c > n
      <4>1. c - 1 \in 1..Len(s) /\ ~(c < n) BY <3>2, <1>a
      <4> QED BY <4>1, <3>2, <2>1, <1>1
    <3>3. c < n \/ c > n BY <1>a
    <3> QED BY <3>1, <3>2, <3>3
  <2>5. r[n] = x BY <1>1, <1>a
  <2>4. ASSUME i # n, j # n PROVE i = j
    <3> DEFINE a == IF i < n THEN i ELSE i - 1
               b == IF j < n THEN j ELSE j - 1
    <3>1. a \in 1..Len(s) /\ b \in 1..Len(s) BY <2>0, <2>4, <1>a
    <3>2. r[i] = s[a] /\ r[j] = s[b] BY <2>0, <2>4, <1>1
    <3>3. a = b BY <3>1, <3>2, <2>2, <1>3
    <3> QED BY <3>3, <2>0, <2>4, <1>a
  <2> QED BY <2>0, <2>3, <2>4, <2>5, <1>3
<1> QED BY <1>1, <1>2, <1>3 DEF Lists, r

(* A task taken out of a list; the others keep their order. *)
LEMMA ListsRemove ==
  ASSUME NEW s, NEW S, Lists(s, S), NEW x \in S
  PROVE  /\ Lists(RemoveFirst(s, x), S \ {x})
         /\ \A pr : Sorted(s, pr) => Sorted(RemoveFirst(s, x), pr)
<1>0. s \in Seq(S) /\ Len(s) \in Nat BY LenProperties DEF Lists
<1>1. PICK n \in 1..Len(s) : s[n] = x BY DEF Lists
<1>2. {i \in 1..Len(s) : s[i] = x} = {n}
  <2>1. \A i \in 1..Len(s) : s[i] = x <=> i = n BY <1>1 DEF Lists
  <2> QED BY <2>1, Zenon
<1>3. SelectInSeq(s, LAMBDA v : v = x) = n
  <2>1. SelectInSeq(s, LAMBDA v : v = x) = Min({n}) BY <1>2 DEF SelectInSeq
  <2>2. Min({n}) \in {n} BY <1>0 DEF Min
  <2> QED BY <2>1, <2>2
<1>4. RemoveFirst(s, x) = RemoveAt(s, n) BY <1>1, <1>3 DEF RemoveFirst
<1> DEFINE r == RemoveAt(s, n)
<1>5. /\ r \in Seq(S) /\ Len(r) = Len(s) - 1
      /\ \A i \in 1..Len(s) - 1 : r[i] = IF i < n THEN s[i] ELSE s[i + 1]
  BY <1>0, RemoveAtPlace
<1> HIDE DEF r
<1> DEFINE at(i) == IF i < n THEN i ELSE i + 1
<1>6. \A i \in 1..Len(r) : at(i) \in 1..Len(s) /\ at(i) # n /\ r[i] = s[at(i)]
  <2> SUFFICES ASSUME NEW i \in 1..Len(r)
               PROVE  at(i) \in 1..Len(s) /\ at(i) # n /\ r[i] = s[at(i)]
    OBVIOUS
  <2>1. i \in 1..Len(s) - 1 BY <1>5
  <2>2. at(i) \in 1..Len(s) /\ at(i) # n BY <2>1, <1>0
  <2>3. r[i] = s[at(i)] BY <2>1, <1>5
  <2> QED BY <2>2, <2>3
<1>7. \A i, j \in 1..Len(r) : (at(i) = at(j) => i = j) /\ (i < j => at(i) < at(j))
  BY <1>0, <1>5
<1> HIDE DEF at
<1>8. \A i, j \in 1..Len(s) : s[i] = s[j] => i = j BY DEF Lists
<1>9. r \in Seq(S \ {x})
  <2>1. \A i \in 1..Len(r) : r[i] \in S \ {x} BY <1>0, <1>1, <1>5, <1>6, <1>8, ElementOfSeq
  <2>2. r \in [1..Len(r) -> S \ {x}] BY <2>1, <1>5, LenProperties
  <2>3. Len(r) \in Nat BY <1>5, LenProperties
  <2> QED BY <2>2, <2>3, SeqDef
<1>10. ASSUME NEW y \in S \ {x} PROVE \E i \in 1..Len(r) : r[i] = y
  <2>1. PICK j \in 1..Len(s) : s[j] = y BY DEF Lists
  <2>2. j # n BY <2>1, <1>1, <1>10
  <2>3. CASE j < n BY <2>1, <2>3, <1>0, <1>5
  <2>4. CASE j > n
    <3>1. j - 1 \in 1..Len(r) /\ ~(j - 1 < n) /\ (j - 1) + 1 = j BY <2>4, <1>0, <1>5
    <3> QED BY <3>1, <2>1, <1>5
  <2>5. j < n \/ j > n BY <2>2, <1>0
  <2> QED BY <2>3, <2>4, <2>5
<1>11. \A i, j \in 1..Len(r) : r[i] = r[j] => i = j BY <1>6, <1>7, <1>8
<1>12. ASSUME NEW pr, Sorted(s, pr) PROVE Sorted(r, pr)
  BY <1>6, <1>7, <1>12 DEF Sorted
<1> QED BY <1>4, <1>9, <1>10, <1>11, <1>12 DEF Lists, r

(* A task put behind the others. *)
LEMMA ListsAppend ==
  ASSUME NEW s, NEW S, Lists(s, S), NEW x, x \notin S
  PROVE  Lists(Append(s, x), S \cup {x})
<1>1. s \in Seq(S) BY DEF Lists
<1>2. Len(s) \in Nat BY <1>1, LenProperties
<1>3. Len(s) + 1 \in 1..Len(s) + 1 BY <1>2
<1> DEFINE T == S \cup {x}
           r == InsertAt(s, Len(s) + 1, x)
<1>4. s \in Seq(T) /\ x \in T BY <1>1, SeqMonotonic
<1>5. r \in Seq(T) /\ Inserted(r, s, Len(s) + 1, x) BY <1>1, <1>3, InsertAtPlace
<1>6. Lists(r, T) BY <1>3, ListsInsert
<1> HIDE DEF r, T
<1>7. /\ Append(s, x) \in Seq(T) /\ Len(Append(s, x)) = Len(s) + 1
      /\ \A i \in 1..Len(s) + 1 : Append(s, x)[i] = IF i <= Len(s) THEN s[i] ELSE x
  BY <1>2, <1>4, AppendProperties
<1>8. Len(r) = Len(s) + 1 /\ \A i \in 1..Len(s) + 1 : Append(s, x)[i] = r[i]
  BY <1>2, <1>5, <1>7 DEF Inserted
<1>9. Append(s, x) = r BY <1>5, <1>7, <1>8, SeqEqual
<1> QED BY <1>6, <1>9 DEF T

(* A task put in front of the others. *)
LEMMA ListsPrepend ==
  ASSUME NEW s, NEW S, Lists(s, S), NEW x, x \notin S
  PROVE  Lists(<<x>> \o s, S \cup {x})
<1>1. s \in Seq(S) BY DEF Lists
<1>2. Len(s) \in Nat BY <1>1, LenProperties
<1>3. 1 \in 1..Len(s) + 1 BY <1>2
<1> DEFINE T == S \cup {x}
           r == InsertAt(s, 1, x)
           c == <<x>> \o s
<1>4. s \in Seq(T) /\ <<x>> \in Seq(T) /\ Len(<<x>>) = 1 /\ <<x>>[1] = x
  <2>1. s \in Seq(T) BY <1>1, SeqMonotonic
  <2>2. x \in T OBVIOUS
  <2> HIDE DEF T
  <2> QED BY <2>1, <2>2
<1>5. r \in Seq(T) /\ Inserted(r, s, 1, x) BY <1>1, <1>3, InsertAtPlace
<1>6. Lists(r, T) BY <1>3, ListsInsert
<1> HIDE DEF r, T
<1>7. /\ c \in Seq(T) /\ Len(c) = Len(<<x>>) + Len(s)
      /\ \A i \in 1..Len(<<x>>) + Len(s) :
           c[i] = IF i <= Len(<<x>>) THEN <<x>>[i] ELSE s[i - Len(<<x>>)]
  BY <1>4, ConcatProperties
<1> HIDE DEF c
<1>8. Len(r) = Len(c) BY <1>2, <1>4, <1>5, <1>7 DEF Inserted
<1>9. ASSUME NEW i \in 1..Len(c) PROVE c[i] = r[i]
  <2>1. i \in 1..Len(s) + 1 /\ i \in 1..Len(<<x>>) + Len(s) BY <1>2, <1>4, <1>7
  <2>2. CASE i = 1
    <3>1. c[i] = x BY <2>1, <2>2, <1>4, <1>7
    <3> QED BY <3>1, <2>1, <2>2, <1>5 DEF Inserted
  <2>3. CASE i > 1
    <3>1. c[i] = s[i - 1] BY <2>1, <2>3, <1>4, <1>7
    <3> QED BY <3>1, <2>1, <2>3, <1>5 DEF Inserted
  <2>4. i = 1 \/ i > 1 BY <2>1, <1>2
  <2> QED BY <2>2, <2>3, <2>4
<1>10. c = r BY <1>5, <1>7, <1>8, <1>9, SeqEqual
<1> QED BY <1>6, <1>10 DEF T, c

(* The head moved behind the others. *)
LEMMA ListsRotate ==
  ASSUME NEW s, NEW S, Lists(s, S), s # <<>>
  PROVE  Lists(Append(Tail(s), Head(s)), S)
<1>1. s \in Seq(S) /\ Len(s) \in Nat \ {0} BY EmptySeq DEF Lists
<1>2. Head(s) \in S BY ListsHead
<1>3. /\ Tail(s) \in Seq(S) /\ Len(Tail(s)) = Len(s) - 1
      /\ \A i \in 1..Len(s) - 1 : Tail(s)[i] = s[i + 1]
  BY <1>1, HeadTailProperties
<1>4. Head(s) = s[1] BY <1>1
<1>5. \A i, j \in 1..Len(s) : s[i] = s[j] => i = j BY DEF Lists
<1> DEFINE r == Tail(s)
           h == Head(s)
           R == S \ {h}
<1> HIDE DEF r, h
<1>6. Lists(r, R)
  <2>1. \A i \in 1..Len(r) : r[i] \in R
    <3> SUFFICES ASSUME NEW i \in 1..Len(r) PROVE r[i] \in R OBVIOUS
    <3>1. i + 1 \in 1..Len(s) /\ i + 1 # 1 /\ 1 \in 1..Len(s) BY <1>1, <1>3 DEF r
    <3>2. r[i] = s[i + 1] BY <1>1, <1>3 DEF r
    <3>3. s[i + 1] \in S BY <3>1, <1>1, ElementOfSeq
    <3> QED BY <3>1, <3>2, <3>3, <1>4, <1>5 DEF h
  <2>2. Len(r) \in Nat /\ r \in [1..Len(r) -> S] BY <1>3, LenProperties DEF r
  <2>3. r \in Seq(R) BY <2>1, <2>2, SeqDef
  <2>4. ASSUME NEW y \in R PROVE \E i \in 1..Len(r) : r[i] = y
    <3>1. PICK j \in 1..Len(s) : s[j] = y BY DEF Lists
    <3>2. j # 1 BY <3>1, <1>4 DEF h
    <3>3. j - 1 \in 1..Len(r) /\ (j - 1) + 1 = j BY <3>2, <1>1, <1>3 DEF r
    <3> QED BY <3>1, <3>3, <1>3 DEF r
  <2>5. ASSUME NEW i \in 1..Len(r), NEW j \in 1..Len(r), r[i] = r[j] PROVE i = j
    <3>1. i + 1 \in 1..Len(s) /\ j + 1 \in 1..Len(s) BY <1>1, <1>3 DEF r
    <3>2. r[i] = s[i + 1] /\ r[j] = s[j + 1] BY <1>1, <1>3 DEF r
    <3>3. i + 1 = j + 1 BY <3>1, <3>2, <2>5, <1>5
    <3> QED BY <3>3, <1>1, <1>3 DEF r
  <2> QED BY <2>3, <2>4, <2>5 DEF Lists
<1>7. Lists(Append(r, h), R \cup {h}) BY <1>6, ListsAppend
<1>8. R \cup {h} = S BY <1>2 DEF h
<1> QED BY <1>7, <1>8 DEF r, h

(* The four tasks, and their priorities. *)
LEMMA Tasks ==
  /\ AppTask = {"TaskStart", "Task2", "Task3"}
  /\ Task = {"TaskStart", "Task2", "Task3", "OSIdleTask"}
  /\ Idle \notin AppTask /\ Idle = "OSIdleTask"
  /\ NoTask = "none" /\ NoTask \notin Task
BY DEF AppTask, Task, Idle, NoTask, Rtos!Task, Rtos!NoTask

(* The base priorities of TASKSTART_PRIO, TASK2_PRIO, TASK3_PRIO and the idle task. *)
LEMMA BasePrios ==
  /\ BasePrio \in [Task -> Priority]
  /\ BasePrio["TaskStart"] = 2 /\ BasePrio["Task2"] = 3 /\ BasePrio["Task3"] = 4
  /\ BasePrio["OSIdleTask"] = 5
BY Tasks DEF BasePrio, Priority, OS_CFG_PRIO_MAX, Rtos!Prio, Rtos!Task, AppTask

(* Each task has its own base priority. *)
LEMMA BaseDistinct == \A t, u \in Task : BasePrio[t] = BasePrio[u] => t = u
BY BasePrios, Tasks

(* Priorities are the numbers below OS_CFG_PRIO_MAX. *)
LEMMA Priorities == Priority = 0..5 /\ Priority \subseteq Nat
BY DEF Priority, OS_CFG_PRIO_MAX

(* A list of tasks has at most four elements. *)
LEMMA ListsShort ==
  ASSUME NEW s, NEW S \in SUBSET Task, Lists(s, S)
  PROVE  Len(s) \in 0..4
<1>1. s \in Seq(S) BY DEF Lists
<1>2. Len(s) \in Nat BY <1>1, LenProperties
<1>3. ASSUME Len(s) >= 5 PROVE FALSE
  <2>1. /\ 1 \in 1..Len(s) /\ 2 \in 1..Len(s) /\ 3 \in 1..Len(s)
        /\ 4 \in 1..Len(s) /\ 5 \in 1..Len(s)
    BY <1>2, <1>3
  <2>2. /\ s[1] \in Task /\ s[2] \in Task /\ s[3] \in Task
        /\ s[4] \in Task /\ s[5] \in Task
    BY <1>1, <2>1, ElementOfSeq
  <2>3. /\ s[1] # s[2] /\ s[1] # s[3] /\ s[1] # s[4] /\ s[1] # s[5]
        /\ s[2] # s[3] /\ s[2] # s[4] /\ s[2] # s[5]
        /\ s[3] # s[4] /\ s[3] # s[5] /\ s[4] # s[5]
    BY <2>1 DEF Lists
  <2> QED BY <2>2, <2>3, Tasks
<1>4. PICK n \in Nat : n = Len(s) BY <1>2
<1>5. ~(n >= 5) BY <1>3, <1>4
<1>6. n \in 0..4 BY <1>5
<1> QED BY <1>4, <1>6

(* A non-empty set of priorities, or of places in a list, has a least one. *)
LEMMA MinIsLeast ==
  ASSUME NEW T \in SUBSET (0..5), T # {}
  PROVE  Min(T) \in T /\ \A y \in T : Min(T) <= y
<1>1. \E x \in T : \A y \in T : x <= y
  <2>1. CASE 0 \in T BY <2>1
  <2>2. CASE 0 \notin T /\ 1 \in T BY <2>2
  <2>3. CASE 0 \notin T /\ 1 \notin T /\ 2 \in T BY <2>3
  <2>4. CASE 0 \notin T /\ 1 \notin T /\ 2 \notin T /\ 3 \in T BY <2>4
  <2>5. CASE 0 \notin T /\ 1 \notin T /\ 2 \notin T /\ 3 \notin T /\ 4 \in T BY <2>5
  <2>6. CASE 0 \notin T /\ 1 \notin T /\ 2 \notin T /\ 3 \notin T /\ 4 \notin T
    <3>1. PICK x \in T : TRUE OBVIOUS
    <3>2. \A y \in T : y = 5 BY <2>6
    <3> QED BY <3>1, <3>2
  <2> QED BY <2>1, <2>2, <2>3, <2>4, <2>5, <2>6
<1> QED BY <1>1 DEF Min

\* Where OS_PendListInsertPrio puts a task.
Place(s, pr, t) ==
  LET before == SelectInSeq(s, LAMBDA u : pr[t] < pr[u])
  IN IF before = 0 THEN Len(s) + 1 ELSE before

(* The place is behind every task that is at least as urgent, and in front  *)
(* of the first one that is less urgent.                                    *)
LEMMA PlaceFound ==
  ASSUME NEW s, NEW S \in SUBSET Task, Lists(s, S),
         NEW pr \in [Task -> Nat], NEW t \in Task
  PROVE  /\ Place(s, pr, t) \in 1..Len(s) + 1
         /\ \A i \in 1..Len(s) : i < Place(s, pr, t) => pr[s[i]] <= pr[t]
         /\ Place(s, pr, t) <= Len(s) => pr[t] < pr[s[Place(s, pr, t)]]
<1>1. Len(s) \in 0..4 BY ListsShort
<1>2. s \in Seq(S) BY DEF Lists
<1>3. \A i \in 1..Len(s) : pr[s[i]] \in Nat
  <2> SUFFICES ASSUME NEW i \in 1..Len(s) PROVE pr[s[i]] \in Nat OBVIOUS
  <2>1. s[i] \in Task BY <1>2, ElementOfSeq
  <2> QED BY <2>1
<1> DEFINE I == {i \in 1..Len(s) : pr[t] < pr[s[i]]}
           b == SelectInSeq(s, LAMBDA u : pr[t] < pr[u])
<1>4. b = IF I # {} THEN Min(I) ELSE 0 BY DEF SelectInSeq
<1>5. Place(s, pr, t) = IF b = 0 THEN Len(s) + 1 ELSE b BY DEF Place
<1> HIDE DEF b
<1>6. CASE I = {}
  <2>1. Place(s, pr, t) = Len(s) + 1 BY <1>4, <1>5, <1>6
  <2>2. \A i \in 1..Len(s) : pr[s[i]] <= pr[t] BY <1>3, <1>6
  <2>3. Len(s) + 1 \in 1..Len(s) + 1 /\ ~(Len(s) + 1 <= Len(s)) BY <1>1
  <2> QED BY <2>1, <2>2, <2>3
<1>7. CASE I # {}
  <2>1. I \in SUBSET (0..5) BY <1>1
  <2>2. Min(I) \in I /\ \A i \in I : Min(I) <= i
    <3> HIDE DEF I
    <3> QED BY <1>7, <2>1, MinIsLeast
  <2>3. Min(I) # 0 BY <2>2
  <2>4. Place(s, pr, t) = Min(I) BY <1>4, <1>5, <1>7, <2>3
  <2> DEFINE m == Min(I)
  <2> HIDE DEF m
  <2>5. m \in 1..Len(s) /\ pr[t] < pr[s[m]] /\ \A i \in I : m <= i BY <2>2 DEF m
  <2>6. ASSUME NEW i \in 1..Len(s), i < m PROVE pr[s[i]] <= pr[t]
    <3>1. i \notin I BY <2>5, <2>6
    <3> QED BY <3>1, <1>3
  <2>7. m \in 1..Len(s) + 1 BY <2>5, <1>1
  <2> QED BY <2>4, <2>5, <2>6, <2>7 DEF m
<1> QED BY <1>6, <1>7

(* OS_PendListInsertPrio keeps a pend list in the order of the priorities. *)
LEMMA InsertInOrder ==
  ASSUME NEW s, NEW S \in SUBSET Task, Lists(s, S),
         NEW pr \in [Task -> Nat], Sorted(s, pr), NEW t \in Task, t \notin S
  PROVE  /\ Lists(InsertAt(s, Place(s, pr, t), t), S \cup {t})
         /\ Sorted(InsertAt(s, Place(s, pr, t), t), pr)
<1>1. Len(s) \in 0..4 BY ListsShort
<1>2. s \in Seq(S) BY DEF Lists
<1>3. \A i \in 1..Len(s) : pr[s[i]] \in Nat
  <2> SUFFICES ASSUME NEW i \in 1..Len(s) PROVE pr[s[i]] \in Nat OBVIOUS
  <2>1. s[i] \in Task BY <1>2, ElementOfSeq
  <2> QED BY <2>1
<1> DEFINE n == Place(s, pr, t)
           r == InsertAt(s, n, t)
<1>4. /\ n \in 1..Len(s) + 1
      /\ \A i \in 1..Len(s) : i < n => pr[s[i]] <= pr[t]
      /\ n <= Len(s) => pr[t] < pr[s[n]]
  BY PlaceFound
<1> HIDE DEF n
<1>5. Lists(r, S \cup {t}) BY <1>4, ListsInsert
<1>6. Inserted(r, s, n, t) BY <1>2, <1>4, InsertAtPlace
<1> HIDE DEF r
<1>7. \A i \in 1..Len(s) : n <= i => pr[t] <= pr[s[i]]
  <2> SUFFICES ASSUME NEW i \in 1..Len(s), n <= i PROVE pr[t] <= pr[s[i]] OBVIOUS
  <2>1. n \in 1..Len(s) /\ pr[t] < pr[s[n]] BY <1>1, <1>4
  <2>2. pr[s[n]] <= pr[s[i]]
    <3>1. CASE n = i BY <3>1, <1>3
    <3>2. CASE n < i BY <3>2, <2>1 DEF Sorted
    <3> QED BY <3>1, <3>2, <2>1, <1>1
  <2> QED BY <2>1, <2>2, <1>3
<1>8. ASSUME NEW i \in 1..Len(r), NEW j \in 1..Len(r), i < j
      PROVE  pr[r[i]] <= pr[r[j]]
  <2>0. /\ i \in 1..Len(s) + 1 /\ j \in 1..Len(s) + 1
        /\ i < n \/ i = n \/ i > n
        /\ j < n \/ j = n \/ j > n
    BY <1>1, <1>4, <1>6 DEF Inserted
  <2>1. /\ i < n => r[i] = s[i]
        /\ i = n => r[i] = t
        /\ i > n => r[i] = s[i - 1]
        /\ j < n => r[j] = s[j]
        /\ j = n => r[j] = t
        /\ j > n => r[j] = s[j - 1]
    BY <2>0, <1>6 DEF Inserted
  <2>2. CASE j < n
    <3>1. i \in 1..Len(s) /\ j \in 1..Len(s) /\ i < n BY <2>2, <2>0, <1>1, <1>4, <1>8
    <3> QED BY <3>1, <2>1, <2>2, <1>8 DEF Sorted
  <2>3. CASE j = n
    <3>1. i \in 1..Len(s) /\ i < n BY <2>3, <2>0, <1>1, <1>4, <1>8
    <3> QED BY <3>1, <2>1, <2>3, <1>4
  <2>4. CASE j > n /\ i < n
    <3>1. i \in 1..Len(s) /\ j - 1 \in 1..Len(s) /\ i < j - 1 BY <2>4, <2>0, <1>1, <1>4
    <3> QED BY <3>1, <2>1, <2>4 DEF Sorted
  <2>5. CASE j > n /\ i = n
    <3>1. j - 1 \in 1..Len(s) /\ n <= j - 1 BY <2>5, <2>0, <1>1, <1>4
    <3> QED BY <3>1, <2>1, <2>5, <1>7
  <2>6. CASE j > n /\ i > n
    <3>1. i - 1 \in 1..Len(s) /\ j - 1 \in 1..Len(s) /\ i - 1 < j - 1
      BY <2>6, <2>0, <1>1, <1>4, <1>8
    <3> QED BY <3>1, <2>1, <2>6 DEF Sorted
  <2> QED BY <2>0, <2>2, <2>3, <2>4, <2>5, <2>6
<1> QED BY <1>5, <1>8 DEF Sorted, r, n

(* A list stays in order when the priority of a task it does not hold changes. *)
LEMMA SortedFrame ==
  ASSUME NEW s, NEW S \in SUBSET Task, Lists(s, S), NEW pr, NEW qr, Sorted(s, pr),
         \A x \in S : qr[x] = pr[x]
  PROVE  Sorted(s, qr)
<1>1. \A i \in 1..Len(s) : qr[s[i]] = pr[s[i]]
  <2> SUFFICES ASSUME NEW i \in 1..Len(s) PROVE qr[s[i]] = pr[s[i]] OBVIOUS
  <2>1. s[i] \in S BY ElementOfSeq DEF Lists
  <2> QED BY <2>1
<1> QED BY <1>1 DEF Sorted

(* A list of one task is in order. *)
LEMMA SortedShort ==
  ASSUME NEW s, NEW pr, Len(s) \in Nat, ~(Len(s) > 1)
  PROVE  Sorted(s, pr)
<1> SUFFICES ASSUME NEW i \in 1..Len(s), NEW j \in 1..Len(s), i < j PROVE FALSE
  BY DEF Sorted
<1> QED OBVIOUS

-----------------------------------------------------------------------------
(* The ready lists *)

At(R, pr, p) == {t \in R : pr[t] = p}

\* The ready lists rl and the priority table tbl hold the tasks R, whose
\* priorities are pr.
RdyTable(rl, tbl, R, pr) ==
  /\ rl \in [Priority -> Seq(Task)] /\ tbl \in SUBSET Priority
  /\ \A p \in Priority :
       Lists(rl[p], At(R, pr, p)) /\ (p \in tbl <=> rl[p] # <<>>)

(* A list of some tasks is a list of tasks. *)
LEMMA ListsType ==
  ASSUME NEW s, NEW S \in SUBSET Task, Lists(s, S)
  PROVE  s \in Seq(Task)
<1>1. s \in Seq(S) BY DEF Lists
<1> QED BY <1>1, SeqMonotonic

(* The list of one priority changes with the tasks that have it. *)
LEMMA TableUpdate ==
  ASSUME NEW rl, NEW tbl, NEW R \in SUBSET Task, NEW pr, RdyTable(rl, tbl, R, pr),
         NEW R1 \in SUBSET Task, NEW pr1, NEW p \in Priority, NEW l,
         NEW tbl1 \in SUBSET Priority,
         Lists(l, At(R1, pr1, p)),
         p \in tbl1 <=> l # <<>>,
         \A q \in Priority : q # p => (q \in tbl1 <=> q \in tbl),
         \A q \in Priority : q # p => At(R1, pr1, q) = At(R, pr, q)
  PROVE  RdyTable([rl EXCEPT ![p] = l], tbl1, R1, pr1)
<1> DEFINE rl1 == [rl EXCEPT ![p] = l]
<1>1. rl \in [Priority -> Seq(Task)] BY DEF RdyTable
<1>2. l \in Seq(Task)
  <2>1. At(R1, pr1, p) \in SUBSET Task BY DEF At
  <2> QED BY <2>1, ListsType
<1>3. rl1 \in [Priority -> Seq(Task)] BY <1>1, <1>2
<1>4. rl1[p] = l /\ \A q \in Priority : q # p => rl1[q] = rl[q] BY <1>1
<1> HIDE DEF rl1
<1>5. ASSUME NEW q \in Priority
      PROVE  Lists(rl1[q], At(R1, pr1, q)) /\ (q \in tbl1 <=> rl1[q] # <<>>)
  <2>1. CASE q = p BY <2>1, <1>4
  <2>2. CASE q # p BY <2>2, <1>4 DEF RdyTable
  <2> QED BY <2>1, <2>2
<1> QED BY <1>3, <1>5 DEF RdyTable, rl1

(* OS_PrioInsert with OS_RdyListInsertTail. *)
LEMMA TableInsertTail ==
  ASSUME NEW rl, NEW tbl, NEW R \in SUBSET Task, NEW pr \in [Task -> Priority],
         RdyTable(rl, tbl, R, pr), NEW t \in Task, t \notin R
  PROVE  RdyTable([rl EXCEPT ![pr[t]] = Append(@, t)], tbl \cup {pr[t]}, R \cup {t}, pr)
<1> DEFINE p == pr[t]
           l == Append(rl[p], t)
<1>1. p \in Priority OBVIOUS
<1>2. Lists(rl[p], At(R, pr, p)) BY <1>1 DEF RdyTable
<1>3. t \notin At(R, pr, p) BY DEF At
<1>4. At(R \cup {t}, pr, p) = At(R, pr, p) \cup {t} BY DEF At
<1>5. Lists(l, At(R \cup {t}, pr, p)) BY <1>2, <1>3, <1>4, ListsAppend
<1>6. l # <<>> BY <1>4, <1>5, ListsEmpty
<1>7. \A q \in Priority : q # p => At(R \cup {t}, pr, q) = At(R, pr, q) BY DEF At
<1>8. tbl \cup {p} \in SUBSET Priority BY <1>1 DEF RdyTable
<1>9. [rl EXCEPT ![p] = Append(@, t)] = [rl EXCEPT ![p] = l] OBVIOUS
<1>10. p \in tbl \cup {p} /\ \A q \in Priority : q # p => (q \in tbl \cup {p} <=> q \in tbl)
  OBVIOUS
<1>11. R \cup {t} \in SUBSET Task OBVIOUS
<1> DEFINE R1 == R \cup {t}
           tbl1 == tbl \cup {p}
<1>12. /\ Lists(l, At(R1, pr, p)) /\ l # <<>> /\ p \in tbl1
       /\ tbl1 \in SUBSET Priority /\ R1 \in SUBSET Task
       /\ \A q \in Priority : q # p => (q \in tbl1 <=> q \in tbl)
       /\ \A q \in Priority : q # p => At(R1, pr, q) = At(R, pr, q)
  BY <1>5, <1>6, <1>7, <1>8, <1>10, <1>11
<1> HIDE DEF l, p, R1, tbl1
<1>13. RdyTable([rl EXCEPT ![p] = l], tbl1, R1, pr) BY <1>1, <1>12, TableUpdate
<1> QED BY <1>9, <1>13 DEF p, R1, tbl1

(* OS_PrioInsert with OS_RdyListInsertHead. *)
LEMMA TableInsertHead ==
  ASSUME NEW rl, NEW tbl, NEW R \in SUBSET Task, NEW pr \in [Task -> Priority],
         RdyTable(rl, tbl, R, pr), NEW t \in Task, t \notin R
  PROVE  RdyTable([rl EXCEPT ![pr[t]] = <<t>> \o @], tbl \cup {pr[t]}, R \cup {t}, pr)
<1> DEFINE p == pr[t]
           l == <<t>> \o rl[p]
<1>1. p \in Priority OBVIOUS
<1>2. Lists(rl[p], At(R, pr, p)) BY <1>1 DEF RdyTable
<1>3. t \notin At(R, pr, p) BY DEF At
<1>4. At(R \cup {t}, pr, p) = At(R, pr, p) \cup {t} BY DEF At
<1>5. Lists(l, At(R \cup {t}, pr, p)) BY <1>2, <1>3, <1>4, ListsPrepend
<1>6. l # <<>> BY <1>4, <1>5, ListsEmpty
<1>7. \A q \in Priority : q # p => At(R \cup {t}, pr, q) = At(R, pr, q) BY DEF At
<1>8. tbl \cup {p} \in SUBSET Priority BY <1>1 DEF RdyTable
<1>9. [rl EXCEPT ![p] = <<t>> \o @] = [rl EXCEPT ![p] = l] OBVIOUS
<1>10. p \in tbl \cup {p} /\ \A q \in Priority : q # p => (q \in tbl \cup {p} <=> q \in tbl)
  OBVIOUS
<1>11. R \cup {t} \in SUBSET Task OBVIOUS
<1> DEFINE R1 == R \cup {t}
           tbl1 == tbl \cup {p}
<1>12. /\ Lists(l, At(R1, pr, p)) /\ l # <<>> /\ p \in tbl1
       /\ tbl1 \in SUBSET Priority /\ R1 \in SUBSET Task
       /\ \A q \in Priority : q # p => (q \in tbl1 <=> q \in tbl)
       /\ \A q \in Priority : q # p => At(R1, pr, q) = At(R, pr, q)
  BY <1>5, <1>6, <1>7, <1>8, <1>10, <1>11
<1> HIDE DEF l, p, R1, tbl1
<1>13. RdyTable([rl EXCEPT ![p] = l], tbl1, R1, pr) BY <1>1, <1>12, TableUpdate
<1> QED BY <1>9, <1>13 DEF p, R1, tbl1

(* OS_RdyListRemove, with OS_PrioRemove for a list that becomes empty. *)
LEMMA TableRemove ==
  ASSUME NEW rl, NEW tbl, NEW R \in SUBSET Task, NEW pr \in [Task -> Priority],
         RdyTable(rl, tbl, R, pr), NEW t \in R
  PROVE  RdyTable([rl EXCEPT ![pr[t]] = RemoveFirst(@, t)],
                  IF RemoveFirst(rl[pr[t]], t) = <<>> THEN tbl \ {pr[t]} ELSE tbl,
                  R \ {t}, pr)
<1> DEFINE p == pr[t]
           l == RemoveFirst(rl[p], t)
           tbl1 == IF l = <<>> THEN tbl \ {p} ELSE tbl
<1>1. p \in Priority OBVIOUS
<1>2. Lists(rl[p], At(R, pr, p)) /\ (p \in tbl <=> rl[p] # <<>>) BY <1>1 DEF RdyTable
<1>3. t \in At(R, pr, p) BY DEF At
<1>4. At(R \ {t}, pr, p) = At(R, pr, p) \ {t} BY DEF At
<1>5. Lists(l, At(R \ {t}, pr, p)) BY <1>2, <1>3, <1>4, ListsRemove
<1>6. p \in tbl BY <1>2, <1>3, ListsEmpty
<1>7. \A q \in Priority : q # p => At(R \ {t}, pr, q) = At(R, pr, q) BY DEF At
<1>8. tbl1 \in SUBSET Priority BY DEF RdyTable
<1>9. [rl EXCEPT ![p] = RemoveFirst(@, t)] = [rl EXCEPT ![p] = l] OBVIOUS
<1>10. (p \in tbl1 <=> l # <<>>) /\ \A q \in Priority : q # p => (q \in tbl1 <=> q \in tbl)
  BY <1>6
<1>11. R \ {t} \in SUBSET Task OBVIOUS
<1> DEFINE R1 == R \ {t}
<1>12. /\ Lists(l, At(R1, pr, p)) /\ R1 \in SUBSET Task
       /\ \A q \in Priority : q # p => At(R1, pr, q) = At(R, pr, q)
  BY <1>5, <1>7, <1>11
<1> HIDE DEF l, p, tbl1, R1
<1>13. RdyTable([rl EXCEPT ![p] = l], tbl1, R1, pr)
  BY <1>1, <1>8, <1>10, <1>12, TableUpdate
<1> QED BY <1>9, <1>13 DEF p, l, tbl1, R1

(* The priority of a task that is in no ready list may change. *)
LEMMA TableReprio ==
  ASSUME NEW rl, NEW tbl, NEW R \in SUBSET Task, NEW pr, NEW pr1,
         RdyTable(rl, tbl, R, pr), \A u \in R : pr1[u] = pr[u]
  PROVE  RdyTable(rl, tbl, R, pr1)
<1>1. \A p \in Priority : At(R, pr1, p) = At(R, pr, p) BY DEF At
<1> QED BY <1>1 DEF RdyTable

(* OS_RdyListMoveHeadToTail. *)
LEMMA TableRotate ==
  ASSUME NEW rl, NEW tbl, NEW R \in SUBSET Task, NEW pr, RdyTable(rl, tbl, R, pr),
         NEW p \in Priority, rl[p] # <<>>
  PROVE  RdyTable([rl EXCEPT ![p] = Append(Tail(@), Head(@))], tbl, R, pr)
<1> DEFINE l == Append(Tail(rl[p]), Head(rl[p]))
<1>1. Lists(rl[p], At(R, pr, p)) /\ (p \in tbl <=> rl[p] # <<>>) BY DEF RdyTable
<1>2. Lists(l, At(R, pr, p)) BY <1>1, ListsRotate
<1>3. l # <<>> BY <1>1, <1>2, ListsEmpty
<1>4. tbl \in SUBSET Priority BY DEF RdyTable
<1>5. [rl EXCEPT ![p] = Append(Tail(@), Head(@))] = [rl EXCEPT ![p] = l] OBVIOUS
<1> HIDE DEF l
<1>6. RdyTable([rl EXCEPT ![p] = l], tbl, R, pr) BY <1>1, <1>2, <1>3, <1>4, TableUpdate
<1> QED BY <1>5, <1>6

(* The head of the list OS_PrioGetHighest names is a most urgent ready task. *)
LEMMA TableHighest ==
  ASSUME NEW rl, NEW tbl, NEW R \in SUBSET Task, R # {}, NEW pr \in [Task -> Priority],
         RdyTable(rl, tbl, R, pr)
  PROVE  /\ Min(tbl) \in Priority
         /\ Head(rl[Min(tbl)]) \in R
         /\ pr[Head(rl[Min(tbl)])] = Min(tbl)
         /\ \A u \in R : Min(tbl) <= pr[u]
<1>1. ASSUME NEW u \in R PROVE pr[u] \in tbl
  <2>1. pr[u] \in Priority /\ u \in At(R, pr, pr[u]) BY DEF At
  <2>2. Lists(rl[pr[u]], At(R, pr, pr[u])) /\ (pr[u] \in tbl <=> rl[pr[u]] # <<>>)
    BY <2>1 DEF RdyTable
  <2> QED BY <2>1, <2>2, ListsEmpty
<1>2. tbl # {} /\ tbl \in SUBSET (0..5)
  BY <1>1 DEF RdyTable, Priority, OS_CFG_PRIO_MAX
<1>3. Min(tbl) \in tbl /\ \A y \in tbl : Min(tbl) <= y BY <1>2, MinIsLeast
<1> DEFINE p == Min(tbl)
<1> HIDE DEF p
<1>4. p \in Priority /\ p \in tbl BY <1>3 DEF p, RdyTable
<1>5. Lists(rl[p], At(R, pr, p)) /\ rl[p] # <<>> BY <1>4 DEF RdyTable
<1>6. Head(rl[p]) \in At(R, pr, p) BY <1>5, ListsHead
<1>7. Head(rl[p]) \in R /\ pr[Head(rl[p])] = p BY <1>6 DEF At
<1> QED BY <1>1, <1>3, <1>4, <1>7 DEF p

-----------------------------------------------------------------------------
(* The inductive invariant, of a value k of the kernel's variables.         *)

Object == Mutexes \cup Sems

KernelState ==
  [Prio : [Task -> Priority], PendOn : [Task -> Object \cup {Nothing}],
   RdyList : [Priority -> Seq(Task)], PrioTbl : SUBSET Priority,
   Owner : [Mutexes -> AppTask \cup {NoTask}], Nesting : [Mutexes -> Nat],
   MutexGrp : [Task -> SUBSET Mutexes], Ctr : [Sems -> Nat],
   PendList : [Object -> Seq(Task)],
   TCBCur : Task, PrioCur : Priority, TCBHighRdy : Task, PrioHighRdy : Priority,
   PendSV : BOOLEAN]

ReadySet(k)   == {t \in Task : k.PendOn[t] = Nothing}
WaitSet(k, o) == {t \in Task : k.PendOn[t] = o}

\* The ready lists hold the ready tasks, by priority.
RdyOK(k) == RdyTable(k.RdyList, k.PrioTbl, ReadySet(k), k.Prio)

\* The pend lists hold the waiting tasks, in the order of their priorities.
PendOK(k) ==
  \A o \in Object : Lists(k.PendList[o], WaitSet(k, o)) /\ Sorted(k.PendList[o], k.Prio)

\* A mutex is nested while it is owned, and owned by another task while
\* somebody waits for it.  The idle task waits for nothing.
OwnersOK(k) ==
  /\ \A m \in Mutexes : k.Nesting[m] = 0 <=> k.Owner[m] = NoTask
  /\ \A u \in Task : k.PendOn[u] \in Mutexes =>
       k.Owner[k.PendOn[u]] # NoTask /\ k.Owner[k.PendOn[u]] # u
  /\ k.PendOn[Idle] = Nothing

GrpOK(k) == \A t \in Task : k.MutexGrp[t] = {m \in Mutexes : k.Owner[m] = t}

\* The task that each task waits for.
Target(k) ==
  [u \in Task |-> IF k.PendOn[u] \in Mutexes THEN k.Owner[k.PendOn[u]] ELSE NoTask]

\* What PriorityInherited says, without a minimum, of the priorities pr when
\* each task u waits for the task nx[u].
Inherited(pr, nx) ==
  /\ \A t \in Task : pr[t] <= BasePrio[t]
  /\ \A u \in Task : nx[u] \in Task => pr[nx[u]] <= pr[u]
  /\ \A t \in Task : pr[t] = BasePrio[t] \/ \E u \in Task : nx[u] = t /\ pr[u] = pr[t]

InheritOK(k) == Inherited(k.Prio, Target(k))

MostUrgent(k, t) ==
  k.PendOn[t] = Nothing /\ \A u \in ReadySet(k) : k.Prio[t] <= k.Prio[u]

\* The running task is a most urgent one, or a switch to one is requested,
\* or the running task is about to call OSSched.
SchedOK(k, at) ==
  IF k.PendSV THEN MostUrgent(k, k.TCBHighRdy)
              ELSE at[k.TCBCur] = "task" => MostUrgent(k, k.TCBCur)

KernelOK(k) ==
  k \in KernelState /\ RdyOK(k) /\ PendOK(k) /\ OwnersOK(k) /\ GrpOK(k) /\ InheritOK(k)

KernelInv ==
  /\ KernelOK(os)
  /\ pc \in [Task -> {"task", "sched"}] /\ pc[Idle] = "task"
  /\ SchedOK(os, pc)

-----------------------------------------------------------------------------
(* What the list operations do to the kernel's variables.                   *)

\* r and k differ at most in the lists, in who waits, and in the priorities.
Frame(r, k) ==
  /\ r.Owner = k.Owner /\ r.Nesting = k.Nesting /\ r.MutexGrp = k.MutexGrp
  /\ r.Ctr = k.Ctr /\ r.TCBCur = k.TCBCur /\ r.TCBHighRdy = k.TCBHighRdy
  /\ r.PrioHighRdy = k.PrioHighRdy /\ r.PendSV = k.PendSV

\* The ready lists and the priority table of k hold the tasks R.
Holds(k, R) == RdyTable(k.RdyList, k.PrioTbl, R, k.Prio)

(* OS_RdyListRemove takes one task out of the ready lists. *)
LEMMA RdyListRemoved ==
  ASSUME NEW k \in KernelState, NEW R \in SUBSET Task, Holds(k, R), NEW t \in R
  PROVE  LET r == OS_RdyListRemove(k, t) IN
         /\ r \in KernelState /\ Frame(r, k) /\ Holds(r, R \ {t})
         /\ r.Prio = k.Prio /\ r.PendOn = k.PendOn /\ r.PendList = k.PendList
         /\ r.PrioCur = k.PrioCur
<1> DEFINE r == OS_RdyListRemove(k, t)
           p == k.Prio[t]
           rl == [k.RdyList EXCEPT ![p] = RemoveFirst(@, t)]
           tbl == IF RemoveFirst(k.RdyList[p], t) = <<>> THEN k.PrioTbl \ {p} ELSE k.PrioTbl
<1>0. k.Prio \in [Task -> Priority] /\ p \in Priority /\ k.RdyList \in [Priority -> Seq(Task)]
  BY DEF KernelState
<1>1. RdyTable(rl, tbl, R \ {t}, k.Prio) BY <1>0, TableRemove DEF Holds
<1>2. rl[p] = RemoveFirst(k.RdyList[p], t) BY <1>0
<1>3. rl \in [Priority -> Seq(Task)] /\ tbl \in SUBSET Priority BY <1>1 DEF RdyTable
<1>4. r = [k EXCEPT !.RdyList = rl, !.PrioTbl = tbl]
  BY <1>0, <1>2 DEF OS_RdyListRemove, OS_PrioRemove, KernelState
<1> HIDE DEF r, rl, tbl, p
<1>5. r \in KernelState /\ r.RdyList = rl /\ r.PrioTbl = tbl BY <1>3, <1>4 DEF KernelState
<1>6. /\ Frame(r, k) /\ r.Prio = k.Prio /\ r.PendOn = k.PendOn /\ r.PendList = k.PendList
      /\ r.PrioCur = k.PrioCur
  BY <1>4 DEF KernelState, Frame
<1> QED BY <1>1, <1>5, <1>6 DEF Holds, r

(* OS_PrioInsert and OS_RdyListInsertTail put a task into the ready lists. *)
LEMMA RdyListInsertedTail ==
  ASSUME NEW k \in KernelState, NEW R \in SUBSET Task, Holds(k, R), NEW t \in Task, t \notin R
  PROVE  LET r == OS_RdyListInsertTail(OS_PrioInsert(k, k.Prio[t]), t) IN
         /\ r \in KernelState /\ Frame(r, k) /\ Holds(r, R \cup {t})
         /\ r.Prio = k.Prio /\ r.PendOn = k.PendOn /\ r.PendList = k.PendList
<1> DEFINE r == OS_RdyListInsertTail(OS_PrioInsert(k, k.Prio[t]), t)
           p == k.Prio[t]
           rl == [k.RdyList EXCEPT ![p] = Append(@, t)]
           tbl == k.PrioTbl \cup {p}
<1>0. k.Prio \in [Task -> Priority] /\ p \in Priority /\ k.RdyList \in [Priority -> Seq(Task)]
  BY DEF KernelState
<1>1. RdyTable(rl, tbl, R \cup {t}, k.Prio) BY <1>0, TableInsertTail DEF Holds
<1>3. rl \in [Priority -> Seq(Task)] /\ tbl \in SUBSET Priority BY <1>1 DEF RdyTable
<1>4. r = [k EXCEPT !.RdyList = rl, !.PrioTbl = tbl]
  BY <1>0 DEF OS_RdyListInsertTail, OS_PrioInsert, KernelState
<1> HIDE DEF r, rl, tbl, p
<1>5. r \in KernelState /\ r.RdyList = rl /\ r.PrioTbl = tbl BY <1>3, <1>4 DEF KernelState
<1>6. Frame(r, k) /\ r.Prio = k.Prio /\ r.PendOn = k.PendOn /\ r.PendList = k.PendList
  BY <1>4 DEF KernelState, Frame
<1> QED BY <1>1, <1>5, <1>6 DEF Holds, r

(* OS_PrioInsert and OS_RdyListInsertHead put a task into the ready lists. *)
LEMMA RdyListInsertedHead ==
  ASSUME NEW k \in KernelState, NEW R \in SUBSET Task, Holds(k, R), NEW t \in Task, t \notin R
  PROVE  LET r == OS_RdyListInsertHead(OS_PrioInsert(k, k.Prio[t]), t) IN
         /\ r \in KernelState /\ Frame(r, k) /\ Holds(r, R \cup {t})
         /\ r.Prio = k.Prio /\ r.PendOn = k.PendOn /\ r.PendList = k.PendList
<1> DEFINE r == OS_RdyListInsertHead(OS_PrioInsert(k, k.Prio[t]), t)
           p == k.Prio[t]
           rl == [k.RdyList EXCEPT ![p] = <<t>> \o @]
           tbl == k.PrioTbl \cup {p}
<1>0. k.Prio \in [Task -> Priority] /\ p \in Priority /\ k.RdyList \in [Priority -> Seq(Task)]
  BY DEF KernelState
<1>1. RdyTable(rl, tbl, R \cup {t}, k.Prio) BY <1>0, TableInsertHead DEF Holds
<1>3. rl \in [Priority -> Seq(Task)] /\ tbl \in SUBSET Priority BY <1>1 DEF RdyTable
<1>4. r = [k EXCEPT !.RdyList = rl, !.PrioTbl = tbl]
  BY <1>0 DEF OS_RdyListInsertHead, OS_PrioInsert, KernelState
<1> HIDE DEF r, rl, tbl, p
<1>5. r \in KernelState /\ r.RdyList = rl /\ r.PrioTbl = tbl BY <1>3, <1>4 DEF KernelState
<1>6. Frame(r, k) /\ r.Prio = k.Prio /\ r.PendOn = k.PendOn /\ r.PendList = k.PendList
  BY <1>4 DEF KernelState, Frame
<1> QED BY <1>1, <1>5, <1>6 DEF Holds, r

(* OS_RdyListInsert does one or the other. *)
LEMMA RdyListInserted ==
  ASSUME NEW k \in KernelState, NEW R \in SUBSET Task, Holds(k, R), NEW t \in Task, t \notin R
  PROVE  LET r == OS_RdyListInsert(k, t) IN
         /\ r \in KernelState /\ Frame(r, k) /\ Holds(r, R \cup {t})
         /\ r.Prio = k.Prio /\ r.PendOn = k.PendOn /\ r.PendList = k.PendList
<1>1. \/ OS_RdyListInsert(k, t) = OS_RdyListInsertTail(OS_PrioInsert(k, k.Prio[t]), t)
      \/ OS_RdyListInsert(k, t) = OS_RdyListInsertHead(OS_PrioInsert(k, k.Prio[t]), t)
  BY Zenon DEF OS_RdyListInsert
<1> QED BY <1>1, RdyListInsertedTail, RdyListInsertedHead

\* r is k with t put into the pend list of o, which held the tasks S.
PendInserted(r, k, o, S, t) ==
  /\ r \in KernelState /\ Frame(r, k)
  /\ r.Prio = k.Prio /\ r.PendOn = k.PendOn /\ r.PrioCur = k.PrioCur
  /\ r.RdyList = k.RdyList /\ r.PrioTbl = k.PrioTbl
  /\ Lists(r.PendList[o], S \cup {t}) /\ Sorted(r.PendList[o], k.Prio)
  /\ \A q \in Object : q # o => r.PendList[q] = k.PendList[q]

(* OS_PendListInsertPrio puts a task into one pend list. *)
LEMMA PendListInserted ==
  ASSUME NEW k \in KernelState, NEW o \in Object, NEW S \in SUBSET Task,
         Lists(k.PendList[o], S), Sorted(k.PendList[o], k.Prio),
         NEW t \in Task, t \notin S
  PROVE  PendInserted(OS_PendListInsertPrio(k, o, t), k, o, S, t)
<1> DEFINE r == OS_PendListInsertPrio(k, o, t)
           l == InsertAt(k.PendList[o], Place(k.PendList[o], k.Prio, t), t)
<1>0. k.PendList \in [Object -> Seq(Task)] BY DEF KernelState
<1>1. k.Prio \in [Task -> Nat]
  <2>1. k.Prio \in [Task -> Priority] BY DEF KernelState
  <2> QED BY <2>1, Priorities
<1>2. Lists(l, S \cup {t}) /\ Sorted(l, k.Prio) BY <1>1, InsertInOrder
<1>3. l \in Seq(Task)
  <2>1. S \cup {t} \in SUBSET Task OBVIOUS
  <2> QED BY <1>2, <2>1, ListsType
<1>4. r = [k EXCEPT !.PendList[o] = l]
  BY DEF OS_PendListInsertPrio, Place
<1> HIDE DEF r, l
<1>5. r = [k EXCEPT !.PendList = [k.PendList EXCEPT ![o] = l]] BY <1>4
<1>6. r \in KernelState /\ r.PendList = [k.PendList EXCEPT ![o] = l]
  BY <1>0, <1>3, <1>5 DEF KernelState
<1>7. r.PendList[o] = l /\ \A q \in Object : q # o => r.PendList[q] = k.PendList[q]
  BY <1>0, <1>6
<1>8. /\ Frame(r, k) /\ r.Prio = k.Prio /\ r.PendOn = k.PendOn /\ r.PrioCur = k.PrioCur
      /\ r.RdyList = k.RdyList /\ r.PrioTbl = k.PrioTbl
  BY <1>5 DEF KernelState, Frame
<1> QED BY <1>2, <1>6, <1>7, <1>8 DEF r, PendInserted

(* OS_Pend: the current task leaves the ready lists and waits. *)
LEMMA Pended ==
  ASSUME NEW k \in KernelState, RdyOK(k), PendOK(k), NEW o \in Object,
         k.PendOn[k.TCBCur] = Nothing
  PROVE  LET r == OS_Pend(k, o) IN
         /\ r \in KernelState /\ Frame(r, k) /\ RdyOK(r) /\ PendOK(r)
         /\ r.Prio = k.Prio /\ r.PendOn = [k.PendOn EXCEPT ![k.TCBCur] = o]
<1> DEFINE t  == k.TCBCur
           po == [k.PendOn EXCEPT ![t] = o]
           k0 == [k EXCEPT !.PendOn[t] = o]
           k1 == OS_RdyListRemove(k0, t)
           r  == OS_PendListInsertPrio(k1, o, t)
           R  == ReadySet(k)
           S  == WaitSet(k, o)
<1>1. /\ t \in Task /\ k.PendOn \in [Task -> Object \cup {Nothing}] /\ o # Nothing
  BY KernelAssumption DEF KernelState, Object
<1>2. /\ po \in [Task -> Object \cup {Nothing}] /\ po[t] = o
      /\ \A u \in Task : u # t => po[u] = k.PendOn[u]
  BY <1>1
<1>3. R \in SUBSET Task /\ t \in R /\ S \in SUBSET Task /\ t \notin S
  BY <1>1 DEF ReadySet, WaitSet
<1>4. OS_Pend(k, o) = r BY DEF OS_Pend
<1>5. k0 = [k EXCEPT !.PendOn = po] BY <1>1 DEF KernelState
<1> HIDE DEF po, k0, t
<1>6. k0 \in KernelState /\ k0.PendOn = po BY <1>2, <1>5 DEF KernelState
<1>7. /\ Frame(k0, k) /\ k0.Prio = k.Prio /\ k0.RdyList = k.RdyList
      /\ k0.PrioTbl = k.PrioTbl /\ k0.PendList = k.PendList
  BY <1>5 DEF KernelState, Frame
<1>8. Holds(k0, R) BY <1>7 DEF Holds, RdyOK
<1>9. /\ k1 \in KernelState /\ Frame(k1, k0) /\ Holds(k1, R \ {t})
      /\ k1.Prio = k0.Prio /\ k1.PendOn = k0.PendOn /\ k1.PendList = k0.PendList
  BY <1>3, <1>6, <1>8, RdyListRemoved
<1> HIDE DEF k1, R, S
<1>10. Lists(k1.PendList[o], S) /\ Sorted(k1.PendList[o], k1.Prio)
  BY <1>7, <1>9 DEF PendOK, S
<1>11. /\ r \in KernelState /\ Frame(r, k1)
       /\ r.Prio = k1.Prio /\ r.PendOn = k1.PendOn
       /\ r.RdyList = k1.RdyList /\ r.PrioTbl = k1.PrioTbl
       /\ Lists(r.PendList[o], S \cup {t}) /\ Sorted(r.PendList[o], k1.Prio)
       /\ \A q \in Object : q # o => r.PendList[q] = k1.PendList[q]
  <2>1. PendInserted(r, k1, o, S, t) BY <1>1, <1>3, <1>9, <1>10, PendListInserted
  <2> HIDE DEF r
  <2> QED BY <2>1 DEF PendInserted
<1> HIDE DEF r
<1>12. Frame(r, k) BY <1>7, <1>9, <1>11 DEF Frame
<1>13. r.Prio = k.Prio /\ r.PendOn = po BY <1>6, <1>7, <1>9, <1>11
<1>14. ReadySet(r) = R \ {t} BY <1>1, <1>2, <1>13 DEF ReadySet, R
<1>15. RdyOK(r) BY <1>9, <1>11, <1>14 DEF RdyOK, Holds
<1>16. WaitSet(r, o) = S \cup {t} BY <1>1, <1>2, <1>13 DEF WaitSet, S
<1>17. \A q \in Object : q # o => WaitSet(r, q) = WaitSet(k, q)
  <2> SUFFICES ASSUME NEW q \in Object, q # o PROVE WaitSet(r, q) = WaitSet(k, q) OBVIOUS
  <2>1. k.PendOn[t] # q BY KernelAssumption DEF Object, t
  <2> QED BY <1>2, <1>13, <2>1 DEF WaitSet
<1>18. PendOK(r)
  <2> SUFFICES ASSUME NEW q \in Object
               PROVE  Lists(r.PendList[q], WaitSet(r, q)) /\ Sorted(r.PendList[q], r.Prio)
    BY DEF PendOK
  <2>1. CASE q = o BY <2>1, <1>11, <1>16
  <2>2. CASE q # o BY <2>2, <1>7, <1>9, <1>11, <1>13, <1>17 DEF PendOK
  <2> QED BY <2>1, <2>2
<1> QED BY <1>4, <1>11, <1>12, <1>13, <1>15, <1>18 DEF po, t

(* OS_Post: a task that waits leaves the pend list and becomes ready. *)
LEMMA Posted ==
  ASSUME NEW k \in KernelState, RdyOK(k), PendOK(k), NEW o \in Object,
         NEW t \in WaitSet(k, o)
  PROVE  LET r == OS_Post(k, o, t) IN
         /\ r \in KernelState /\ Frame(r, k) /\ RdyOK(r) /\ PendOK(r)
         /\ r.Prio = k.Prio /\ r.PendOn = [k.PendOn EXCEPT ![t] = Nothing]
<1> DEFINE po == [k.PendOn EXCEPT ![t] = Nothing]
           l  == RemoveFirst(k.PendList[o], t)
           pl == [k.PendList EXCEPT ![o] = l]
           k1 == [k EXCEPT !.PendList[o] = RemoveFirst(@, t), !.PendOn[t] = Nothing]
           r  == OS_RdyListInsert(k1, t)
           R  == ReadySet(k)
           S  == WaitSet(k, o)
<1>1. /\ t \in Task /\ k.PendOn[t] = o /\ k.PendOn \in [Task -> Object \cup {Nothing}]
      /\ o # Nothing /\ k.PendList \in [Object -> Seq(Task)]
  BY KernelAssumption DEF KernelState, Object, WaitSet
<1>2. /\ po \in [Task -> Object \cup {Nothing}] /\ po[t] = Nothing
      /\ \A u \in Task : u # t => po[u] = k.PendOn[u]
  BY <1>1
<1>3. R \in SUBSET Task /\ t \notin R /\ S \in SUBSET Task /\ t \in S
  BY <1>1 DEF ReadySet, WaitSet
<1>4. OS_Post(k, o, t) = r BY DEF OS_Post
<1>5. k1 = [k EXCEPT !.PendList = pl, !.PendOn = po] BY <1>1 DEF KernelState
<1>6. Lists(l, S \ {t}) /\ Sorted(l, k.Prio)
  <2>1. Lists(k.PendList[o], S) /\ Sorted(k.PendList[o], k.Prio) BY DEF PendOK
  <2> HIDE DEF S
  <2> QED BY <2>1, <1>3, ListsRemove
<1>7. l \in Seq(Task)
  <2>1. S \ {t} \in SUBSET Task BY <1>3
  <2> QED BY <1>6, <2>1, ListsType
<1> HIDE DEF l
<1>8. pl \in [Object -> Seq(Task)] /\ pl[o] = l /\ \A q \in Object : q # o => pl[q] = k.PendList[q]
  BY <1>1, <1>7
<1> HIDE DEF po, pl, k1
<1>9. k1 \in KernelState /\ k1.PendOn = po /\ k1.PendList = pl
  BY <1>2, <1>5, <1>8 DEF KernelState
<1>10. Frame(k1, k) /\ k1.Prio = k.Prio /\ k1.RdyList = k.RdyList /\ k1.PrioTbl = k.PrioTbl
  BY <1>5 DEF KernelState, Frame
<1>11. Holds(k1, R) BY <1>10 DEF Holds, RdyOK
<1>12. /\ r \in KernelState /\ Frame(r, k1) /\ Holds(r, R \cup {t})
       /\ r.Prio = k1.Prio /\ r.PendOn = k1.PendOn /\ r.PendList = k1.PendList
  BY <1>1, <1>3, <1>9, <1>11, RdyListInserted
<1> HIDE DEF r, R, S
<1>13. Frame(r, k) BY <1>10, <1>12 DEF Frame
<1>14. r.Prio = k.Prio /\ r.PendOn = po /\ r.PendList = pl BY <1>9, <1>10, <1>12
<1>15. ReadySet(r) = R \cup {t} BY <1>1, <1>2, <1>14 DEF ReadySet, R
<1>16. RdyOK(r) BY <1>12, <1>15 DEF RdyOK, Holds
<1>17. WaitSet(r, o) = S \ {t} BY <1>1, <1>2, <1>14 DEF WaitSet, S
<1>18. \A q \in Object : q # o => WaitSet(r, q) = WaitSet(k, q)
  <2> SUFFICES ASSUME NEW q \in Object, q # o PROVE WaitSet(r, q) = WaitSet(k, q) OBVIOUS
  <2>1. q # Nothing BY KernelAssumption DEF Object
  <2> QED BY <1>1, <1>2, <1>14, <2>1 DEF WaitSet
<1>19. PendOK(r)
  <2> SUFFICES ASSUME NEW q \in Object
               PROVE  Lists(r.PendList[q], WaitSet(r, q)) /\ Sorted(r.PendList[q], r.Prio)
    BY DEF PendOK
  <2>1. CASE q = o BY <2>1, <1>6, <1>8, <1>14, <1>17
  <2>2. CASE q # o BY <2>2, <1>8, <1>14, <1>18 DEF PendOK
  <2> QED BY <2>1, <2>2
<1> QED BY <1>4, <1>12, <1>13, <1>14, <1>16, <1>19 DEF po

-----------------------------------------------------------------------------
(* Changes of priority *)

\* r is k after the priority of t has been set to p.
Reprio(r, k, t, p) ==
  /\ r \in KernelState /\ Frame(r, k) /\ RdyOK(r) /\ PendOK(r)
  /\ r.PendOn = k.PendOn /\ r.Prio = [k.Prio EXCEPT ![t] = p]

(* A ready task moves to the ready list of its new priority. *)
LEMMA ReadyReprio ==
  ASSUME NEW k \in KernelState, RdyOK(k), PendOK(k), NEW t \in ReadySet(k), NEW p \in Priority
  PROVE  LET k1 == OS_PrioInsert([OS_RdyListRemove(k, t) EXCEPT !.Prio[t] = p], p)
         IN  Reprio(OS_RdyListInsertTail(k1, t), k, t, p) /\ Reprio(OS_RdyListInsertHead(k1, t), k, t, p)
<1> DEFINE R  == ReadySet(k)
           j  == OS_RdyListRemove(k, t)
           pr == [k.Prio EXCEPT ![t] = p]
           k0 == [j EXCEPT !.Prio[t] = p]
           k1 == OS_PrioInsert(k0, p)
<1>1. t \in Task /\ R \in SUBSET Task /\ t \in R /\ k.Prio \in [Task -> Priority]
  BY DEF ReadySet, KernelState
<1>2. Holds(k, R) BY DEF Holds, RdyOK
<1>3. /\ j \in KernelState /\ Frame(j, k) /\ Holds(j, R \ {t})
      /\ j.Prio = k.Prio /\ j.PendOn = k.PendOn /\ j.PendList = k.PendList
  BY <1>1, <1>2, RdyListRemoved
<1> HIDE DEF j, R
<1>4. /\ pr \in [Task -> Priority] /\ pr[t] = p
      /\ \A u \in Task : u # t => pr[u] = k.Prio[u]
  BY <1>1
<1>5. k0 = [j EXCEPT !.Prio = pr] BY <1>3 DEF KernelState
<1> HIDE DEF pr, k0
<1>6. k0 \in KernelState /\ k0.Prio = pr BY <1>3, <1>4, <1>5 DEF KernelState
<1>7. /\ Frame(k0, j) /\ k0.PendOn = j.PendOn /\ k0.PendList = j.PendList
      /\ k0.RdyList = j.RdyList /\ k0.PrioTbl = j.PrioTbl
  BY <1>3, <1>5 DEF KernelState, Frame
<1>8. Holds(k0, R \ {t})
  <2>1. R \ {t} \in SUBSET Task /\ \A u \in R \ {t} : pr[u] = k.Prio[u] BY <1>1, <1>4
  <2>2. RdyTable(j.RdyList, j.PrioTbl, R \ {t}, k.Prio) BY <1>3 DEF Holds
  <2>3. RdyTable(j.RdyList, j.PrioTbl, R \ {t}, pr) BY <2>1, <2>2, TableReprio
  <2> QED BY <2>3, <1>6, <1>7 DEF Holds
<1>9. ASSUME NEW r, r \in KernelState, Frame(r, k0), Holds(r, (R \ {t}) \cup {t}),
             r.Prio = k0.Prio, r.PendOn = k0.PendOn, r.PendList = k0.PendList
      PROVE  Reprio(r, k, t, p)
  <2>1. Frame(r, k) BY <1>3, <1>7, <1>9 DEF Frame
  <2>2. r.Prio = pr /\ r.PendOn = k.PendOn /\ r.PendList = k.PendList BY <1>3, <1>6, <1>7, <1>9
  <2>3. (R \ {t}) \cup {t} = R BY <1>1
  <2>4. ReadySet(r) = R BY <2>2 DEF ReadySet, R
  <2>5. RdyOK(r) BY <2>3, <2>4, <1>9 DEF Holds, RdyOK
  <2>6. PendOK(r)
    <3> SUFFICES ASSUME NEW q \in Object
                 PROVE  Lists(r.PendList[q], WaitSet(r, q)) /\ Sorted(r.PendList[q], r.Prio)
      BY DEF PendOK
    <3>1. WaitSet(r, q) = WaitSet(k, q) /\ WaitSet(k, q) \in SUBSET Task BY <2>2 DEF WaitSet
    <3>2. Lists(k.PendList[q], WaitSet(k, q)) /\ Sorted(k.PendList[q], k.Prio) BY DEF PendOK
    <3>3. t \notin WaitSet(k, q) BY <1>1, KernelAssumption DEF WaitSet, ReadySet, R, Object
    <3>4. \A x \in WaitSet(k, q) : pr[x] = k.Prio[x] BY <3>1, <3>3, <1>4
    <3>5. Sorted(k.PendList[q], pr) BY <3>1, <3>2, <3>4, SortedFrame
    <3> QED BY <2>2, <3>1, <3>2, <3>5
  <2> QED BY <1>9, <2>1, <2>2, <2>5, <2>6 DEF Reprio, pr
<1>10. p = k0.Prio[t] /\ t \notin R \ {t} /\ R \ {t} \in SUBSET Task BY <1>1, <1>4, <1>6
<1>11. Reprio(OS_RdyListInsertTail(k1, t), k, t, p)
  BY <1>1, <1>6, <1>8, <1>9, <1>10, RdyListInsertedTail
<1>12. Reprio(OS_RdyListInsertHead(k1, t), k, t, p)
  BY <1>1, <1>6, <1>8, <1>9, <1>10, RdyListInsertedHead
<1> QED BY <1>11, <1>12 DEF k0, j

(* A waiting task moves to the place of its new priority in the pend list. *)
LEMMA WaitingReprio ==
  ASSUME NEW k \in KernelState, RdyOK(k), PendOK(k),
         NEW t \in Task, k.PendOn[t] \in Object, NEW p \in Priority
  PROVE  Reprio(OS_PendListChangePrio([k EXCEPT !.Prio[t] = p], t), k, t, p)
<1> DEFINE o  == k.PendOn[t]
           S  == WaitSet(k, o)
           pr == [k.Prio EXCEPT ![t] = p]
           k0 == [k EXCEPT !.Prio[t] = p]
           l  == RemoveFirst(k.PendList[o], t)
           k1 == [k0 EXCEPT !.PendList[o] = RemoveFirst(@, t)]
           r  == OS_PendListChangePrio(k0, t)
<1>1. /\ o \in Object /\ o # Nothing /\ S \in SUBSET Task /\ t \in S
      /\ k.Prio \in [Task -> Priority] /\ k.PendList \in [Object -> Seq(Task)]
  BY KernelAssumption DEF KernelState, WaitSet, Object
<1>2. /\ pr \in [Task -> Priority] /\ pr[t] = p
      /\ \A u \in Task : u # t => pr[u] = k.Prio[u]
  BY <1>1
<1>3. k0 = [k EXCEPT !.Prio = pr] BY DEF KernelState
<1> HIDE DEF pr, k0
<1>4. k0 \in KernelState /\ k0.Prio = pr BY <1>2, <1>3 DEF KernelState
<1>5. /\ Frame(k0, k) /\ k0.PendOn = k.PendOn /\ k0.PendList = k.PendList
      /\ k0.RdyList = k.RdyList /\ k0.PrioTbl = k.PrioTbl
  BY <1>3 DEF KernelState, Frame
<1>6. Lists(k.PendList[o], S) /\ Sorted(k.PendList[o], k.Prio) BY <1>1 DEF PendOK
<1> HIDE DEF S
\* Whatever is done to the pend list, if it lists the same tasks in order.
<1>7. ASSUME NEW j, j \in KernelState, Frame(j, k), j.Prio = pr, j.PendOn = k.PendOn,
             j.RdyList = k.RdyList, j.PrioTbl = k.PrioTbl,
             Lists(j.PendList[o], S), Sorted(j.PendList[o], pr),
             \A q \in Object : q # o => j.PendList[q] = k.PendList[q]
      PROVE  Reprio(j, k, t, p)
  <2>1. ReadySet(j) = ReadySet(k) /\ \A u \in ReadySet(k) : pr[u] = k.Prio[u]
    BY <1>1, <1>2, <1>7 DEF ReadySet
  <2>2. RdyOK(j)
    <3>1. ReadySet(k) \in SUBSET Task BY DEF ReadySet
    <3>2. RdyTable(k.RdyList, k.PrioTbl, ReadySet(k), k.Prio) BY DEF RdyOK
    <3>3. RdyTable(k.RdyList, k.PrioTbl, ReadySet(k), pr) BY <2>1, <3>1, <3>2, TableReprio
    <3> QED BY <3>3, <2>1, <1>7 DEF RdyOK
  <2>3. PendOK(j)
    <3> SUFFICES ASSUME NEW q \in Object
                 PROVE  Lists(j.PendList[q], WaitSet(j, q)) /\ Sorted(j.PendList[q], j.Prio)
      BY DEF PendOK
    <3>1. WaitSet(j, q) = WaitSet(k, q) /\ WaitSet(k, q) \in SUBSET Task BY <1>7 DEF WaitSet
    <3>2. CASE q = o BY <3>1, <3>2, <1>7 DEF S
    <3>3. CASE q # o
      <4>1. Lists(k.PendList[q], WaitSet(k, q)) /\ Sorted(k.PendList[q], k.Prio) BY DEF PendOK
      <4>2. t \notin WaitSet(k, q) BY <3>3 DEF WaitSet
      <4>3. \A x \in WaitSet(k, q) : pr[x] = k.Prio[x] BY <3>1, <4>2, <1>2
      <4>4. Sorted(k.PendList[q], pr) BY <3>1, <4>1, <4>3, SortedFrame
      <4> QED BY <3>1, <3>3, <4>1, <4>4, <1>7
    <3> QED BY <3>2, <3>3
  <2> QED BY <1>7, <2>2, <2>3 DEF Reprio, pr
<1>8. CASE ~(Len(k.PendList[o]) > 1)
  <2>1. r = k0 BY <1>5, <1>8 DEF OS_PendListChangePrio
  <2>2. Len(k.PendList[o]) \in Nat BY <1>1, LenProperties
  <2>3. Sorted(k.PendList[o], pr) BY <2>2, <1>8, SortedShort
  <2>4. Reprio(k0, k, t, p) BY <1>4, <1>5, <1>6, <1>7, <2>3
  <2> QED BY <2>1, <2>4 DEF k0
<1>9. CASE Len(k.PendList[o]) > 1
  <2>1. r = OS_PendListInsertPrio(k1, o, t) BY <1>5, <1>9 DEF OS_PendListChangePrio
  <2>2. Lists(l, S \ {t}) /\ Sorted(l, k.Prio) BY <1>1, <1>6, ListsRemove
  <2> HIDE DEF l
  <2>3. S \ {t} \in SUBSET Task /\ (S \ {t}) \cup {t} = S /\ t \notin S \ {t} BY <1>1
  <2>4. \A x \in S \ {t} : pr[x] = k.Prio[x] BY <1>1, <1>2
  <2>5. Sorted(l, pr) /\ l \in Seq(Task) BY <2>2, <2>3, <2>4, SortedFrame, ListsType
  <2>6. k1 = [k0 EXCEPT !.PendList = [k.PendList EXCEPT ![o] = l]]
    BY <1>1, <1>4, <1>5 DEF KernelState, l
  <2> HIDE DEF k1
  <2>7. k1 \in KernelState /\ k1.PendList = [k.PendList EXCEPT ![o] = l]
    BY <1>1, <1>4, <2>5, <2>6 DEF KernelState
  <2>8. k1.PendList[o] = l /\ \A q \in Object : q # o => k1.PendList[q] = k.PendList[q]
    BY <1>1, <2>7
  <2>9. /\ Frame(k1, k0) /\ k1.Prio = k0.Prio /\ k1.PendOn = k0.PendOn
        /\ k1.RdyList = k0.RdyList /\ k1.PrioTbl = k0.PrioTbl
    BY <1>4, <2>6 DEF KernelState, Frame
  <2> DEFINE j == OS_PendListInsertPrio(k1, o, t)
             T == S \ {t}
  <2>10. /\ T \in SUBSET Task /\ t \notin T /\ T \cup {t} = S
         /\ Lists(k1.PendList[o], T) /\ Sorted(k1.PendList[o], k1.Prio)
    BY <1>4, <2>2, <2>3, <2>5, <2>8, <2>9
  <2> HIDE DEF T
  <2>11. PendInserted(j, k1, o, T, t) BY <1>1, <2>7, <2>10, PendListInserted
  <2> HIDE DEF j, o
  <2>12. /\ j \in KernelState /\ Frame(j, k1) /\ j.Prio = pr /\ j.PendOn = k.PendOn
         /\ j.RdyList = k.RdyList /\ j.PrioTbl = k.PrioTbl
         /\ Lists(j.PendList[o], S) /\ Sorted(j.PendList[o], pr)
         /\ \A q \in Object : q # o => j.PendList[q] = k.PendList[q]
    BY <2>8, <2>9, <2>10, <2>11, <1>4, <1>5 DEF PendInserted
  <2>13. Frame(j, k) BY <2>9, <2>12, <1>5 DEF Frame
  <2>14. Reprio(j, k, t, p) BY <2>12, <2>13, <1>7
  <2> QED BY <2>1, <2>14 DEF j, k0
<1> QED BY <1>8, <1>9

-----------------------------------------------------------------------------
(* Inheritance along a chain of waiting tasks *)

\* As Inherited, while task x is still to be raised to the priority p of a task
\* that waits for it.
Chain(pr, nx, x, p) ==
  /\ \A t \in Task : pr[t] <= BasePrio[t]
  /\ \A u \in Task : nx[u] \in Task => pr[nx[u]] <= pr[u] \/ (nx[u] = x /\ pr[u] = p)
  /\ \A t \in Task : \/ t = x
                     \/ pr[t] = BasePrio[t]
                     \/ \E u \in Task : nx[u] = t /\ pr[u] = pr[t]
  /\ x # NoTask => pr[x] > p /\ \E u \in Task : nx[u] = x /\ pr[u] = p

WaitGraph == {nx \in [Task -> AppTask \cup {NoTask}] : \A u \in Task : nx[u] # u}

(* A task that begins to wait makes its owner one to be raised, if the owner *)
(* is less urgent.                                                          *)
LEMMA ChainStart ==
  ASSUME NEW pr \in [Task -> Priority], NEW nx \in WaitGraph, Inherited(pr, nx),
         NEW c \in Task, nx[c] = NoTask, NEW w \in AppTask, w # c
  PROVE  /\ [nx EXCEPT ![c] = w] \in WaitGraph
         /\ pr[w] > pr[c] => Chain(pr, [nx EXCEPT ![c] = w], w, pr[c])
         /\ ~(pr[w] > pr[c]) => Inherited(pr, [nx EXCEPT ![c] = w])
<1> DEFINE ny == [nx EXCEPT ![c] = w]
<1>1. /\ \A t \in Task : pr[t] \in Nat /\ BasePrio[t] \in Nat
      /\ NoTask \notin Task /\ w \in Task /\ w # NoTask
  BY Tasks, BasePrios, Priorities
<1>2. nx \in [Task -> AppTask \cup {NoTask}] /\ \A u \in Task : nx[u] # u BY DEF WaitGraph
<1>3. /\ ny \in [Task -> AppTask \cup {NoTask}] /\ ny[c] = w
      /\ \A u \in Task : u # c => ny[u] = nx[u]
  BY <1>2
<1> HIDE DEF ny
<1>4. ny \in WaitGraph BY <1>2, <1>3 DEF WaitGraph
<1>5. \A t \in Task : pr[t] <= BasePrio[t] BY DEF Inherited
<1>6. ASSUME NEW u \in Task, u # c, ny[u] \in Task PROVE pr[ny[u]] <= pr[u]
  BY <1>3, <1>6 DEF Inherited
<1>7. ASSUME NEW t \in Task PROVE pr[t] = BasePrio[t] \/ \E u \in Task : ny[u] = t /\ pr[u] = pr[t]
  <2>1. CASE pr[t] = BasePrio[t] BY <2>1
  <2>2. CASE pr[t] # BasePrio[t]
    <3>1. PICK u \in Task : nx[u] = t /\ pr[u] = pr[t] BY <2>2 DEF Inherited
    <3>2. u # c BY <3>1, <1>1
    <3> QED BY <3>1, <3>2, <1>3
  <2> QED BY <2>1, <2>2
<1>8. ASSUME pr[w] > pr[c] PROVE Chain(pr, ny, w, pr[c])
  BY <1>1, <1>3, <1>5, <1>6, <1>7, <1>8 DEF Chain
<1>9. ASSUME ~(pr[w] > pr[c]) PROVE Inherited(pr, ny)
  <2>1. pr[w] <= pr[c] BY <1>1, <1>9
  <2> QED BY <2>1, <1>3, <1>5, <1>6, <1>7 DEF Inherited
<1> QED BY <1>4, <1>8, <1>9 DEF ny

(* One turn of OS_TaskChangePrio: the task gets the priority, and the task it *)
(* waits for is the next one, if that is less urgent.                        *)
LEMMA ChainStep ==
  ASSUME NEW pr \in [Task -> Priority], NEW nx \in WaitGraph, NEW p \in Priority,
         NEW x \in AppTask, Chain(pr, nx, x, p),
         NEW y, y = IF nx[x] \in Task /\ pr[nx[x]] > p THEN nx[x] ELSE NoTask
  PROVE  Chain([pr EXCEPT ![x] = p], nx, y, p)
<1> DEFINE qr == [pr EXCEPT ![x] = p]
<1>1. /\ \A t \in Task : pr[t] \in Nat /\ BasePrio[t] \in Nat
      /\ NoTask \notin Task /\ x \in Task /\ x # NoTask /\ p \in Nat
  BY Tasks, BasePrios, Priorities
<1>2. nx \in [Task -> AppTask \cup {NoTask}] /\ \A u \in Task : nx[u] # u BY DEF WaitGraph
<1>3. qr[x] = p /\ \A t \in Task : t # x => qr[t] = pr[t] BY <1>1
<1> HIDE DEF qr
<1>4. pr[x] > p /\ \E u \in Task : nx[u] = x /\ pr[u] = p BY <1>1 DEF Chain
<1>5. \A t \in Task : qr[t] <= BasePrio[t]
  <2>1. \A t \in Task : pr[t] <= BasePrio[t] BY DEF Chain
  <2>2. qr[x] <= BasePrio[x] BY <2>1, <1>1, <1>3, <1>4
  <2> QED BY <2>1, <2>2, <1>3
<1>6. ASSUME NEW u \in Task, nx[u] \in Task
      PROVE  qr[nx[u]] <= qr[u] \/ (nx[u] = y /\ qr[u] = p)
  <2>0. nx[u] # u BY <1>2
  <2>1. CASE nx[u] = x
    <3>1. p <= pr[u] BY <2>1, <1>1, <1>4, <1>6 DEF Chain
    <3> QED BY <2>0, <2>1, <3>1, <1>3
  <2>2. CASE u = x
    <3>1. CASE pr[nx[x]] > p BY <2>2, <3>1, <1>3, <1>6
    <3>2. CASE ~(pr[nx[x]] > p)
      <4>1. pr[nx[x]] <= p BY <3>2, <2>2, <1>1, <1>6
      <4> QED BY <2>0, <2>2, <4>1, <1>3, <1>6
    <3> QED BY <3>1, <3>2
  <2>3. CASE nx[u] # x /\ u # x BY <2>3, <1>3, <1>6 DEF Chain
  <2> QED BY <2>1, <2>2, <2>3
<1>7. ASSUME NEW t \in Task
      PROVE  \/ t = y
             \/ qr[t] = BasePrio[t]
             \/ \E u \in Task : nx[u] = t /\ qr[u] = qr[t]
  <2>1. CASE t = x
    <3>1. PICK u \in Task : nx[u] = x /\ pr[u] = p BY <1>4
    <3>2. u # x BY <3>1, <1>2
    <3> QED BY <2>1, <3>1, <3>2, <1>3
  <2>2. CASE t # x
    <3>1. CASE pr[t] = BasePrio[t] BY <2>2, <3>1, <1>3
    <3>2. CASE pr[t] # BasePrio[t]
      <4>1. PICK u \in Task : nx[u] = t /\ pr[u] = pr[t] BY <2>2, <3>2 DEF Chain
      <4>2. CASE u = x BY <4>1, <4>2, <1>4
      <4>3. CASE u # x BY <4>1, <4>3, <2>2, <1>3
      <4> QED BY <4>2, <4>3
    <3> QED BY <3>1, <3>2
  <2> QED BY <2>1, <2>2
<1>8. ASSUME y # NoTask PROVE qr[y] > p /\ \E u \in Task : nx[u] = y /\ qr[u] = p
  <2>1. y = nx[x] /\ nx[x] \in Task /\ pr[nx[x]] > p BY <1>8
  <2>2. y # x BY <2>1, <1>1, <1>2
  <2> QED BY <2>1, <2>2, <1>1, <1>3
<1> QED BY <1>5, <1>6, <1>7, <1>8 DEF Chain, qr

(* With nobody left to be raised all priorities are inherited. *)
LEMMA ChainEnd ==
  ASSUME NEW pr, NEW nx, NEW p, Chain(pr, nx, NoTask, p)
  PROVE  Inherited(pr, nx)
<1>1. NoTask \notin Task BY Tasks
<1> QED BY <1>1 DEF Chain, Inherited

\* A mutex goes from t to u, the most urgent of the tasks W that wait for it.
\* Task t is left with the priority q, and ny says who waits for whom then.
Passed(pr, nx, t, W, u, q, ny) ==
  /\ \A v \in W : nx[v] = t /\ pr[u] <= pr[v]
  /\ nx[t] = NoTask /\ q <= BasePrio[t]
  /\ \A v \in Task \ W : nx[v] = t => q <= pr[v]
  /\ q = BasePrio[t] \/ \E v \in Task \ W : nx[v] = t /\ pr[v] = q
  /\ ny[u] = NoTask
  /\ \A v \in W : v # u => ny[v] = u
  /\ \A v \in Task \ W : ny[v] = nx[v]

(* All priorities are inherited after a mutex has been handed over. *)
LEMMA InheritHandOver ==
  ASSUME NEW pr \in [Task -> Priority], NEW nx \in WaitGraph, Inherited(pr, nx),
         NEW t \in Task, NEW W \in SUBSET Task, NEW u \in W, NEW q \in Priority,
         NEW ny \in [Task -> AppTask \cup {NoTask}], Passed(pr, nx, t, W, u, q, ny)
  PROVE  Inherited([pr EXCEPT ![t] = q], ny)
<1> DEFINE qr == [pr EXCEPT ![t] = q]
<1> USE DEF Passed
<1>1. /\ \A v \in Task : pr[v] \in Nat /\ BasePrio[v] \in Nat
      /\ NoTask \notin Task /\ u \in Task /\ q \in Nat
  BY Tasks, BasePrios, Priorities
<1>2. nx \in [Task -> AppTask \cup {NoTask}] /\ \A v \in Task : nx[v] # v BY DEF WaitGraph
<1>3. qr[t] = q /\ \A v \in Task : v # t => qr[v] = pr[v] OBVIOUS
<1> HIDE DEF qr
<1>4. t \notin W /\ ny[t] = NoTask /\ u # t BY <1>1
<1>5. \A v \in Task : qr[v] <= BasePrio[v] BY <1>3 DEF Inherited
<1>6. ASSUME NEW v \in Task, ny[v] \in Task PROVE qr[ny[v]] <= qr[v]
  <2>0. v # u /\ v # t BY <1>1, <1>4, <1>6
  <2>1. CASE v \in W BY <2>0, <2>1, <1>3, <1>4
  <2>2. CASE v \notin W /\ nx[v] = t BY <2>0, <2>2, <1>3
  <2>3. CASE v \notin W /\ nx[v] # t BY <2>0, <2>3, <1>3, <1>6 DEF Inherited
  <2> QED BY <2>1, <2>2, <2>3
<1>7. ASSUME NEW v \in Task
      PROVE  qr[v] = BasePrio[v] \/ \E x \in Task : ny[x] = v /\ qr[x] = qr[v]
  <2>1. CASE v = t
    <3>1. CASE q = BasePrio[t] BY <2>1, <3>1, <1>3
    <3>2. CASE \E x \in Task \ W : nx[x] = t /\ pr[x] = q
      <4>1. PICK x \in Task \ W : nx[x] = t /\ pr[x] = q BY <3>2
      <4>2. x # t BY <4>1, <1>1, <1>2
      <4> QED BY <2>1, <4>1, <4>2, <1>3
    <3> QED BY <3>1, <3>2
  <2>2. CASE v # t
    <3>1. CASE pr[v] = BasePrio[v] BY <2>2, <3>1, <1>3
    <3>2. CASE pr[v] # BasePrio[v]
      <4>1. PICK x \in Task : nx[x] = v /\ pr[x] = pr[v] BY <3>2 DEF Inherited
      <4>2. x \notin W /\ x # t BY <4>1, <2>2, <1>1
      <4> QED BY <4>1, <4>2, <2>2, <1>3
    <3> QED BY <3>1, <3>2
  <2> QED BY <2>1, <2>2
<1> QED BY <1>5, <1>6, <1>7 DEF Inherited, qr

(* One turn of OS_TaskChangePrio changes one priority, and finds the owner of *)
(* the mutex the task waits for.                                             *)
LEMMA TaskRaised ==
  ASSUME NEW k \in KernelState, RdyOK(k), PendOK(k), NEW t \in Task, NEW p \in Priority
  PROVE  /\ Reprio(RaiseTask(k, t, p)[1], k, t, p)
         /\ RaiseTask(k, t, p)[2] =
              IF k.PendOn[t] \in Mutexes /\ k.Prio[k.Owner[k.PendOn[t]]] > p
              THEN k.Owner[k.PendOn[t]] ELSE NoTask
<1> DEFINE ready == OS_PrioInsert([OS_RdyListRemove(k, t) EXCEPT !.Prio[t] = p], p)
           waits == OS_PendListChangePrio([k EXCEPT !.Prio[t] = p], t)
<1>1. k.PendOn[t] \in Object \cup {Nothing} BY DEF KernelState
<1>2. CASE k.PendOn[t] = Nothing
  <2>1. t \in ReadySet(k) BY <1>2 DEF ReadySet
  <2>2. Reprio(OS_RdyListInsertTail(ready, t), k, t, p) /\ Reprio(OS_RdyListInsertHead(ready, t), k, t, p)
    BY <2>1, ReadyReprio
  <2>3. k.PendOn[t] \notin Mutexes BY <1>2, KernelAssumption
  <2> DEFINE a == OS_RdyListInsertTail(ready, t)
             b == OS_RdyListInsertHead(ready, t)
  <2>4. RaiseTask(k, t, p) = << IF t = k.TCBCur THEN b ELSE a, NoTask >>
    BY <1>2 DEF RaiseTask
  <2> HIDE DEF a, b
  <2>5. /\ RaiseTask(k, t, p)[1] = IF t = k.TCBCur THEN b ELSE a
        /\ RaiseTask(k, t, p)[2] = NoTask
    BY <2>4
  <2>6. Reprio(a, k, t, p) /\ Reprio(b, k, t, p) BY <2>2 DEF a, b
  <2> QED BY <2>3, <2>5, <2>6
<1>3. CASE k.PendOn[t] \in Object
  <2>1. k.PendOn[t] # Nothing BY <1>3, KernelAssumption DEF Object
  <2>2. Reprio(waits, k, t, p) BY <1>3, WaitingReprio
  <2> DEFINE y == IF k.PendOn[t] \in Mutexes /\ k.Prio[k.Owner[k.PendOn[t]]] > p
                  THEN k.Owner[k.PendOn[t]] ELSE NoTask
  <2>3. RaiseTask(k, t, p) = << waits, y >> BY <2>1 DEF RaiseTask
  <2> HIDE DEF waits, y
  <2>4. RaiseTask(k, t, p)[1] = waits /\ RaiseTask(k, t, p)[2] = y BY <2>3
  <2> QED BY <2>2, <2>4 DEF y
<1> QED BY <1>1, <1>2, <1>3

\* A turn of the loop that raises owners to the priority p: k is the state
\* before the loop, and c, which has this priority, is going to wait for w.
TurnOK(turn, k, c, w, p) ==
  /\ turn[1] \in KernelState /\ RdyOK(turn[1]) /\ PendOK(turn[1])
  /\ Frame(turn[1], k) /\ turn[1].PendOn = k.PendOn
  /\ turn[1].Prio[c] = p
  /\ turn[2] \in AppTask \cup {NoTask}
  /\ Chain(turn[1].Prio, [Target(k) EXCEPT ![c] = w], turn[2], p)

\* The task to be raised has got the priority p, if there was one.
TurnDone(next, turn, p) ==
  /\ turn[2] = NoTask => next[2] = NoTask
  /\ turn[2] # NoTask => next[1].Prio = [turn[1].Prio EXCEPT ![turn[2]] = p]

(* Who waits for whom is a graph of at most one edge from each task. *)
LEMMA TargetGraph ==
  ASSUME NEW k \in KernelState, OwnersOK(k)
  PROVE  /\ Target(k) \in WaitGraph
         /\ \A u \in Task : Target(k)[u] = IF k.PendOn[u] \in Mutexes
                                          THEN k.Owner[k.PendOn[u]] ELSE NoTask
<1>1. k.Owner \in [Mutexes -> AppTask \cup {NoTask}] BY DEF KernelState
<1>2. ASSUME NEW u \in Task
      PROVE  /\ Target(k)[u] = IF k.PendOn[u] \in Mutexes
                               THEN k.Owner[k.PendOn[u]] ELSE NoTask
             /\ Target(k)[u] \in AppTask \cup {NoTask} /\ Target(k)[u] # u
  <2>1. Target(k)[u] = IF k.PendOn[u] \in Mutexes THEN k.Owner[k.PendOn[u]] ELSE NoTask
    BY DEF Target
  <2>2. CASE k.PendOn[u] \in Mutexes BY <1>1, <2>1, <2>2 DEF OwnersOK
  <2>3. CASE k.PendOn[u] \notin Mutexes BY <2>1, <2>3, Tasks
  <2> QED BY <2>1, <2>2, <2>3
<1>3. Target(k) = [u \in Task |-> Target(k)[u]] BY DEF Target
<1> QED BY <1>2, <1>3 DEF WaitGraph

(* One turn keeps the state of the loop in order. *)
LEMMA TurnNext ==
  ASSUME NEW k \in KernelState, OwnersOK(k), NEW c \in Task, k.PendOn[c] = Nothing,
         NEW w \in AppTask, w # c, NEW p \in Priority, NEW turn, TurnOK(turn, k, c, w, p)
  PROVE  /\ TurnOK(RaiseNext(turn, p), k, c, w, p)
         /\ TurnDone(RaiseNext(turn, p), turn, p)
<1> DEFINE j  == turn[1]
           x  == turn[2]
           r  == RaiseNext(turn, p)
           nx == [Target(k) EXCEPT ![c] = w]
<1>1. CASE x = NoTask
  <2>1. r = turn BY <1>1 DEF RaiseNext
  <2> QED BY <2>1, <1>1 DEF TurnDone
<1>2. CASE x # NoTask
  <2>1. /\ j \in KernelState /\ RdyOK(j) /\ PendOK(j) /\ Frame(j, k) /\ j.PendOn = k.PendOn
        /\ j.Prio[c] = p /\ x \in AppTask /\ Chain(j.Prio, nx, x, p)
    BY <1>2 DEF TurnOK
  <2>2. r = RaiseTask(j, x, p) BY <1>2 DEF RaiseNext
  <2> HIDE DEF j, x, r, nx
  <2>3. x \in Task /\ NoTask \notin Task /\ AppTask \subseteq Task BY <2>1, Tasks
  <2>4. /\ Reprio(r[1], j, x, p)
        /\ r[2] = IF j.PendOn[x] \in Mutexes /\ j.Prio[j.Owner[j.PendOn[x]]] > p
                  THEN j.Owner[j.PendOn[x]] ELSE NoTask
    BY <2>1, <2>2, <2>3, TaskRaised
  <2>5. j.Prio \in [Task -> Priority] BY <2>1 DEF KernelState
  <2>6. j.Prio[x] > p BY <2>1, <2>3 DEF Chain
  <2>7. x # c BY <2>1, <2>5, <2>6, Priorities
  <2>8. Target(k) \in WaitGraph /\ Target(k)[c] = NoTask
    BY TargetGraph, KernelAssumption
  <2>9. nx \in WaitGraph
    <3>1. /\ Target(k) \in [Task -> AppTask \cup {NoTask}]
          /\ \A u \in Task : Target(k)[u] # u
      BY <2>8 DEF WaitGraph
    <3>2. /\ nx \in [Task -> AppTask \cup {NoTask}] /\ nx[c] = w
          /\ \A u \in Task : u # c => nx[u] = Target(k)[u]
      BY <3>1 DEF nx
    <3> QED BY <3>1, <3>2 DEF WaitGraph
  <2>10. nx[x] = IF j.PendOn[x] \in Mutexes THEN j.Owner[j.PendOn[x]] ELSE NoTask
    <3>1. Target(k)[x] = IF k.PendOn[x] \in Mutexes THEN k.Owner[k.PendOn[x]] ELSE NoTask
      BY <2>3, TargetGraph
    <3>2. nx[x] = Target(k)[x] BY <2>3, <2>7, <2>8 DEF nx, WaitGraph
    <3>3. j.PendOn = k.PendOn /\ j.Owner = k.Owner BY <2>1 DEF Frame
    <3> QED BY <3>1, <3>2, <3>3
  <2>11. j.PendOn[x] \in Mutexes => nx[x] \in Task
    <3>1. k.PendOn[x] \in Mutexes => k.Owner[k.PendOn[x]] # NoTask BY <2>3 DEF OwnersOK
    <3>2. nx[x] \in AppTask \cup {NoTask} BY <2>3, <2>9 DEF WaitGraph
    <3>3. j.PendOn = k.PendOn /\ j.Owner = k.Owner BY <2>1 DEF Frame
    <3> QED BY <3>1, <3>2, <3>3, <2>3, <2>10
  <2>12. r[2] = IF nx[x] \in Task /\ j.Prio[nx[x]] > p THEN nx[x] ELSE NoTask
    BY <2>3, <2>4, <2>10, <2>11
  <2>13. r[2] \in AppTask \cup {NoTask}
    <3>1. nx[x] \in AppTask \cup {NoTask} BY <2>3, <2>9 DEF WaitGraph
    <3> QED BY <3>1, <2>12
  <2>14. Chain([j.Prio EXCEPT ![x] = p], nx, r[2], p)
    BY <2>1, <2>5, <2>9, <2>12, ChainStep
  <2>15. /\ r[1] \in KernelState /\ Frame(r[1], j) /\ RdyOK(r[1]) /\ PendOK(r[1])
         /\ r[1].PendOn = j.PendOn /\ r[1].Prio = [j.Prio EXCEPT ![x] = p]
    BY <2>4 DEF Reprio
  <2>16. Frame(r[1], k) /\ r[1].PendOn = k.PendOn BY <2>1, <2>15 DEF Frame
  <2>17. r[1].Prio[c] = p BY <2>1, <2>5, <2>7, <2>15
  <2>18. TurnOK(r, k, c, w, p)
    BY <2>13, <2>14, <2>15, <2>16, <2>17 DEF TurnOK, nx
  <2> QED BY <2>15, <2>18, <1>2 DEF r, j, x, TurnDone
<1> QED BY <1>1, <1>2

(* OS_TaskChangePrio ends with every priority inherited along the chain.     *)
(* The caller has the priority already and no task is raised twice, so that *)
(* the loop ends after two turns.                                           *)
LEMMA TaskPrioChanged ==
  ASSUME NEW k, KernelOK(k), NEW c \in AppTask, k.PendOn[c] = Nothing,
         NEW w \in AppTask, w # c, k.Prio[w] > k.Prio[c]
  PROVE  LET r == OS_TaskChangePrio(k, w, k.Prio[c]) IN
         /\ r \in KernelState /\ RdyOK(r) /\ PendOK(r) /\ Frame(r, k)
         /\ r.PendOn = k.PendOn /\ r.Prio[c] = k.Prio[c]
         /\ Inherited(r.Prio, [Target(k) EXCEPT ![c] = w])
<1> DEFINE p  == k.Prio[c]
           nx == [Target(k) EXCEPT ![c] = w]
           t0 == <<k, w>>
           t1 == RaiseNext(t0, p)
           t2 == RaiseNext(t1, p)
           t3 == RaiseNext(t2, p)
<1>0. k \in KernelState /\ RdyOK(k) /\ PendOK(k) /\ OwnersOK(k) /\ InheritOK(k) BY DEF KernelOK
<1>1. /\ c \in Task /\ NoTask \notin Task /\ AppTask \subseteq Task
      /\ k.Prio \in [Task -> Priority] /\ p \in Priority
  BY <1>0, Tasks DEF KernelState
<1>2. Target(k) \in WaitGraph /\ Target(k)[c] = NoTask
  BY <1>0, <1>1, TargetGraph, KernelAssumption
<1>3. Chain(k.Prio, nx, w, p) BY <1>0, <1>1, <1>2, ChainStart DEF InheritOK
<1>4. t0[1] = k /\ t0[2] = w OBVIOUS
<1>5. Frame(k, k) BY DEF Frame
<1> HIDE DEF t0, p
<1>6. TurnOK(t0, k, c, w, p)
  BY <1>0, <1>3, <1>4, <1>5, <1>1 DEF TurnOK, p
<1>7. TurnOK(t1, k, c, w, p) /\ TurnDone(t1, t0, p)
  BY <1>0, <1>1, <1>6, TurnNext
<1> HIDE DEF t1
<1>8. TurnOK(t2, k, c, w, p) /\ TurnDone(t2, t1, p)
  BY <1>0, <1>1, <1>7, TurnNext
<1> HIDE DEF t2
<1>9. TurnOK(t3, k, c, w, p) /\ TurnDone(t3, t2, p)
  BY <1>0, <1>1, <1>8, TurnNext
<1> HIDE DEF t3
<1>10. t2[2] = NoTask
  <2> SUFFICES ASSUME t2[2] # NoTask PROVE FALSE OBVIOUS
  <2> DEFINE x0 == w
             x1 == t1[2]
             x2 == t2[2]
             p1 == t1[1].Prio
             p2 == t2[1].Prio
  <2>1. /\ w \in AppTask /\ x1 \in AppTask /\ x2 \in AppTask
        /\ p1 \in [Task -> Priority] /\ p2 \in [Task -> Priority]
    BY <1>7, <1>8 DEF TurnOK, TurnDone, KernelState
  <2>2. p1 = [k.Prio EXCEPT ![w] = p] /\ p2 = [p1 EXCEPT ![x1] = p]
    BY <2>1, <1>1, <1>4, <1>7, <1>8 DEF TurnDone
  <2>3. p1[x1] > p /\ p2[x2] > p BY <2>1, <1>1, <1>7, <1>8 DEF TurnOK, Chain
  <2>4. p1[c] = p /\ p2[c] = p BY <1>7, <1>8 DEF TurnOK
  <2> HIDE DEF x1, x2, p1, p2
  <2>5. \A t \in Task : p1[t] \in Nat /\ p2[t] \in Nat BY <2>1, Priorities
  <2>6. p \in Nat BY <1>1, Priorities
  <2>7. p1[w] = p /\ p2[x1] = p BY <2>1, <2>2, <1>1
  <2>8. x1 # c /\ x2 # c /\ x1 # w /\ x2 # x1 BY <2>3, <2>4, <2>6, <2>7
  <2>9. p2[w] = p BY <2>1, <2>2, <2>7, <2>8, <1>1
  <2>10. x2 # w BY <2>3, <2>6, <2>9
  <2> QED BY <2>1, <2>8, <2>10, Tasks
<1>11. Inherited(t3[1].Prio, nx) BY <1>9, <1>10, ChainEnd DEF TurnOK, TurnDone
<1>12. OS_TaskChangePrio(k, w, p) = t3[1] BY DEF OS_TaskChangePrio, t0, t1, t2, t3
<1>13. /\ t3[1] \in KernelState /\ RdyOK(t3[1]) /\ PendOK(t3[1]) /\ Frame(t3[1], k)
       /\ t3[1].PendOn = k.PendOn /\ t3[1].Prio[c] = p
  BY <1>9 DEF TurnOK
<1> QED BY <1>11, <1>12, <1>13 DEF p

-----------------------------------------------------------------------------
(* The services keep the kernel's variables in order.                       *)

\* r and k agree in everything the scheduler reads.
SameTasks(r, k) ==
  /\ r.Prio = k.Prio /\ r.PendOn = k.PendOn
  /\ r.RdyList = k.RdyList /\ r.PrioTbl = k.PrioTbl /\ r.PendList = k.PendList
  /\ r.TCBCur = k.TCBCur /\ r.TCBHighRdy = k.TCBHighRdy /\ r.PendSV = k.PendSV

(* What depends on the tasks only. *)
LEMMA SameTasksOK ==
  ASSUME NEW k, NEW r, SameTasks(r, k), RdyOK(k), PendOK(k)
  PROVE  RdyOK(r) /\ PendOK(r) /\ \A at : SchedOK(k, at) => SchedOK(r, at)
<1>1. ReadySet(r) = ReadySet(k) /\ \A o \in Object : WaitSet(r, o) = WaitSet(k, o)
  BY DEF SameTasks, ReadySet, WaitSet
<1>2. RdyOK(r) BY <1>1 DEF RdyOK, SameTasks
<1>3. PendOK(r) BY <1>1 DEF PendOK, SameTasks
<1>4. \A at : SchedOK(k, at) => SchedOK(r, at) BY <1>1 DEF SchedOK, MostUrgent, SameTasks
<1> QED BY <1>2, <1>3, <1>4

(* OSMutexPend of a free mutex. *)
LEMMA LockFree ==
  ASSUME NEW k, KernelOK(k), NEW t \in AppTask, NEW m \in Mutexes, k.Nesting[m] = 0
  PROVE  LET r == OS_MutexGrpAdd([k EXCEPT !.Owner[m] = t, !.Nesting[m] = 1], t, m)
         IN  KernelOK(r) /\ SameTasks(r, k)
<1> DEFINE ow == [k.Owner EXCEPT ![m] = t]
           ne == [k.Nesting EXCEPT ![m] = 1]
           gr == [k.MutexGrp EXCEPT ![t] = @ \cup {m}]
           r  == OS_MutexGrpAdd([k EXCEPT !.Owner[m] = t, !.Nesting[m] = 1], t, m)
<1>0. k \in KernelState /\ RdyOK(k) /\ PendOK(k) /\ OwnersOK(k) /\ GrpOK(k) /\ InheritOK(k)
  BY DEF KernelOK
<1>1. /\ k.Owner \in [Mutexes -> AppTask \cup {NoTask}] /\ k.Nesting \in [Mutexes -> Nat]
      /\ k.MutexGrp \in [Task -> SUBSET Mutexes] /\ t \in Task /\ t # NoTask
  BY <1>0, Tasks DEF KernelState
<1>2. /\ ow \in [Mutexes -> AppTask \cup {NoTask}] /\ ow[m] = t
      /\ ne \in [Mutexes -> Nat] /\ ne[m] = 1
      /\ gr \in [Task -> SUBSET Mutexes] /\ gr[t] = k.MutexGrp[t] \cup {m}
      /\ \A n \in Mutexes : n # m => ow[n] = k.Owner[n] /\ ne[n] = k.Nesting[n]
      /\ \A u \in Task : u # t => gr[u] = k.MutexGrp[u]
  BY <1>1
<1>3. r = [k EXCEPT !.Owner = ow, !.Nesting = ne, !.MutexGrp = gr]
  BY <1>0, <1>1 DEF OS_MutexGrpAdd, KernelState
<1> HIDE DEF ow, ne, gr, r
<1>4. r \in KernelState /\ r.Owner = ow /\ r.Nesting = ne /\ r.MutexGrp = gr
  BY <1>0, <1>2, <1>3 DEF KernelState
<1>5. SameTasks(r, k) BY <1>0, <1>3 DEF KernelState, SameTasks
<1>6. RdyOK(r) /\ PendOK(r) BY <1>0, <1>5, SameTasksOK
<1>7. k.Owner[m] = NoTask BY <1>0 DEF OwnersOK
<1>8. \A u \in Task : k.PendOn[u] # m BY <1>0, <1>7 DEF OwnersOK
<1>9. r.PendOn = k.PendOn /\ r.Prio = k.Prio BY <1>5 DEF SameTasks
<1>10. OwnersOK(r)
  <2>1. \A n \in Mutexes : ne[n] = 0 <=> ow[n] = NoTask BY <1>0, <1>1, <1>2 DEF OwnersOK
  <2> QED BY <2>1, <1>0, <1>2, <1>4, <1>8, <1>9 DEF OwnersOK
<1>11. GrpOK(r)
  <2> SUFFICES ASSUME NEW u \in Task PROVE gr[u] = {n \in Mutexes : ow[n] = u}
    BY <1>4 DEF GrpOK
  <2>1. k.MutexGrp[u] = {n \in Mutexes : k.Owner[n] = u} BY <1>0 DEF GrpOK
  <2>2. CASE u = t BY <2>1, <2>2, <1>2
  <2>3. CASE u # t
    <3>1. u # NoTask BY Tasks
    <3> QED BY <2>1, <2>3, <3>1, <1>2, <1>7
  <2> QED BY <2>2, <2>3
<1>12. Target(r) = Target(k) BY <1>2, <1>4, <1>8, <1>9 DEF Target
<1>13. InheritOK(r) BY <1>0, <1>9, <1>12 DEF InheritOK
<1> QED BY <1>4, <1>5, <1>6, <1>10, <1>11, <1>13 DEF KernelOK, r

\* r is k but for a nesting counter of an owned mutex, or for a semaphore.
Counted(r, k) ==
  /\ r \in KernelState /\ SameTasks(r, k) /\ r.Owner = k.Owner /\ r.MutexGrp = k.MutexGrp
  /\ \A m \in Mutexes : r.Nesting[m] = 0 <=> k.Nesting[m] = 0

(* Only a counter changes: a nested pend or post, a post nobody waits for, a *)
(* pend that need not wait.                                                 *)
LEMMA CountedOK ==
  ASSUME NEW k, KernelOK(k), NEW r, Counted(r, k)
  PROVE  KernelOK(r)
<1>0. k \in KernelState /\ RdyOK(k) /\ PendOK(k) /\ OwnersOK(k) /\ GrpOK(k) /\ InheritOK(k)
  BY DEF KernelOK
<1>1. RdyOK(r) /\ PendOK(r) BY <1>0, SameTasksOK DEF Counted
<1>2. r.PendOn = k.PendOn /\ r.Prio = k.Prio BY DEF Counted, SameTasks
<1>3. OwnersOK(r) BY <1>0, <1>2 DEF OwnersOK, Counted
<1>4. GrpOK(r) BY <1>0 DEF GrpOK, Counted
<1>5. Target(r) = Target(k) BY <1>2 DEF Target, Counted
<1>6. InheritOK(r) BY <1>0, <1>2, <1>5 DEF InheritOK
<1> QED BY <1>1, <1>3, <1>4, <1>6 DEF KernelOK, Counted

(* A nesting counter that stays above zero. *)
LEMMA NestingCounted ==
  ASSUME NEW k, KernelOK(k), NEW m \in Mutexes, k.Nesting[m] # 0, NEW n \in Nat \ {0}
  PROVE  Counted([k EXCEPT !.Nesting[m] = n], k)
<1> DEFINE ne == [k.Nesting EXCEPT ![m] = n]
           r  == [k EXCEPT !.Nesting[m] = n]
<1>1. k \in KernelState /\ k.Nesting \in [Mutexes -> Nat] BY DEF KernelOK, KernelState
<1>2. r = [k EXCEPT !.Nesting = ne] BY <1>1
<1>3. /\ ne \in [Mutexes -> Nat] /\ ne[m] = n /\ n # 0
      /\ \A i \in Mutexes : i # m => ne[i] = k.Nesting[i]
  BY <1>1
<1> HIDE DEF ne, r
<1>4. r \in KernelState /\ r.Nesting = ne BY <1>1, <1>2, <1>3 DEF KernelState
<1>5. SameTasks(r, k) /\ r.Owner = k.Owner /\ r.MutexGrp = k.MutexGrp
  BY <1>1, <1>2 DEF KernelState, SameTasks
<1>6. \A i \in Mutexes : ne[i] = 0 <=> k.Nesting[i] = 0 BY <1>3
<1> QED BY <1>4, <1>5, <1>6 DEF Counted, r

(* A semaphore that counts. *)
LEMMA SemCounted ==
  ASSUME NEW k, KernelOK(k), NEW s \in Sems, NEW n \in Nat
  PROVE  Counted([k EXCEPT !.Ctr[s] = n], k)
<1> DEFINE ct == [k.Ctr EXCEPT ![s] = n]
           r  == [k EXCEPT !.Ctr[s] = n]
<1>1. k \in KernelState /\ k.Ctr \in [Sems -> Nat] BY DEF KernelOK, KernelState
<1>2. r = [k EXCEPT !.Ctr = ct] BY <1>1
<1>3. ct \in [Sems -> Nat] BY <1>1
<1> HIDE DEF ct, r
<1>4. r \in KernelState BY <1>1, <1>2, <1>3 DEF KernelState
<1>5. SameTasks(r, k) /\ r.Owner = k.Owner /\ r.MutexGrp = k.MutexGrp /\ r.Nesting = k.Nesting
  BY <1>1, <1>2 DEF KernelState, SameTasks
<1> QED BY <1>4, <1>5 DEF Counted, r

(* OSMutexPend of a mutex another task owns: the priority is inherited along *)
(* the chain and the caller waits.                                          *)
LEMMA LockBlocks ==
  ASSUME NEW k, KernelOK(k), NEW t \in AppTask, k.TCBCur = t, k.PendOn[t] = Nothing,
         NEW m \in Mutexes, k.Nesting[m] # 0, k.Owner[m] # t
  PROVE  LET j == IF k.Prio[k.Owner[m]] > k.Prio[t]
                  THEN OS_TaskChangePrio(k, k.Owner[m], k.Prio[t]) ELSE k
             r == OS_Pend(j, m)
         IN  KernelOK(r) /\ Frame(r, k) /\ r.PendOn = [k.PendOn EXCEPT ![t] = m]
<1> DEFINE w  == k.Owner[m]
           nx == [Target(k) EXCEPT ![t] = w]
           j  == IF k.Prio[w] > k.Prio[t] THEN OS_TaskChangePrio(k, w, k.Prio[t]) ELSE k
           r  == OS_Pend(j, m)
<1>0. k \in KernelState /\ RdyOK(k) /\ PendOK(k) /\ OwnersOK(k) /\ GrpOK(k) /\ InheritOK(k)
  BY DEF KernelOK
<1>1. /\ t \in Task /\ k.Prio \in [Task -> Priority] /\ m \in Object
      /\ k.PendOn \in [Task -> Object \cup {Nothing}]
  BY <1>0, Tasks DEF KernelState, Object
<1>2. w \in AppTask /\ w # NoTask /\ w # t BY <1>0 DEF OwnersOK, KernelState
<1>3. Target(k) \in WaitGraph /\ Target(k)[t] = NoTask
  BY <1>0, <1>1, TargetGraph, KernelAssumption
<1>4. /\ j \in KernelState /\ RdyOK(j) /\ PendOK(j) /\ Frame(j, k) /\ j.PendOn = k.PendOn
      /\ Inherited(j.Prio, nx)
  <2>1. CASE k.Prio[w] > k.Prio[t]
    <3>1. j = OS_TaskChangePrio(k, w, k.Prio[t]) BY <2>1
    <3> HIDE DEF w
    <3> QED BY <2>1, <3>1, <1>2, TaskPrioChanged
  <2>2. CASE ~(k.Prio[w] > k.Prio[t])
    <3>1. j = k BY <2>2
    <3>2. Inherited(k.Prio, nx) BY <2>2, <1>0, <1>1, <1>2, <1>3, ChainStart DEF InheritOK
    <3> QED BY <3>1, <3>2, <1>0 DEF Frame
  <2> QED BY <2>1, <2>2
<1> HIDE DEF j, nx
<1>5. j.TCBCur = t /\ j.PendOn[j.TCBCur] = Nothing BY <1>4 DEF Frame
<1>6. /\ r \in KernelState /\ Frame(r, j) /\ RdyOK(r) /\ PendOK(r)
      /\ r.Prio = j.Prio /\ r.PendOn = [j.PendOn EXCEPT ![j.TCBCur] = m]
  BY <1>1, <1>4, <1>5, Pended
<1> HIDE DEF r
<1>7. Frame(r, k) BY <1>4, <1>6 DEF Frame
<1>8. r.PendOn = [k.PendOn EXCEPT ![t] = m] BY <1>4, <1>5, <1>6
<1>9. r.PendOn[t] = m /\ \A u \in Task : u # t => r.PendOn[u] = k.PendOn[u] BY <1>1, <1>8
<1>10. r.Owner = k.Owner /\ r.Nesting = k.Nesting /\ r.MutexGrp = k.MutexGrp BY <1>7 DEF Frame
<1>11. OwnersOK(r)
  <2>1. Idle \in Task /\ Idle # t BY Tasks
  <2> QED BY <2>1, <1>0, <1>2, <1>9, <1>10 DEF OwnersOK
<1>12. GrpOK(r) BY <1>0, <1>10 DEF GrpOK
<1>13. Target(r) = nx
  <2>1. \A u \in Task : Target(r)[u] = nx[u]
    <3> SUFFICES ASSUME NEW u \in Task PROVE Target(r)[u] = nx[u] OBVIOUS
    <3>1. CASE u = t BY <3>1, <1>3, <1>9, <1>10 DEF Target, nx
    <3>2. CASE u # t BY <3>2, <1>3, <1>9, <1>10 DEF Target, nx
    <3> QED BY <3>1, <3>2
  <2>2. Target(r) = [u \in Task |-> Target(r)[u]] BY DEF Target
  <2>3. nx = [u \in Task |-> nx[u]] BY DEF nx, Target
  <2> QED BY <2>1, <2>2, <2>3
<1>14. InheritOK(r) BY <1>4, <1>6, <1>13 DEF InheritOK
<1> QED BY <1>6, <1>7, <1>8, <1>11, <1>12, <1>14 DEF KernelOK, r, j

(* The first of the tasks that wait is one of the most urgent of them. *)
LEMMA PendHead ==
  ASSUME NEW k \in KernelState, PendOK(k), NEW o \in Object, k.PendList[o] # <<>>
  PROVE  /\ Head(k.PendList[o]) \in WaitSet(k, o)
         /\ \A u \in WaitSet(k, o) : k.Prio[Head(k.PendList[o])] <= k.Prio[u]
<1> DEFINE S == WaitSet(k, o)
           pr == [u \in S |-> k.Prio[u]]
           l == k.PendList[o]
<1>0. k.Prio \in [Task -> Priority] BY DEF KernelState
<1>1. Lists(l, S) /\ Sorted(l, k.Prio) /\ l # <<>> /\ S \in SUBSET Task
  BY DEF PendOK, WaitSet
<1>2. pr \in [S -> Nat] /\ \A u \in S : pr[u] = k.Prio[u]
  BY <1>0, <1>1, Priorities
<1> HIDE DEF S, pr, l
<1>3. Sorted(l, pr) BY <1>1, <1>2, SortedFrame
<1>4. Head(l) \in S /\ \A u \in S : pr[Head(l)] <= pr[u] BY <1>1, <1>2, <1>3, ListsHead
<1> QED BY <1>2, <1>4 DEF S, l

\* q is what task t has left: its base priority, or that of the most urgent
\* task that waits for a mutex of M.
Remaining(k, t, M, q) ==
  /\ q \in Priority /\ q <= BasePrio[t]
  /\ \A n \in M : \A u \in WaitSet(k, n) : q <= k.Prio[u]
  /\ q = BasePrio[t] \/ \E n \in M : \E u \in WaitSet(k, n) : k.Prio[u] = q

(* The minimum Disinherit computes over the heads of the pend lists. *)
LEMMA DisinheritMin ==
  ASSUME NEW k \in KernelState, PendOK(k), NEW t \in Task
  PROVE  LET q == Min({BasePrio[t], OS_MutexGrpPrioFindHighest(k, t)})
         IN  Remaining(k, t, k.MutexGrp[t], q)
<1> DEFINE M == k.MutexGrp[t]
           L == {n \in M : k.PendList[n] # <<>>}
           F == {OS_CFG_PRIO_MAX - 1} \cup {k.Prio[Head(k.PendList[n])] : n \in L}
           f == OS_MutexGrpPrioFindHighest(k, t)
           q == Min({BasePrio[t], f})
<1>0. /\ k.Prio \in [Task -> Priority] /\ M \in SUBSET Mutexes /\ M \subseteq Object
      /\ BasePrio[t] \in Priority /\ BasePrio[t] <= 5
  BY BasePrios, Priorities DEF KernelState, Object
<1>1. f = Min(F) BY DEF OS_MutexGrpPrioFindHighest
<1>2. ASSUME NEW n \in L
      PROVE  /\ Head(k.PendList[n]) \in WaitSet(k, n) /\ Head(k.PendList[n]) \in Task
             /\ \A u \in WaitSet(k, n) : k.Prio[Head(k.PendList[n])] <= k.Prio[u]
  BY <1>0, PendHead DEF WaitSet
<1>3. \A n \in M : \A u \in WaitSet(k, n) : n \in L
  <2> SUFFICES ASSUME NEW n \in M, NEW u \in WaitSet(k, n) PROVE k.PendList[n] # <<>>
    OBVIOUS
  <2>1. Lists(k.PendList[n], WaitSet(k, n)) BY <1>0 DEF PendOK
  <2> QED BY <2>1, ListsEmpty
<1> HIDE DEF M, L
<1>4. F \in SUBSET (0..5) /\ F # {} /\ 5 \in F
  BY <1>0, <1>2, Priorities DEF OS_CFG_PRIO_MAX
<1>5. /\ \A n \in L : k.Prio[Head(k.PendList[n])] \in F
      /\ \A x \in F : x = 5 \/ \E n \in L : x = k.Prio[Head(k.PendList[n])]
  BY DEF OS_CFG_PRIO_MAX
<1> HIDE DEF F, f
<1>6. f \in F /\ \A y \in F : f <= y BY <1>1, <1>4, MinIsLeast
<1>7. f \in 0..5 BY <1>4, <1>6
<1>8. q \in {BasePrio[t], f} /\ q <= BasePrio[t] /\ q <= f
  <2>1. {BasePrio[t], f} \in SUBSET (0..5) /\ {BasePrio[t], f} # {}
    BY <1>0, <1>7, Priorities
  <2>2. q \in {BasePrio[t], f} /\ \A y \in {BasePrio[t], f} : q <= y
    BY <2>1, MinIsLeast
  <2> QED BY <2>2
<1> HIDE DEF q
<1>9. q \in Priority BY <1>0, <1>7, <1>8, Priorities
<1>10. ASSUME NEW n \in M, NEW u \in WaitSet(k, n) PROVE q <= k.Prio[u]
  <2>1. n \in L BY <1>3
  <2> DEFINE h == k.Prio[Head(k.PendList[n])]
  <2>2. h <= k.Prio[u] /\ h \in F BY <2>1, <1>2, <1>5
  <2>3. f <= h /\ h \in 0..5 BY <2>2, <1>4, <1>6
  <2>4. k.Prio[u] \in 0..5 BY <1>0, Priorities DEF WaitSet
  <2> HIDE DEF h
  <2> QED BY <2>2, <2>3, <2>4, <1>7, <1>8, <1>9, Priorities
<1>11. ASSUME q # BasePrio[t] PROVE \E n \in M : \E u \in WaitSet(k, n) : k.Prio[u] = q
  <2>1. q = f /\ f # 5
    <3>1. q = f BY <1>8, <1>11
    <3>2. BasePrio[t] \in 0..5 BY <1>0, Priorities
    <3>3. q < BasePrio[t] BY <3>1, <3>2, <1>7, <1>8, <1>11
    <3> QED BY <3>1, <3>2, <3>3, <1>7
  <2>2. PICK n \in L : f = k.Prio[Head(k.PendList[n])] BY <2>1, <1>5, <1>6
  <2>3. n \in M BY DEF L
  <2> QED BY <2>1, <2>2, <2>3, <1>2
<1> QED BY <1>8, <1>9, <1>10, <1>11 DEF Remaining, M, q, f

(* Disinherit leaves the task with the priority that remains. *)
LEMMA Disinherited ==
  ASSUME NEW k \in KernelState, RdyOK(k), PendOK(k), NEW t \in ReadySet(k),
         k.Prio[t] <= BasePrio[t],
         \A n \in k.MutexGrp[t] : \A u \in WaitSet(k, n) : k.Prio[t] <= k.Prio[u]
  PROVE  \E q \in Priority :
           Reprio(Disinherit(k, t), k, t, q) /\ Remaining(k, t, k.MutexGrp[t], q)
<1> DEFINE M  == k.MutexGrp[t]
           p  == Min({BasePrio[t], OS_MutexGrpPrioFindHighest(k, t)})
           k1 == OS_PrioInsert([OS_RdyListRemove(k, t) EXCEPT !.Prio[t] = p], p)
           k2 == OS_RdyListInsertTail(k1, t)
           r  == [k2 EXCEPT !.PrioCur = p]
<1>0. /\ t \in Task /\ k.Prio \in [Task -> Priority] /\ k.Prio[t] \in 0..5
      /\ BasePrio[t] \in 0..5 /\ \A u \in Task : k.Prio[u] \in 0..5
  BY BasePrios, Priorities DEF KernelState, ReadySet
<1>1. Remaining(k, t, M, p) BY <1>0, DisinheritMin
<1>2. Disinherit(k, t) = IF k.Prio[t] # BasePrio[t] /\ p > k.Prio[t] THEN r ELSE k
  BY DEF Disinherit
<1> HIDE DEF p, M
<1>3. p \in Priority /\ p \in 0..5 BY <1>1, Priorities DEF Remaining
<1>4. CASE k.Prio[t] # BasePrio[t] /\ p > k.Prio[t]
  <2>1. Reprio(k2, k, t, p) BY <1>3, ReadyReprio
  <2> HIDE DEF k2
  <2>2. k2 \in KernelState BY <2>1 DEF Reprio
  <2>3. r \in KernelState BY <2>2, <1>3 DEF KernelState
  <2>4. /\ Frame(r, k2) /\ r.PendOn = k2.PendOn /\ r.Prio = k2.Prio /\ r.RdyList = k2.RdyList
        /\ r.PrioTbl = k2.PrioTbl /\ r.PendList = k2.PendList
    BY <2>2 DEF KernelState, Frame
  <2> HIDE DEF r
  <2>5. SameTasks(r, k2) BY <2>4 DEF SameTasks, Frame
  <2>6. RdyOK(r) /\ PendOK(r) BY <2>1, <2>5, SameTasksOK DEF Reprio
  <2>7. Frame(r, k) BY <2>1, <2>4 DEF Reprio, Frame
  <2>8. Reprio(r, k, t, p) BY <2>1, <2>3, <2>4, <2>6, <2>7 DEF Reprio
  <2>9. Disinherit(k, t) = r BY <1>2, <1>4
  <2> QED BY <2>8, <2>9, <1>1, <1>3 DEF M
<1>5. CASE ~(k.Prio[t] # BasePrio[t] /\ p > k.Prio[t])
  <2>1. p = k.Prio[t]
    <3>1. CASE p = BasePrio[t]
      <4>1. k.Prio[t] <= p BY <3>1
      <4> QED BY <3>1, <4>1, <1>0, <1>3, <1>5
    <3>2. CASE p # BasePrio[t]
      <4>1. PICK n \in M : \E u \in WaitSet(k, n) : k.Prio[u] = p
        BY <3>2, <1>1 DEF Remaining
      <4>2. PICK u \in WaitSet(k, n) : k.Prio[u] = p BY <4>1
      <4>3. k.Prio[t] <= p BY <4>2 DEF M
      <4>4. p < BasePrio[t] BY <3>2, <1>0, <1>1, <1>3 DEF Remaining
      <4>5. k.Prio[t] # BasePrio[t] BY <4>3, <4>4, <1>0, <1>3
      <4>6. ~(p > k.Prio[t]) BY <4>5, <1>5
      <4> QED BY <4>3, <4>6, <1>0, <1>3
    <3> QED BY <3>1, <3>2
  <2>2. Disinherit(k, t) = k BY <1>2, <1>5
  <2>3. [k.Prio EXCEPT ![t] = p] = k.Prio BY <2>1, <1>0
  <2>4. Reprio(k, k, t, p) BY <2>3 DEF Reprio, Frame
  <2> QED BY <2>2, <2>4, <1>1, <1>3 DEF M
<1> QED BY <1>4, <1>5

\* The owner t leaves mutex m: OSMutexPost up to the search for a new owner.
Left(k, t, m) == OS_MutexGrpRemove([k EXCEPT !.Nesting[m] = 0], t, m)

(* What leaving a mutex does. *)
LEMMA MutexLeft ==
  ASSUME NEW k \in KernelState, NEW t \in Task, NEW m \in Mutexes
  PROVE  LET r == Left(k, t, m) IN
         /\ r \in KernelState /\ SameTasks(r, k) /\ r.Owner = k.Owner
         /\ r.Nesting = [k.Nesting EXCEPT ![m] = 0]
         /\ r.MutexGrp = [k.MutexGrp EXCEPT ![t] = @ \ {m}]
<1> DEFINE ne == [k.Nesting EXCEPT ![m] = 0]
           gr == [k.MutexGrp EXCEPT ![t] = @ \ {m}]
           r  == Left(k, t, m)
<1>1. k.Nesting \in [Mutexes -> Nat] /\ k.MutexGrp \in [Task -> SUBSET Mutexes]
  BY DEF KernelState
<1>2. ne \in [Mutexes -> Nat] /\ gr \in [Task -> SUBSET Mutexes] BY <1>1
<1>3. r = [k EXCEPT !.Nesting = ne, !.MutexGrp = gr]
  BY DEF Left, OS_MutexGrpRemove, KernelState
<1> HIDE DEF ne, gr, r
<1>4. r \in KernelState /\ r.Nesting = ne /\ r.MutexGrp = gr BY <1>2, <1>3 DEF KernelState
<1>5. SameTasks(r, k) /\ r.Owner = k.Owner BY <1>3 DEF KernelState, SameTasks
<1> QED BY <1>4, <1>5 DEF ne, gr, r

(* OSMutexPost of a mutex nobody waits for. *)
LEMMA MutexFreed ==
  ASSUME NEW k, KernelOK(k), NEW t \in AppTask, NEW m \in Mutexes,
         k.Owner[m] = t, k.PendList[m] = <<>>
  PROVE  LET r == [Left(k, t, m) EXCEPT !.Owner[m] = NoTask]
         IN  KernelOK(r) /\ SameTasks(r, k)
<1> DEFINE j  == Left(k, t, m)
           ow == [k.Owner EXCEPT ![m] = NoTask]
           r  == [j EXCEPT !.Owner[m] = NoTask]
<1>0. k \in KernelState /\ RdyOK(k) /\ PendOK(k) /\ OwnersOK(k) /\ GrpOK(k) /\ InheritOK(k)
  BY DEF KernelOK
<1>1. /\ k.Owner \in [Mutexes -> AppTask \cup {NoTask}] /\ t \in Task /\ t # NoTask
      /\ k.Nesting \in [Mutexes -> Nat] /\ k.MutexGrp \in [Task -> SUBSET Mutexes]
  BY <1>0, Tasks DEF KernelState
<1>2. /\ j \in KernelState /\ SameTasks(j, k) /\ j.Owner = k.Owner
      /\ j.Nesting = [k.Nesting EXCEPT ![m] = 0]
      /\ j.MutexGrp = [k.MutexGrp EXCEPT ![t] = @ \ {m}]
  BY <1>0, <1>1, MutexLeft
<1> HIDE DEF j
<1>3. /\ ow \in [Mutexes -> AppTask \cup {NoTask}] /\ ow[m] = NoTask
      /\ \A n \in Mutexes : n # m => ow[n] = k.Owner[n]
  BY <1>1
<1>4. r = [j EXCEPT !.Owner = ow] BY <1>2
<1> HIDE DEF ow, r
<1>5. r \in KernelState /\ r.Owner = ow BY <1>2, <1>3, <1>4 DEF KernelState
<1>6. SameTasks(r, j) /\ r.Nesting = j.Nesting /\ r.MutexGrp = j.MutexGrp
  BY <1>2, <1>4 DEF KernelState, SameTasks
<1>7. SameTasks(r, k) BY <1>2, <1>6 DEF SameTasks
<1>8. RdyOK(r) /\ PendOK(r) BY <1>0, <1>7, SameTasksOK
<1>9. r.PendOn = k.PendOn /\ r.Prio = k.Prio BY <1>7 DEF SameTasks
<1>10. \A u \in Task : k.PendOn[u] # m
  <2>1. Lists(k.PendList[m], WaitSet(k, m)) BY <1>0 DEF PendOK, Object
  <2>2. WaitSet(k, m) = {} BY <2>1, ListsEmpty
  <2> QED BY <2>2 DEF WaitSet
<1>11. /\ r.Nesting[m] = 0 /\ \A n \in Mutexes : n # m => r.Nesting[n] = k.Nesting[n]
       /\ r.MutexGrp[t] = k.MutexGrp[t] \ {m}
       /\ \A u \in Task : u # t => r.MutexGrp[u] = k.MutexGrp[u]
  BY <1>1, <1>2, <1>6
<1>12. OwnersOK(r)
  <2>1. \A n \in Mutexes : r.Nesting[n] = 0 <=> r.Owner[n] = NoTask
    BY <1>0, <1>3, <1>5, <1>11 DEF OwnersOK
  <2> QED BY <2>1, <1>0, <1>3, <1>5, <1>9, <1>10 DEF OwnersOK
<1>13. GrpOK(r)
  <2> SUFFICES ASSUME NEW u \in Task PROVE r.MutexGrp[u] = {n \in Mutexes : r.Owner[n] = u}
    BY DEF GrpOK
  <2>1. k.MutexGrp[u] = {n \in Mutexes : k.Owner[n] = u} /\ u # NoTask BY <1>0, Tasks DEF GrpOK
  <2>2. CASE u = t BY <2>1, <2>2, <1>3, <1>5, <1>11
  <2>3. CASE u # t BY <2>1, <2>3, <1>3, <1>5, <1>11
  <2> QED BY <2>2, <2>3
<1>14. Target(r) = Target(k) BY <1>3, <1>5, <1>9, <1>10 DEF Target
<1>15. InheritOK(r) BY <1>0, <1>9, <1>14 DEF InheritOK
<1> QED BY <1>5, <1>7, <1>8, <1>12, <1>13, <1>15 DEF KernelOK, r, j

\* r is k after the mutex m went to one of the most urgent tasks that wait for
\* it, which became ready.
GivenAway(r, k, m) ==
  /\ KernelOK(r) /\ r.TCBCur = k.TCBCur /\ r.PendSV = k.PendSV /\ r.Ctr = k.Ctr
  /\ \E u \in WaitSet(k, m) :
       /\ \A v \in WaitSet(k, m) : k.Prio[u] <= k.Prio[v]
       /\ r.PendOn = [k.PendOn EXCEPT ![u] = Nothing]
       /\ r.Owner = [k.Owner EXCEPT ![m] = u]
       /\ r.Nesting = [k.Nesting EXCEPT ![m] = 1]

(* OSMutexPost of a mutex that is waited for: the owner gives back what it   *)
(* inherited through it, and the most urgent waiting task becomes the owner *)
(* and ready.                                                               *)
LEMMA MutexGiven ==
  ASSUME NEW k, KernelOK(k), NEW t \in AppTask, k.PendOn[t] = Nothing, NEW m \in Mutexes,
         k.Owner[m] = t, k.PendList[m] # <<>>
  PROVE  GivenAway(HandOver(Disinherit(Left(k, t, m), t), m), k, m)
<1> DEFINE k1 == Left(k, t, m)
           j  == Disinherit(k1, t)
           u  == Head(j.PendList[m])
           ow == [j.Owner EXCEPT ![m] = u]
           ne == [j.Nesting EXCEPT ![m] = 1]
           gr == [j.MutexGrp EXCEPT ![u] = @ \cup {m}]
           k2 == OS_MutexGrpAdd([j EXCEPT !.Owner[m] = u, !.Nesting[m] = 1], u, m)
           r  == OS_Post(k2, m, u)
           W  == WaitSet(k, m)
<1>0. k \in KernelState /\ RdyOK(k) /\ PendOK(k) /\ OwnersOK(k) /\ GrpOK(k) /\ InheritOK(k)
  BY DEF KernelOK
<1>1. /\ k.Owner \in [Mutexes -> AppTask \cup {NoTask}] /\ t \in Task /\ t # NoTask
      /\ k.Nesting \in [Mutexes -> Nat] /\ k.MutexGrp \in [Task -> SUBSET Mutexes]
      /\ k.Prio \in [Task -> Priority] /\ m \in Object /\ Mutexes \subseteq Object
      /\ k.PendOn \in [Task -> Object \cup {Nothing}]
  BY <1>0, Tasks DEF KernelState, Object
<1>2. /\ k1 \in KernelState /\ SameTasks(k1, k) /\ k1.Owner = k.Owner
      /\ k1.Nesting = [k.Nesting EXCEPT ![m] = 0]
      /\ k1.MutexGrp = [k.MutexGrp EXCEPT ![t] = @ \ {m}]
  BY <1>0, <1>1, MutexLeft
<1>r. HandOver(Disinherit(Left(k, t, m), t), m) = r BY DEF HandOver
<1> HIDE DEF k1
<1>3. /\ RdyOK(k1) /\ PendOK(k1) /\ k1.Prio = k.Prio /\ k1.PendOn = k.PendOn
      /\ k1.PendList = k.PendList /\ k1.Ctr = k.Ctr
      /\ k1.TCBCur = k.TCBCur /\ k1.PendSV = k.PendSV
  <2>1. k1.Ctr = k.Ctr BY <1>0 DEF k1, Left, OS_MutexGrpRemove, KernelState
  <2> QED BY <2>1, <1>0, <1>2, SameTasksOK DEF SameTasks
<1>4. \A o : WaitSet(k1, o) = WaitSet(k, o) BY <1>3 DEF WaitSet
<1>5. /\ k1.MutexGrp[t] = k.MutexGrp[t] \ {m}
      /\ \A v \in Task : v # t => k1.MutexGrp[v] = k.MutexGrp[v]
      /\ k.MutexGrp[t] = {n \in Mutexes : k.Owner[n] = t}
  BY <1>0, <1>1, <1>2 DEF GrpOK
<1> DEFINE nx == Target(k)
           G  == k1.MutexGrp[t]
<1>6. nx \in WaitGraph /\ \A v \in Task : nx[v] = IF k.PendOn[v] \in Mutexes
                                                THEN k.Owner[k.PendOn[v]] ELSE NoTask
  BY <1>0, TargetGraph
<1>7. Inherited(k.Prio, nx) BY <1>0 DEF InheritOK
<1> HIDE DEF nx
<1>8. \E q \in Priority : Reprio(j, k1, t, q) /\ Remaining(k1, t, G, q)
  <2>1. t \in ReadySet(k1) BY <1>1, <1>3 DEF ReadySet
  <2>2. k1.Prio[t] <= BasePrio[t] BY <1>1, <1>3, <1>7 DEF Inherited
  <2>3. ASSUME NEW n \in k1.MutexGrp[t], NEW v \in WaitSet(k1, n) PROVE k1.Prio[t] <= k1.Prio[v]
    <3>0. n \in Mutexes /\ k.Owner[n] = t BY <1>5
    <3>1. v \in Task /\ k.PendOn[v] = n BY <1>3 DEF WaitSet
    <3>2. nx[v] = t BY <3>0, <3>1, <1>6
    <3> QED BY <3>1, <3>2, <1>1, <1>3, <1>7 DEF Inherited
  <2> QED BY <2>1, <2>2, <2>3, <1>2, <1>3, Disinherited
<1>9. PICK q \in Priority : Reprio(j, k1, t, q) /\ Remaining(k1, t, G, q) BY <1>8
<1> HIDE DEF j
<1>10. /\ j \in KernelState /\ Frame(j, k1) /\ RdyOK(j) /\ PendOK(j)
       /\ j.PendOn = k.PendOn /\ j.Prio = [k.Prio EXCEPT ![t] = q]
  BY <1>3, <1>9 DEF Reprio
<1>11. WaitSet(j, m) = W BY <1>10 DEF WaitSet
<1>12. W \in SUBSET Task /\ t \notin W BY <1>1, KernelAssumption DEF WaitSet
<1>13. W # {}
  <2>1. Lists(k.PendList[m], W) BY <1>0, <1>1 DEF PendOK
  <2> QED BY <2>1, ListsEmpty
<1>14. j.PendList[m] # <<>>
  <2>1. Lists(j.PendList[m], WaitSet(j, m)) BY <1>1, <1>10 DEF PendOK
  <2> QED BY <2>1, <1>11, <1>13, ListsEmpty
<1>15. u \in W /\ \A v \in W : j.Prio[u] <= j.Prio[v] BY <1>1, <1>10, <1>11, <1>14, PendHead
<1>16. /\ u \in Task /\ u # t /\ u \in AppTask /\ u # NoTask
       /\ \A v \in W : k.Prio[u] <= k.Prio[v]
  <2>1. u \in Task /\ u # t BY <1>12, <1>15
  <2>2. \A v \in W : v \in Task /\ v # t /\ j.Prio[v] = k.Prio[v] BY <1>1, <1>10, <1>12
  <2>3. u # Idle BY <1>0, <1>1, <1>15, KernelAssumption DEF OwnersOK, WaitSet
  <2>4. u \in AppTask /\ u # NoTask BY <2>1, <2>3, Tasks
  <2> QED BY <2>1, <2>2, <2>4, <1>15
<1> HIDE DEF u, W
<1>17. j.Owner = k.Owner /\ j.Nesting = k1.Nesting /\ j.MutexGrp = k1.MutexGrp
  BY <1>2, <1>10 DEF Frame
<1>18. /\ ow \in [Mutexes -> AppTask \cup {NoTask}] /\ ow[m] = u
       /\ \A n \in Mutexes : n # m => ow[n] = k.Owner[n]
       /\ ow = [k.Owner EXCEPT ![m] = u]
  BY <1>1, <1>16, <1>17
<1>19. ne \in [Mutexes -> Nat] /\ ne = [k.Nesting EXCEPT ![m] = 1] BY <1>1, <1>2, <1>17
<1>20. /\ gr \in [Task -> SUBSET Mutexes] /\ gr[u] = k.MutexGrp[u] \cup {m}
       /\ gr[t] = k.MutexGrp[t] \ {m}
       /\ \A v \in Task : v # u /\ v # t => gr[v] = k.MutexGrp[v]
  <2>1. j.MutexGrp \in [Task -> SUBSET Mutexes] BY <1>10 DEF KernelState
  <2>2. /\ gr \in [Task -> SUBSET Mutexes] /\ gr[u] = j.MutexGrp[u] \cup {m}
        /\ \A v \in Task : v # u => gr[v] = j.MutexGrp[v]
    BY <2>1, <1>16
  <2> QED BY <2>2, <1>1, <1>5, <1>16, <1>17
<1>21. k2 = [j EXCEPT !.Owner = ow, !.Nesting = ne, !.MutexGrp = gr]
  BY <1>10 DEF OS_MutexGrpAdd, KernelState
<1> HIDE DEF ow, ne, gr, k2
<1>22. k2 \in KernelState /\ k2.Owner = ow /\ k2.Nesting = ne /\ k2.MutexGrp = gr
  BY <1>10, <1>18, <1>19, <1>20, <1>21 DEF KernelState
<1>23. SameTasks(k2, j) /\ k2.Ctr = j.Ctr BY <1>10, <1>21 DEF KernelState, SameTasks
<1>24. RdyOK(k2) /\ PendOK(k2) BY <1>10, <1>23, SameTasksOK
<1>25. k2.PendOn = k.PendOn /\ k2.Prio = j.Prio /\ u \in WaitSet(k2, m)
  BY <1>10, <1>15, <1>23 DEF SameTasks, WaitSet, W
<1>26. /\ r \in KernelState /\ Frame(r, k2) /\ RdyOK(r) /\ PendOK(r)
       /\ r.Prio = k2.Prio /\ r.PendOn = [k2.PendOn EXCEPT ![u] = Nothing]
  <2>1. m \in Object BY <1>1
  <2> QED BY <2>1, <1>22, <1>24, <1>25, Posted
<1> HIDE DEF r
<1>27. /\ r.Owner = ow /\ r.Nesting = ne /\ r.MutexGrp = gr /\ r.Ctr = k.Ctr
       /\ r.TCBCur = k.TCBCur /\ r.PendSV = k.PendSV
  BY <1>3, <1>10, <1>22, <1>23, <1>26 DEF Frame, SameTasks
<1>28. /\ r.PendOn[u] = Nothing /\ \A v \in Task : v # u => r.PendOn[v] = k.PendOn[v]
       /\ r.PendOn = [k.PendOn EXCEPT ![u] = Nothing]
  BY <1>1, <1>16, <1>25, <1>26
<1>29. /\ ne[m] = 1 /\ \A n \in Mutexes : n # m => ne[n] = k.Nesting[n]
  BY <1>1, <1>19
<1>30. OwnersOK(r)
  <2>1. \A n \in Mutexes : ne[n] = 0 <=> ow[n] = NoTask
    BY <1>0, <1>16, <1>18, <1>29 DEF OwnersOK
  <2>2. ASSUME NEW v \in Task, r.PendOn[v] \in Mutexes
        PROVE  ow[r.PendOn[v]] # NoTask /\ ow[r.PendOn[v]] # v
    <3>1. v # u BY <2>2, <1>28, KernelAssumption
    <3>2. r.PendOn[v] = k.PendOn[v] BY <3>1, <1>28
    <3>3. CASE r.PendOn[v] = m BY <3>1, <3>3, <1>16, <1>18
    <3>4. CASE r.PendOn[v] # m BY <3>2, <3>4, <2>2, <1>0, <1>18 DEF OwnersOK
    <3> QED BY <3>3, <3>4
  <2>3. r.PendOn[Idle] = Nothing
    <3>1. Idle \in Task BY Tasks
    <3> QED BY <3>1, <1>0, <1>28 DEF OwnersOK
  <2> QED BY <2>1, <2>2, <2>3, <1>27 DEF OwnersOK
<1>31. GrpOK(r)
  <2> SUFFICES ASSUME NEW v \in Task PROVE gr[v] = {n \in Mutexes : ow[n] = v}
    BY <1>27 DEF GrpOK
  <2>1. k.MutexGrp[v] = {n \in Mutexes : k.Owner[n] = v} BY <1>0 DEF GrpOK
  <2>2. CASE v = u BY <2>1, <2>2, <1>18, <1>20
  <2>3. CASE v = t BY <2>1, <2>3, <1>16, <1>18, <1>20
  <2>4. CASE v # u /\ v # t BY <2>1, <2>4, <1>18, <1>20
  <2> QED BY <2>2, <2>3, <2>4
<1> DEFINE ny == Target(r)
<1>32. ny \in WaitGraph /\ \A v \in Task : ny[v] = IF r.PendOn[v] \in Mutexes
                                                 THEN ow[r.PendOn[v]] ELSE NoTask
  BY <1>26, <1>27, <1>30, TargetGraph
<1> HIDE DEF ny
<1>33. InheritOK(r)
  <2>1. nx[t] = NoTask BY <1>1, <1>6, KernelAssumption
  <2>2. \A v \in W : nx[v] = t /\ k.Prio[u] <= k.Prio[v]
    BY <1>6, <1>16 DEF W, WaitSet
  <2>3. q \in Priority /\ q <= BasePrio[t] BY <1>9 DEF Remaining
  <2>4. ASSUME NEW v \in Task \ W, nx[v] = t PROVE q <= k.Prio[v]
    <3>1. k.PendOn[v] \in Mutexes /\ k.Owner[k.PendOn[v]] = t BY <2>4, <1>1, <1>6
    <3>2. k.PendOn[v] # m BY DEF W, WaitSet
    <3>3. k.PendOn[v] \in G BY <3>1, <3>2, <1>5
    <3>4. v \in WaitSet(k1, k.PendOn[v]) BY <1>3 DEF WaitSet
    <3> QED BY <3>3, <3>4, <1>3, <1>9 DEF Remaining
  <2>5. q = BasePrio[t] \/ \E v \in Task \ W : nx[v] = t /\ k.Prio[v] = q
    <3>1. CASE q = BasePrio[t] BY <3>1
    <3>2. CASE q # BasePrio[t]
      <4>1. PICK n \in G : \E v \in WaitSet(k1, n) : k1.Prio[v] = q
        BY <3>2, <1>9 DEF Remaining
      <4>2. PICK v \in WaitSet(k1, n) : k1.Prio[v] = q BY <4>1
      <4>3. v \in Task /\ k.PendOn[v] = n /\ k.Prio[v] = q BY <4>2, <1>3 DEF WaitSet
      <4>4. n \in Mutexes /\ k.Owner[n] = t /\ n # m BY <1>5
      <4>5. v \notin W /\ nx[v] = t BY <4>3, <4>4, <1>6 DEF W, WaitSet
      <4> QED BY <4>3, <4>5
    <3> QED BY <3>1, <3>2
  <2>6. ny \in [Task -> AppTask \cup {NoTask}] BY <1>32 DEF WaitGraph
  <2>7. ny[u] = NoTask BY <1>16, <1>28, <1>32, KernelAssumption
  <2>8. \A v \in W : v # u => ny[v] = u BY <1>18, <1>28, <1>32 DEF W, WaitSet
  <2>9. ASSUME NEW v \in Task \ W PROVE ny[v] = nx[v]
    <3>1. v # u /\ k.PendOn[v] # m BY <1>15, <1>16 DEF W, WaitSet
    <3>2. r.PendOn[v] = k.PendOn[v] BY <3>1, <1>28
    <3> QED BY <3>1, <3>2, <1>6, <1>18, <1>32
  <2>10. u \in W /\ W \in SUBSET Task BY <1>12, <1>15
  <2>11. Inherited([k.Prio EXCEPT ![t] = q], ny)
    <3>1. Passed(k.Prio, nx, t, W, u, q, ny)
      BY <2>1, <2>2, <2>3, <2>4, <2>5, <2>7, <2>8, <2>9 DEF Passed
    <3> QED BY <3>1, <2>3, <2>6, <2>10, <1>1, <1>6, <1>7, InheritHandOver
  <2> QED BY <2>11, <1>10, <1>25, <1>26 DEF InheritOK, ny
<1>34. KernelOK(r) BY <1>26, <1>30, <1>31, <1>33 DEF KernelOK
<1>35. /\ r.Owner = [k.Owner EXCEPT ![m] = u] /\ r.Nesting = [k.Nesting EXCEPT ![m] = 1]
  BY <1>18, <1>19, <1>27
<1>36. GivenAway(r, k, m) BY <1>15, <1>16, <1>27, <1>28, <1>34, <1>35 DEF W, GivenAway
<1> QED BY <1>r, <1>36

(* Only what is waited for changes, and no mutex is involved. *)
LEMMA SemWaitsOK ==
  ASSUME NEW k, KernelOK(k), NEW r \in KernelState, Frame(r, k), RdyOK(r), PendOK(r),
         r.Prio = k.Prio, r.PendOn[Idle] = Nothing,
         \A u \in Task : r.PendOn[u] # k.PendOn[u] =>
                           r.PendOn[u] \notin Mutexes /\ k.PendOn[u] \notin Mutexes
  PROVE  KernelOK(r)
<1>0. k \in KernelState /\ OwnersOK(k) /\ GrpOK(k) /\ InheritOK(k) BY DEF KernelOK
<1>1. r.Owner = k.Owner /\ r.Nesting = k.Nesting /\ r.MutexGrp = k.MutexGrp BY DEF Frame
<1>2. OwnersOK(r) BY <1>0, <1>1 DEF OwnersOK
<1>3. GrpOK(r) BY <1>0, <1>1 DEF GrpOK
<1>4. Target(r) = Target(k)
  <2>1. \A u \in Task : (IF r.PendOn[u] \in Mutexes THEN r.Owner[r.PendOn[u]] ELSE NoTask)
                      = (IF k.PendOn[u] \in Mutexes THEN k.Owner[k.PendOn[u]] ELSE NoTask)
    BY <1>1
  <2> QED BY <2>1 DEF Target
<1>5. InheritOK(r) BY <1>0, <1>4 DEF InheritOK
<1> QED BY <1>2, <1>3, <1>5 DEF KernelOK

(* OSSemPend with nothing to take: the caller waits. *)
LEMMA SemBlocks ==
  ASSUME NEW k, KernelOK(k), NEW t \in AppTask, k.TCBCur = t, k.PendOn[t] = Nothing,
         NEW s \in Sems
  PROVE  LET r == OS_Pend(k, s)
         IN  KernelOK(r) /\ Frame(r, k) /\ r.PendOn = [k.PendOn EXCEPT ![t] = s]
<1> DEFINE r == OS_Pend(k, s)
<1>0. /\ k \in KernelState /\ RdyOK(k) /\ PendOK(k) /\ OwnersOK(k)
      /\ s \in Object /\ t \in Task /\ Idle \in Task /\ Idle # t
      /\ s \notin Mutexes /\ Nothing \notin Mutexes
  BY Tasks, KernelAssumption DEF KernelOK, Object
<1>1. k.PendOn \in [Task -> Object \cup {Nothing}] BY <1>0 DEF KernelState
<1>2. /\ r \in KernelState /\ Frame(r, k) /\ RdyOK(r) /\ PendOK(r)
      /\ r.Prio = k.Prio /\ r.PendOn = [k.PendOn EXCEPT ![t] = s]
  BY <1>0, Pended
<1> HIDE DEF r
<1>3. r.PendOn[t] = s /\ \A u \in Task : u # t => r.PendOn[u] = k.PendOn[u] BY <1>0, <1>1, <1>2
<1>4. r.PendOn[Idle] = Nothing BY <1>0, <1>3 DEF OwnersOK
<1>5. \A u \in Task : r.PendOn[u] # k.PendOn[u] =>
                        r.PendOn[u] \notin Mutexes /\ k.PendOn[u] \notin Mutexes
  BY <1>0, <1>3
<1>6. KernelOK(r) BY <1>2, <1>4, <1>5, SemWaitsOK
<1> QED BY <1>2, <1>6 DEF r

\* r is k after the most urgent of the tasks that wait for s was made ready,
\* if there is one.
SemPosted(r, k, s) ==
  /\ KernelOK(r) /\ Frame(r, k) /\ r.Prio = k.Prio
  /\ WaitSet(k, s) = {} => r = k
  /\ WaitSet(k, s) # {} => \E u \in WaitSet(k, s) :
       /\ \A v \in WaitSet(k, s) : k.Prio[u] <= k.Prio[v]
       /\ r.PendOn = [k.PendOn EXCEPT ![u] = Nothing]

(* One turn of the loop of OS_SemPost. *)
LEMMA PostNextOK ==
  ASSUME NEW k, KernelOK(k), NEW s \in Sems
  PROVE  SemPosted(PostNext(k, s), k, s)
<1>0. /\ k \in KernelState /\ RdyOK(k) /\ PendOK(k) /\ OwnersOK(k)
      /\ s \in Object /\ s \notin Mutexes /\ Nothing \notin Mutexes /\ s # Nothing
  BY KernelAssumption DEF KernelOK, Object
<1>1. k.PendList[s] = <<>> <=> WaitSet(k, s) = {}
  <2>1. Lists(k.PendList[s], WaitSet(k, s)) BY <1>0 DEF PendOK
  <2> QED BY <2>1, ListsEmpty
<1>2. CASE k.PendList[s] = <<>>
  <2>1. PostNext(k, s) = k BY <1>2 DEF PostNext
  <2> QED BY <2>1, <1>1, <1>2 DEF SemPosted, Frame
<1>3. CASE k.PendList[s] # <<>>
  <2> DEFINE u == Head(k.PendList[s])
             r == OS_Post(k, s, u)
  <2>1. PostNext(k, s) = r BY <1>3 DEF PostNext
  <2>2. u \in WaitSet(k, s) /\ \A v \in WaitSet(k, s) : k.Prio[u] <= k.Prio[v]
    BY <1>0, <1>3, PendHead
  <2> HIDE DEF u
  <2>3. /\ r \in KernelState /\ Frame(r, k) /\ RdyOK(r) /\ PendOK(r)
        /\ r.Prio = k.Prio /\ r.PendOn = [k.PendOn EXCEPT ![u] = Nothing]
    BY <1>0, <2>2, Posted
  <2> HIDE DEF r
  <2>4. k.PendOn \in [Task -> Object \cup {Nothing}] BY <1>0 DEF KernelState
  <2>5. u \in Task /\ k.PendOn[u] = s BY <2>2 DEF WaitSet
  <2>6. r.PendOn[u] = Nothing /\ \A v \in Task : v # u => r.PendOn[v] = k.PendOn[v]
    BY <2>3, <2>4, <2>5
  <2>7. r.PendOn[Idle] = Nothing
    <3>1. Idle \in Task BY Tasks
    <3> QED BY <3>1, <2>6, <1>0 DEF OwnersOK
  <2>8. \A v \in Task : r.PendOn[v] # k.PendOn[v] =>
                          r.PendOn[v] \notin Mutexes /\ k.PendOn[v] \notin Mutexes
    BY <1>0, <2>5, <2>6
  <2>9. KernelOK(r) BY <2>3, <2>7, <2>8, SemWaitsOK
  <2> QED BY <2>1, <2>2, <2>3, <2>9, <1>1, <1>3 DEF SemPosted
<1> QED BY <1>2, <1>3

\* r is k after a post to s: one of the most urgent tasks that wait for it, or
\* all of them, became ready.
SemServed(r, k, s, all) ==
  /\ KernelOK(r) /\ Frame(r, k) /\ r.Prio = k.Prio
  /\ \A v \in Task : v \notin WaitSet(k, s) => r.PendOn[v] = k.PendOn[v]
  /\ all => \A v \in WaitSet(k, s) : r.PendOn[v] = Nothing
  /\ ~all => \E u \in WaitSet(k, s) :
       /\ \A v \in WaitSet(k, s) : k.Prio[u] <= k.Prio[v]
       /\ r.PendOn[u] = Nothing
       /\ \A v \in WaitSet(k, s) : v # u => r.PendOn[v] = k.PendOn[v]

(* A turn changes one task that waits, if there is one. *)
LEMMA PostedOne ==
  ASSUME NEW k, KernelOK(k), NEW s \in Sems, NEW r, SemPosted(r, k, s)
  PROVE  /\ \A v \in Task : r.PendOn[v] = k.PendOn[v]
                            \/ (v \in WaitSet(k, s) /\ r.PendOn[v] = Nothing)
         /\ WaitSet(k, s) # {} => \E u \in WaitSet(k, s) :
              WaitSet(r, s) = WaitSet(k, s) \ {u}
         /\ WaitSet(k, s) = {} => WaitSet(r, s) = {}
<1>0. k.PendOn \in [Task -> Object \cup {Nothing}] BY DEF KernelOK, KernelState
<1>1. CASE WaitSet(k, s) = {}
  <2>1. r = k BY <1>1 DEF SemPosted
  <2> QED BY <2>1, <1>1
<1>2. CASE WaitSet(k, s) # {}
  <2>1. PICK u \in WaitSet(k, s) : r.PendOn = [k.PendOn EXCEPT ![u] = Nothing]
    BY <1>2 DEF SemPosted
  <2>2. u \in Task BY DEF WaitSet
  <2>3. r.PendOn[u] = Nothing /\ \A v \in Task : v # u => r.PendOn[v] = k.PendOn[v]
    BY <2>1, <2>2, <1>0
  <2>4. s # Nothing BY KernelAssumption
  <2>5. WaitSet(r, s) = WaitSet(k, s) \ {u} BY <2>3, <2>4 DEF WaitSet
  <2> QED BY <2>3, <2>5, <1>2
<1> QED BY <1>1, <1>2

(* OS_SemPost of a semaphore that is waited for.  Three tasks can wait. *)
LEMMA SemPostOK ==
  ASSUME NEW k, KernelOK(k), NEW s \in Sems, k.PendList[s] # <<>>, NEW all \in BOOLEAN
  PROVE  SemServed(OS_SemPost(k, s, all), k, s, all)
<1> DEFINE k1 == PostNext(k, s)
           k2 == PostNext(k1, s)
           k3 == PostNext(k2, s)
           W  == WaitSet(k, s)
<1>1. SemPosted(k1, k, s) BY PostNextOK
<1>2. KernelOK(k1) /\ Frame(k1, k) /\ k1.Prio = k.Prio BY <1>1 DEF SemPosted
<1>3. W # {}
  <2>1. Lists(k.PendList[s], WaitSet(k, s)) BY DEF PendOK, KernelOK, Object
  <2> QED BY <2>1, ListsEmpty
<1>4. k.PendOn \in [Task -> Object \cup {Nothing}] BY DEF KernelOK, KernelState
<1>5. CASE ~all
  <2>1. OS_SemPost(k, s, all) = k1 BY <1>5 DEF OS_SemPost
  <2> HIDE DEF k1
  <2>2. PICK u \in W : /\ \A v \in W : k.Prio[u] <= k.Prio[v]
                       /\ k1.PendOn = [k.PendOn EXCEPT ![u] = Nothing]
    BY <1>1, <1>3 DEF SemPosted
  <2>3. u \in Task BY DEF WaitSet
  <2>4. k1.PendOn[u] = Nothing /\ \A v \in Task : v # u => k1.PendOn[v] = k.PendOn[v]
    BY <2>2, <2>3, <1>4
  <2>5. \A v \in W : v \in Task BY DEF WaitSet
  <2>6. SemServed(k1, k, s, all) BY <2>2, <2>4, <2>5, <1>2, <1>5 DEF SemServed
  <2> QED BY <2>1, <2>6
<1>6. CASE all
  <2>1. OS_SemPost(k, s, all) = k3 BY <1>6 DEF OS_SemPost
  <2> HIDE DEF k1
  <2>2. SemPosted(k2, k1, s) BY <1>2, PostNextOK
  <2>3. KernelOK(k2) /\ Frame(k2, k1) /\ k2.Prio = k1.Prio BY <2>2 DEF SemPosted
  <2> HIDE DEF k2
  <2>4. SemPosted(k3, k2, s) BY <2>3, PostNextOK
  <2>5. KernelOK(k3) /\ Frame(k3, k2) /\ k3.Prio = k2.Prio BY <2>4 DEF SemPosted
  <2> HIDE DEF k3
  <2>6. Frame(k3, k) /\ k3.Prio = k.Prio BY <1>2, <2>3, <2>5 DEF Frame
  <2> DEFINE W1 == WaitSet(k1, s)
             W2 == WaitSet(k2, s)
             W3 == WaitSet(k3, s)
  <2>7. /\ \E u \in W : W1 = W \ {u}
        /\ \A v \in Task : k1.PendOn[v] = k.PendOn[v] \/ (v \in W /\ k1.PendOn[v] = Nothing)
    BY <1>1, <1>3, PostedOne
  <2>8. /\ W1 # {} => \E u \in W1 : W2 = W1 \ {u}
        /\ W1 = {} => W2 = {}
        /\ \A v \in Task : k2.PendOn[v] = k1.PendOn[v] \/ (v \in W1 /\ k2.PendOn[v] = Nothing)
    BY <1>2, <2>2, PostedOne
  <2>9. /\ W2 # {} => \E u \in W2 : W3 = W2 \ {u}
        /\ W2 = {} => W3 = {}
        /\ \A v \in Task : k3.PendOn[v] = k2.PendOn[v] \/ (v \in W2 /\ k3.PendOn[v] = Nothing)
    BY <2>3, <2>4, PostedOne
  <2>10. W \in SUBSET AppTask
    <3>1. k.PendOn[Idle] = Nothing /\ s # Nothing BY KernelAssumption DEF KernelOK, OwnersOK
    <3> QED BY <3>1, Tasks DEF WaitSet
  <2>11. \A v \in Task : (v \in W1 <=> k1.PendOn[v] = s) /\ (v \in W2 <=> k2.PendOn[v] = s)
                         /\ (v \in W3 <=> k3.PendOn[v] = s) /\ (v \in W <=> k.PendOn[v] = s)
    BY DEF WaitSet
  <2>12. W1 \subseteq W /\ W2 \subseteq W1 /\ W3 \subseteq W2 BY <2>7, <2>8, <2>9
  <2> HIDE DEF W, W1, W2, W3
  <2>13. W3 = {}
    <3>1. PICK a \in W : W1 = W \ {a} BY <2>7
    <3>2. CASE W1 = {} BY <3>2, <2>8, <2>9
    <3>3. CASE W1 # {}
      <4>1. PICK b \in W1 : W2 = W1 \ {b} BY <3>3, <2>8
      <4>2. CASE W2 = {} BY <4>2, <2>9
      <4>3. CASE W2 # {}
        <5>1. PICK c \in W2 : W3 = W2 \ {c} BY <4>3, <2>9
        <5>2. a \in AppTask /\ b \in AppTask /\ c \in AppTask /\ a # b /\ a # c /\ b # c
          BY <2>10, <2>12, <3>1, <4>1, <5>1
        <5>3. \A x \in AppTask : x = a \/ x = b \/ x = c BY <5>2, Tasks
        <5> QED BY <5>1, <5>3, <2>10, <2>12, <3>1, <4>1
      <4> QED BY <4>2, <4>3
    <3> QED BY <3>2, <3>3
  <2>14. \A v \in Task : k3.PendOn[v] = k.PendOn[v] \/ (v \in W /\ k3.PendOn[v] = Nothing)
    BY <2>7, <2>8, <2>9, <2>12
  <2>15. ASSUME NEW v \in W PROVE k3.PendOn[v] = Nothing
    <3>1. v \in Task BY <2>10, Tasks
    <3> QED BY <3>1, <2>11, <2>13, <2>14
  <2>16. SemServed(k3, k, s, all)
    BY <2>5, <2>6, <2>14, <2>15, <1>6 DEF SemServed, W
  <2> QED BY <2>1, <2>16
<1> QED BY <1>5, <1>6

-----------------------------------------------------------------------------
(* The scheduler and the interrupts.                                        *)

\* r and k agree in all but the task to run, the one to run next, and the
\* request to switch.
Switched(r, k) ==
  /\ r.Prio = k.Prio /\ r.PendOn = k.PendOn
  /\ r.RdyList = k.RdyList /\ r.PrioTbl = k.PrioTbl /\ r.PendList = k.PendList
  /\ r.Owner = k.Owner /\ r.Nesting = k.Nesting /\ r.MutexGrp = k.MutexGrp
  /\ r.Ctr = k.Ctr

(* Scheduling changes no list, priority, counter or owner. *)
LEMMA SwitchedOK ==
  ASSUME NEW k, KernelOK(k), NEW r \in KernelState, Switched(r, k)
  PROVE  KernelOK(r)
<1>0. k \in KernelState /\ RdyOK(k) /\ PendOK(k) /\ OwnersOK(k) /\ GrpOK(k) /\ InheritOK(k)
  BY DEF KernelOK
<1>1. ReadySet(r) = ReadySet(k) /\ \A o \in Object : WaitSet(r, o) = WaitSet(k, o)
  BY DEF Switched, ReadySet, WaitSet
<1>2. RdyOK(r) BY <1>0, <1>1 DEF RdyOK, Switched
<1>3. PendOK(r) BY <1>0, <1>1 DEF PendOK, Switched
<1>4. OwnersOK(r) BY <1>0 DEF OwnersOK, Switched
<1>5. GrpOK(r) BY <1>0 DEF GrpOK, Switched
<1>6. Target(r) = Target(k) BY DEF Target, Switched
<1>7. InheritOK(r) BY <1>0, <1>6 DEF InheritOK, Switched
<1> QED BY <1>2, <1>3, <1>4, <1>5, <1>7 DEF KernelOK

\* r is k after OSSched: whatever the tasks are about to do, a most urgent
\* task runs or is switched to.
Scheduled(r, k) ==
  /\ KernelOK(r) /\ Switched(r, k) /\ r.TCBCur = k.TCBCur
  /\ \A at : SchedOK(r, at)

(* OSSched requests a switch to a most urgent ready task, unless it runs. *)
LEMMA OSSchedOK ==
  ASSUME NEW k, KernelOK(k)
  PROVE  Scheduled(OSSched(k), k)
<1> DEFINE p == Min(k.PrioTbl)
           t == Head(k.RdyList[p])
           b == (k.PendSV \/ t # k.TCBCur)
           r == [k EXCEPT !.PrioHighRdy = p, !.TCBHighRdy = t, !.PendSV = b]
<1>0. k \in KernelState /\ RdyOK(k) /\ OwnersOK(k) BY DEF KernelOK
<1>1. OSSched(k) = r BY DEF OSSched, OS_PrioGetHighest
<1>2. ReadySet(k) \in SUBSET Task /\ Idle \in ReadySet(k)
  BY <1>0, Tasks DEF ReadySet, OwnersOK
<1>3. k.Prio \in [Task -> Priority] BY <1>0 DEF KernelState
<1>4. /\ p \in Priority /\ t \in ReadySet(k) /\ k.Prio[t] = p
      /\ \A u \in ReadySet(k) : p <= k.Prio[u]
  <2>1. ReadySet(k) # {} BY <1>2
  <2> QED BY <2>1, <1>0, <1>2, <1>3, TableHighest DEF RdyOK
<1>5. b \in BOOLEAN OBVIOUS
<1>6. ~b => ~k.PendSV /\ t = k.TCBCur OBVIOUS
<1> HIDE DEF p, t, b
<1>7. t \in Task /\ k.PendOn[t] = Nothing BY <1>4 DEF ReadySet
<1>8. /\ r \in KernelState /\ r.TCBHighRdy = t /\ r.PendSV = b /\ r.TCBCur = k.TCBCur
      /\ Switched(r, k)
  BY <1>0, <1>4, <1>5, <1>7 DEF KernelState, Switched
<1> HIDE DEF r
<1>9. KernelOK(r) BY <1>8, SwitchedOK
<1>10. r.PendOn = k.PendOn /\ r.Prio = k.Prio /\ ReadySet(r) = ReadySet(k)
  BY <1>8 DEF Switched, ReadySet
<1>11. MostUrgent(r, t) BY <1>4, <1>7, <1>10 DEF MostUrgent
<1>12. \A at : SchedOK(r, at) BY <1>6, <1>8, <1>11 DEF SchedOK
<1> QED BY <1>1, <1>8, <1>9, <1>12 DEF Scheduled

(* OS_SchedRoundRobin turns the list of the current priority. *)
LEMMA RoundRobinOK ==
  ASSUME NEW k, KernelOK(k), NEW sliced \in BOOLEAN
  PROVE  LET r == OS_SchedRoundRobin(k, sliced) IN
         /\ KernelOK(r) /\ r.PendOn = k.PendOn /\ r.PendList = k.PendList
         /\ r.Owner = k.Owner /\ r.Nesting = k.Nesting /\ r.Ctr = k.Ctr
<1> DEFINE p  == k.PrioCur
           rl == [k.RdyList EXCEPT ![p] = Append(Tail(@), Head(@))]
           r  == OS_SchedRoundRobin(k, sliced)
<1>0. k \in KernelState /\ RdyOK(k) /\ PendOK(k) /\ OwnersOK(k) /\ GrpOK(k) /\ InheritOK(k)
  BY DEF KernelOK
<1>1. CASE ~(sliced /\ Len(k.RdyList[p]) > 1)
  <2>1. r = k BY <1>1 DEF OS_SchedRoundRobin
  <2> QED BY <2>1
<1>2. CASE sliced /\ Len(k.RdyList[p]) > 1
  <2>1. r = [k EXCEPT !.RdyList = rl]
    BY <1>0, <1>2 DEF OS_SchedRoundRobin, OS_RdyListMoveHeadToTail, KernelState
  <2>2. p \in Priority /\ ReadySet(k) \in SUBSET Task BY <1>0 DEF KernelState, ReadySet
  <2>3. k.RdyList[p] # <<>>
    <3>1. Len(<<>>) = 0 BY EmptySeq
    <3> QED BY <3>1, <1>2
  <2> HIDE DEF p, r
  <2>4. RdyTable(rl, k.PrioTbl, ReadySet(k), k.Prio)
    BY <1>0, <2>2, <2>3, TableRotate DEF RdyOK
  <2> HIDE DEF rl
  <2>5. rl \in [Priority -> Seq(Task)] BY <2>4 DEF RdyTable
  <2>6. /\ r \in KernelState /\ r.RdyList = rl /\ r.PrioTbl = k.PrioTbl /\ r.Prio = k.Prio
        /\ r.PendOn = k.PendOn /\ r.PendList = k.PendList /\ r.Owner = k.Owner
        /\ r.Nesting = k.Nesting /\ r.MutexGrp = k.MutexGrp /\ r.Ctr = k.Ctr
    BY <1>0, <2>1, <2>5 DEF KernelState
  <2>7. ReadySet(r) = ReadySet(k) /\ \A o \in Object : WaitSet(r, o) = WaitSet(k, o)
    BY <2>6 DEF ReadySet, WaitSet
  <2>8. RdyOK(r) BY <2>4, <2>6, <2>7 DEF RdyOK
  <2>9. PendOK(r) BY <1>0, <2>6, <2>7 DEF PendOK
  <2>10. OwnersOK(r) /\ GrpOK(r) BY <1>0, <2>6 DEF OwnersOK, GrpOK
  <2>11. Target(r) = Target(k) BY <2>6 DEF Target
  <2>12. InheritOK(r) BY <1>0, <2>6, <2>11 DEF InheritOK
  <2> QED BY <2>6, <2>8, <2>9, <2>10, <2>12 DEF KernelOK, r
<1> QED BY <1>1, <1>2

(* Each priority has at most one task when the kernel starts. *)
LEMMA FirstReadyLists ==
  ASSUME NEW p \in Priority
  PROVE  LET at == {t \in Task : BasePrio[t] = p} IN
         /\ Lists(FirstReady(p), at) /\ FirstReady(p) \in Seq(Task)
         /\ FirstReady(p) # <<>> <=> at # {}
<1> DEFINE at == {t \in Task : BasePrio[t] = p}
           f  == CHOOSE t \in at : TRUE
<1>1. at \in SUBSET Task OBVIOUS
<1>2. \A t, u \in at : t = u BY BasePrios, Tasks
<1>3. Lists(FirstReady(p), at)
  <2>1. CASE at = {}
    <3>1. FirstReady(p) = <<>> BY <2>1 DEF FirstReady
    <3> QED BY <2>1, <3>1, ListsNone
  <2>2. CASE at # {}
    <3>1. FirstReady(p) = <<f>> BY <2>2 DEF FirstReady
    <3>2. f \in at BY <2>2
    <3> HIDE DEF f, at
    <3>3. Lists(<<f>>, at) BY <3>2, <1>2 DEF Lists
    <3> QED BY <3>1, <3>3
  <2> QED BY <2>1, <2>2
<1> HIDE DEF at
<1>4. FirstReady(p) \in Seq(Task) BY <1>1, <1>3, ListsType
<1> QED BY <1>3, <1>4, ListsEmpty DEF at

(* The kernel starts in order, with the most urgent task running. *)
LEMMA InitOK ==
  ASSUME Init
  PROVE  KernelInv
<1> DEFINE rl == [p \in Priority |-> FirstReady(p)]
           tb == {BasePrio[t] : t \in Task}
           po == [t \in Task |-> Nothing]
           ow == [m \in Mutexes |-> NoTask]
           ne == [m \in Mutexes |-> 0]
           gr == [t \in Task |-> {}]
           ct == [s \in Sems |-> 0]
           pl == [o \in Mutexes \cup Sems |-> <<>>]
           p0 == BasePrio["TaskStart"]
           s0 == "TaskStart"
<1>1. os = [Prio |-> BasePrio, PendOn |-> po, RdyList |-> rl, PrioTbl |-> tb,
            Owner |-> ow, Nesting |-> ne, MutexGrp |-> gr, Ctr |-> ct, PendList |-> pl,
            TCBCur |-> s0, PrioCur |-> p0, TCBHighRdy |-> s0, PrioHighRdy |-> p0,
            PendSV |-> FALSE]
  BY DEF Init
<1>2. s0 \in Task /\ p0 \in Priority BY Tasks, BasePrios
<1>3. /\ po \in [Task -> Object \cup {Nothing}] /\ tb \in SUBSET Priority
      /\ ow \in [Mutexes -> AppTask \cup {NoTask}] /\ ne \in [Mutexes -> Nat]
      /\ gr \in [Task -> SUBSET Mutexes] /\ ct \in [Sems -> Nat]
  BY BasePrios
<1>4. rl \in [Priority -> Seq(Task)] BY FirstReadyLists
<1>5. pl \in [Object -> Seq(Task)] BY EmptySeq DEF Object
<1>6. \A t \in Task : po[t] = Nothing /\ gr[t] = {} OBVIOUS
<1>7. \A m \in Mutexes : ow[m] = NoTask /\ ne[m] = 0 OBVIOUS
<1>8. \A o \in Object : pl[o] = <<>> BY DEF Object
<1>9. RdyTable(rl, tb, Task, BasePrio)
  <2> SUFFICES ASSUME NEW p \in Priority
               PROVE  Lists(rl[p], At(Task, BasePrio, p)) /\ (p \in tb <=> rl[p] # <<>>)
    BY <1>3, <1>4 DEF RdyTable
  <2>1. rl[p] = FirstReady(p) OBVIOUS
  <2>2. p \in tb <=> {t \in Task : BasePrio[t] = p} # {} OBVIOUS
  <2> QED BY <2>1, <2>2, FirstReadyLists DEF At
<1> HIDE DEF rl, tb, po, ow, ne, gr, ct, pl, p0, s0
<1>10. os \in KernelState
  <2>1. BasePrio \in [Task -> Priority] BY BasePrios
  <2> QED BY <2>1, <1>1, <1>2, <1>3, <1>4, <1>5 DEF KernelState
<1>11. /\ os.Prio = BasePrio /\ os.PendOn = po /\ os.RdyList = rl /\ os.PrioTbl = tb
       /\ os.Owner = ow /\ os.Nesting = ne /\ os.MutexGrp = gr /\ os.PendList = pl
       /\ os.TCBCur = s0 /\ os.PendSV = FALSE
  BY <1>1
<1>12. ReadySet(os) = Task BY <1>6, <1>11 DEF ReadySet
<1>13. RdyOK(os) BY <1>9, <1>11, <1>12 DEF RdyOK
<1>14. PendOK(os)
  <2> SUFFICES ASSUME NEW o \in Object
               PROVE  Lists(os.PendList[o], WaitSet(os, o)) /\ Sorted(os.PendList[o], os.Prio)
    BY DEF PendOK
  <2>1. os.PendList[o] = <<>> BY <1>8, <1>11
  <2>2. WaitSet(os, o) = {}
    <3>1. o # Nothing BY KernelAssumption DEF Object
    <3> QED BY <3>1, <1>6, <1>11 DEF WaitSet
  <2>3. Sorted(<<>>, os.Prio) BY EmptySeq DEF Sorted
  <2> QED BY <2>1, <2>2, <2>3, ListsNone
<1>15. Nothing \notin Mutexes BY KernelAssumption
<1>16. OwnersOK(os) BY <1>6, <1>7, <1>11, <1>15, Tasks DEF OwnersOK
<1>17. GrpOK(os) BY <1>6, <1>7, <1>11, Tasks DEF GrpOK
<1>18. \A u \in Task : Target(os)[u] = NoTask BY <1>6, <1>11, <1>15 DEF Target
<1>19. InheritOK(os)
  <2>1. \A t \in Task : BasePrio[t] \in Nat BY BasePrios, Priorities
  <2> QED BY <2>1, <1>11, <1>18, Tasks DEF InheritOK, Inherited
<1>20. MostUrgent(os, os.TCBCur)
  <2>1. \A u \in Task : BasePrio[s0] <= BasePrio[u] BY BasePrios, Tasks DEF s0
  <2> QED BY <2>1, <1>2, <1>6, <1>11, <1>12 DEF MostUrgent
<1>21. pc \in [Task -> {"task", "sched"}] /\ pc[Idle] = "task" BY Tasks DEF Init
<1> QED BY <1>10, <1>11, <1>13, <1>14, <1>16, <1>17, <1>19, <1>20, <1>21
        DEF KernelInv, KernelOK, SchedOK

-----------------------------------------------------------------------------
(* Every step keeps KernelInv.                                              *)

(* The running task is ready and a most urgent one. *)
LEMMA RunningUrgent ==
  ASSUME KernelInv, NEW t \in Task, Running(t)
  PROVE  MostUrgent(os, t) /\ os.PendOn[t] = Nothing
BY DEF KernelInv, Running, SchedOK, MostUrgent

(* A service that returns, or an interrupt. *)
LEMMA ReturnStep ==
  ASSUME KernelInv, NEW k, Return(k), KernelOK(k), SchedOK(k, pc)
  PROVE  KernelInv'
BY DEF KernelInv, Return

(* A service that goes on to OSSched: until it calls it nothing is promised. *)
LEMMA ThenSchedStep ==
  ASSUME KernelInv, NEW t \in AppTask, Running(t), NEW k, ThenSched(t, k), KernelOK(k),
         k.TCBCur = os.TCBCur, k.PendSV = os.PendSV
  PROVE  KernelInv'
<1>1. t \in Task /\ t # Idle /\ Idle \in Task BY Tasks
<1>2. /\ pc \in [Task -> {"task", "sched"}] /\ pc[Idle] = "task"
      /\ pc' = [pc EXCEPT ![t] = "sched"] /\ os' = k
  BY DEF KernelInv, ThenSched
<1>3. pc' \in [Task -> {"task", "sched"}] /\ pc'[Idle] = "task" /\ pc'[t] = "sched"
  BY <1>1, <1>2
<1>4. k.TCBCur = t /\ ~k.PendSV BY DEF Running
<1>5. SchedOK(k, pc') BY <1>3, <1>4 DEF SchedOK
<1> QED BY <1>2, <1>3, <1>5 DEF KernelInv

(* What the scheduler reads is unchanged. *)
LEMMA SameTasksStep ==
  ASSUME KernelInv, NEW k, Return(k), KernelOK(k), SameTasks(k, os)
  PROVE  KernelInv'
<1>1. RdyOK(os) /\ PendOK(os) /\ SchedOK(os, pc) BY DEF KernelInv, KernelOK
<1>2. SchedOK(k, pc) BY <1>1, SameTasksOK
<1> QED BY <1>2, ReturnStep

(* Only a counter changes. *)
LEMMA CountedStep ==
  ASSUME KernelInv, NEW k, Return(k), Counted(k, os)
  PROVE  KernelInv'
<1>1. KernelOK(k) BY CountedOK DEF KernelInv
<1>2. SameTasks(k, os) BY DEF Counted
<1> QED BY <1>1, <1>2, SameTasksStep

\* The three ways through OSMutexPend.
Locked(t, m)  == OS_MutexGrpAdd([os EXCEPT !.Owner[m] = t, !.Nesting[m] = 1], t, m)
Blocked(t, m) == OS_Pend(IF os.Prio[os.Owner[m]] > os.Prio[t]
                         THEN OS_TaskChangePrio(os, os.Owner[m], os.Prio[t]) ELSE os, m)

(* OSMutexPend, by the state of the mutex. *)
LEMMA PendCases ==
  ASSUME KernelInv, NEW t \in AppTask, NEW m \in Mutexes, OSMutexPend(t, m)
  PROVE  /\ Running(t) /\ t \in lockers
         /\ \/ os.Nesting[m] = 0 /\ Return(Locked(t, m))
            \/ /\ os.Nesting[m] # 0 /\ os.Owner[m] = t
               /\ Return([os EXCEPT !.Nesting[m] = os.Nesting[m] + 1])
            \/ os.Nesting[m] # 0 /\ os.Owner[m] # t /\ ThenSched(t, Blocked(t, m))
<1>0. os.Nesting[m] \in Nat BY DEF KernelInv, KernelOK, KernelState
<1>1. Running(t) /\ t \in lockers BY DEF OSMutexPend
<1>2. CASE os.Nesting[m] = 0
  <2>1. Return(Locked(t, m)) BY <1>2 DEF OSMutexPend, Locked
  <2> QED BY <2>1, <1>1, <1>2
<1>3. CASE os.Nesting[m] # 0 /\ os.Owner[m] = t
  <2>1. Return([os EXCEPT !.Nesting[m] = @ + 1]) BY <1>3 DEF OSMutexPend
  <2>2. [os EXCEPT !.Nesting[m] = @ + 1] = [os EXCEPT !.Nesting[m] = os.Nesting[m] + 1]
    OBVIOUS
  <2> QED BY <2>1, <2>2, <1>1, <1>3
<1>4. CASE os.Nesting[m] # 0 /\ os.Owner[m] # t
  <2>1. ThenSched(t, Blocked(t, m)) BY <1>4 DEF OSMutexPend, Blocked
  <2> QED BY <2>1, <1>1, <1>4
<1> QED BY <1>2, <1>3, <1>4

(* OSMutexPend keeps the invariant. *)
LEMMA OSMutexPendStep ==
  ASSUME KernelInv, NEW t \in AppTask, NEW m \in Mutexes, OSMutexPend(t, m)
  PROVE  KernelInv'
<1>0. KernelOK(os) /\ os.Nesting[m] \in Nat BY DEF KernelInv, KernelOK, KernelState
<1>1. Running(t) /\ t \in Task BY PendCases, Tasks
<1>2. os.PendOn[t] = Nothing /\ os.TCBCur = t BY <1>1, RunningUrgent DEF Running
<1>3. CASE os.Nesting[m] = 0 /\ Return(Locked(t, m))
  <2>1. KernelOK(os) /\ os.Nesting[m] = 0 BY <1>0, <1>3
  <2>2. KernelOK(Locked(t, m)) /\ SameTasks(Locked(t, m), os)
    BY <2>1, LockFree, Zenon DEF Locked
  <2> QED BY <2>2, <1>3, SameTasksStep
<1>4. CASE os.Nesting[m] # 0 /\ Return([os EXCEPT !.Nesting[m] = os.Nesting[m] + 1])
  <2>1. PICK n \in Nat \ {0} : n = os.Nesting[m] + 1 BY <1>0
  <2>2. Counted([os EXCEPT !.Nesting[m] = n], os) BY <1>0, <1>4, NestingCounted
  <2> QED BY <2>1, <2>2, <1>4, CountedStep
<1>5. CASE os.Nesting[m] # 0 /\ os.Owner[m] # t /\ ThenSched(t, Blocked(t, m))
  <2>1. KernelOK(Blocked(t, m)) /\ Frame(Blocked(t, m), os)
    BY <1>0, <1>2, <1>5, LockBlocks DEF Blocked
  <2>2. Blocked(t, m).TCBCur = os.TCBCur /\ Blocked(t, m).PendSV = os.PendSV
    BY <2>1 DEF Frame
  <2> QED BY <2>1, <2>2, <1>1, <1>5, ThenSchedStep
<1> QED BY <1>3, <1>4, <1>5, PendCases

\* The ways through OSMutexPost.
Freed(t, m) == [Left(os, t, m) EXCEPT !.Owner[m] = NoTask]
Given(t, m) == HandOver(Disinherit(Left(os, t, m), t), m)

(* OSMutexPost, by the nesting and the waiting tasks. *)
LEMMA PostCases ==
  ASSUME KernelInv, NEW t \in AppTask, NEW m \in Mutexes, OSMutexPost(t, m)
  PROVE  /\ Running(t) /\ os.Owner[m] = t
         /\ \/ os.Nesting[m] > 1 /\ Return([os EXCEPT !.Nesting[m] = os.Nesting[m] - 1])
            \/ os.Nesting[m] = 1 /\ os.PendList[m] = <<>> /\ Return(Freed(t, m))
            \/ os.Nesting[m] = 1 /\ os.PendList[m] # <<>> /\ ThenSched(t, Given(t, m))
<1>1. Running(t) /\ os.Owner[m] = t BY DEF OSMutexPost
<1>2. \/ os.Nesting[m] > 1 /\ Return([os EXCEPT !.Nesting[m] = @ - 1])
      \/ os.Nesting[m] = 1 /\ os.PendList[m] = <<>> /\ Return(Freed(t, m))
      \/ os.Nesting[m] = 1 /\ os.PendList[m] # <<>> /\ ThenSched(t, Given(t, m))
  BY Zenon DEF OSMutexPost, Freed, Given, Left
<1>3. [os EXCEPT !.Nesting[m] = @ - 1] = [os EXCEPT !.Nesting[m] = os.Nesting[m] - 1]
  OBVIOUS
<1> QED BY <1>1, <1>2, <1>3

(* OSMutexPost keeps the invariant. *)
LEMMA OSMutexPostStep ==
  ASSUME KernelInv, NEW t \in AppTask, NEW m \in Mutexes, OSMutexPost(t, m)
  PROVE  KernelInv'
<1>0. KernelOK(os) /\ os.Nesting[m] \in Nat BY DEF KernelInv, KernelOK, KernelState
<1>1. Running(t) /\ os.Owner[m] = t /\ t \in Task BY PostCases, Tasks
<1>2. os.PendOn[t] = Nothing BY <1>1, RunningUrgent
<1>3. CASE os.Nesting[m] > 1 /\ Return([os EXCEPT !.Nesting[m] = os.Nesting[m] - 1])
  <2>1. PICK n \in Nat \ {0} : n = os.Nesting[m] - 1 BY <1>0, <1>3
  <2>2. os.Nesting[m] # 0 BY <1>3
  <2>3. Counted([os EXCEPT !.Nesting[m] = n], os) BY <1>0, <2>2, NestingCounted
  <2> QED BY <2>1, <2>3, <1>3, CountedStep
<1>4. CASE os.PendList[m] = <<>> /\ Return(Freed(t, m))
  <2>1. KernelOK(Freed(t, m)) /\ SameTasks(Freed(t, m), os)
    BY <1>0, <1>1, <1>4, MutexFreed DEF Freed
  <2> QED BY <2>1, <1>4, SameTasksStep
<1>5. CASE os.PendList[m] # <<>> /\ ThenSched(t, Given(t, m))
  <2>1. KernelOK(os) /\ os.PendList[m] # <<>> BY <1>0, <1>5
  <2>2. /\ KernelOK(Given(t, m)) /\ Given(t, m).TCBCur = os.TCBCur
        /\ Given(t, m).PendSV = os.PendSV
    <3>1. GivenAway(Given(t, m), os, m) BY <2>1, <1>1, <1>2, MutexGiven DEF Given
    <3> QED BY <3>1 DEF GivenAway
  <2> QED BY <2>2, <1>1, <1>5, ThenSchedStep
<1> QED BY <1>3, <1>4, <1>5, PostCases

(* OSSemPend keeps the invariant. *)
LEMMA OSSemPendStep ==
  ASSUME KernelInv, NEW t \in AppTask, NEW s \in Sems, OSSemPend(t, s)
  PROVE  KernelInv'
<1>0. KernelOK(os) /\ os.Ctr[s] \in Nat BY DEF KernelInv, KernelOK, KernelState
<1>1. Running(t) /\ t \in Task BY Tasks DEF OSSemPend
<1>2. os.PendOn[t] = Nothing /\ os.TCBCur = t BY <1>1, RunningUrgent DEF Running
<1>3. CASE os.Ctr[s] > 0 /\ Return([os EXCEPT !.Ctr[s] = @ - 1])
  <2>1. PICK n \in Nat : n = os.Ctr[s] - 1 BY <1>0, <1>3
  <2>2. [os EXCEPT !.Ctr[s] = @ - 1] = [os EXCEPT !.Ctr[s] = n] BY <2>1
  <2>3. Counted([os EXCEPT !.Ctr[s] = n], os) BY <1>0, SemCounted
  <2> QED BY <2>2, <2>3, <1>3, CountedStep
<1>4. CASE os.Ctr[s] = 0 /\ ThenSched(t, OS_Pend(os, s))
  <2>1. KernelOK(OS_Pend(os, s)) /\ Frame(OS_Pend(os, s), os) BY <1>0, <1>2, SemBlocks
  <2>2. OS_Pend(os, s).TCBCur = os.TCBCur /\ OS_Pend(os, s).PendSV = os.PendSV
    BY <2>1 DEF Frame
  <2> QED BY <2>1, <2>2, <1>1, <1>4, ThenSchedStep
<1> QED BY <1>3, <1>4 DEF OSSemPend

(* A post nobody waits for is counted. *)
LEMMA PostCountedStep ==
  ASSUME KernelInv, NEW s \in Sems, Return([os EXCEPT !.Ctr[s] = @ + 1])
  PROVE  KernelInv'
<1>0. KernelOK(os) /\ os.Ctr[s] \in Nat BY DEF KernelInv, KernelOK, KernelState
<1>1. PICK n \in Nat : n = os.Ctr[s] + 1 BY <1>0
<1>2. [os EXCEPT !.Ctr[s] = @ + 1] = [os EXCEPT !.Ctr[s] = n] BY <1>1
<1>3. Counted([os EXCEPT !.Ctr[s] = n], os) BY <1>0, SemCounted
<1> QED BY <1>2, <1>3, CountedStep

(* OSSemPost keeps the invariant. *)
LEMMA OSSemPostStep ==
  ASSUME KernelInv, NEW t \in AppTask, NEW s \in Sems, NEW all \in BOOLEAN,
         OSSemPost(t, s, all)
  PROVE  KernelInv'
<1> DEFINE r == OS_SemPost(os, s, all)
<1>1. Running(t) BY DEF OSSemPost
<1>2. CASE Return([os EXCEPT !.Ctr[s] = @ + 1]) BY <1>2, PostCountedStep
<1>3. CASE os.PendList[s] # <<>> /\ ThenSched(t, r)
  <2>1. SemServed(r, os, s, all) BY <1>3, SemPostOK DEF KernelInv
  <2> HIDE DEF r
  <2>2. KernelOK(r) /\ r.TCBCur = os.TCBCur /\ r.PendSV = os.PendSV
    BY <2>1 DEF SemServed, Frame
  <2> QED BY <2>2, <1>1, <1>3, ThenSchedStep
<1> QED BY <1>2, <1>3 DEF OSSemPost

(* The call of OSSched that ends a service establishes what a running task *)
(* may rely on.                                                            *)
LEMMA CallSchedStep ==
  ASSUME KernelInv, NEW t \in AppTask, CallSched(t)
  PROVE  KernelInv'
<1>1. Scheduled(OSSched(os), os) BY OSSchedOK DEF KernelInv
<1>2. KernelOK(os') /\ SchedOK(os', pc') BY <1>1 DEF Scheduled, CallSched
<1>3. pc' \in [Task -> {"task", "sched"}] /\ pc'[Idle] = "task"
  BY Tasks DEF KernelInv, CallSched
<1> QED BY <1>2, <1>3 DEF KernelInv

(* A port interrupt schedules from the handler. *)
LEMMA PortStep ==
  ASSUME KernelInv, NEW s \in Sems, NEW all \in BOOLEAN, PORT_IRQHandler(s, all)
  PROVE  KernelInv'
<1> DEFINE k == OS_SemPost(os, s, all)
           r == OSSched(k)
<1>1. CASE Return([os EXCEPT !.Ctr[s] = @ + 1]) BY <1>1, PostCountedStep
<1>2. CASE os.PendList[s] # <<>> /\ Return(r)
  <2>1. SemServed(k, os, s, all) BY <1>2, SemPostOK DEF KernelInv
  <2> HIDE DEF k
  <2>2. KernelOK(k) BY <2>1 DEF SemServed
  <2>3. Scheduled(r, k) BY <2>2, OSSchedOK
  <2> HIDE DEF r
  <2>4. KernelOK(r) /\ SchedOK(r, pc) BY <2>3 DEF Scheduled
  <2> QED BY <2>4, <1>2, ReturnStep
<1> QED BY <1>1, <1>2 DEF PORT_IRQHandler

(* The tick interrupt. *)
LEMMA SysTickStep ==
  ASSUME KernelInv, NEW sliced \in BOOLEAN, SysTick_Handler(sliced)
  PROVE  KernelInv'
<1> DEFINE k == OS_SchedRoundRobin(os, sliced)
           r == OSSched(k)
<1>1. KernelOK(k) BY RoundRobinOK DEF KernelInv
<1> HIDE DEF k
<1>2. Scheduled(r, k) BY <1>1, OSSchedOK
<1>3. Return(r) BY DEF SysTick_Handler, k
<1> HIDE DEF r
<1>4. KernelOK(r) /\ SchedOK(r, pc) BY <1>2 DEF Scheduled
<1> QED BY <1>3, <1>4, ReturnStep

(* The context switch: OSTCBHighRdyPtr still names a most urgent task. *)
LEMMA PendSVStep ==
  ASSUME KernelInv, PendSV_Handler
  PROVE  KernelInv'
<1> DEFINE r == [os EXCEPT !.TCBCur = os.TCBHighRdy, !.PrioCur = os.PrioHighRdy,
                           !.PendSV = FALSE]
<1>0. os \in KernelState /\ KernelOK(os) BY DEF KernelInv, KernelOK
<1>1. Return(r) /\ os.PendSV BY DEF PendSV_Handler
<1>2. /\ r \in KernelState /\ Switched(r, os) /\ r.TCBCur = os.TCBHighRdy /\ r.PendSV = FALSE
  BY <1>0 DEF KernelState, Switched
<1> HIDE DEF r
<1>3. KernelOK(r) BY <1>0, <1>2, SwitchedOK
<1>4. MostUrgent(os, os.TCBHighRdy) BY <1>1 DEF KernelInv, SchedOK
<1>5. MostUrgent(r, r.TCBCur) BY <1>2, <1>4 DEF MostUrgent, Switched, ReadySet
<1>6. SchedOK(r, pc) BY <1>2, <1>5 DEF SchedOK
<1> QED BY <1>1, <1>3, <1>6, ReturnStep

(* Every step of the tasks and of the interrupts keeps the invariant. *)
LEMMA NextStep ==
  ASSUME KernelInv, [Next]_vars
  PROVE  KernelInv'
<1>1. CASE UNCHANGED vars BY <1>1 DEF KernelInv, vars
<1>2. ASSUME NEW t \in AppTask, NEW m \in Mutexes, OSMutexPend(t, m) PROVE KernelInv'
  BY <1>2, OSMutexPendStep
<1>3. ASSUME NEW t \in AppTask, NEW m \in Mutexes, OSMutexPost(t, m) PROVE KernelInv'
  BY <1>3, OSMutexPostStep
<1>4. ASSUME NEW t \in AppTask, NEW s \in Sems, OSSemPend(t, s) PROVE KernelInv'
  BY <1>4, OSSemPendStep
<1>5. ASSUME NEW t \in AppTask, NEW s \in Sems, NEW all \in BOOLEAN, OSSemPost(t, s, all)
      PROVE  KernelInv'
  BY <1>5, OSSemPostStep
<1>6. ASSUME NEW t \in AppTask, CallSched(t) PROVE KernelInv'
  BY <1>6, CallSchedStep
<1>7. ASSUME NEW s \in Sems, NEW all \in BOOLEAN, PORT_IRQHandler(s, all) PROVE KernelInv'
  BY <1>7, PortStep
<1>8. ASSUME NEW sliced \in BOOLEAN, SysTick_Handler(sliced) PROVE KernelInv'
  BY <1>8, SysTickStep
<1>9. CASE PendSV_Handler BY <1>9, PendSVStep
<1> QED BY <1>1, <1>2, <1>3, <1>4, <1>5, <1>6, <1>7, <1>8, <1>9 DEF Next

(* The lists, the owners, the inherited priorities and the scheduler's state *)
(* stay in order through every interleaving of services and interrupts.     *)
THEOREM KernelCorrect == Spec => []KernelInv
<1>1. Init => KernelInv BY InitOK
<1>2. KernelInv /\ [Next]_vars => KernelInv' BY NextStep
<1> QED BY <1>1, <1>2, PTL DEF Spec

-----------------------------------------------------------------------------
(* What follows from the invariant.                                         *)

(* The tasks in a pend list are the tasks that wait. *)
LEMMA ListsToSet ==
  ASSUME NEW s, NEW S, Lists(s, S)
  PROVE  ToSet(s) = S /\ IsInjective(s) /\ DOMAIN s = 1..Len(s)
<1>1. s \in Seq(S) BY DEF Lists
<1>2. DOMAIN s = 1..Len(s) BY <1>1, LenProperties
<1>3. \A i \in 1..Len(s) : s[i] \in S BY <1>1, ElementOfSeq
<1>4. ToSet(s) = S BY <1>2, <1>3 DEF ToSet, Lists
<1>5. IsInjective(s) BY <1>2 DEF IsInjective, Lists
<1> QED BY <1>2, <1>4, <1>5

(* The mapped wait sets of the objects. *)
LEMMA WaitingTasks ==
  ASSUME KernelInv, NEW o \in Object
  PROVE  Waiting(o) = WaitSet(os, o)
<1>1. Lists(os.PendList[o], WaitSet(os, o)) BY DEF KernelInv, KernelOK, PendOK
<1> QED BY <1>1, ListsToSet DEF Waiting

(* KernelInv says who may run. *)
LEMMA UrgentImplied ==
  ASSUME KernelInv
  PROVE  RunsMostUrgent
<1> SUFFICES ASSUME NEW t \in Task, Running(t)
             PROVE  Ready(t) /\ \A u \in Task : Ready(u) => os.Prio[t] <= os.Prio[u]
  BY DEF RunsMostUrgent
<1>1. MostUrgent(os, t) BY RunningUrgent
<1> QED BY <1>1 DEF MostUrgent, ReadySet, Ready

(* The least of a set of priorities is the only one that is in it and below *)
(* all others.                                                              *)
LEMMA MinUnique ==
  ASSUME NEW T \in SUBSET Priority, NEW p \in T, \A y \in T : p <= y
  PROVE  p = Min(T)
<1>1. T \in SUBSET (0..5) BY Priorities
<1>2. Min(T) \in T /\ \A y \in T : Min(T) <= y BY <1>1, MinIsLeast
<1>3. PICK q \in T : q = Min(T) BY <1>2
<1>4. p \in Nat /\ q \in Nat /\ p <= q /\ q <= p BY <1>2, <1>3, Priorities
<1>5. p = q BY <1>4
<1> QED BY <1>3, <1>5

(* KernelInv says what is inherited. *)
LEMMA InheritedImplied ==
  ASSUME KernelInv
  PROVE  PriorityInherited
<1> SUFFICES ASSUME NEW t \in Task
             PROVE  os.Prio[t] = Min({BasePrio[t]} \cup
                      UNION {{os.Prio[u] : u \in Waiting(m)} :
                             m \in {n \in Mutexes : os.Owner[n] = t}})
  BY DEF PriorityInherited
<1> DEFINE T == {BasePrio[t]} \cup UNION {{os.Prio[u] : u \in Waiting(m)} :
                                          m \in {n \in Mutexes : os.Owner[n] = t}}
<1>0. Inherited(os.Prio, Target(os)) /\ os \in KernelState
  BY DEF KernelInv, KernelOK, InheritOK
<1>1. /\ os.Prio \in [Task -> Priority] /\ BasePrio \in [Task -> Priority]
      /\ Mutexes \subseteq Object
  BY <1>0, BasePrios DEF KernelState, Object
<1>2. \A y : y \in T <=> \/ y = BasePrio[t]
                         \/ \E m \in Mutexes : /\ os.Owner[m] = t
                                               /\ \E u \in Waiting(m) : y = os.Prio[u]
  OBVIOUS
<1> HIDE DEF T
<1>3. \A y : y \in T <=> \/ y = BasePrio[t]
                         \/ \E u \in Task : Target(os)[u] = t /\ y = os.Prio[u]
  <2>1. \A m \in Mutexes : \A u : u \in Waiting(m) <=> u \in Task /\ os.PendOn[u] = m
    BY <1>1, WaitingTasks DEF WaitSet
  <2>2. \A u \in Task : Target(os)[u] = t <=> \E m \in Mutexes : os.PendOn[u] = m /\ os.Owner[m] = t
    BY Tasks DEF Target
  <2> QED BY <1>2, <2>1, <2>2
<1>4. T \in SUBSET Priority BY <1>1, <1>3
<1>5. os.Prio[t] \in T BY <1>0, <1>3 DEF Inherited
<1>6. \A y \in T : os.Prio[t] <= y BY <1>0, <1>3 DEF Inherited
<1>7. os.Prio[t] = Min(T) BY <1>4, <1>5, <1>6, MinUnique
<1> QED BY <1>7 DEF T

(* KernelInv says what the lists hold. *)
LEMMA ListsImplied ==
  ASSUME KernelInv
  PROVE  ListsConsistent
<1>0. RdyOK(os) /\ PendOK(os) /\ GrpOK(os) BY DEF KernelInv, KernelOK
<1>1. ASSUME NEW p \in Priority
      PROVE  /\ ToSet(os.RdyList[p]) = {t \in Task : Ready(t) /\ os.Prio[t] = p}
             /\ IsInjective(os.RdyList[p])
             /\ p \in os.PrioTbl <=> os.RdyList[p] # <<>>
  <2>1. /\ Lists(os.RdyList[p], At(ReadySet(os), os.Prio, p))
        /\ p \in os.PrioTbl <=> os.RdyList[p] # <<>>
    BY <1>0 DEF RdyOK, RdyTable
  <2>2. At(ReadySet(os), os.Prio, p) = {t \in Task : Ready(t) /\ os.Prio[t] = p}
    BY DEF At, ReadySet, Ready
  <2> QED BY <2>1, <2>2, ListsToSet
<1>2. ASSUME NEW o \in Mutexes \cup Sems
      PROVE  /\ Waiting(o) = {t \in Task : os.PendOn[t] = o}
             /\ \A i, j \in DOMAIN os.PendList[o] :
                  i < j => os.Prio[os.PendList[o][i]] <= os.Prio[os.PendList[o][j]]
  <2>1. o \in Object BY DEF Object
  <2>2. Waiting(o) = {t \in Task : os.PendOn[t] = o} BY <2>1, WaitingTasks DEF WaitSet
  <2>3. Lists(os.PendList[o], WaitSet(os, o)) /\ Sorted(os.PendList[o], os.Prio)
    BY <1>0, <2>1 DEF PendOK
  <2>4. DOMAIN os.PendList[o] = 1..Len(os.PendList[o]) BY <2>3, ListsToSet
  <2> QED BY <2>2, <2>3, <2>4 DEF Sorted
<1>3. \A t \in Task : os.MutexGrp[t] = {m \in Mutexes : os.Owner[m] = t} BY <1>0 DEF GrpOK
<1> QED BY <1>1, <1>2, <1>3 DEF ListsConsistent

(* A ready task at the priority of another ready one has not inherited it:  *)
(* only the third task can wait for it, and then nobody can raise that one. *)
LEMMA ReadyAtBase ==
  ASSUME NEW k, KernelOK(k), NEW t \in ReadySet(k), NEW u \in ReadySet(k), t # u,
         k.Prio[t] = k.Prio[u]
  PROVE  k.Prio[t] = BasePrio[t]
<1>0. k \in KernelState /\ OwnersOK(k) /\ InheritOK(k) BY DEF KernelOK
<1> DEFINE pr == k.Prio
           nx == Target(k)
<1>1. Inherited(pr, nx) BY <1>0 DEF InheritOK
<1>2. pr \in [Task -> Priority] /\ t \in Task /\ u \in Task /\ Nothing \notin Mutexes
  BY <1>0, KernelAssumption DEF KernelState, ReadySet
<1>3. \A v \in Task : nx[v] \in Task => v # t /\ v # u /\ v # Idle /\ nx[v] # v /\ nx[v] # Idle
  <2> SUFFICES ASSUME NEW v \in Task, nx[v] \in Task
               PROVE  v # t /\ v # u /\ v # Idle /\ nx[v] # v /\ nx[v] # Idle
    OBVIOUS
  <2>1. k.PendOn[v] \in Mutexes /\ nx[v] = k.Owner[k.PendOn[v]] BY Tasks DEF Target
  <2>2. nx[v] # v BY <2>1, <1>0 DEF OwnersOK
  <2>3. nx[v] # Idle BY <2>1, <1>0, Tasks DEF KernelState
  <2>4. v # t /\ v # u BY <2>1, <1>2 DEF ReadySet
  <2>5. v # Idle BY <2>1, <1>0, <1>2 DEF OwnersOK
  <2> QED BY <2>2, <2>3, <2>4, <2>5
<1> HIDE DEF nx
<1>4. SUFFICES ASSUME pr[t] # BasePrio[t] PROVE FALSE OBVIOUS
<1>5. PICK v \in Task : nx[v] = t /\ pr[v] = pr[t] BY <1>1, <1>2, <1>4 DEF Inherited
<1>6. v # t /\ v # u /\ v # Idle /\ t # Idle BY <1>2, <1>3, <1>5
<1>7. \A w \in Task : nx[w] \in Task => w = v \/ u = Idle BY <1>2, <1>3, <1>6, Tasks
<1>8. pr[v] = BasePrio[v] /\ pr[u] = BasePrio[u]
  <2>1. \A w \in Task : nx[w] # u BY <1>2, <1>3, <1>5, <1>7
  <2>2. pr[u] = BasePrio[u] BY <2>1, <1>1, <1>2 DEF Inherited
  <2>3. CASE u = Idle
    <3>1. pr[u] = 5 BY <2>2, <2>3, BasePrios, Tasks
    <3>2. BasePrio[t] \in 2..4 BY <1>2, <1>6, BasePrios, Tasks
    <3>3. pr[t] <= BasePrio[t] BY <1>1, <1>2 DEF Inherited
    <3> QED BY <3>1, <3>2, <3>3
  <2>4. CASE u # Idle
    <3>1. \A w \in Task : nx[w] # v BY <2>4, <1>3, <1>5, <1>7
    <3>2. pr[v] = BasePrio[v] BY <3>1, <1>1 DEF Inherited
    <3> QED BY <3>2, <2>2
  <2> QED BY <2>3, <2>4
<1>9. BasePrio[v] = BasePrio[u] BY <1>5, <1>8
<1> QED BY <1>2, <1>6, <1>9, BaseDistinct

(* No two ready tasks have the same priority. *)
LEMMA SlicingImplied ==
  ASSUME KernelInv
  PROVE  NoTimeSlicing
<1> SUFFICES ASSUME NEW p \in Priority PROVE Len(os.RdyList[p]) <= 1
  BY DEF NoTimeSlicing
<1> DEFINE l == os.RdyList[p]
<1>0. KernelOK(os) /\ RdyOK(os) BY DEF KernelInv, KernelOK
<1>1. Lists(l, At(ReadySet(os), os.Prio, p)) BY <1>0 DEF RdyOK, RdyTable
<1> HIDE DEF l
<1>2. l \in Seq(At(ReadySet(os), os.Prio, p)) BY <1>1 DEF Lists
<1>3. Len(l) \in Nat BY <1>2, LenProperties
<1>4. ASSUME Len(l) >= 2 PROVE FALSE
  <2>1. 1 \in 1..Len(l) /\ 2 \in 1..Len(l) BY <1>3, <1>4
  <2>2. l[1] \in At(ReadySet(os), os.Prio, p) /\ l[2] \in At(ReadySet(os), os.Prio, p)
    BY <1>2, <2>1, ElementOfSeq
  <2>3. l[1] # l[2] BY <1>1, <2>1 DEF Lists
  <2>4. /\ l[1] \in ReadySet(os) /\ l[2] \in ReadySet(os)
        /\ os.Prio[l[1]] = p /\ os.Prio[l[2]] = p
    BY <2>2 DEF At
  <2>5. os.Prio[l[1]] = BasePrio[l[1]] /\ os.Prio[l[2]] = BasePrio[l[2]]
    BY <1>0, <2>3, <2>4, ReadyAtBase
  <2>6. l[1] \in Task /\ l[2] \in Task BY <2>4 DEF ReadySet
  <2>7. BasePrio[l[1]] = BasePrio[l[2]] BY <2>4, <2>5
  <2> QED BY <2>3, <2>6, <2>7, BaseDistinct
<1> QED BY <1>3, <1>4 DEF l

(* No task executes its own code while a more urgent one is ready, for any   *)
(* mutexes and semaphores and whatever interrupts come between a service,   *)
(* its call of OSSched() and the context switch.                            *)
THEOREM RunsMostUrgentAlways == Spec => []RunsMostUrgent
BY KernelCorrect, UrgentImplied, PTL

(* A task has exactly the priority it is owed along the chains of mutexes,   *)
(* for any number of mutexes, nested or held together.                      *)
THEOREM PriorityInheritedAlways == Spec => []PriorityInherited
BY KernelCorrect, InheritedImplied, PTL

(* The ready and pend lists, OSPrioTbl and the mutex groups agree with the   *)
(* control blocks.                                                          *)
THEOREM ListsConsistentAlways == Spec => []ListsConsistent
BY KernelCorrect, ListsImplied, PTL

(* No ready list ever holds two tasks. *)
THEOREM NoTimeSlicingAlways == Spec => []NoTimeSlicing
BY KernelCorrect, SlicingImplied, PTL

-----------------------------------------------------------------------------
(* What a step does to the owners, the nesting and semaphore counters and   *)
(* the waiting tasks: all that the abstract kernel, Rtos, has.              *)

\* Nothing.
Same(r, k) ==
  r.Owner = k.Owner /\ r.Nesting = k.Nesting /\ r.PendOn = k.PendOn /\ r.Ctr = k.Ctr

\* Task t takes the free mutex m.
Takes(r, k, t, m) ==
  /\ k.Nesting[m] = 0
  /\ r.Owner = [k.Owner EXCEPT ![m] = t] /\ r.Nesting = [k.Nesting EXCEPT ![m] = 1]
  /\ r.PendOn = k.PendOn /\ r.Ctr = k.Ctr

\* Its owner t changes the nesting of the mutex m to n.
Nests(r, k, t, m, n) ==
  /\ k.Nesting[m] # 0 /\ k.Owner[m] = t
  /\ r.Nesting = [k.Nesting EXCEPT ![m] = n]
  /\ r.Owner = k.Owner /\ r.PendOn = k.PendOn /\ r.Ctr = k.Ctr

\* Task t waits for o.
Waits(r, k, t, o) ==
  /\ r.PendOn = [k.PendOn EXCEPT ![t] = o]
  /\ r.Owner = k.Owner /\ r.Nesting = k.Nesting /\ r.Ctr = k.Ctr

\* Its owner t frees the mutex m, for which nobody waits.
Frees(r, k, t, m) ==
  /\ k.Nesting[m] = 1 /\ k.Owner[m] = t /\ WaitSet(k, m) = {}
  /\ r.Owner = [k.Owner EXCEPT ![m] = NoTask] /\ r.Nesting = [k.Nesting EXCEPT ![m] = 0]
  /\ r.PendOn = k.PendOn /\ r.Ctr = k.Ctr

\* The counter of s becomes n.
Counts(r, k, s, n) ==
  /\ r.Ctr = [k.Ctr EXCEPT ![s] = n]
  /\ r.Owner = k.Owner /\ r.Nesting = k.Nesting /\ r.PendOn = k.PendOn

\* OSMutexPend by t.
MutexTaken(r, k, t, m) ==
  \/ Takes(r, k, t, m)
  \/ Nests(r, k, t, m, k.Nesting[m] + 1)
  \/ k.Nesting[m] # 0 /\ k.Owner[m] # t /\ Waits(r, k, t, m)

\* OSMutexPost by t.
MutexReleased(r, k, t, m) ==
  \/ k.Nesting[m] > 1 /\ Nests(r, k, t, m, k.Nesting[m] - 1)
  \/ Frees(r, k, t, m)
  \/ k.Nesting[m] = 1 /\ k.Owner[m] = t /\ GivenAway(r, k, m)

\* OSSemPend by t.
SemTaken(r, k, t, s) ==
  \/ k.Ctr[s] > 0 /\ Counts(r, k, s, k.Ctr[s] - 1)
  \/ k.Ctr[s] = 0 /\ Waits(r, k, t, s)

\* OSSemPost.
SemReleased(r, k, s, all) ==
  \/ WaitSet(k, s) = {} /\ Counts(r, k, s, k.Ctr[s] + 1)
  \/ /\ WaitSet(k, s) # {}
     /\ \E j : SemServed(j, k, s, all) /\ Same(r, j)

(* An empty pend list, and nobody waits. *)
LEMMA NobodyWaits ==
  ASSUME NEW k, KernelOK(k), NEW o \in Object
  PROVE  k.PendList[o] = <<>> <=> WaitSet(k, o) = {}
<1>1. Lists(k.PendList[o], WaitSet(k, o)) BY DEF KernelOK, PendOK
<1> QED BY <1>1, ListsEmpty

(* OSMutexPend does this to the mutex. *)
LEMMA PendEffect ==
  ASSUME KernelInv, NEW t \in AppTask, NEW m \in Mutexes, OSMutexPend(t, m)
  PROVE  MutexTaken(os', os, t, m)
<1>0. os \in KernelState /\ KernelOK(os) BY DEF KernelInv, KernelOK
<1>1. Running(t) /\ t \in Task BY PendCases, Tasks
<1>2. os.PendOn[t] = Nothing /\ os.TCBCur = t BY <1>1, RunningUrgent DEF Running
<1>3. CASE os.Nesting[m] = 0 /\ Return(Locked(t, m))
  <2>1. /\ Locked(t, m).Owner = [os.Owner EXCEPT ![m] = t]
        /\ Locked(t, m).Nesting = [os.Nesting EXCEPT ![m] = 1]
        /\ Locked(t, m).PendOn = os.PendOn /\ Locked(t, m).Ctr = os.Ctr
    BY <1>0 DEF Locked, OS_MutexGrpAdd, KernelState
  <2>2. os' = Locked(t, m) BY <1>3 DEF Return
  <2> QED BY <2>1, <2>2, <1>3 DEF MutexTaken, Takes
<1>4. CASE /\ os.Nesting[m] # 0 /\ os.Owner[m] = t
           /\ Return([os EXCEPT !.Nesting[m] = os.Nesting[m] + 1])
  <2> DEFINE n == os.Nesting[m] + 1
  <2>1. os' = [os EXCEPT !.Nesting[m] = n] BY <1>4 DEF Return
  <2> HIDE DEF n
  <2>2. /\ os'.Nesting = [os.Nesting EXCEPT ![m] = n] /\ os'.Owner = os.Owner
        /\ os'.PendOn = os.PendOn /\ os'.Ctr = os.Ctr
    BY <2>1, <1>0 DEF KernelState
  <2>3. Nests(os', os, t, m, n) BY <2>2, <1>4 DEF Nests
  <2> QED BY <2>3 DEF MutexTaken, n
<1>5. CASE os.Nesting[m] # 0 /\ os.Owner[m] # t /\ ThenSched(t, Blocked(t, m))
  <2>1. /\ Frame(Blocked(t, m), os)
        /\ Blocked(t, m).PendOn = [os.PendOn EXCEPT ![t] = m]
    BY <1>0, <1>2, <1>5, LockBlocks DEF Blocked
  <2>2. os' = Blocked(t, m) BY <1>5 DEF ThenSched
  <2>3. Waits(os', os, t, m) BY <2>1, <2>2 DEF Waits, Frame
  <2> QED BY <2>3, <1>5 DEF MutexTaken
<1> QED BY <1>3, <1>4, <1>5, PendCases

(* OSMutexPost does this to the mutex. *)
LEMMA PostEffect ==
  ASSUME KernelInv, NEW t \in AppTask, NEW m \in Mutexes, OSMutexPost(t, m)
  PROVE  MutexReleased(os', os, t, m)
<1>0. os \in KernelState /\ KernelOK(os) /\ m \in Object
  BY DEF KernelInv, KernelOK, Object
<1>1. Running(t) /\ os.Owner[m] = t /\ t \in Task BY PostCases, Tasks
<1>2. os.PendOn[t] = Nothing BY <1>1, RunningUrgent
<1>3. CASE os.Nesting[m] > 1 /\ Return([os EXCEPT !.Nesting[m] = os.Nesting[m] - 1])
  <2> DEFINE n == os.Nesting[m] - 1
  <2>1. os' = [os EXCEPT !.Nesting[m] = n] BY <1>3 DEF Return
  <2> HIDE DEF n
  <2>2. /\ os'.Nesting = [os.Nesting EXCEPT ![m] = n] /\ os'.Owner = os.Owner
        /\ os'.PendOn = os.PendOn /\ os'.Ctr = os.Ctr
    BY <2>1, <1>0 DEF KernelState
  <2>3. os.Nesting[m] # 0 BY <1>3
  <2>4. Nests(os', os, t, m, n) BY <2>2, <2>3, <1>1 DEF Nests
  <2> QED BY <2>4, <1>3 DEF MutexReleased, n
<1>4. CASE os.Nesting[m] = 1 /\ os.PendList[m] = <<>> /\ Return(Freed(t, m))
  <2>1. /\ Freed(t, m).Owner = [os.Owner EXCEPT ![m] = NoTask]
        /\ Freed(t, m).Nesting = [os.Nesting EXCEPT ![m] = 0]
        /\ Freed(t, m).PendOn = os.PendOn /\ Freed(t, m).Ctr = os.Ctr
    BY <1>0 DEF Freed, Left, OS_MutexGrpRemove, KernelState
  <2>2. os' = Freed(t, m) BY <1>4 DEF Return
  <2>3. WaitSet(os, m) = {} BY <1>0, <1>4, NobodyWaits
  <2>4. Frees(os', os, t, m) BY <2>1, <2>2, <2>3, <1>1, <1>4 DEF Frees
  <2> QED BY <2>4 DEF MutexReleased
<1>5. CASE os.Nesting[m] = 1 /\ os.PendList[m] # <<>> /\ ThenSched(t, Given(t, m))
  <2>1. KernelOK(os) /\ os.PendList[m] # <<>> BY <1>0, <1>5
  <2>2. GivenAway(Given(t, m), os, m) BY <2>1, <1>1, <1>2, MutexGiven DEF Given
  <2>3. os' = Given(t, m) BY <1>5 DEF ThenSched
  <2> QED BY <2>2, <2>3, <1>1, <1>5 DEF MutexReleased
<1> QED BY <1>3, <1>4, <1>5, PostCases

(* OSSemPend does this to the semaphore. *)
LEMMA SemPendEffect ==
  ASSUME KernelInv, NEW t \in AppTask, NEW s \in Sems, OSSemPend(t, s)
  PROVE  SemTaken(os', os, t, s)
<1>0. os \in KernelState /\ KernelOK(os) BY DEF KernelInv, KernelOK
<1>1. Running(t) /\ t \in Task BY Tasks DEF OSSemPend
<1>2. os.PendOn[t] = Nothing /\ os.TCBCur = t BY <1>1, RunningUrgent DEF Running
<1>3. CASE os.Ctr[s] > 0 /\ Return([os EXCEPT !.Ctr[s] = @ - 1])
  <2> DEFINE n == os.Ctr[s] - 1
  <2>1. os' = [os EXCEPT !.Ctr[s] = n] BY <1>3 DEF Return
  <2> HIDE DEF n
  <2>2. /\ os'.Ctr = [os.Ctr EXCEPT ![s] = n] /\ os'.Owner = os.Owner
        /\ os'.PendOn = os.PendOn /\ os'.Nesting = os.Nesting
    BY <2>1, <1>0 DEF KernelState
  <2>3. Counts(os', os, s, n) BY <2>2 DEF Counts
  <2> QED BY <2>3, <1>3 DEF SemTaken, n
<1>4. CASE os.Ctr[s] = 0 /\ ThenSched(t, OS_Pend(os, s))
  <2>1. Frame(OS_Pend(os, s), os) /\ OS_Pend(os, s).PendOn = [os.PendOn EXCEPT ![t] = s]
    BY <1>0, <1>2, SemBlocks
  <2>2. os' = OS_Pend(os, s) BY <1>4 DEF ThenSched
  <2>3. Waits(os', os, t, s) BY <2>1, <2>2 DEF Waits, Frame
  <2> QED BY <2>3, <1>4 DEF SemTaken
<1> QED BY <1>3, <1>4 DEF OSSemPend

(* A post does this to the semaphore, from a task or from an interrupt. *)
LEMMA SemPostEffect ==
  ASSUME KernelInv, NEW s \in Sems, NEW all \in BOOLEAN,
         \/ os.PendList[s] = <<>> /\ os' = [os EXCEPT !.Ctr[s] = @ + 1]
         \/ os.PendList[s] # <<>> /\ os' = OS_SemPost(os, s, all)
         \/ os.PendList[s] # <<>> /\ os' = OSSched(OS_SemPost(os, s, all))
  PROVE  SemReleased(os', os, s, all)
<1> DEFINE j == OS_SemPost(os, s, all)
<1>0. os \in KernelState /\ KernelOK(os) /\ s \in Object
  BY DEF KernelInv, KernelOK, Object
<1>1. os.PendList[s] = <<>> <=> WaitSet(os, s) = {} BY <1>0, NobodyWaits
<1>2. CASE os.PendList[s] = <<>> /\ os' = [os EXCEPT !.Ctr[s] = @ + 1]
  <2> DEFINE n == os.Ctr[s] + 1
  <2>1. os' = [os EXCEPT !.Ctr[s] = n] BY <1>2
  <2> HIDE DEF n
  <2>2. /\ os'.Ctr = [os.Ctr EXCEPT ![s] = n] /\ os'.Owner = os.Owner
        /\ os'.PendOn = os.PendOn /\ os'.Nesting = os.Nesting
    BY <2>1, <1>0 DEF KernelState
  <2>3. Counts(os', os, s, n) BY <2>2 DEF Counts
  <2> QED BY <2>3, <1>1, <1>2 DEF SemReleased, n
<1>3. ASSUME os.PendList[s] # <<>> PROVE SemServed(j, os, s, all) /\ KernelOK(j)
  <2>1. SemServed(j, os, s, all) BY <1>0, <1>3, SemPostOK
  <2> HIDE DEF j
  <2> QED BY <2>1 DEF SemServed
<1> HIDE DEF j
<1>4. CASE os.PendList[s] # <<>> /\ os' = j
  <2>1. Same(os', j) BY <1>4 DEF Same
  <2> QED BY <2>1, <1>1, <1>3, <1>4 DEF SemReleased
<1>5. CASE os.PendList[s] # <<>> /\ os' = OSSched(j)
  <2>1. Scheduled(OSSched(j), j) BY <1>3, <1>5, OSSchedOK
  <2>2. Same(os', j) BY <2>1, <1>5 DEF Same, Scheduled, Switched
  <2> QED BY <2>2, <1>1, <1>3, <1>5 DEF SemReleased
<1> QED BY <1>2, <1>4, <1>5 DEF j

(* Scheduling and the context switch do nothing to them. *)
LEMMA SchedEffect ==
  ASSUME KernelInv,
         \/ \E t \in AppTask : CallSched(t)
         \/ \E sliced \in BOOLEAN : SysTick_Handler(sliced)
         \/ PendSV_Handler
  PROVE  Same(os', os)
<1>0. os \in KernelState /\ KernelOK(os) BY DEF KernelInv, KernelOK
<1>1. ASSUME NEW t \in AppTask, CallSched(t) PROVE Same(os', os)
  <2>1. Scheduled(OSSched(os), os) BY <1>0, OSSchedOK
  <2> QED BY <2>1, <1>1 DEF Same, Scheduled, Switched, CallSched
<1>2. ASSUME NEW sliced \in BOOLEAN, SysTick_Handler(sliced) PROVE Same(os', os)
  <2> DEFINE k == OS_SchedRoundRobin(os, sliced)
  <2>1. os' = OSSched(k) BY <1>2 DEF SysTick_Handler, Return
  <2>2. KernelOK(k) /\ Same(k, os) BY <1>0, RoundRobinOK DEF Same
  <2> HIDE DEF k
  <2>3. Scheduled(OSSched(k), k) BY <2>2, OSSchedOK
  <2> QED BY <2>1, <2>2, <2>3 DEF Same, Scheduled, Switched
<1>3. CASE PendSV_Handler BY <1>0, <1>3 DEF PendSV_Handler, Return, Same, KernelState
<1> QED BY <1>1, <1>2, <1>3

-----------------------------------------------------------------------------
(* Which tasks own or wait for mutexes.                                     *)

\* Only the tasks L own mutexes or wait for them.
LockersOK(k, L) ==
  /\ \A m \in Mutexes : k.Owner[m] \in L \cup {NoTask}
  /\ \A u \in Task : k.PendOn[u] \in Mutexes => u \in L

LockInv == KernelInv /\ lockers \in SUBSET AppTask /\ LockersOK(os, lockers)

(* Only the tasks that lock mutexes own them or wait for them. *)
LEMMA LockersTaken ==
  ASSUME NEW k \in KernelState, NEW L \in SUBSET AppTask, LockersOK(k, L), NEW r,
         NEW t \in L, NEW m \in Mutexes, MutexTaken(r, k, t, m)
  PROVE  LockersOK(r, L)
<1>0. /\ k.Owner \in [Mutexes -> AppTask \cup {NoTask}] /\ t \in Task
      /\ k.PendOn \in [Task -> Object \cup {Nothing}]
  BY Tasks DEF KernelState
<1>1. CASE Takes(r, k, t, m) BY <1>0, <1>1 DEF Takes, LockersOK
<1>2. CASE Nests(r, k, t, m, k.Nesting[m] + 1) BY <1>2 DEF Nests, LockersOK
<1>3. CASE Waits(r, k, t, m) BY <1>0, <1>3 DEF Waits, LockersOK
<1> QED BY <1>1, <1>2, <1>3 DEF MutexTaken

(* A mutex goes to a task that waited for it. *)
LEMMA LockersReleased ==
  ASSUME NEW k \in KernelState, NEW L \in SUBSET AppTask, LockersOK(k, L), NEW r,
         NEW t, NEW m \in Mutexes, MutexReleased(r, k, t, m)
  PROVE  LockersOK(r, L)
<1>0. /\ k.Owner \in [Mutexes -> AppTask \cup {NoTask}] /\ Nothing \notin Mutexes
      /\ k.PendOn \in [Task -> Object \cup {Nothing}]
  BY KernelAssumption DEF KernelState
<1>1. CASE Nests(r, k, t, m, k.Nesting[m] - 1) BY <1>1 DEF Nests, LockersOK
<1>2. CASE Frees(r, k, t, m) BY <1>0, <1>2 DEF Frees, LockersOK
<1>3. CASE GivenAway(r, k, m)
  <2>1. PICK u \in WaitSet(k, m) : /\ r.PendOn = [k.PendOn EXCEPT ![u] = Nothing]
                                   /\ r.Owner = [k.Owner EXCEPT ![m] = u]
    BY <1>3 DEF GivenAway
  <2>2. u \in Task /\ u \in L BY DEF WaitSet, LockersOK
  <2> QED BY <1>0, <2>1, <2>2 DEF LockersOK
<1> QED BY <1>1, <1>2, <1>3 DEF MutexReleased

(* Semaphores do not matter. *)
LEMMA LockersSem ==
  ASSUME NEW k \in KernelState, NEW L \in SUBSET AppTask, LockersOK(k, L), NEW r,
         NEW t \in Task, NEW s \in Sems, NEW all \in BOOLEAN,
         SemTaken(r, k, t, s) \/ SemReleased(r, k, s, all)
  PROVE  LockersOK(r, L)
<1>0. /\ Nothing \notin Mutexes /\ s \notin Mutexes
      /\ k.PendOn \in [Task -> Object \cup {Nothing}]
  BY KernelAssumption DEF KernelState
<1>1. ASSUME NEW n, Counts(r, k, s, n) PROVE LockersOK(r, L)
  BY <1>1 DEF Counts, LockersOK
<1>2. CASE Waits(r, k, t, s) BY <1>0, <1>2 DEF Waits, LockersOK
<1>3. ASSUME NEW j, SemServed(j, k, s, all), Same(r, j) PROVE LockersOK(r, L)
  <2>1. r.Owner = k.Owner BY <1>3 DEF SemServed, Frame, Same
  <2>2. \A u \in Task : r.PendOn[u] \in Mutexes => k.PendOn[u] \in Mutexes
    <3> SUFFICES ASSUME NEW u \in Task, j.PendOn[u] \in Mutexes
                 PROVE  k.PendOn[u] \in Mutexes
      BY <1>3 DEF Same
    <3>1. CASE u \notin WaitSet(k, s) BY <3>1, <1>3 DEF SemServed
    <3>2. CASE u \in WaitSet(k, s)
      <4>1. j.PendOn[u] = Nothing \/ j.PendOn[u] = k.PendOn[u] BY <3>2, <1>3 DEF SemServed
      <4> QED BY <4>1, <1>0
    <3> QED BY <3>1, <3>2
  <2> QED BY <2>1, <2>2 DEF LockersOK
<1> QED BY <1>1, <1>2, <1>3 DEF SemTaken, SemReleased

(* What the next states look like to the abstract kernel. *)
LEMMA NextEffect ==
  ASSUME KernelInv, Next
  PROVE  \/ \E t \in AppTask, m \in Mutexes :
              /\ Running(t) /\ t \in lockers /\ MutexTaken(os', os, t, m)
         \/ \E t \in AppTask, m \in Mutexes : Running(t) /\ MutexReleased(os', os, t, m)
         \/ \E t \in AppTask, s \in Sems : Running(t) /\ SemTaken(os', os, t, s)
         \/ \E s \in Sems, all \in BOOLEAN : SemReleased(os', os, s, all)
         \/ Same(os', os)
<1>2. ASSUME NEW t \in AppTask, NEW m \in Mutexes, OSMutexPend(t, m)
      PROVE  Running(t) /\ t \in lockers /\ MutexTaken(os', os, t, m)
  BY <1>2, PendEffect, PendCases
<1>3. ASSUME NEW t \in AppTask, NEW m \in Mutexes, OSMutexPost(t, m)
      PROVE  Running(t) /\ MutexReleased(os', os, t, m)
  BY <1>3, PostEffect, PostCases
<1>4. ASSUME NEW t \in AppTask, NEW s \in Sems, OSSemPend(t, s)
      PROVE  Running(t) /\ SemTaken(os', os, t, s)
  BY <1>4, SemPendEffect DEF OSSemPend
<1>5. ASSUME NEW t \in AppTask, NEW s \in Sems, NEW all \in BOOLEAN, OSSemPost(t, s, all)
      PROVE  SemReleased(os', os, s, all)
  <2>1. \/ os.PendList[s] = <<>> /\ os' = [os EXCEPT !.Ctr[s] = @ + 1]
        \/ os.PendList[s] # <<>> /\ os' = OS_SemPost(os, s, all)
    BY <1>5 DEF OSSemPost, Return, ThenSched
  <2> QED BY <2>1, SemPostEffect
<1>6. ASSUME NEW s \in Sems, NEW all \in BOOLEAN, PORT_IRQHandler(s, all)
      PROVE  SemReleased(os', os, s, all)
  <2>1. \/ os.PendList[s] = <<>> /\ os' = [os EXCEPT !.Ctr[s] = @ + 1]
        \/ os.PendList[s] # <<>> /\ os' = OSSched(OS_SemPost(os, s, all))
    BY <1>6 DEF PORT_IRQHandler, Return
  <2> QED BY <2>1, SemPostEffect
<1>7. ASSUME \/ \E t \in AppTask : CallSched(t)
             \/ \E sliced \in BOOLEAN : SysTick_Handler(sliced)
             \/ PendSV_Handler
      PROVE  Same(os', os)
  BY <1>7, SchedEffect
<1> QED BY <1>2, <1>3, <1>4, <1>5, <1>6, <1>7 DEF Next

(* The program fixes which tasks lock mutexes. *)
LEMMA LockersFixed ==
  ASSUME [Next]_vars
  PROVE  lockers' = lockers
<1>1. \A k : Return(k) => lockers' = lockers BY DEF Return
<1>2. \A t, k : ThenSched(t, k) => lockers' = lockers BY DEF ThenSched
<1>3. \A t, m : OSMutexPend(t, m) => lockers' = lockers BY <1>1, <1>2, Zenon DEF OSMutexPend
<1>4. \A t, m : OSMutexPost(t, m) => lockers' = lockers BY <1>1, <1>2, Zenon DEF OSMutexPost
<1>5. \A t, s : OSSemPend(t, s) => lockers' = lockers BY <1>1, <1>2, Zenon DEF OSSemPend
<1>6. \A t, s, all : OSSemPost(t, s, all) => lockers' = lockers
  BY <1>1, <1>2, Zenon DEF OSSemPost
<1>7. \A t : CallSched(t) => lockers' = lockers BY DEF CallSched
<1>8. \A s, all : PORT_IRQHandler(s, all) => lockers' = lockers
  BY <1>1, Zenon DEF PORT_IRQHandler
<1>9. \A sliced : SysTick_Handler(sliced) => lockers' = lockers
  BY <1>1, Zenon DEF SysTick_Handler
<1>10. PendSV_Handler => lockers' = lockers BY <1>1, Zenon DEF PendSV_Handler
<1>11. UNCHANGED vars => lockers' = lockers BY DEF vars
<1> QED BY <1>3, <1>4, <1>5, <1>6, <1>7, <1>8, <1>9, <1>10, <1>11, Zenon DEF Next

(* Every step keeps LockInv. *)
LEMMA LockStep ==
  ASSUME LockInv, [Next]_vars
  PROVE  LockInv'
<1>0. KernelInv /\ LockersOK(os, lockers) /\ lockers \in SUBSET AppTask BY DEF LockInv
<1>1. os \in KernelState BY <1>0 DEF KernelInv, KernelOK
<1>2. KernelInv' BY <1>0, NextStep
<1>3. lockers' = lockers BY LockersFixed
<1>4. LockersOK(os', lockers)
  <2>1. CASE UNCHANGED vars BY <2>1, <1>0 DEF vars
  <2>2. ASSUME NEW t \in lockers, NEW m \in Mutexes, MutexTaken(os', os, t, m)
        PROVE  LockersOK(os', lockers)
    BY <2>2, <1>0, <1>1, LockersTaken
  <2>3. ASSUME NEW t \in AppTask, NEW m \in Mutexes, MutexReleased(os', os, t, m)
        PROVE  LockersOK(os', lockers)
    BY <2>3, <1>0, <1>1, LockersReleased
  <2>4. ASSUME NEW t \in AppTask, NEW s \in Sems, SemTaken(os', os, t, s)
        PROVE  LockersOK(os', lockers)
    <3>1. t \in Task /\ TRUE \in BOOLEAN BY Tasks
    <3> QED BY <3>1, <2>4, <1>0, <1>1, LockersSem
  <2>5. ASSUME NEW s \in Sems, NEW all \in BOOLEAN, SemReleased(os', os, s, all)
        PROVE  LockersOK(os', lockers)
    <3>1. Idle \in Task BY Tasks
    <3> QED BY <3>1, <2>5, <1>0, <1>1, LockersSem
  <2>6. CASE Same(os', os) BY <2>6, <1>0 DEF Same, LockersOK
  <2>7. CASE Next BY <2>2, <2>3, <2>4, <2>5, <2>6, <2>7, <1>0, NextEffect
  <2> QED BY <2>1, <2>7
<1> QED BY <1>0, <1>2, <1>3, <1>4 DEF LockInv

(* LockInv holds of every behaviour. *)
LEMMA LockCorrect == Spec => []LockInv
<1>1. Init => LockInv
  <2> SUFFICES ASSUME Init PROVE LockInv OBVIOUS
  <2>1. KernelInv BY InitOK
  <2>2. /\ lockers \in SUBSET AppTask
        /\ os.Owner = [m \in Mutexes |-> NoTask] /\ os.PendOn = [t \in Task |-> Nothing]
    BY DEF Init
  <2>3. LockersOK(os, lockers) BY <2>2, KernelAssumption DEF LockersOK
  <2> QED BY <2>1, <2>2, <2>3 DEF LockInv
<1>2. LockInv /\ [Next]_vars => LockInv' BY LockStep
<1> QED BY <1>1, <1>2, PTL DEF Spec

-----------------------------------------------------------------------------
(* The kernel does what Rtos says when only Task2 and Task3 lock mutexes.   *)

Pair == {"Task2", "Task3"}

(* Of the tasks that wait for no mutex only Task3 can have a priority that   *)
(* is not its own: the one of Task2, which then waits for a mutex.          *)
LEMMA OnlyTask3Raised ==
  ASSUME NEW k, KernelOK(k), LockersOK(k, Pair), NEW t \in Task, k.PendOn[t] \notin Mutexes,
         k.Prio[t] # BasePrio[t]
  PROVE  t = "Task3" /\ k.Prio[t] = 3 /\ k.PendOn["Task2"] \in Mutexes
<1> DEFINE pr == k.Prio
           nx == Target(k)
<1>0. k \in KernelState /\ OwnersOK(k) /\ InheritOK(k) BY DEF KernelOK
<1>1. Inherited(pr, nx) BY <1>0 DEF InheritOK
<1>2. \A v \in Task : nx[v] \in Task =>
        v \in Pair /\ nx[v] \in Pair /\ nx[v] # v /\ k.PendOn[v] \in Mutexes
  <2> SUFFICES ASSUME NEW v \in Task, nx[v] \in Task
               PROVE  v \in Pair /\ nx[v] \in Pair /\ nx[v] # v /\ k.PendOn[v] \in Mutexes
    OBVIOUS
  <2>1. k.PendOn[v] \in Mutexes /\ nx[v] = k.Owner[k.PendOn[v]] BY Tasks DEF Target
  <2>2. nx[v] # v /\ nx[v] # NoTask BY <2>1, <1>0 DEF OwnersOK
  <2> QED BY <2>1, <2>2 DEF LockersOK
<1> HIDE DEF nx
<1>3. PICK u \in Task : nx[u] = t /\ pr[u] = pr[t] BY <1>1 DEF Inherited
<1>4. u \in Pair /\ t \in Pair /\ u # t /\ k.PendOn[u] \in Mutexes BY <1>2, <1>3
<1>5. \A w \in Task : nx[w] # u
  <2> SUFFICES ASSUME NEW w \in Task, nx[w] = u PROVE FALSE OBVIOUS
  <2>1. w \in Pair /\ w # u /\ k.PendOn[w] \in Mutexes BY <1>2
  <2>2. w = t BY <2>1, <1>4 DEF Pair
  <2> QED BY <2>1, <2>2
<1>6. pr[u] = BasePrio[u] BY <1>1, <1>5 DEF Inherited
<1>7. pr[t] <= BasePrio[t] BY <1>1 DEF Inherited
<1>8. CASE t = "Task2"
  <2>1. u = "Task3" BY <1>4, <1>8 DEF Pair
  <2>2. BasePrio[u] = 4 /\ BasePrio[t] = 3 BY <2>1, <1>8, BasePrios
  <2>3. pr[t] = 4 BY <2>2, <1>3, <1>6
  <2> QED BY <2>2, <2>3, <1>7
<1>9. CASE t = "Task3"
  <2>1. u = "Task2" BY <1>4, <1>9 DEF Pair
  <2>2. BasePrio[u] = 3 BY <2>1, BasePrios
  <2> QED BY <2>1, <2>2, <1>3, <1>4, <1>6, <1>9
<1> QED BY <1>4, <1>8, <1>9 DEF Pair

(* Between tasks that wait for no mutex the current priorities and the base  *)
(* priorities agree.                                                        *)
LEMMA BaseOrder ==
  ASSUME NEW k, KernelOK(k), LockersOK(k, Pair), NEW t \in Task, NEW u \in Task,
         k.PendOn[t] \notin Mutexes, k.PendOn[u] \notin Mutexes, k.Prio[t] <= k.Prio[u]
  PROVE  BasePrio[t] <= BasePrio[u]
<1>1. k.Prio \in [Task -> Priority] BY DEF KernelOK, KernelState
<1>2. CASE k.Prio[t] = BasePrio[t] /\ k.Prio[u] = BasePrio[u] BY <1>2
<1>3. CASE k.Prio[t] # BasePrio[t]
  <2>1. t = "Task3" /\ k.Prio[t] = 3 /\ k.PendOn["Task2"] \in Mutexes
    BY <1>3, OnlyTask3Raised
  <2>2. u # "Task2" BY <2>1
  <2>3. u # "TaskStart"
    <3> SUFFICES ASSUME u = "TaskStart" PROVE FALSE OBVIOUS
    <3>1. u # "Task3" OBVIOUS
    <3>2. k.Prio[u] = BasePrio[u] BY <3>1, OnlyTask3Raised
    <3>3. k.Prio[u] = 2 BY <3>2, BasePrios
    <3> QED BY <2>1, <3>3
  <2> QED BY <2>1, <2>2, <2>3, BasePrios, Tasks
<1>4. CASE k.Prio[u] # BasePrio[u] /\ k.Prio[t] = BasePrio[t]
  <2>1. u = "Task3" /\ k.Prio[u] = 3 BY <1>4, OnlyTask3Raised
  <2>2. BasePrio[u] = 4 BY <2>1, BasePrios
  <2>3. BasePrio[t] <= 3 BY <1>4, <2>1
  <2>4. t # Idle BY <2>3, BasePrios, Tasks
  <2> QED BY <2>2, <2>4, BasePrios, Tasks
<1> QED BY <1>2, <1>3, <1>4

\* What the abstract kernel sees of k.
MutexAt(k, m) == [owner |-> k.Owner[m], nest |-> k.Nesting[m], wait |-> WaitSet(k, m)]
SemAt(k, s)   == [ctr |-> k.Ctr[s], wait |-> WaitSet(k, s)]
MView(k) == [m \in Mutexes |-> MutexAt(k, m)]
SView(k) == [s \in Sems |-> SemAt(k, s)]

\* The mapped variables of RtosClient, of k.
ClientMutexes(k) ==
  [m \in Mutexes |-> [owner |-> k.Owner[m], nest |-> k.Nesting[m],
                      wait |-> ToSet(k.PendList[m])]]
ClientSems(k) == [s \in Sems |-> [ctr |-> k.Ctr[s], wait |-> ToSet(k.PendList[s])]]

(* The refinement mapping takes the tasks in a pend list. *)
LEMMA MappedViews ==
  ASSUME NEW k, KernelOK(k)
  PROVE  ClientMutexes(k) = MView(k) /\ ClientSems(k) = SView(k)
<1>1. ASSUME NEW o \in Object PROVE ToSet(k.PendList[o]) = WaitSet(k, o)
  <2>1. Lists(k.PendList[o], WaitSet(k, o)) BY DEF KernelOK, PendOK
  <2> QED BY <2>1, ListsToSet
<1>2. \A m \in Mutexes : ToSet(k.PendList[m]) = WaitSet(k, m) BY <1>1 DEF Object
<1>3. \A s \in Sems : ToSet(k.PendList[s]) = WaitSet(k, s) BY <1>1 DEF Object
<1>4. ClientMutexes(k) = MView(k) BY <1>2 DEF ClientMutexes, MView, MutexAt
<1>5. ClientSems(k) = SView(k) BY <1>3 DEF ClientSems, SView, SemAt
<1> QED BY <1>4, <1>5

\* Only the mutex m changes, to v.
MutexOnly(r, k, m, v) ==
  /\ MutexAt(r, m) = v
  /\ \A n \in Mutexes : n # m => MutexAt(r, n) = MutexAt(k, n)
  /\ \A s \in Sems : SemAt(r, s) = SemAt(k, s)

\* Only the semaphore s changes, to v.
SemOnly(r, k, s, v) ==
  /\ SemAt(r, s) = v
  /\ \A n \in Sems : n # s => SemAt(r, n) = SemAt(k, n)
  /\ \A m \in Mutexes : MutexAt(r, m) = MutexAt(k, m)

(* One mutex changes. *)
LEMMA MutexChanged ==
  ASSUME NEW k, NEW r, NEW m \in Mutexes, NEW v, MutexOnly(r, k, m, v)
  PROVE  MView(r) = [MView(k) EXCEPT ![m] = v] /\ SView(r) = SView(k)
BY DEF MutexOnly, MView, SView

(* One semaphore changes. *)
LEMMA SemChanged ==
  ASSUME NEW k, NEW r, NEW s \in Sems, NEW v, SemOnly(r, k, s, v)
  PROVE  SView(r) = [SView(k) EXCEPT ![s] = v] /\ MView(r) = MView(k)
BY DEF SemOnly, MView, SView

(* Rtos and Kernel name the same tasks and base priorities. *)
LEMMA ClientTasks ==
  /\ Client!Task = AppTask /\ Client!NoTask = NoTask
  /\ \A t \in AppTask : Client!Prio[t] = BasePrio[t]
<1>1. Client!Task = AppTask /\ Client!NoTask = NoTask
  BY Tasks DEF Client!Task, Client!NoTask
<1>2. Client!Prio["TaskStart"] = 2 /\ Client!Prio["Task2"] = 3 /\ Client!Prio["Task3"] = 4
  BY DEF Client!Prio, Client!Task
<1> QED BY <1>1, <1>2, BasePrios, Tasks

(* First names the one waiting task with the most urgent base priority. *)
LEMMA FirstIs ==
  ASSUME NEW W \in SUBSET AppTask, NEW u \in W, \A v \in W : BasePrio[u] <= BasePrio[v]
  PROVE  Client!First(W) = u
<1>1. \A v \in W : v \in Task /\ BasePrio[v] \in Nat /\ Client!Prio[v] = BasePrio[v]
  <2>1. \A v \in Task : BasePrio[v] \in Nat BY BasePrios, Priorities
  <2> QED BY <2>1, ClientTasks, Tasks
<1>2. \A v \in W : Client!Prio[u] <= Client!Prio[v] BY <1>1
<1>3. ASSUME NEW f \in W, \A v \in W : Client!Prio[f] <= Client!Prio[v] PROVE f = u
  <2>1. BasePrio[f] <= BasePrio[u] /\ BasePrio[u] <= BasePrio[f] BY <1>1, <1>3
  <2>2. BasePrio[f] = BasePrio[u] BY <2>1, <1>1
  <2> QED BY <2>2, <1>1, BaseDistinct
<1> DEFINE P(x) == \A v \in W : Client!Prio[x] <= Client!Prio[v]
<1>4. Client!First(W) = CHOOSE x \in W : P(x) BY DEF Client!First
<1>5. P(u) /\ \A f \in W : P(f) => f = u BY <1>2, <1>3
<1> HIDE DEF P
<1> QED BY <1>4, <1>5

(* A ready task starts to wait. *)
LEMMA WaitsMore ==
  ASSUME NEW k \in KernelState, NEW r, NEW t \in Task, k.PendOn[t] = Nothing,
         NEW o \in Object, r.PendOn = [k.PendOn EXCEPT ![t] = o]
  PROVE  /\ WaitSet(r, o) = WaitSet(k, o) \cup {t}
         /\ \A p \in Object : p # o => WaitSet(r, p) = WaitSet(k, p)
<1>1. k.PendOn \in [Task -> Object \cup {Nothing}] /\ Nothing \notin Object
  BY KernelAssumption DEF KernelState, Object
<1>2. r.PendOn[t] = o /\ \A u \in Task : u # t => r.PendOn[u] = k.PendOn[u] BY <1>1
<1> QED BY <1>1, <1>2 DEF WaitSet

(* A waiting task becomes ready. *)
LEMMA WaitsLess ==
  ASSUME NEW k \in KernelState, NEW r, NEW o \in Object, NEW u \in WaitSet(k, o),
         r.PendOn = [k.PendOn EXCEPT ![u] = Nothing]
  PROVE  /\ WaitSet(r, o) = WaitSet(k, o) \ {u}
         /\ \A p \in Object : p # o => WaitSet(r, p) = WaitSet(k, p)
<1>1. k.PendOn \in [Task -> Object \cup {Nothing}] /\ Nothing \notin Object
  BY KernelAssumption DEF KernelState, Object
<1>2. u \in Task /\ k.PendOn[u] = o BY DEF WaitSet
<1>3. r.PendOn[u] = Nothing /\ \A v \in Task : v # u => r.PendOn[v] = k.PendOn[v]
  BY <1>1, <1>2
<1> QED BY <1>1, <1>2, <1>3 DEF WaitSet

(* The same tasks wait. *)
LEMMA WaitsSame ==
  ASSUME NEW k, NEW r, r.PendOn = k.PendOn
  PROVE  \A o : WaitSet(r, o) = WaitSet(k, o)
BY DEF WaitSet

(* The tasks that wait are tasks of the application. *)
LEMMA WaitersApp ==
  ASSUME NEW k, KernelOK(k), NEW o \in Object
  PROVE  WaitSet(k, o) \in SUBSET AppTask
<1>1. k.PendOn[Idle] = Nothing /\ Nothing \notin Object
  BY KernelAssumption DEF KernelOK, OwnersOK, Object
<1> QED BY <1>1, Tasks DEF WaitSet

(* OSMutexPend does to a mutex what Rtos says. *)
LEMMA TakenView ==
  ASSUME NEW k, KernelOK(k), NEW r, NEW t \in AppTask, k.PendOn[t] = Nothing,
         NEW m \in Mutexes, MutexTaken(r, k, t, m)
  PROVE  MutexOnly(r, k, m, Client!OSMutexPend(MutexAt(k, m), t))
<1>0. /\ k \in KernelState /\ m \in Object /\ t \in Task
      /\ k.Owner \in [Mutexes -> AppTask \cup {NoTask}] /\ k.Nesting \in [Mutexes -> Nat]
      /\ Mutexes \subseteq Object /\ Sems \subseteq Object /\ m \notin Sems
  BY Tasks, KernelAssumption DEF KernelOK, Object, KernelState
<1>1. SUFFICES /\ MutexAt(r, m) = Client!OSMutexPend(MutexAt(k, m), t)
               /\ \A n \in Mutexes : n # m => MutexAt(r, n) = MutexAt(k, n)
               /\ \A s \in Sems : SemAt(r, s) = SemAt(k, s)
  BY DEF MutexOnly
<1>2. CASE Takes(r, k, t, m)
  <2>1. \A o : WaitSet(r, o) = WaitSet(k, o) BY <1>2, WaitsSame DEF Takes
  <2>2. /\ r.Owner[m] = t /\ r.Nesting[m] = 1 /\ r.Ctr = k.Ctr /\ k.Nesting[m] = 0
        /\ \A n \in Mutexes : n # m => r.Owner[n] = k.Owner[n] /\ r.Nesting[n] = k.Nesting[n]
    BY <1>0, <1>2 DEF Takes
  <2>3. MutexAt(r, m) = Client!OSMutexPend(MutexAt(k, m), t)
    BY <2>1, <2>2 DEF MutexAt, Client!OSMutexPend
  <2> QED BY <2>1, <2>2, <2>3 DEF MutexAt, SemAt
<1>3. CASE Nests(r, k, t, m, k.Nesting[m] + 1)
  <2>1. \A o : WaitSet(r, o) = WaitSet(k, o) BY <1>3, WaitsSame DEF Nests
  <2>2. /\ r.Owner = k.Owner /\ r.Nesting[m] = k.Nesting[m] + 1 /\ r.Ctr = k.Ctr
        /\ k.Nesting[m] # 0 /\ k.Owner[m] = t
        /\ \A n \in Mutexes : n # m => r.Nesting[n] = k.Nesting[n]
    BY <1>0, <1>3 DEF Nests
  <2>3. MutexAt(r, m) = Client!OSMutexPend(MutexAt(k, m), t)
    BY <2>1, <2>2 DEF MutexAt, Client!OSMutexPend
  <2> QED BY <2>1, <2>2, <2>3 DEF MutexAt, SemAt
<1>4. CASE k.Nesting[m] # 0 /\ k.Owner[m] # t /\ Waits(r, k, t, m)
  <2>1. /\ WaitSet(r, m) = WaitSet(k, m) \cup {t}
        /\ \A p \in Object : p # m => WaitSet(r, p) = WaitSet(k, p)
    BY <1>0, <1>4, WaitsMore DEF Waits
  <2>2. r.Owner = k.Owner /\ r.Nesting = k.Nesting /\ r.Ctr = k.Ctr BY <1>4 DEF Waits
  <2>3. MutexAt(r, m) = Client!OSMutexPend(MutexAt(k, m), t)
    BY <2>1, <2>2, <1>4 DEF MutexAt, Client!OSMutexPend
  <2> QED BY <2>1, <2>2, <2>3, <1>0 DEF MutexAt, SemAt
<1> QED BY <1>2, <1>3, <1>4 DEF MutexTaken

(* With two tasks that lock, at most one waits for a mutex. *)
LEMMA OneWaits ==
  ASSUME NEW k, KernelOK(k), LockersOK(k, Pair), NEW m \in Mutexes, NEW u \in WaitSet(k, m)
  PROVE  WaitSet(k, m) = {u}
<1>0. OwnersOK(k) BY DEF KernelOK
<1>1. \A v \in WaitSet(k, m) : v \in Pair /\ k.Owner[m] \in Pair /\ v # k.Owner[m]
  BY <1>0 DEF WaitSet, OwnersOK, LockersOK
<1> QED BY <1>1 DEF Pair

(* OSMutexPost does to a mutex what Rtos says. *)
LEMMA ReleasedView ==
  ASSUME NEW k, KernelOK(k), LockersOK(k, Pair), NEW r, NEW t \in AppTask,
         NEW m \in Mutexes, MutexReleased(r, k, t, m)
  PROVE  MutexOnly(r, k, m, Client!OSMutexPost(MutexAt(k, m), t))
<1>0. /\ k \in KernelState /\ m \in Object /\ t \in Task
      /\ k.Owner \in [Mutexes -> AppTask \cup {NoTask}] /\ k.Nesting \in [Mutexes -> Nat]
      /\ Mutexes \subseteq Object /\ Sems \subseteq Object /\ m \notin Sems
  BY Tasks, KernelAssumption DEF KernelOK, Object, KernelState
<1>1. SUFFICES /\ MutexAt(r, m) = Client!OSMutexPost(MutexAt(k, m), t)
               /\ \A n \in Mutexes : n # m => MutexAt(r, n) = MutexAt(k, n)
               /\ \A s \in Sems : SemAt(r, s) = SemAt(k, s)
  BY DEF MutexOnly
<1>2. CASE k.Nesting[m] > 1 /\ Nests(r, k, t, m, k.Nesting[m] - 1)
  <2>1. \A o : WaitSet(r, o) = WaitSet(k, o) BY <1>2, WaitsSame DEF Nests
  <2>2. /\ r.Owner = k.Owner /\ r.Nesting[m] = k.Nesting[m] - 1 /\ r.Ctr = k.Ctr
        /\ k.Nesting[m] > 1 /\ k.Owner[m] = t
        /\ \A n \in Mutexes : n # m => r.Nesting[n] = k.Nesting[n]
    BY <1>0, <1>2 DEF Nests
  <2>3. MutexAt(r, m) = Client!OSMutexPost(MutexAt(k, m), t)
    BY <2>1, <2>2 DEF MutexAt, Client!OSMutexPost
  <2> QED BY <2>1, <2>2, <2>3 DEF MutexAt, SemAt
<1>3. CASE Frees(r, k, t, m)
  <2>1. \A o : WaitSet(r, o) = WaitSet(k, o) BY <1>3, WaitsSame DEF Frees
  <2>2. /\ r.Owner[m] = NoTask /\ r.Nesting[m] = 0 /\ r.Ctr = k.Ctr
        /\ k.Nesting[m] = 1 /\ k.Owner[m] = t /\ WaitSet(k, m) = {}
        /\ \A n \in Mutexes : n # m => r.Owner[n] = k.Owner[n] /\ r.Nesting[n] = k.Nesting[n]
    BY <1>0, <1>3 DEF Frees
  <2>3. MutexAt(r, m) = Client!OSMutexPost(MutexAt(k, m), t)
    <3> DEFINE x == MutexAt(k, m)
               y == Client!OSMutexPost(x, t)
    <3>1. x = [owner |-> t, nest |-> 1, wait |-> {}] BY <2>2 DEF MutexAt
    <3>2. MutexAt(r, m) = [owner |-> NoTask, nest |-> 0, wait |-> {}]
      BY <2>1, <2>2 DEF MutexAt
    <3>3. Client!NoTask = NoTask BY ClientTasks
    <3> HIDE DEF x
    <3>4. x.owner = t /\ ~(x.nest > 1) /\ x.wait = {} BY <3>1
    <3>5. y = [x EXCEPT !.owner = NoTask, !.nest = 0]
      BY <3>3, <3>4 DEF Client!OSMutexPost
    <3> HIDE DEF y
    <3>6. y = [owner |-> NoTask, nest |-> 0, wait |-> {}] BY <3>1, <3>5
    <3> QED BY <3>2, <3>6 DEF x, y
  <2> QED BY <2>1, <2>2, <2>3 DEF MutexAt, SemAt
<1>4. CASE k.Nesting[m] = 1 /\ k.Owner[m] = t /\ GivenAway(r, k, m)
  <2>1. PICK u \in WaitSet(k, m) :
               /\ r.PendOn = [k.PendOn EXCEPT ![u] = Nothing]
               /\ r.Owner = [k.Owner EXCEPT ![m] = u]
               /\ r.Nesting = [k.Nesting EXCEPT ![m] = 1]
    BY <1>4 DEF GivenAway
  <2>2. /\ WaitSet(r, m) = WaitSet(k, m) \ {u}
        /\ \A p \in Object : p # m => WaitSet(r, p) = WaitSet(k, p)
    BY <1>0, <2>1, WaitsLess
  <2>3. /\ r.Owner[m] = u /\ r.Nesting[m] = 1 /\ r.Ctr = k.Ctr
        /\ \A n \in Mutexes : n # m => r.Owner[n] = k.Owner[n] /\ r.Nesting[n] = k.Nesting[n]
    BY <1>0, <1>4, <2>1 DEF GivenAway
  <2>4. WaitSet(k, m) = {u} BY OneWaits
  <2>5. Client!First(WaitSet(k, m)) = u
    <3>1. WaitSet(k, m) \in SUBSET AppTask BY <1>0, WaitersApp
    <3>2. BasePrio[u] \in Nat BY <3>1, BasePrios, Priorities, Tasks
    <3>3. \A v \in WaitSet(k, m) : BasePrio[u] <= BasePrio[v] BY <2>4, <3>2
    <3> QED BY <3>1, <3>3, FirstIs
  <2>6. MutexAt(r, m) = Client!OSMutexPost(MutexAt(k, m), t)
    <3> DEFINE W == WaitSet(k, m)
               x == MutexAt(k, m)
               y == Client!OSMutexPost(x, t)
    <3>1. W # {} /\ Client!First(W) = u BY <2>1, <2>5
    <3>2. x = [owner |-> t, nest |-> 1, wait |-> W] BY <1>4 DEF MutexAt
    <3>3. MutexAt(r, m) = [owner |-> u, nest |-> 1, wait |-> W \ {u}]
      BY <2>2, <2>3 DEF MutexAt
    <3> HIDE DEF W, x
    <3>4. x.owner = t /\ ~(x.nest > 1) /\ x.wait = W BY <3>2
    <3>5. y = [x EXCEPT !.owner = Client!First(x.wait), !.nest = 1,
                        !.wait = x.wait \ {Client!First(x.wait)}]
      BY <3>1, <3>4, Zenon DEF Client!OSMutexPost
    <3> HIDE DEF y
    <3>6. Client!First(x.wait) = u /\ x.wait = W BY <3>1, <3>4
    <3>7. y = [x EXCEPT !.owner = u, !.nest = 1, !.wait = W \ {u}] BY <3>5, <3>6, Zenon
    <3>8. y = [owner |-> u, nest |-> 1, wait |-> W \ {u}] BY <3>2, <3>7
    <3> QED BY <3>3, <3>8 DEF x, y
  <2> QED BY <2>2, <2>3, <2>6, <1>0 DEF MutexAt, SemAt
<1> QED BY <1>2, <1>3, <1>4 DEF MutexReleased

(* OSSemPend does to a semaphore what Rtos says. *)
LEMMA SemTakenView ==
  ASSUME NEW k, KernelOK(k), NEW r, NEW t \in AppTask, k.PendOn[t] = Nothing,
         NEW s \in Sems, SemTaken(r, k, t, s)
  PROVE  SemOnly(r, k, s, Client!OSSemPend(SemAt(k, s), t))
<1>0. /\ k \in KernelState /\ s \in Object /\ t \in Task /\ k.Ctr \in [Sems -> Nat]
      /\ Mutexes \subseteq Object /\ Sems \subseteq Object /\ s \notin Mutexes
  BY Tasks, KernelAssumption DEF KernelOK, Object, KernelState
<1>1. SUFFICES /\ SemAt(r, s) = Client!OSSemPend(SemAt(k, s), t)
               /\ \A n \in Sems : n # s => SemAt(r, n) = SemAt(k, n)
               /\ \A m \in Mutexes : MutexAt(r, m) = MutexAt(k, m)
  BY DEF SemOnly
<1>2. CASE k.Ctr[s] > 0 /\ Counts(r, k, s, k.Ctr[s] - 1)
  <2>1. \A o : WaitSet(r, o) = WaitSet(k, o) BY <1>2, WaitsSame DEF Counts
  <2>2. /\ r.Owner = k.Owner /\ r.Nesting = k.Nesting /\ r.Ctr[s] = k.Ctr[s] - 1
        /\ k.Ctr[s] > 0 /\ \A n \in Sems : n # s => r.Ctr[n] = k.Ctr[n]
    BY <1>0, <1>2 DEF Counts
  <2>3. SemAt(r, s) = Client!OSSemPend(SemAt(k, s), t)
    <3> DEFINE x == SemAt(k, s)
               y == Client!OSSemPend(x, t)
    <3>1. x = [ctr |-> k.Ctr[s], wait |-> WaitSet(k, s)] BY DEF SemAt
    <3>2. SemAt(r, s) = [ctr |-> k.Ctr[s] - 1, wait |-> WaitSet(k, s)] BY <2>1, <2>2 DEF SemAt
    <3> HIDE DEF x
    <3>3. x.ctr > 0 /\ x.ctr = k.Ctr[s] BY <3>1, <2>2
    <3>4. y = [x EXCEPT !.ctr = x.ctr - 1] BY <3>3, Zenon DEF Client!OSSemPend
    <3> HIDE DEF y
    <3>5. y = [ctr |-> k.Ctr[s] - 1, wait |-> WaitSet(k, s)] BY <3>1, <3>3, <3>4
    <3> QED BY <3>2, <3>5 DEF x, y
  <2> QED BY <2>1, <2>2, <2>3 DEF MutexAt, SemAt
<1>3. CASE k.Ctr[s] = 0 /\ Waits(r, k, t, s)
  <2>1. /\ WaitSet(r, s) = WaitSet(k, s) \cup {t}
        /\ \A p \in Object : p # s => WaitSet(r, p) = WaitSet(k, p)
    BY <1>0, <1>3, WaitsMore DEF Waits
  <2>2. /\ r.Owner = k.Owner /\ r.Nesting = k.Nesting /\ r.Ctr = k.Ctr /\ k.Ctr[s] = 0
    BY <1>3 DEF Waits
  <2>3. SemAt(r, s) = Client!OSSemPend(SemAt(k, s), t)
    <3> DEFINE x == SemAt(k, s)
               y == Client!OSSemPend(x, t)
    <3>1. x = [ctr |-> 0, wait |-> WaitSet(k, s)] BY <2>2 DEF SemAt
    <3>2. SemAt(r, s) = [ctr |-> 0, wait |-> WaitSet(k, s) \cup {t}] BY <2>1, <2>2 DEF SemAt
    <3> HIDE DEF x
    <3>3. ~(x.ctr > 0) /\ x.wait = WaitSet(k, s) BY <3>1
    <3>4. y = [x EXCEPT !.wait = x.wait \cup {t}] BY <3>3, Zenon DEF Client!OSSemPend
    <3> HIDE DEF y
    <3>5. y = [ctr |-> 0, wait |-> WaitSet(k, s) \cup {t}] BY <3>1, <3>3, <3>4
    <3> QED BY <3>2, <3>5 DEF x, y
  <2> QED BY <2>1, <2>2, <2>3, <1>0 DEF MutexAt, SemAt
<1> QED BY <1>2, <1>3 DEF SemTaken

\* What Rtos says of a post.
SemAfterPost(k, s, all) ==
  IF all THEN Client!OSSemPostAll(SemAt(k, s)) ELSE Client!OSSemPost1(SemAt(k, s))

(* A post counted does what Rtos says. *)
LEMMA CountedView ==
  ASSUME NEW k, KernelOK(k), NEW r, NEW s \in Sems, NEW all \in BOOLEAN,
         WaitSet(k, s) = {}, Counts(r, k, s, k.Ctr[s] + 1)
  PROVE  SemOnly(r, k, s, SemAfterPost(k, s, all))
<1>0. k.Ctr \in [Sems -> Nat] BY DEF KernelOK, KernelState
<1>1. \A o : WaitSet(r, o) = WaitSet(k, o) BY WaitsSame DEF Counts
<1>2. /\ r.Owner = k.Owner /\ r.Nesting = k.Nesting /\ r.Ctr[s] = k.Ctr[s] + 1
      /\ \A n \in Sems : n # s => r.Ctr[n] = k.Ctr[n]
  BY <1>0 DEF Counts
<1>3. SemAt(r, s) = Client!OSSemPost1(SemAt(k, s)) BY <1>1, <1>2 DEF SemAt, Client!OSSemPost1
<1>4. SemAt(r, s) = Client!OSSemPostAll(SemAt(k, s)) BY <1>1, <1>2 DEF SemAt, Client!OSSemPostAll
<1>5. \A n \in Sems : n # s => SemAt(r, n) = SemAt(k, n) BY <1>1, <1>2 DEF SemAt
<1>6. \A m \in Mutexes : MutexAt(r, m) = MutexAt(k, m) BY <1>1, <1>2 DEF MutexAt
<1> QED BY <1>3, <1>4, <1>5, <1>6 DEF SemOnly, SemAfterPost

(* A post to a semaphore that is waited for does what Rtos says: the task    *)
(* with the most urgent current priority is the one with the most urgent    *)
(* base priority.                                                           *)
LEMMA ServedView ==
  ASSUME NEW k, KernelOK(k), LockersOK(k, Pair), NEW j, NEW r, NEW s \in Sems,
         NEW all \in BOOLEAN, WaitSet(k, s) # {}, SemServed(j, k, s, all), Same(r, j)
  PROVE  SemOnly(r, k, s, SemAfterPost(k, s, all))
<1> DEFINE W == WaitSet(k, s)
<1>0. /\ k \in KernelState /\ s \in Object /\ s # Nothing /\ s \notin Mutexes
      /\ Mutexes \subseteq Object /\ Sems \subseteq Object /\ Nothing \notin Object
  BY KernelAssumption DEF KernelOK, Object
<1>1. W \in SUBSET AppTask BY <1>0, WaitersApp
<1>2. \A v \in W : v \in Task /\ k.PendOn[v] = s BY DEF WaitSet
<1>3. /\ r.Owner = k.Owner /\ r.Nesting = k.Nesting /\ r.Ctr = k.Ctr /\ r.PendOn = j.PendOn
  BY DEF SemServed, Frame, Same
<1>4. \A v \in Task : v \notin W => r.PendOn[v] = k.PendOn[v] BY <1>3 DEF SemServed
<1>5. \A v \in W : r.PendOn[v] = Nothing \/ r.PendOn[v] = s
  BY <1>2, <1>3 DEF SemServed
<1>6. \A o \in Object : o # s => WaitSet(r, o) = WaitSet(k, o)
  <2> SUFFICES ASSUME NEW o \in Object, o # s, NEW v \in Task
               PROVE  r.PendOn[v] = o <=> k.PendOn[v] = o
    BY DEF WaitSet
  <2>1. CASE v \in W BY <2>1, <1>0, <1>2, <1>5
  <2>2. CASE v \notin W BY <2>2, <1>4
  <2> QED BY <2>1, <2>2
<1>7. \A n \in Sems : n # s => SemAt(r, n) = SemAt(k, n) BY <1>0, <1>3, <1>6 DEF SemAt
<1>8. \A m \in Mutexes : MutexAt(r, m) = MutexAt(k, m) BY <1>0, <1>3, <1>6 DEF MutexAt
<1> DEFINE x == SemAt(k, s)
<1>9. x = [ctr |-> k.Ctr[s], wait |-> W] /\ W # {} BY DEF SemAt
<1>10. SemAt(r, s) = [ctr |-> k.Ctr[s], wait |-> WaitSet(r, s)] BY <1>3 DEF SemAt
<1>11. CASE all
  <2>1. WaitSet(r, s) = {}
    <3> SUFFICES ASSUME NEW v \in Task PROVE r.PendOn[v] # s BY DEF WaitSet
    <3>1. CASE v \in W
      <4>1. r.PendOn[v] = Nothing BY <3>1, <1>3, <1>11 DEF SemServed
      <4> QED BY <4>1, <1>0
    <3>2. CASE v \notin W BY <3>2, <1>4 DEF WaitSet
    <3> QED BY <3>1, <3>2
  <2> DEFINE y == Client!OSSemPostAll(x)
  <2> HIDE DEF W, x
  <2>2. x.wait # {} BY <1>9
  <2>3. y = [x EXCEPT !.wait = {}] BY <2>2 DEF Client!OSSemPostAll
  <2> HIDE DEF y
  <2>4. y = [ctr |-> k.Ctr[s], wait |-> {}] BY <1>9, <2>3
  <2>5. SemAt(r, s) = y BY <2>1, <2>4, <1>10
  <2>6. SemAt(r, s) = SemAfterPost(k, s, all) BY <2>5, <1>11 DEF SemAfterPost, x, y
  <2> QED BY <2>6, <1>7, <1>8 DEF SemOnly
<1>12. CASE ~all
  <2>1. PICK u \in W : /\ \A v \in W : k.Prio[u] <= k.Prio[v]
                       /\ j.PendOn[u] = Nothing
                       /\ \A v \in W : v # u => j.PendOn[v] = k.PendOn[v]
    BY <1>12 DEF SemServed
  <2>2. WaitSet(r, s) = W \ {u}
    <3> SUFFICES ASSUME NEW v \in Task PROVE r.PendOn[v] = s <=> v \in W /\ v # u
      BY <1>1, Tasks DEF WaitSet
    <3>1. CASE v \in W
      <4>1. CASE v = u BY <4>1, <2>1, <1>0, <1>3
      <4>2. CASE v # u BY <4>2, <3>1, <2>1, <1>2, <1>3
      <4> QED BY <4>1, <4>2
    <3>2. CASE v \notin W BY <3>2, <1>4 DEF WaitSet
    <3> QED BY <3>1, <3>2
  <2>3. \A v \in W : BasePrio[u] <= BasePrio[v]
    <3> SUFFICES ASSUME NEW v \in W PROVE BasePrio[u] <= BasePrio[v] OBVIOUS
    <3>1. u \in Task /\ v \in Task /\ k.PendOn[u] \notin Mutexes /\ k.PendOn[v] \notin Mutexes
      BY <1>0, <1>2
    <3>2. k.Prio[u] <= k.Prio[v] BY <2>1
    <3> QED BY <3>1, <3>2, BaseOrder
  <2> DEFINE y == Client!OSSemPost1(x)
  <2> HIDE DEF W, x
  <2>4. Client!First(W) = u BY <1>1, <2>3, FirstIs
  <2>5. x.wait # {} /\ x.wait = W BY <1>9
  <2>6. y = [x EXCEPT !.wait = x.wait \ {Client!First(x.wait)}]
    BY <2>5, Zenon DEF Client!OSSemPost1
  <2> HIDE DEF y
  <2>7. Client!First(x.wait) = u BY <2>4, <2>5
  <2>8. y = [x EXCEPT !.wait = W \ {u}] BY <2>5, <2>6, <2>7, Zenon
  <2>9. y = [ctr |-> k.Ctr[s], wait |-> W \ {u}] BY <1>9, <2>8
  <2>10. SemAt(r, s) = y BY <2>2, <2>9, <1>10
  <2>11. SemAt(r, s) = SemAfterPost(k, s, all) BY <2>10, <1>12 DEF SemAfterPost, x, y
  <2> QED BY <2>11, <1>7, <1>8 DEF SemOnly
<1> QED BY <1>11, <1>12

(* A post does what Rtos says. *)
LEMMA SemReleasedView ==
  ASSUME NEW k, KernelOK(k), LockersOK(k, Pair), NEW r, NEW s \in Sems,
         NEW all \in BOOLEAN, SemReleased(r, k, s, all)
  PROVE  SemOnly(r, k, s, SemAfterPost(k, s, all))
BY CountedView, ServedView DEF SemReleased

(* Scheduling is invisible. *)
LEMMA SameView ==
  ASSUME NEW k, NEW r, Same(r, k)
  PROVE  MView(r) = MView(k) /\ SView(r) = SView(k)
<1>1. \A o : WaitSet(r, o) = WaitSet(k, o) BY WaitsSame DEF Same
<1> QED BY <1>1 DEF Same, MView, SView, MutexAt, SemAt

(* A task that runs in Kernel may call a service in RtosClient. *)
LEMMA ClientRuns ==
  ASSUME KernelInv, LockersOK(os, Pair), NEW t \in AppTask, Running(t)
  PROVE  Client!Runs(t)
<1>0. /\ KernelOK(os) /\ os \in KernelState /\ t \in Task /\ Nothing \notin Object
      /\ Nothing \notin Mutexes
  BY Tasks, KernelAssumption DEF KernelInv, KernelOK, Object
<1>1. MostUrgent(os, t) /\ os.PendOn[t] = Nothing BY <1>0, RunningUrgent
<1>2. \A o \in Object : Waiting(o) = WaitSet(os, o) BY WaitingTasks
<1>3. os.PendOn \in [Task -> Object \cup {Nothing}] BY <1>0 DEF KernelState
<1>4. ASSUME NEW u \in Task PROVE Client!Ready(u) <=> os.PendOn[u] = Nothing
  <2>1. Client!Ready(u) <=> /\ \A m \in Mutexes : u \notin Waiting(m)
                            /\ \A s \in Sems : u \notin Waiting(s)
    BY DEF Client!Ready
  <2>2. \A o \in Object : u \in Waiting(o) <=> os.PendOn[u] = o BY <1>2 DEF WaitSet
  <2> QED BY <2>1, <2>2, <1>0, <1>3 DEF Object
<1>5. ASSUME NEW u \in AppTask, os.PendOn[u] = Nothing
      PROVE  Client!Prio[t] <= Client!Prio[u]
  <2>1. u \in Task /\ os.Prio[t] <= os.Prio[u]
    BY <1>1, <1>5, Tasks DEF MostUrgent, ReadySet
  <2>2. BasePrio[t] <= BasePrio[u] BY <2>1, <1>0, <1>1, <1>5, BaseOrder
  <2> QED BY <2>2, ClientTasks
<1>6. \A u \in AppTask : u \in Task BY Tasks
<1> QED BY <1>0, <1>1, <1>4, <1>5, <1>6, ClientTasks DEF Client!Runs

(* The refinement mapping in terms of what the abstract kernel sees. *)
LEMMA Mapping ==
  ASSUME KernelOK(os), KernelOK(os')
  PROVE  /\ [m \in Mutexes |-> [owner |-> os.Owner[m], nest |-> os.Nesting[m],
                                wait  |-> Waiting(m)]] = MView(os)
         /\ [s \in Sems |-> [ctr |-> os.Ctr[s], wait |-> Waiting(s)]] = SView(os)
         /\ [m \in Mutexes |-> [owner |-> os.Owner[m], nest |-> os.Nesting[m],
                                wait  |-> Waiting(m)]]' = MView(os')
         /\ [s \in Sems |-> [ctr |-> os.Ctr[s], wait |-> Waiting(s)]]' = SView(os')
<1>1. ClientMutexes(os) = MView(os) /\ ClientSems(os) = SView(os) BY MappedViews
<1>2. ClientMutexes(os') = MView(os') /\ ClientSems(os') = SView(os') BY MappedViews
<1> QED BY <1>1, <1>2 DEF ClientMutexes, ClientSems, Waiting

(* What RtosClient allows, of the views of two states. *)
LEMMA ClientSteps ==
  ASSUME KernelOK(os), KernelOK(os')
  PROVE  /\ \A t \in AppTask, m \in Mutexes :
              /\ Client!Runs(t)
              /\ \/ MView(os') = [MView(os) EXCEPT ![m] = Client!OSMutexPend(@, t)]
                 \/ MView(os') = [MView(os) EXCEPT ![m] = Client!OSMutexPost(@, t)]
              /\ SView(os') = SView(os)
              => Client!ClientNext
         /\ \A t \in AppTask, s \in Sems :
              /\ Client!Runs(t)
              /\ SView(os') = [SView(os) EXCEPT ![s] = Client!OSSemPend(@, t)]
              /\ MView(os') = MView(os)
              => Client!ClientNext
         /\ \A s \in Sems :
              /\ \/ SView(os') = [SView(os) EXCEPT ![s] = Client!OSSemPost1(@)]
                 \/ SView(os') = [SView(os) EXCEPT ![s] = Client!OSSemPostAll(@)]
              /\ MView(os') = MView(os)
              => Client!ClientNext
         /\ MView(os') = MView(os) /\ SView(os') = SView(os) => UNCHANGED Client!objects
<1> DEFINE M == [m \in Mutexes |-> [owner |-> os.Owner[m], nest |-> os.Nesting[m],
                                    wait  |-> Waiting(m)]]
           S == [s \in Sems |-> [ctr |-> os.Ctr[s], wait |-> Waiting(s)]]
<1>1. M = MView(os) /\ S = SView(os) /\ M' = MView(os') /\ S' = SView(os') BY Mapping
<1>2. DOMAIN M = Mutexes /\ DOMAIN S = Sems OBVIOUS
<1>3. Client!ClientNext <=>
        \/ \E t \in Client!Task : Client!Runs(t) /\ Client!Call(t)
        \/ \E s \in DOMAIN S : Client!PostSem(s)
  BY DEF Client!ClientNext
<1>4. \A t : Client!Call(t) <=>
        \/ \E m \in DOMAIN M :
             /\ \/ M' = [M EXCEPT ![m] = Client!OSMutexPend(@, t)]
                \/ M' = [M EXCEPT ![m] = Client!OSMutexPost(@, t)]
             /\ UNCHANGED S
        \/ \E s \in DOMAIN S :
             \/ S' = [S EXCEPT ![s] = Client!OSSemPend(@, t)] /\ UNCHANGED M
             \/ Client!PostSem(s)
  BY DEF Client!Call
<1>5. \A s : Client!PostSem(s) <=>
        /\ \/ S' = [S EXCEPT ![s] = Client!OSSemPost1(@)]
           \/ S' = [S EXCEPT ![s] = Client!OSSemPostAll(@)]
        /\ UNCHANGED M
  BY DEF Client!PostSem
<1>6. UNCHANGED Client!objects <=> M' = M /\ S' = S BY DEF Client!objects
<1> HIDE DEF M, S
<1>7. Client!Task = AppTask BY ClientTasks
<1> QED BY <1>1, <1>2, <1>3, <1>4, <1>5, <1>6, <1>7

(* A view shows each object. *)
LEMMA ViewAt ==
  ASSUME NEW k
  PROVE  /\ \A m \in Mutexes : MView(k)[m] = MutexAt(k, m)
         /\ \A s \in Sems : SView(k)[s] = SemAt(k, s)
BY DEF MView, SView

(* Every step of the kernel is a step of RtosClient or changes no object. *)
LEMMA StepRefines ==
  ASSUME LockInv, KernelInv', [Next]_vars, lockers \subseteq Pair
  PROVE  Client!ClientNext \/ UNCHANGED Client!objects
<1>0. KernelInv /\ KernelOK(os) /\ KernelOK(os') /\ LockersOK(os, lockers)
  BY DEF LockInv, KernelInv
<1>1. LockersOK(os, Pair) BY <1>0 DEF LockersOK
<1>2. \A t \in AppTask : Running(t) => Client!Runs(t) /\ os.PendOn[t] = Nothing
  <2> SUFFICES ASSUME NEW t \in AppTask, Running(t)
               PROVE  Client!Runs(t) /\ os.PendOn[t] = Nothing
    OBVIOUS
  <2>1. t \in Task BY Tasks
  <2> QED BY <2>1, <1>0, <1>1, ClientRuns, RunningUrgent
<1>3. CASE UNCHANGED vars
  <2>1. Same(os', os) BY <1>3 DEF vars, Same
  <2> QED BY <2>1, <1>0, SameView, ClientSteps
<1>4. ASSUME NEW t \in AppTask, NEW m \in Mutexes, Running(t), MutexTaken(os', os, t, m)
      PROVE  Client!ClientNext
  <2> DEFINE v == Client!OSMutexPend(MutexAt(os, m), t)
  <2>1. MutexOnly(os', os, m, v) BY <1>0, <1>2, <1>4, TakenView
  <2>2. MView(os') = [MView(os) EXCEPT ![m] = v] /\ SView(os') = SView(os)
    <3> HIDE DEF v
    <3> QED BY <2>1, MutexChanged
  <2>a. MView(os)[m] = MutexAt(os, m) BY ViewAt
  <2>3. MView(os') = [MView(os) EXCEPT ![m] = Client!OSMutexPend(@, t)]
    BY <2>2, <2>a
  <2>4. Client!Runs(t) BY <1>2, <1>4
  <2> QED BY <2>2, <2>3, <2>4, <1>0, ClientSteps
<1>5. ASSUME NEW t \in AppTask, NEW m \in Mutexes, Running(t), MutexReleased(os', os, t, m)
      PROVE  Client!ClientNext
  <2> DEFINE v == Client!OSMutexPost(MutexAt(os, m), t)
  <2>1. MutexOnly(os', os, m, v) BY <1>0, <1>1, <1>5, ReleasedView
  <2>2. MView(os') = [MView(os) EXCEPT ![m] = v] /\ SView(os') = SView(os)
    <3> HIDE DEF v
    <3> QED BY <2>1, MutexChanged
  <2>a. MView(os)[m] = MutexAt(os, m) BY ViewAt
  <2>3. MView(os') = [MView(os) EXCEPT ![m] = Client!OSMutexPost(@, t)]
    BY <2>2, <2>a
  <2>4. Client!Runs(t) BY <1>2, <1>5
  <2> QED BY <2>2, <2>3, <2>4, <1>0, ClientSteps
<1>6. ASSUME NEW t \in AppTask, NEW s \in Sems, Running(t), SemTaken(os', os, t, s)
      PROVE  Client!ClientNext
  <2> DEFINE v == Client!OSSemPend(SemAt(os, s), t)
  <2>1. SemOnly(os', os, s, v) BY <1>0, <1>2, <1>6, SemTakenView
  <2>2. SView(os') = [SView(os) EXCEPT ![s] = v] /\ MView(os') = MView(os)
    <3> HIDE DEF v
    <3> QED BY <2>1, SemChanged
  <2>a. SView(os)[s] = SemAt(os, s) BY ViewAt
  <2>3. SView(os') = [SView(os) EXCEPT ![s] = Client!OSSemPend(@, t)]
    BY <2>2, <2>a
  <2>4. Client!Runs(t) BY <1>2, <1>6
  <2> QED BY <2>2, <2>3, <2>4, <1>0, ClientSteps
<1>7. ASSUME NEW s \in Sems, NEW all \in BOOLEAN, SemReleased(os', os, s, all)
      PROVE  Client!ClientNext
  <2> DEFINE v == SemAfterPost(os, s, all)
  <2>1. SemOnly(os', os, s, v) BY <1>0, <1>1, <1>7, SemReleasedView
  <2>2. SView(os') = [SView(os) EXCEPT ![s] = v] /\ MView(os') = MView(os)
    <3> HIDE DEF v
    <3> QED BY <2>1, SemChanged
  <2>3. v = Client!OSSemPost1(SemAt(os, s)) \/ v = Client!OSSemPostAll(SemAt(os, s))
    BY DEF SemAfterPost
  <2>a. SView(os)[s] = SemAt(os, s) BY ViewAt
  <2> HIDE DEF v
  <2>4. \/ SView(os') = [SView(os) EXCEPT ![s] = Client!OSSemPost1(@)]
        \/ SView(os') = [SView(os) EXCEPT ![s] = Client!OSSemPostAll(@)]
    BY <2>2, <2>3, <2>a
  <2> QED BY <2>2, <2>4, <1>0, ClientSteps
<1>8. CASE Same(os', os) BY <1>8, <1>0, SameView, ClientSteps
<1>9. CASE Next BY <1>4, <1>5, <1>6, <1>7, <1>8, <1>9, <1>0, NextEffect
<1> QED BY <1>3, <1>9

(* The kernel starts as RtosClient does: nothing is owned, counted or        *)
(* waited for.                                                              *)
LEMMA InitRefines ==
  ASSUME Init
  PROVE  Client!ClientInit
<1>1. /\ os.Owner = [m \in Mutexes |-> NoTask] /\ os.Nesting = [m \in Mutexes |-> 0]
      /\ os.Ctr = [s \in Sems |-> 0] /\ os.PendList = [o \in Mutexes \cup Sems |-> <<>>]
  BY DEF Init
<1>2. \A o \in Object : Waiting(o) = {}
  <2> SUFFICES ASSUME NEW o \in Object PROVE Waiting(o) = {} OBVIOUS
  <2>1. os.PendList[o] = <<>> BY <1>1 DEF Object
  <2>2. ToSet(<<>>) = {} BY ListsNone, ListsToSet
  <2> QED BY <2>1, <2>2 DEF Waiting
<1>3. \A m \in Mutexes : os.Owner[m] = NoTask /\ os.Nesting[m] = 0 /\ Waiting(m) = {}
  BY <1>1, <1>2 DEF Object
<1>4. \A s \in Sems : os.Ctr[s] = 0 /\ Waiting(s) = {} BY <1>1, <1>2 DEF Object
<1>5. Client!NewMutex = [owner |-> NoTask, nest |-> 0, wait |-> {}]
  BY ClientTasks DEF Client!NewMutex
<1>6. Client!NewSem = [ctr |-> 0, wait |-> {}] BY DEF Client!NewSem
<1>7. [m \in Mutexes |-> [owner |-> os.Owner[m], nest |-> os.Nesting[m], wait |-> Waiting(m)]]
        = [m \in Mutexes |-> Client!NewMutex]
  BY <1>3, <1>5
<1>8. [s \in Sems |-> [ctr |-> os.Ctr[s], wait |-> Waiting(s)]]
        = [s \in Sems |-> Client!NewSem]
  BY <1>4, <1>6
<1> QED BY <1>7, <1>8 DEF Client!ClientInit

(* With the mutexes used by Task2 and Task3 only, as in main.c, the kernel   *)
(* with its lists, inherited priorities and deferred switches implements    *)
(* the services SecuritySystem is built on.                                 *)
THEOREM KernelImplementsRtos == Spec => ImplementsRtos
<1>1. Init => Client!ClientInit BY InitRefines
<1>2. LockInv /\ LockInv' /\ [Next]_vars =>
        [lockers \subseteq {"Task2", "Task3"} => Client!ClientNext]_(Client!objects)
  BY StepRefines DEF LockInv, Pair
<1> QED BY <1>1, <1>2, LockCorrect, PTL DEF Spec, ImplementsRtos
=============================================================================
