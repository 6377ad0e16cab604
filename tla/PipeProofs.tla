----------------------------- MODULE PipeProofs -----------------------------
(* Proofs about Pipe for any number of processes, any ring and any strings *)
(* and sizes: its invariants, and that it implements Channel although the  *)
(* counters wrap.                                                          *)
EXTENDS Pipe, FiniteSetTheorems, SequenceTheorems, TLAPS

-----------------------------------------------------------------------------
(* Arithmetic of counters modulo W that are reduced modulo P.              *)
LEMMA DivMod ==
  ASSUME NEW P \in Nat \ {0}, NEW x \in Int
  PROVE  /\ x \div P \in Int /\ x % P \in 0 .. P - 1
         /\ x = P * (x \div P) + (x % P)
  OBVIOUS

LEMMA ModIs ==
  ASSUME NEW P \in Nat \ {0}, NEW x \in Int, NEW q \in Int, NEW r \in 0 .. P - 1, x = P * q + r
  PROVE  x % P = r
  OBVIOUS

LEMMA ModSmall ==
  ASSUME NEW W \in Nat \ {0}, NEW x \in Int
  PROVE  /\ 0 <= x /\ x < W => x % W = x
         /\ W <= x /\ x < 2 * W => x % W = x - W
         /\ -W <= x /\ x < 0 => x % W = x + W
         /\ x % W \in 0 .. W - 1
  OBVIOUS

(* W is a multiple of P: a turn of the counter does not move the place. *)
LEMMA ModTurn ==
  ASSUME NEW P \in Nat \ {0}, NEW W \in Nat \ {0}, W % P = 0, NEW x \in Int
  PROVE  (x + W) % P = x % P
<1> DEFINE m == W \div P
           q == x \div P
           r == x % P
<1>1. m \in Int /\ W = P * m
  BY DivMod
<1>2. q \in Int /\ r \in 0 .. P - 1 /\ x = P * q + r
  BY DivMod
<1> HIDE DEF m, q, r
<1>3. P * (q + m) = P * q + P * m /\ q + m \in Int
  BY <1>1, <1>2
<1>4. x + W = P * (q + m) + r
  BY <1>1, <1>2, <1>3
<1>5. (x + W) % P = r
  BY <1>2, <1>3, <1>4, ModIs
<1> QED
  BY <1>5 DEF r

LEMMA ModApart ==
  ASSUME NEW P \in Nat \ {0}, NEW x \in Int, NEW a \in 0 .. P - 1, NEW b \in 0 .. P - 1,
         (x + a) % P = (x + b) % P
  PROVE  a = b
<1> DEFINE f == (x + a) \div P
           g == (x + b) \div P
           r == (x + a) % P
<1>1. f \in Int /\ r \in 0 .. P - 1 /\ x + a = P * f + r
  BY DivMod
<1>2. g \in Int /\ x + b = P * g + r
  <2>1. x + b \in Int /\ (x + b) % P = r
    OBVIOUS
  <2>2. (x + b) \div P \in Int /\ x + b = P * ((x + b) \div P) + ((x + b) % P)
    BY <2>1, DivMod
  <2> QED
    BY <2>1, <2>2
<1> HIDE DEF f, g, r
<1>3. P * f \in Int /\ P * g \in Int /\ P * (f - g) = P * f - P * g
  BY <1>1, <1>2
<1> DEFINE d == f - g
<1>4. a - b = P * d /\ d \in Int
  BY <1>1, <1>2, <1>3
<1>5. d >= 1 => P * d >= P
  BY <1>4
<1>6. d <= -1 => P * d <= -P
  BY <1>4
<1> HIDE DEF d
<1>7. d = 0
  <2> DEFINE e == P * d
  <2>1. a - b = e /\ (d >= 1 => e >= P) /\ (d <= -1 => e <= -P)
    BY <1>4, <1>5, <1>6
  <2> HIDE DEF e
  <2> QED
    BY <2>1, <1>4
<1>8. P * 0 = 0
  OBVIOUS
<1> QED
  BY <1>4, <1>7, <1>8

-----------------------------------------------------------------------------
(* The counters move by what is written and read. *)
LEMMA CountersMove ==
  ASSUME NEW W \in Nat \ {0}, NEW n \in 0 .. W - 1, NEW w \in 0 .. W - 1, NEW u \in Nat,
         u = (w - n) % W
  PROVE  u \in 0 .. W - 1 /\ w = (IF n + u < W THEN n + u ELSE n + u - W)
<1> DEFINE m(x) == x % W
<1>1. \A x \in Int : /\ 0 <= x /\ x < W => m(x) = x
                     /\ -W <= x /\ x < 0 => m(x) = x + W
  BY ModSmall
<1>2. u = m(w - n)
  OBVIOUS
<1> HIDE DEF m
<1>3. u = IF n <= w THEN w - n ELSE w - n + W
  BY <1>1, <1>2
<1> QED
  BY <1>3

(* The u bytes of a ring d from the counter n on. *)
Ring(n, d, u) == [i \in 1 .. u |-> d[(n + i - 1) % PIPESIZE]]

LEMMA Sizes0 == PIPESIZE \in Nat \ {0} /\ WRAP \in Nat \ {0} /\ WRAP % PIPESIZE = 0 /\ PIPESIZE < WRAP
  BY PipeAssumption

(* The byte i of a write lands behind the u bytes that are there. *)
LEMMA WritePlace ==
  ASSUME NEW n \in 0 .. WRAP - 1, NEW w \in 0 .. WRAP - 1, NEW u \in Nat, u = (w - n) % WRAP, NEW i \in Int
  PROVE  (w + i - 1) % PIPESIZE = (n + (u + i) - 1) % PIPESIZE
<1>1. w = n + u \/ w = n + u - WRAP
  BY Sizes0, CountersMove
<1>2. CASE w = n + u
  <2>1. w + i - 1 = n + (u + i) - 1
    BY <1>2
  <2> QED
    BY <2>1
<1>3. CASE w = n + u - WRAP
  <2>1. (w + i - 1) + WRAP = n + (u + i) - 1 /\ w + i - 1 \in Int
    BY <1>3, Sizes0
  <2>2. ((w + i - 1) + WRAP) % PIPESIZE = (w + i - 1) % PIPESIZE
    BY <2>1, Sizes0, ModTurn
  <2> QED
    BY <2>1, <2>2
<1> QED
  BY <1>1, <1>2, <1>3

LEMMA ModSum ==
  ASSUME NEW W \in Nat \ {0}, NEW n \in 0 .. W - 1, NEW k \in 0 .. W - 1
  PROVE  /\ (n + k) % W = n + k \/ (n + k) % W = n + k - W
         /\ (n + k) % W \in 0 .. W - 1
<1> DEFINE m(x) == x % W
<1>1. \A x \in Int : /\ 0 <= x /\ x < W => m(x) = x
                     /\ W <= x /\ x < 2 * W => m(x) = x - W
                     /\ m(x) \in 0 .. W - 1
  BY ModSmall
<1> HIDE DEF m
<1>2. n + k \in Int /\ 0 <= n + k /\ n + k < 2 * W
  OBVIOUS
<1>3. (m(n + k) = n + k \/ m(n + k) = n + k - W) /\ m(n + k) \in 0 .. W - 1
  BY <1>1, <1>2
<1> QED
  BY <1>3 DEF m

(* The first byte to read after k of them moves k places on. *)
LEMMA ReadPlace ==
  ASSUME NEW n \in 0 .. WRAP - 1, NEW k \in 0 .. WRAP - 1, NEW i \in Int
  PROVE  (((n + k) % WRAP) + i - 1) % PIPESIZE = (n + (k + i) - 1) % PIPESIZE
<1> DEFINE v == (n + k) % WRAP
<1>1. (v = n + k \/ v = n + k - WRAP) /\ v \in 0 .. WRAP - 1
  BY Sizes0, ModSum
<1> HIDE DEF v
<1>2. CASE v = n + k
  <2>1. v + i - 1 = n + (k + i) - 1
    BY <1>2
  <2> QED
    BY <2>1 DEF v
<1>3. CASE v = n + k - WRAP
  <2>1. (v + i - 1) + WRAP = n + (k + i) - 1 /\ v + i - 1 \in Int
    BY <1>1, <1>3, Sizes0
  <2>2. ((v + i - 1) + WRAP) % PIPESIZE = (v + i - 1) % PIPESIZE
    BY <2>1, Sizes0, ModTurn
  <2> QED
    BY <2>1, <2>2 DEF v
<1> QED
  BY <1>1, <1>2, <1>3

(* Two bytes less than PIPESIZE apart have two places. *)
LEMMA PlacesApart ==
  ASSUME NEW n \in Int, NEW i \in 1 .. PIPESIZE, NEW j \in 1 .. PIPESIZE,
         (n + i - 1) % PIPESIZE = (n + j - 1) % PIPESIZE
  PROVE  i = j
<1>1. n + i - 1 = n + (i - 1) /\ n + j - 1 = n + (j - 1)
  OBVIOUS
<1>2. i - 1 \in 0 .. PIPESIZE - 1 /\ j - 1 \in 0 .. PIPESIZE - 1
  BY Sizes0
<1>3. i - 1 = j - 1
  BY <1>1, <1>2, Sizes0, ModApart
<1> QED
  BY <1>3

LEMMA Appended ==
  ASSUME NEW S, NEW new \in Seq(S), NEW old \in Seq(S), NEW add \in Seq(S),
         Len(new) = Len(old) + Len(add),
         \A i \in 1 .. Len(old) : new[i] = old[i],
         \A i \in 1 .. Len(add) : new[Len(old) + i] = add[i]
  PROVE  new = old \o add
<1>1. Len(old) \in Nat /\ Len(add) \in Nat
  BY LenProperties
<1>2. /\ old \o add \in Seq(S) /\ Len(old \o add) = Len(old) + Len(add)
      /\ \A i \in 1 .. Len(old) + Len(add) :
           (old \o add)[i] = IF i <= Len(old) THEN old[i] ELSE add[i - Len(old)]
  BY ConcatProperties
<1>3. ASSUME NEW i \in 1 .. Len(new) PROVE new[i] = (old \o add)[i]
  <2>0. i \in 1 .. Len(old) + Len(add)
    OBVIOUS
  <2>1. CASE i <= Len(old)
    BY <1>1, <1>2, <2>0, <2>1
  <2>2. CASE ~(i <= Len(old))
    <3>1. i - Len(old) \in 1 .. Len(add) /\ Len(old) + (i - Len(old)) = i
      BY <1>1, <2>0, <2>2
    <3>2. new[Len(old) + (i - Len(old))] = add[i - Len(old)]
      BY <3>1
    <3> QED
      BY <1>2, <2>0, <2>2, <3>1, <3>2
  <2> QED
    BY <2>1, <2>2
<1> QED
  BY <1>2, <1>3, SeqEqual

(* Sequences that a ring d holds at the places pl.                          *)
LEMMA HeldType ==
  ASSUME NEW P \in Nat \ {0}, NEW B, NEW pl \in [1 .. P -> 0 .. P - 1],
         NEW d \in [0 .. P - 1 -> B], NEW u \in 0 .. P
  PROVE  [i \in 1 .. u |-> d[pl[i]]] \in Seq(B) /\ Len([i \in 1 .. u |-> d[pl[i]]]) = u
<1>1. \A i \in 1 .. u : d[pl[i]] \in B
  OBVIOUS
<1>2. [i \in 1 .. u |-> d[pl[i]]] \in [1 .. u -> B]
  BY <1>1
<1> QED
  BY <1>2

(* The places of the bytes behind the counter n. *)
Places(n) == [i \in 1 .. PIPESIZE |-> (n + i - 1) % PIPESIZE]

LEMMA PlacesType ==
  ASSUME NEW n \in Int
  PROVE  /\ Places(n) \in [1 .. PIPESIZE -> 0 .. PIPESIZE - 1]
         /\ \A i, j \in 1 .. PIPESIZE : Places(n)[i] = Places(n)[j] => i = j
         /\ \A i \in 1 .. PIPESIZE : Places(n)[i] = (n + i - 1) % PIPESIZE
<1> DEFINE m(x) == x % PIPESIZE
<1>1. \A x \in Int : m(x) \in 0 .. PIPESIZE - 1
  BY Sizes0, ModSmall
<1>2. \A i, j \in 1 .. PIPESIZE : m(n + i - 1) = m(n + j - 1) => i = j
  BY PlacesApart
<1>3. Places(n) = [i \in 1 .. PIPESIZE |-> m(n + i - 1)]
  BY DEF Places
<1>4. PIPESIZE \in Nat
  BY Sizes0
<1> HIDE DEF m
<1>5. \A i \in 1 .. PIPESIZE : m(n + i - 1) \in 0 .. PIPESIZE - 1
  BY <1>1, <1>4
<1>6. \A i \in 1 .. PIPESIZE : Places(n)[i] = m(n + i - 1)
  BY <1>3
<1>7. Places(n) \in [1 .. PIPESIZE -> 0 .. PIPESIZE - 1]
  BY <1>3, <1>5
<1>8. \A i, j \in 1 .. PIPESIZE : Places(n)[i] = Places(n)[j] => i = j
  BY <1>2, <1>6
<1> QED
  BY <1>6, <1>7, <1>8 DEF m

LEMMA Size1 == PIPESIZE \in Nat \ {0}
  BY Sizes0

LEMMA RingType ==
  ASSUME NEW n \in Int, NEW u \in 0 .. PIPESIZE, NEW d \in [0 .. PIPESIZE - 1 -> Byte]
  PROVE  /\ Ring(n, d, u) = [i \in 1 .. u |-> d[Places(n)[i]]]
         /\ Ring(n, d, u) \in Seq(Byte) /\ Len(Ring(n, d, u)) = u
<1>1. Ring(n, d, u) = [i \in 1 .. u |-> d[Places(n)[i]]]
  <2>1. 1 .. u \subseteq 1 .. PIPESIZE
    BY Sizes0
  <2>2. \A i \in 1 .. u : Places(n)[i] = (n + i - 1) % PIPESIZE
    BY <2>1, PlacesType
  <2> QED
    BY <2>2 DEF Ring
<1> DEFINE pl == Places(n)
<1>2. pl \in [1 .. PIPESIZE -> 0 .. PIPESIZE - 1]
  BY PlacesType
<1> HIDE DEF pl
<1>3. /\ [i \in 1 .. u |-> d[pl[i]]] \in Seq(Byte)
      /\ Len([i \in 1 .. u |-> d[pl[i]]]) = u
  BY <1>2, Size1, HeldType
<1> QED
  BY <1>1, <1>3 DEF pl

(* The counters n and w have u bytes between them. *)
Between(n, w, u) == u = (w - n) % WRAP

(* The ring e is d after k bytes of s were copied into it from w on. *)
Copies(d, e, w, s, k) ==
  e = [j \in DOMAIN d |->
         IF \E i \in 1 .. k : j = (w + i - 1) % PIPESIZE
         THEN s[CHOOSE i \in 1 .. k : j = (w + i - 1) % PIPESIZE] ELSE d[j]]

LEMMA CopyPlaces ==
  ASSUME NEW n \in 0 .. WRAP - 1, NEW w \in 0 .. WRAP - 1, NEW u \in Nat, Between(n, w, u),
         NEW k \in Nat, u + k <= PIPESIZE
  PROVE  \A i \in 1 .. k : (w + i - 1) % PIPESIZE = Places(n)[u + i]
<1> SUFFICES ASSUME NEW i \in 1 .. k PROVE (w + i - 1) % PIPESIZE = Places(n)[u + i]
  OBVIOUS
<1>1. PIPESIZE \in Nat
  BY Size1
<1>2. i \in Int /\ u + i \in 1 .. PIPESIZE
  BY <1>1
<1>3. n \in Int
  BY Sizes0
<1>4. (w + i - 1) % PIPESIZE = (n + (u + i) - 1) % PIPESIZE
  BY <1>2, WritePlace DEF Between
<1>5. Places(n)[u + i] = (n + (u + i) - 1) % PIPESIZE
  BY <1>2, <1>3, PlacesType
<1> QED
  BY <1>4, <1>5

(* at lists the places of the k bytes from the counter w on. *)
Lists(at, w, k) == \A i \in 1 .. k : (w + i - 1) % PIPESIZE = at[i]

(* The ring e has the k bytes of s at the places at, and is d elsewhere. *)
Placed(d, e, at, s, k) ==
  /\ e = [j \in 0 .. PIPESIZE - 1 |-> e[j]]
  /\ \A j \in 0 .. PIPESIZE - 1 : \/ \E i \in 1 .. k : j = at[i] /\ e[j] = s[i]
                                  \/ (\A i \in 1 .. k : j # at[i]) /\ e[j] = d[j]

LEMMA CopyWhere ==
  ASSUME NEW d \in [0 .. PIPESIZE - 1 -> Byte], NEW e, NEW w, NEW s, NEW k \in Nat, NEW at,
         Lists(at, w, k), Copies(d, e, w, s, k)
  PROVE  Placed(d, e, at, s, k)
<1> DEFINE m(i) == (w + i - 1) % PIPESIZE
           pick(j) == CHOOSE i \in 1 .. k : j = m(i)
<1>1. \A i \in 1 .. k : m(i) = at[i]
  BY DEF Lists
<1>2. DOMAIN d = 0 .. PIPESIZE - 1
  OBVIOUS
<1>3. e = [j \in 0 .. PIPESIZE - 1 |-> IF \E i \in 1 .. k : j = m(i) THEN s[pick(j)] ELSE d[j]]
  BY <1>2 DEF Copies
<1>4. \A j : (\E i \in 1 .. k : j = m(i)) => pick(j) \in 1 .. k /\ j = m(pick(j))
  OBVIOUS
<1> HIDE DEF m, pick
<1>5. \A j \in 0 .. PIPESIZE - 1 : e[j] = IF \E i \in 1 .. k : j = m(i) THEN s[pick(j)] ELSE d[j]
  BY <1>3
<1>6. e = [j \in 0 .. PIPESIZE - 1 |-> e[j]]
  BY <1>3
<1>7. ASSUME NEW j \in 0 .. PIPESIZE - 1
      PROVE  \/ \E i \in 1 .. k : j = at[i] /\ e[j] = s[i]
             \/ (\A i \in 1 .. k : j # at[i]) /\ e[j] = d[j]
  <2>1. CASE \E i \in 1 .. k : j = m(i)
    <3>1. pick(j) \in 1 .. k /\ j = at[pick(j)] /\ e[j] = s[pick(j)]
      BY <1>1, <1>4, <1>5, <2>1
    <3> QED
      BY <3>1
  <2>2. CASE ~(\E i \in 1 .. k : j = m(i))
    BY <1>1, <1>5, <2>2
  <2> QED
    BY <2>1, <2>2
<1> QED
  BY <1>6, <1>7 DEF Placed

(* Copying k bytes of s behind the u that are there appends them. *)
LEMMA RingWrite ==
  ASSUME NEW n \in 0 .. WRAP - 1, NEW w \in 0 .. WRAP - 1, NEW u \in Nat, Between(n, w, u),
         NEW d \in [0 .. PIPESIZE - 1 -> Byte], NEW s \in Seq(Byte), NEW k \in 0 .. Len(s),
         u + k <= PIPESIZE, NEW e, Copies(d, e, w, s, k)
  PROVE  /\ e \in [0 .. PIPESIZE - 1 -> Byte]
         /\ Ring(n, e, u + k) = Ring(n, d, u) \o SubSeq(s, 1, k)
<1> DEFINE P == PIPESIZE
           pl == Places(n)
           at == [i \in 1 .. k |-> pl[u + i]]
<1>1. Len(s) \in Nat /\ k \in Nat /\ n \in Int
  BY Sizes0, LenProperties
<1>2. P \in Nat \ {0} /\ u + k <= P /\ u + k \in 0 .. P /\ u \in 0 .. P
  BY <1>1, Size1
<1>3. Lists(at, w, k)
  BY <1>1, CopyPlaces DEF Lists
<1>4. \A i \in 1 .. k : at[i] = pl[u + i]
  OBVIOUS
<1> HIDE DEF at
<1>5. /\ e = [j \in 0 .. P - 1 |-> e[j]]
      /\ \A j \in 0 .. P - 1 : \/ \E i \in 1 .. k : j = at[i] /\ e[j] = s[i]
                               \/ (\A i \in 1 .. k : j # at[i]) /\ e[j] = d[j]
  <2> HIDE DEF pl
  <2>1. Placed(d, e, at, s, k)
    BY <1>1, <1>3, CopyWhere
  <2> QED
    BY <2>1 DEF Placed
<1>6. /\ pl \in [1 .. P -> 0 .. P - 1]
      /\ \A i, j \in 1 .. P : pl[i] = pl[j] => i = j
  BY <1>1, PlacesType
<1>7. \A i \in 1 .. k : s[i] \in Byte
  BY <1>1, ElementOfSeq
<1>8. d \in [0 .. P - 1 -> Byte]
  OBVIOUS
<1> HIDE DEF pl, P
<1>9. e \in [0 .. P - 1 -> Byte]
  <2>1. \A j \in 0 .. P - 1 : e[j] \in Byte
    BY <1>5, <1>7, <1>8
  <2> QED
    BY <1>5, <2>1
<1>10. ASSUME NEW i \in 1 .. u PROVE e[pl[i]] = d[pl[i]]
  <2>1. i \in 1 .. P /\ pl[i] \in 0 .. P - 1
    BY <1>2, <1>6
  <2>2. ASSUME NEW h \in 1 .. k PROVE pl[i] # at[h]
    <3>1. u + h \in 1 .. P /\ u + h # i
      BY <1>2
    <3> QED
      BY <1>4, <1>6, <2>1, <3>1
  <2> QED
    BY <1>5, <2>1, <2>2
<1>11. ASSUME NEW i \in 1 .. k PROVE e[pl[u + i]] = s[i]
  <2>1. u + i \in 1 .. P /\ pl[u + i] \in 0 .. P - 1
    BY <1>1, <1>2, <1>6
  <2>2. pl[u + i] = at[i]
    BY <1>4
  <2>3. PICK h \in 1 .. k : pl[u + i] = at[h] /\ e[pl[u + i]] = s[h]
    BY <1>5, <2>1, <2>2
  <2>4. u + h \in 1 .. P
    BY <1>1, <1>2
  <2>5. u + i = u + h
    BY <1>4, <1>6, <2>1, <2>3, <2>4
  <2>6. i = h
    BY <1>1, <2>5
  <2> QED
    BY <2>3, <2>6
<1> DEFINE new == Ring(n, e, u + k)
           old == Ring(n, d, u)
           add == SubSeq(s, 1, k)
<1>12. /\ old = [i \in 1 .. u |-> d[pl[i]]]
       /\ old \in Seq(Byte) /\ Len(old) = u
  BY <1>1, <1>2, RingType DEF pl, P
<1>13. /\ new = [i \in 1 .. u + k |-> e[pl[i]]]
       /\ new \in Seq(Byte) /\ Len(new) = u + k
  BY <1>1, <1>2, <1>9, RingType DEF pl, P
<1>14. add \in Seq(Byte) /\ Len(add) = k /\ \A i \in 1 .. k : add[i] = s[i]
  BY <1>1, <1>7, SubSeqProperties
<1> HIDE DEF new, old, add
<1>15. \A i \in 1 .. Len(old) : new[i] = old[i]
  <2>1. 1 .. u \subseteq 1 .. u + k
    BY <1>1
  <2> QED
    BY <1>10, <1>12, <1>13, <2>1
<1>16. \A i \in 1 .. Len(add) : new[Len(old) + i] = add[i]
  <2> SUFFICES ASSUME NEW i \in 1 .. k PROVE new[u + i] = add[i]
    BY <1>12, <1>14
  <2>1. u + i \in 1 .. u + k
    BY <1>1
  <2> QED
    BY <1>11, <1>13, <1>14, <2>1
<1>17. new \in Seq(Byte) /\ old \in Seq(Byte) /\ add \in Seq(Byte) /\ Len(new) = Len(old) + Len(add)
  BY <1>12, <1>13, <1>14
<1>18. new = old \o add
  BY <1>15, <1>16, <1>17, Appended
<1> QED
  BY <1>9, <1>18 DEF new, old, add, P

(* Reading k bytes takes them from the front. *)
LEMMA RingRead ==
  ASSUME NEW n \in 0 .. WRAP - 1, NEW u \in 0 .. PIPESIZE, NEW k \in 0 .. u,
         NEW d \in [0 .. PIPESIZE - 1 -> Byte]
  PROVE  /\ Ring((n + k) % WRAP, d, u - k) = SubSeq(Ring(n, d, u), k + 1, u)
         /\ Ring(n, d, k) = SubSeq(Ring(n, d, u), 1, k)
<1> DEFINE v == (n + k) % WRAP
           old == Ring(n, d, u)
           left == Ring(v, d, u - k)
           got == Ring(n, d, k)
<1>0. /\ k \in 0 .. WRAP - 1 /\ k \in Nat /\ u \in Nat /\ u - k \in Nat /\ n \in Int
      /\ k \in 0 .. PIPESIZE /\ u - k \in 0 .. PIPESIZE
  BY Sizes0
<1>1. v \in 0 .. WRAP - 1
  BY <1>0, Sizes0, ModSum
<1>2. \A i \in 1 .. u - k : left[i] = old[k + i]
  <2> SUFFICES ASSUME NEW i \in 1 .. u - k PROVE left[i] = old[k + i]
    OBVIOUS
  <2>1. left[i] = d[(v + i - 1) % PIPESIZE]
    BY DEF Ring
  <2>2. k + i \in 1 .. u /\ i \in Int
    BY <1>0
  <2>3. old[k + i] = d[(n + (k + i) - 1) % PIPESIZE]
    BY <2>2 DEF Ring
  <2>4. (v + i - 1) % PIPESIZE = (n + (k + i) - 1) % PIPESIZE
    BY <1>0, <2>2, ReadPlace
  <2> QED
    BY <2>1, <2>3, <2>4
<1>3. \A i \in 1 .. k : got[i] = old[i]
  <2>1. 1 .. k \subseteq 1 .. u
    BY <1>0
  <2> QED
    BY <2>1 DEF Ring
<1>4. /\ old \in Seq(Byte) /\ Len(old) = u
      /\ left \in Seq(Byte) /\ Len(left) = u - k
      /\ got \in Seq(Byte) /\ Len(got) = k
  <2>1. v \in Int
    BY <1>1, Sizes0
  <2> QED
    BY <1>0, <2>1, RingType
<1> HIDE DEF v, old, left, got
<1>5. \A i \in 1 .. u : old[i] \in Byte
  BY <1>0, <1>4, ElementOfSeq
<1>6. left = SubSeq(old, k + 1, u)
  <2> DEFINE t == SubSeq(old, k + 1, u)
  <2>1. /\ t \in Seq(Byte) /\ Len(t) = IF k + 1 <= u THEN u - (k + 1) + 1 ELSE 0
        /\ \A i \in 1 .. u - (k + 1) + 1 : t[i] = old[(k + 1) + i - 1]
    <3>1. \A i \in k + 1 .. u : old[i] \in Byte
      BY <1>0, <1>5
    <3> QED
      BY <1>0, <3>1, SubSeqProperties
  <2> HIDE DEF t
  <2>2. Len(t) = u - k
    BY <1>0, <2>1
  <2>3. \A i \in 1 .. u - k : t[i] = old[k + i]
    <3> SUFFICES ASSUME NEW i \in 1 .. u - k PROVE t[i] = old[k + i]
      OBVIOUS
    <3>1. i \in 1 .. u - (k + 1) + 1 /\ (k + 1) + i - 1 = k + i
      BY <1>0
    <3> QED
      BY <2>1, <3>1
  <2>4. Len(left) = Len(t) /\ \A i \in 1 .. Len(left) : left[i] = t[i]
    BY <1>2, <1>4, <2>2, <2>3
  <2>5. left = t
    BY <1>4, <2>1, <2>4, SeqEqual
  <2> QED
    BY <2>5 DEF t
<1>7. got = SubSeq(old, 1, k)
  <2> DEFINE t == SubSeq(old, 1, k)
  <2>1. /\ t \in Seq(Byte) /\ Len(t) = IF 1 <= k THEN k - 1 + 1 ELSE 0
        /\ \A i \in 1 .. k - 1 + 1 : t[i] = old[1 + i - 1]
    <3>1. \A i \in 1 .. k : old[i] \in Byte
      BY <1>0, <1>5
    <3> QED
      BY <1>0, <3>1, SubSeqProperties
  <2> HIDE DEF t
  <2>2. Len(t) = k
    BY <1>0, <2>1
  <2>3. \A i \in 1 .. k : t[i] = old[i]
    <3> SUFFICES ASSUME NEW i \in 1 .. k PROVE t[i] = old[i]
      OBVIOUS
    <3>1. i \in 1 .. k - 1 + 1 /\ 1 + i - 1 = i
      BY <1>0
    <3> QED
      BY <2>1, <3>1
  <2>4. Len(got) = Len(t) /\ \A i \in 1 .. Len(got) : got[i] = t[i]
    BY <1>3, <1>4, <2>2, <2>3
  <2>5. got = t
    BY <1>4, <2>1, <2>4, SeqEqual
  <2> QED
    BY <2>5 DEF t
<1> QED
  BY <1>6, <1>7 DEF v, old, left, got

-----------------------------------------------------------------------------
(* The inductive invariant. *)
Types ==
  /\ data \in [0 .. PIPESIZE - 1 -> Byte]
  /\ nread \in 0 .. WRAP - 1 /\ nwrite \in 0 .. WRAP - 1
  /\ open \subseteq Ends /\ freed \in BOOLEAN /\ quiet \in BOOLEAN
  /\ ref \in [Ends -> Int] /\ fds \in [Procs -> SUBSET Ends]
  /\ call \in [Procs -> {"none", "read", "write"}]
  /\ todo \in [Procs -> Seq(Byte)]
  /\ chan \in [Procs -> {"none", "nread", "nwrite"}]
  /\ killed \subseteq Procs

InBounds == Used <= PIPESIZE

Holders(e) == {p \in Procs : e \in fds[p]}

(* ref counts the holders of an end, and the end is open while there are some. *)
RefsCount ==
  /\ \A e \in Ends : ref[e] = Cardinality(Holders(e)) /\ (e \in open <=> ref[e] # 0)
  /\ freed <=> open = {}

(* A call in progress holds the end it works on. *)
CallsHold ==
  \A p \in Procs :
    /\ call[p] = "none" => chan[p] = "none" /\ todo[p] = <<>>
    /\ call[p] = "read" => "r" \in fds[p] /\ todo[p] = <<>>
    /\ call[p] = "write" => "w" \in fds[p]

PInv == Types /\ InBounds /\ RefsCount /\ CallsHold /\ SleepersWait

LEMMA UsedIs ==
  ASSUME Types
  PROVE  /\ Used \in 0 .. WRAP - 1 /\ Between(nread, nwrite, Used)
         /\ Used = 0 <=> nread = nwrite
<1>1. nread \in 0 .. WRAP - 1 /\ nwrite \in 0 .. WRAP - 1 /\ WRAP \in Nat \ {0}
  BY Sizes0 DEF Types
<1>2. Between(nread, nwrite, Used)
  BY DEF Between, Used
<1>3. Used \in 0 .. WRAP - 1
  BY <1>1, ModSmall DEF Used
<1>4. nwrite = (IF nread + Used < WRAP THEN nread + Used ELSE nread + Used - WRAP)
  BY <1>1, <1>2, <1>3, CountersMove DEF Between
<1>5. Used = 0 <=> nread = nwrite
  BY <1>1, <1>3, <1>4
<1> QED
  BY <1>2, <1>3, <1>5

Turned(c, k) == (c + k) % WRAP

LEMMA Moves ==
  ASSUME NEW n \in 0 .. WRAP - 1, NEW w \in 0 .. WRAP - 1, NEW u \in Nat, Between(n, w, u), NEW k \in Nat
  PROVE  /\ u + k < WRAP => Turned(w, k) \in 0 .. WRAP - 1 /\ Between(n, Turned(w, k), u + k)
         /\ k <= u => Turned(n, k) \in 0 .. WRAP - 1 /\ Between(Turned(n, k), w, u - k)
<1> DEFINE m(x) == x % WRAP
<1>0. WRAP \in Nat \ {0}
  BY Sizes0
<1>1. \A x \in Int : /\ 0 <= x /\ x < WRAP => m(x) = x
                     /\ WRAP <= x /\ x < 2 * WRAP => m(x) = x - WRAP
                     /\ -WRAP <= x /\ x < 0 => m(x) = x + WRAP
                     /\ m(x) \in 0 .. WRAP - 1
  BY <1>0, ModSmall
<1>2. /\ \A a, b, c : Between(a, b, c) <=> c = m(b - a)
      /\ \A a, b : Turned(a, b) = m(a + b)
  BY DEF Between, Turned
<1> HIDE DEF m
<1>3. u \in 0 .. WRAP - 1 /\ w = (IF n + u < WRAP THEN n + u ELSE n + u - WRAP)
  <2>1. u = IF n <= w THEN w - n ELSE w - n + WRAP
    BY <1>0, <1>1, <1>2
  <2> QED
    BY <1>0, <2>1
<1>4. ASSUME u + k < WRAP PROVE m(w + k) \in 0 .. WRAP - 1 /\ m(m(w + k) - n) = u + k
  <2>1. m(w + k) = IF w + k < WRAP THEN w + k ELSE w + k - WRAP
    BY <1>0, <1>1, <1>3, <1>4
  <2>2. m(w + k) - n = (IF n <= m(w + k) THEN u + k ELSE u + k - WRAP) /\ m(w + k) \in 0 .. WRAP - 1
    BY <1>0, <1>3, <1>4, <2>1
  <2> QED
    BY <1>0, <1>1, <1>3, <1>4, <2>2
<1>5. ASSUME k <= u PROVE m(n + k) \in 0 .. WRAP - 1 /\ m(w - m(n + k)) = u - k
  <2>1. m(n + k) = IF n + k < WRAP THEN n + k ELSE n + k - WRAP
    BY <1>0, <1>1, <1>3, <1>5
  <2>2. w - m(n + k) = (IF m(n + k) <= w THEN u - k ELSE u - k - WRAP) /\ m(n + k) \in 0 .. WRAP - 1
    BY <1>0, <1>3, <1>5, <2>1
  <2> QED
    BY <1>0, <1>1, <1>3, <1>5, <2>2
<1> QED
  BY <1>2, <1>4, <1>5

(* What Copied does to the pipe. *)
LEMMA WriteStep ==
  ASSUME Types, InBounds, NEW s \in Seq(Byte), NEW k \in 0 .. Len(s), k <= Room,
         Copied(s, k), nread' = nread
  PROVE  /\ data' \in [0 .. PIPESIZE - 1 -> Byte] /\ nwrite' \in 0 .. WRAP - 1
         /\ Used' = Used + k
         /\ Contents' = Contents \o SubSeq(s, 1, k)
<1>1. /\ nread \in 0 .. WRAP - 1 /\ nwrite \in 0 .. WRAP - 1
      /\ data \in [0 .. PIPESIZE - 1 -> Byte]
      /\ Used \in Nat /\ Between(nread, nwrite, Used)
  BY UsedIs, Sizes0 DEF Types
<1>2. k \in Nat /\ Used + k <= PIPESIZE /\ Used + k < WRAP
  BY <1>1, LenProperties, Sizes0 DEF Room
<1>3. Copies(data, data', nwrite, s, k) /\ nwrite' = Turned(nwrite, k)
  BY DEF Copied, Copies, Turned
<1>4. /\ data' \in [0 .. PIPESIZE - 1 -> Byte]
      /\ Ring(nread, data', Used + k) = Ring(nread, data, Used) \o SubSeq(s, 1, k)
  <2> DEFINE n == nread  w == nwrite  d == data  e == data'  u == Used
  <2>1. /\ n \in 0 .. WRAP - 1 /\ w \in 0 .. WRAP - 1 /\ d \in [0 .. PIPESIZE - 1 -> Byte]
        /\ u \in Nat /\ Between(n, w, u) /\ u + k <= PIPESIZE /\ Copies(d, e, w, s, k)
    BY <1>1, <1>2, <1>3
  <2> HIDE DEF n, w, d, e, u
  <2>2. e \in [0 .. PIPESIZE - 1 -> Byte] /\ Ring(n, e, u + k) = Ring(n, d, u) \o SubSeq(s, 1, k)
    BY <2>1, RingWrite
  <2> QED
    BY <2>2 DEF n, d, e, u
<1>5. nwrite' \in 0 .. WRAP - 1 /\ Between(nread, nwrite', Used + k)
  BY <1>1, <1>2, <1>3, Moves
<1>6. Used' = Used + k
  <2> DEFINE u == Used + k
  <2>1. Between(nread, nwrite', u)
    BY <1>5
  <2> HIDE DEF u
  <2>2. Used' = u
    BY <2>1 DEF Used, Between
  <2> QED
    BY <2>2 DEF u
<1>7. Contents = Ring(nread, data, Used) /\ Contents' = Ring(nread, data', Used + k)
  BY <1>6 DEF Contents, Ring
<1> QED
  BY <1>3, <1>4, <1>5, <1>6, <1>7

(* What a read does to it. *)
LEMMA ReadStep ==
  ASSUME Types, InBounds, NEW k \in 0 .. Used,
         nread' = (nread + k) % WRAP, data' = data, nwrite' = nwrite
  PROVE  /\ nread' \in 0 .. WRAP - 1 /\ Used' = Used - k
         /\ Contents' = SubSeq(Contents, k + 1, Used)
         /\ [i \in 1 .. k |-> data[(nread + i - 1) % PIPESIZE]] = SubSeq(Contents, 1, k)
<1>1. /\ nread \in 0 .. WRAP - 1 /\ nwrite \in 0 .. WRAP - 1
      /\ data \in [0 .. PIPESIZE - 1 -> Byte]
      /\ Used \in Nat /\ Between(nread, nwrite, Used)
  BY UsedIs, Sizes0 DEF Types
<1>2. k \in Nat /\ k <= Used /\ Used \in 0 .. PIPESIZE
  BY <1>1, Sizes0 DEF InBounds
<1>3. /\ nread' \in 0 .. WRAP - 1 /\ Between(nread', nwrite, Used - k)
  <2>1. nread' = Turned(nread, k)
    BY DEF Turned
  <2> QED
    BY <1>1, <1>2, <2>1, Moves
<1>4. Used' = Used - k
  <2> DEFINE u == Used - k
  <2>1. Between(nread', nwrite', u)
    BY <1>3
  <2> HIDE DEF u
  <2>2. Used' = u
    BY <2>1 DEF Used, Between
  <2> QED
    BY <2>2 DEF u
<1>5. /\ Ring((nread + k) % WRAP, data, Used - k) = SubSeq(Ring(nread, data, Used), k + 1, Used)
      /\ Ring(nread, data, k) = SubSeq(Ring(nread, data, Used), 1, k)
  BY <1>1, <1>2, RingRead
<1>6. Contents = Ring(nread, data, Used) /\ Contents' = Ring((nread + k) % WRAP, data, Used - k)
  BY <1>4 DEF Contents, Ring
<1>7. Ring(nread, data, k) = [i \in 1 .. k |-> data[(nread + i - 1) % PIPESIZE]]
  BY DEF Ring
<1> QED
  BY <1>3, <1>4, <1>5, <1>6, <1>7

-----------------------------------------------------------------------------
LEMMA HoldersFinite == \A e \in Ends : IsFiniteSet(Holders(e)) /\ Holders(e) \subseteq Procs
<1>1. IsFiniteSet(Procs)
  BY PipeAssumption
<1>2. \A e \in Ends : Holders(e) \subseteq Procs
  BY DEF Holders
<1> QED
  BY <1>1, <1>2, FS_Subset

LEMMA InitInv == Init => PInv
<1> SUFFICES ASSUME Init PROVE PInv
  OBVIOUS
<1>1. First \in Procs /\ PIPESIZE \in Nat \ {0} /\ WRAP \in Nat \ {0} /\ Byte # {}
  BY PipeAssumption
<1>2. Types
  <2>1. (CHOOSE b \in Byte : TRUE) \in Byte
    BY <1>1
  <2>2. data \in [0 .. PIPESIZE - 1 -> Byte]
    BY <2>1 DEF Init
  <2>3. todo \in [Procs -> Seq(Byte)]
    BY EmptySeq DEF Init
  <2>4. ref \in [Ends -> Int] /\ fds \in [Procs -> SUBSET Ends]
    BY DEF Init
  <2>5. nread \in 0 .. WRAP - 1 /\ nwrite \in 0 .. WRAP - 1
    BY <1>1 DEF Init
  <2>6. call \in [Procs -> {"none", "read", "write"}] /\ chan \in [Procs -> {"none", "nread", "nwrite"}]
    BY DEF Init
  <2>7. open \subseteq Ends /\ freed \in BOOLEAN /\ quiet \in BOOLEAN /\ killed \subseteq Procs
    BY DEF Init
  <2> QED
    BY <2>2, <2>3, <2>4, <2>5, <2>6, <2>7 DEF Types
<1>3. Used = 0
  BY <1>2, UsedIs DEF Init
<1>4. InBounds
  BY <1>1, <1>3 DEF InBounds
<1>5. RefsCount
  <2>1. \A e \in Ends : Holders(e) = {First}
    BY <1>1 DEF Init, Holders
  <2>2. Cardinality({First}) = 1
    BY FS_Singleton
  <2>3. ASSUME NEW e \in Ends PROVE ref[e] = Cardinality(Holders(e)) /\ (e \in open <=> ref[e] # 0)
    <3>1. Cardinality(Holders(e)) = 1
      BY <2>1, <2>2
    <3>2. ref[e] = 1 /\ e \in open
      BY DEF Init
    <3> QED
      BY <3>1, <3>2
  <2>4. freed <=> open = {}
    BY DEF Init, Ends
  <2> QED
    BY <2>3, <2>4 DEF RefsCount
<1>6. CallsHold /\ SleepersWait
  BY DEF Init, CallsHold, SleepersWait
<1> QED
  BY <1>2, <1>4, <1>5, <1>6 DEF PInv

(* An end that somebody holds is open. *)
LEMMA HeldIsOpen ==
  ASSUME Types, RefsCount, NEW p \in Procs, NEW e \in fds[p]
  PROVE  e \in Ends /\ e \in open /\ ref[e] # 0
<1>1. e \in Ends
  BY DEF Types
<1>2. p \in Holders(e)
  BY DEF Holders
<1>3. Cardinality(Holders(e)) # 0
  BY <1>1, <1>2, HoldersFinite, FS_EmptySet
<1> QED
  BY <1>1, <1>3 DEF RefsCount

(* Steps that leave the pipe and the files alone. *)
LEMMA CalmStep ==
  ASSUME PInv, UNCHANGED <<pipe, files>>
  PROVE  InBounds' /\ RefsCount'
<1>1. Used' = Used /\ \A e \in Ends : Holders(e)' = Holders(e)
  BY DEF Used, Holders, pipe, files
<1>2. InBounds'
  BY <1>1 DEF PInv, InBounds
<1>3. RefsCount'
  <2>1. ref' = ref /\ open' = open /\ freed' = freed
    BY DEF pipe, files
  <2> QED
    BY <1>1, <2>1 DEF PInv, RefsCount
<1> QED
  BY <1>2, <1>3

LEMMA ReadCallInv == ASSUME PInv, NEW p \in Procs, ReadCall(p) PROVE PInv'
<1>1. Types'
  BY DEF PInv, Types, ReadCall, pipe, files
<1>2. InBounds' /\ RefsCount'
  BY CalmStep DEF ReadCall
<1>3. CallsHold'
  BY DEF PInv, Types, CallsHold, ReadCall, pipe, files
<1>4. SleepersWait'
  <2>1. Room' = Room
    BY DEF ReadCall, pipe, Room, Used
  <2> QED
    BY <2>1 DEF PInv, SleepersWait, ReadCall, pipe, files
<1> QED
  BY <1>1, <1>2, <1>3, <1>4 DEF PInv

LEMMA WriteCallInv == ASSUME PInv, NEW p \in Procs, NEW s \in Strings, WriteCall(p, s) PROVE PInv'
<1>0. s \in Seq(Byte)
  BY PipeAssumption
<1>1. Types'
  BY <1>0 DEF PInv, Types, WriteCall, pipe, files
<1>2. InBounds' /\ RefsCount'
  BY CalmStep DEF WriteCall
<1>3. CallsHold'
  BY DEF PInv, Types, CallsHold, WriteCall, pipe, files
<1>4. SleepersWait'
  <2>1. Room' = Room
    BY DEF WriteCall, pipe, Room, Used
  <2> QED
    BY <2>1 DEF PInv, SleepersWait, WriteCall, pipe, files
<1> QED
  BY <1>1, <1>2, <1>3, <1>4 DEF PInv

LEMMA ReadSleepInv == ASSUME PInv, NEW p \in Procs, ReadSleep(p) PROVE PInv'
<1>1. Types'
  BY DEF PInv, Types, ReadSleep, pipe, files
<1>2. InBounds' /\ RefsCount'
  BY CalmStep DEF ReadSleep
<1>3. CallsHold'
  BY DEF PInv, Types, CallsHold, ReadSleep, pipe, files
<1>4. SleepersWait'
  <2>1. Room' = Room
    BY DEF ReadSleep, pipe, Room, Used
  <2> QED
    BY <2>1 DEF PInv, Types, SleepersWait, ReadSleep, pipe, files
<1> QED
  BY <1>1, <1>2, <1>3, <1>4 DEF PInv

LEMMA KillInv == ASSUME PInv, NEW p \in Procs, Kill(p) PROVE PInv'
<1>1. Types'
  BY DEF PInv, Types, Kill, pipe, files
<1>2. InBounds' /\ RefsCount'
  BY CalmStep DEF Kill
<1>3. CallsHold'
  BY DEF PInv, Types, CallsHold, Kill, pipe, files
<1>4. SleepersWait'
  <2>1. Room' = Room
    BY DEF Kill, pipe, Room, Used
  <2> QED
    BY <2>1 DEF PInv, Types, SleepersWait, Kill, pipe, files
<1> QED
  BY <1>1, <1>2, <1>3, <1>4 DEF PInv

LEMMA UsedOf ==
  ASSUME NEW n \in 0 .. WRAP - 1, NEW w \in 0 .. WRAP - 1, NEW u, Between(n, w, u)
  PROVE  u \in 0 .. WRAP - 1 /\ (u = 0 <=> n = w)
<1> DEFINE m(x) == x % WRAP
<1>1. WRAP \in Nat \ {0}
  BY Sizes0
<1>2. \A x \in Int : /\ 0 <= x /\ x < WRAP => m(x) = x
                     /\ -WRAP <= x /\ x < 0 => m(x) = x + WRAP
  BY <1>1, ModSmall
<1>3. u = m(w - n)
  BY DEF Between
<1> HIDE DEF m
<1>4. u = IF n <= w THEN w - n ELSE w - n + WRAP
  BY <1>1, <1>2, <1>3
<1> QED
  BY <1>1, <1>4

LEMMA TurnedZero ==
  ASSUME NEW c \in 0 .. WRAP - 1
  PROVE  Turned(c, 0) = c
<1> DEFINE m(x) == x % WRAP
<1>1. WRAP \in Nat \ {0}
  BY Sizes0
<1>2. \A x \in Int : 0 <= x /\ x < WRAP => m(x) = x
  BY <1>1, ModSmall
<1>3. Turned(c, 0) = m(c + 0)
  BY DEF Turned
<1> HIDE DEF m
<1> QED
  BY <1>1, <1>2, <1>3

(* UsedIs of the state after a step. *)
LEMMA UsedIsNext == ASSUME Types' PROVE Used' \in 0 .. WRAP - 1 /\ (Used' = 0 <=> nread' = nwrite')
<1>1. nread' \in 0 .. WRAP - 1 /\ nwrite' \in 0 .. WRAP - 1
  BY DEF Types
<1>2. Between(nread', nwrite', Used')
  BY DEF Between, Used
<1> QED
  BY <1>1, <1>2, UsedOf

LEMMA ReadCopyInv == ASSUME PInv, NEW p \in Procs, NEW n \in Sizes, ReadCopy(p, n) PROVE PInv'
<1> DEFINE k == IF Used < n THEN Used ELSE n
<1>1. /\ Types /\ InBounds /\ n \in Nat \ {0} /\ Used \in 0 .. WRAP - 1 /\ WRAP \in Nat
      /\ (Used = 0 <=> nread = nwrite)
  BY PipeAssumption, UsedIs DEF PInv
<1>2. k \in 0 .. Used /\ k \in Nat
  BY <1>1
<1>3. nread' = (nread + k) % WRAP /\ UNCHANGED <<data, nwrite, open, freed, ref, fds, todo, killed, quiet>>
  BY DEF ReadCopy, files
<1> HIDE DEF k
<1>4. nread' \in 0 .. WRAP - 1 /\ Used' = Used - k
  BY <1>1, <1>2, <1>3, ReadStep
<1>5. call' = [call EXCEPT ![p] = "none"] /\ chan' = Woken("nwrite")
      /\ call[p] = "read" /\ chan[p] = "none"
  BY DEF ReadCopy
<1>6. Types'
  <2>1. chan' \in [Procs -> {"none", "nread", "nwrite"}]
    BY <1>1, <1>5 DEF Types, Woken
  <2> QED
    BY <1>1, <1>3, <1>4, <1>5, <2>1 DEF Types
<1>7. InBounds'
  BY <1>1, <1>2, <1>4, Sizes0 DEF InBounds
<1>8. RefsCount'
  BY <1>3 DEF PInv, RefsCount, Holders
<1>9. CallsHold'
  BY <1>1, <1>3, <1>5 DEF PInv, Types, CallsHold, Woken
<1>10. SleepersWait'
  <2>1. nread = nwrite => nread' = nwrite'
    <3>1. Types'
      BY <1>6
    <3>2. Used' = 0 <=> nread' = nwrite'
      BY <1>6, UsedIsNext
    <3> QED
      BY <1>1, <1>2, <1>4, <3>2
  <2>2. ASSUME NEW q \in Procs PROVE chan'[q] = (IF chan[q] = "nwrite" THEN "none" ELSE chan[q])
    BY <1>5 DEF Woken
  <2> QED
    BY <1>3, <2>1, <2>2 DEF PInv, SleepersWait
<1> QED
  BY <1>6, <1>7, <1>8, <1>9, <1>10 DEF PInv

(* pipewrite copies k bytes and then changes who calls and who sleeps. *)
LEMMA WriteInv ==
  ASSUME PInv, NEW p \in Procs, call[p] = "write", chan[p] = "none",
         NEW k \in 0 .. Len(todo[p]), k <= Room, Copied(todo[p], k),
         UNCHANGED <<nread, open, freed, files, killed>>
  PROVE  /\ data' \in [0 .. PIPESIZE - 1 -> Byte] /\ nread' \in 0 .. WRAP - 1 /\ nwrite' \in 0 .. WRAP - 1
         /\ InBounds' /\ RefsCount' /\ Room' = Room - k /\ Room \in Nat /\ k \in Nat
         /\ k = 0 /\ nread = nwrite => nread' = nwrite'
<1>1. Types /\ InBounds /\ Used \in 0 .. WRAP - 1 /\ (Used = 0 <=> nread = nwrite)
  BY UsedIs DEF PInv
<1>2. todo[p] \in Seq(Byte) /\ Len(todo[p]) \in Nat /\ PIPESIZE \in Nat /\ WRAP \in Nat
  BY <1>1, LenProperties, Sizes0 DEF Types
<1>3. k \in Nat /\ Used \in Nat
  BY <1>1, <1>2
<1>4. /\ data' \in [0 .. PIPESIZE - 1 -> Byte] /\ nwrite' \in 0 .. WRAP - 1
      /\ Used' = Used + k
  BY <1>1, <1>2, WriteStep
<1>5. nread' = nread /\ nread \in 0 .. WRAP - 1
  BY <1>1 DEF Types
<1>6. Room \in Nat /\ Room' = Room - k /\ InBounds'
  <2>1. Room = PIPESIZE - Used /\ Room' = PIPESIZE - Used'
    BY DEF Room
  <2>2. Used <= PIPESIZE /\ Used + k <= PIPESIZE
    BY <1>1, <1>2, <1>3, <2>1 DEF InBounds
  <2> QED
    BY <1>2, <1>3, <1>4, <2>1, <2>2 DEF InBounds
<1>7. RefsCount'
  BY DEF PInv, RefsCount, Holders, files
<1>8. k = 0 /\ nread = nwrite => nread' = nwrite'
  <2> SUFFICES ASSUME k = 0, nread = nwrite PROVE nread' = nwrite'
    OBVIOUS
  <2>1. nwrite' = Turned(nwrite, 0)
    BY DEF Copied, Turned
  <2>2. nwrite \in 0 .. WRAP - 1
    BY <1>1 DEF Types
  <2> QED
    BY <1>5, <2>1, <2>2, TurnedZero
<1> QED
  BY <1>3, <1>4, <1>5, <1>6, <1>7, <1>8

LEMMA WriteAllInv == ASSUME PInv, NEW p \in Procs, WriteAll(p) PROVE PInv'
<1> DEFINE k == Len(todo[p])
<1>0. Types /\ CallsHold /\ SleepersWait /\ todo[p] \in Seq(Byte) /\ k \in Nat
  BY LenProperties DEF PInv, Types
<1>1. k \in 0 .. Len(todo[p]) /\ k <= Room /\ Copied(todo[p], k) /\ call[p] = "write" /\ chan[p] = "none"
  BY <1>0 DEF WriteAll
<1>2. UNCHANGED <<nread, open, freed, files, killed>>
  BY DEF WriteAll
<1> HIDE DEF k
<1>3. /\ data' \in [0 .. PIPESIZE - 1 -> Byte] /\ nread' \in 0 .. WRAP - 1 /\ nwrite' \in 0 .. WRAP - 1
      /\ InBounds' /\ RefsCount' /\ Room' = Room - k /\ Room \in Nat /\ k \in Nat
  BY <1>1, <1>2, WriteInv
<1>4. /\ call' = [call EXCEPT ![p] = "none"] /\ todo' = [todo EXCEPT ![p] = <<>>]
      /\ chan' = Woken("nread") /\ quiet' = FALSE
      /\ UNCHANGED <<nread, open, freed, ref, fds, killed>>
  BY DEF WriteAll, files
<1>5. Types'
  <2>1. <<>> \in Seq(Byte)
    BY EmptySeq
  <2>2. todo' \in [Procs -> Seq(Byte)] /\ call' \in [Procs -> {"none", "read", "write"}]
    BY <1>0, <1>4, <2>1 DEF Types
  <2>3. chan' \in [Procs -> {"none", "nread", "nwrite"}]
    BY <1>0, <1>4 DEF Types, Woken
  <2>4. quiet' \in BOOLEAN /\ open' \subseteq Ends /\ freed' \in BOOLEAN /\ killed' \subseteq Procs
        /\ ref' \in [Ends -> Int] /\ fds' \in [Procs -> SUBSET Ends]
    BY <1>0, <1>4 DEF Types
  <2> QED
    BY <1>3, <2>2, <2>3, <2>4 DEF Types
<1>6. CallsHold'
  BY <1>0, <1>1, <1>4 DEF Types, CallsHold, Woken
<1>7. SleepersWait'
  <2> SUFFICES ASSUME NEW q \in Procs
               PROVE  /\ chan'[q] = "nread" => (nread' = nwrite' \/ quiet') /\ "w" \in open'
                      /\ chan'[q] = "nwrite" => Room' = 0 /\ "r" \in open'
                      /\ chan'[q] # "none" => q \notin killed'
    BY DEF SleepersWait
  <2>1. chan'[q] = IF chan[q] = "nread" THEN "none" ELSE chan[q]
    BY <1>4 DEF Woken
  <2>2. Room = 0 => Room' = 0
    BY <1>1, <1>3
  <2> QED
    BY <1>0, <1>4, <2>1, <2>2 DEF SleepersWait
<1> QED
  BY <1>3, <1>5, <1>6, <1>7 DEF PInv

LEMMA WriteSomeInv == ASSUME PInv, NEW p \in Procs, WriteSome(p) PROVE PInv'
<1> DEFINE k == Room
<1>0. Types /\ CallsHold /\ SleepersWait /\ todo[p] \in Seq(Byte) /\ Len(todo[p]) \in Nat
  BY LenProperties DEF PInv, Types
<1>1. Room \in Nat
  BY UsedIs, Sizes0 DEF PInv, InBounds, Room
<1>2. k \in 0 .. Len(todo[p]) /\ k <= Room /\ Copied(todo[p], k) /\ call[p] = "write" /\ chan[p] = "none"
      /\ Len(todo[p]) > k
  BY <1>0, <1>1 DEF WriteSome
<1>3. UNCHANGED <<nread, open, freed, files, killed>>
  BY DEF WriteSome
<1>4. k = Room
  OBVIOUS
<1> HIDE DEF k
<1>5. /\ data' \in [0 .. PIPESIZE - 1 -> Byte] /\ nread' \in 0 .. WRAP - 1 /\ nwrite' \in 0 .. WRAP - 1
      /\ InBounds' /\ RefsCount' /\ Room' = Room - k /\ k \in Nat
      /\ k = 0 /\ nread = nwrite => nread' = nwrite'
  BY <1>2, <1>3, WriteInv
<1>6. Room' = 0
  BY <1>4, <1>5
<1>7. /\ UNCHANGED <<nread, open, freed, ref, fds, killed>>
      /\ data' \in [0 .. PIPESIZE - 1 -> Byte] /\ nread' \in 0 .. WRAP - 1 /\ nwrite' \in 0 .. WRAP - 1
      /\ open' \subseteq Ends /\ freed' \in BOOLEAN /\ killed' \subseteq Procs
      /\ ref' \in [Ends -> Int] /\ fds' \in [Procs -> SUBSET Ends]
  BY <1>0, <1>3, <1>5 DEF Types, files
<1> USE DEF Types
<1>8. CASE /\ call' = [call EXCEPT ![p] = "none"] /\ todo' = [todo EXCEPT ![p] = <<>>]
           /\ quiet' = (quiet \/ Room > 0) /\ chan' = chan
  <2>1. Types'
    <3>1. todo' \in [Procs -> Seq(Byte)] /\ call' \in [Procs -> {"none", "read", "write"}]
      BY <1>0, <1>8, EmptySeq
    <3>2. quiet' \in BOOLEAN /\ chan' \in [Procs -> {"none", "nread", "nwrite"}]
      BY <1>0, <1>8
    <3> QED
      BY <1>7, <3>1, <3>2
  <2>2. CallsHold'
    BY <1>0, <1>2, <1>7, <1>8 DEF CallsHold
  <2>3. SleepersWait'
    <3> SUFFICES ASSUME NEW q \in Procs
                 PROVE  /\ chan'[q] = "nread" => (nread' = nwrite' \/ quiet') /\ "w" \in open'
                        /\ chan'[q] = "nwrite" => Room' = 0 /\ "r" \in open'
                        /\ chan'[q] # "none" => q \notin killed'
      BY DEF SleepersWait
    <3>1. /\ chan[q] = "nread" => (nread = nwrite \/ quiet) /\ "w" \in open
          /\ chan[q] = "nwrite" => "r" \in open
          /\ chan[q] # "none" => q \notin killed
      BY <1>0 DEF SleepersWait
    <3>2. nread = nwrite \/ quiet => nread' = nwrite' \/ quiet'
      <4>1. CASE k = 0
        BY <1>5, <1>8, <4>1
      <4>2. CASE k > 0
        BY <1>4, <1>8, <4>2
      <4> QED
        BY <1>5, <4>1, <4>2
    <3> QED
      BY <1>6, <1>7, <1>8, <3>1, <3>2
  <2> QED
    BY <1>5, <2>1, <2>2, <2>3 DEF PInv
<1>9. CASE /\ "r" \in open /\ p \notin killed
           /\ todo' = [todo EXCEPT ![p] = SubSeq(@, Room + 1, Len(@))]
           /\ chan' = [Woken("nread") EXCEPT ![p] = "nwrite"]
           /\ quiet' = FALSE /\ call' = call
  <2>1. Types'
    <3>1. SubSeq(todo[p], Room + 1, Len(todo[p])) \in Seq(Byte)
      <4>1. \A i \in Room + 1 .. Len(todo[p]) : todo[p][i] \in Byte
        BY <1>0, <1>1, ElementOfSeq
      <4> QED
        BY <1>0, <1>1, <4>1, SubSeqProperties
    <3>2. todo' \in [Procs -> Seq(Byte)] /\ call' \in [Procs -> {"none", "read", "write"}]
      BY <1>0, <1>9, <3>1
    <3>3. quiet' \in BOOLEAN /\ chan' \in [Procs -> {"none", "nread", "nwrite"}]
      BY <1>0, <1>9 DEF Woken
    <3> QED
      BY <1>7, <3>2, <3>3
  <2>2. CallsHold'
    BY <1>0, <1>2, <1>7, <1>9 DEF CallsHold, Woken
  <2>3. SleepersWait'
    <3> SUFFICES ASSUME NEW q \in Procs
                 PROVE  /\ chan'[q] = "nread" => (nread' = nwrite' \/ quiet') /\ "w" \in open'
                        /\ chan'[q] = "nwrite" => Room' = 0 /\ "r" \in open'
                        /\ chan'[q] # "none" => q \notin killed'
      BY DEF SleepersWait
    <3>1. chan'[q] = IF q = p THEN "nwrite" ELSE IF chan[q] = "nread" THEN "none" ELSE chan[q]
      BY <1>9 DEF Woken
    <3> QED
      BY <1>0, <1>6, <1>7, <1>9, <3>1 DEF SleepersWait
  <2> QED
    BY <1>5, <2>1, <2>2, <2>3 DEF PInv
<1> QED
  BY <1>8, <1>9 DEF WriteSome

LEMMA ForkInv == ASSUME PInv, NEW p \in Procs, NEW c \in Procs, Fork(p, c) PROVE PInv'
<1>0. Types /\ InBounds /\ RefsCount /\ CallsHold /\ SleepersWait
  BY DEF PInv
<1>1. /\ UNCHANGED <<data, nread, nwrite, open, freed, call, todo, chan, quiet>>
      /\ call[c] = "none" /\ fds[c] = {} /\ p # c
      /\ fds' = [fds EXCEPT ![c] = fds[p]] /\ killed' = killed \ {c}
      /\ ref' = [e \in Ends |-> IF e \in fds[p] THEN ref[e] + 1 ELSE ref[e]]
  BY DEF Fork, pipe
<1>2. Types'
  <2>1. ref' \in [Ends -> Int] /\ fds' \in [Procs -> SUBSET Ends]
    BY <1>0, <1>1 DEF Types
  <2> QED
    BY <1>0, <1>1, <2>1 DEF Types
<1>3. Used' = Used /\ Room' = Room
  BY <1>1 DEF Used, Room
<1>4. InBounds'
  BY <1>0, <1>3 DEF InBounds
<1>5. RefsCount'
  <2>1. ASSUME NEW e \in Ends
        PROVE  ref'[e] = Cardinality(Holders(e)') /\ (e \in open <=> ref'[e] # 0)
    <3>0. /\ IsFiniteSet(Holders(e)) /\ ref[e] = Cardinality(Holders(e)) /\ ref[e] \in Nat
          /\ (e \in open <=> ref[e] # 0)
      BY <1>0, HoldersFinite, FS_CardinalityType DEF RefsCount
    <3>1. CASE e \in fds[p]
      <4>1. Holders(e)' = Holders(e) \cup {c} /\ c \notin Holders(e)
        BY <1>0, <1>1, <3>1 DEF Holders, Types
      <4>2. Cardinality(Holders(e)') = Cardinality(Holders(e)) + 1
        BY <3>0, <4>1, FS_AddElement
      <4>3. ref'[e] = ref[e] + 1
        BY <1>1, <3>1
      <4>4. e \in open
        BY <1>0, <3>1, HeldIsOpen
      <4> QED
        BY <3>0, <4>2, <4>3, <4>4
    <3>2. CASE e \notin fds[p]
      <4>1. Holders(e)' = Holders(e)
        BY <1>0, <1>1, <3>2 DEF Holders, Types
      <4>2. ref'[e] = ref[e]
        BY <1>1, <3>2
      <4> QED
        BY <3>0, <4>1, <4>2
    <3> QED
      BY <3>1, <3>2
  <2>2. freed' <=> open' = {}
    BY <1>0, <1>1 DEF RefsCount
  <2> QED
    BY <1>1, <2>1, <2>2 DEF RefsCount
<1>6. CallsHold'
  BY <1>0, <1>1 DEF CallsHold, Types
<1>7. SleepersWait'
  BY <1>0, <1>1, <1>3 DEF SleepersWait
<1> QED
  BY <1>2, <1>4, <1>5, <1>6, <1>7 DEF PInv

LEMMA CloseInv == ASSUME PInv, NEW p \in Procs, NEW e \in Ends, Close(p, e) PROVE PInv'
<1>0. Types /\ InBounds /\ RefsCount /\ CallsHold /\ SleepersWait
  BY DEF PInv
<1>1. /\ UNCHANGED <<data, nread, nwrite, call, todo, killed, quiet>>
      /\ call[p] = "none" /\ e \in fds[p]
      /\ fds' = [fds EXCEPT ![p] = @ \ {e}] /\ ref' = [ref EXCEPT ![e] = @ - 1]
  BY DEF Close, pipe, pipeclose
<1>2. \/ ref[e] = 1 /\ open' = open \ {e} /\ (freed' <=> open' = {}) /\ freed' \in BOOLEAN
         /\ chan' = Woken(IF e = "w" THEN "nread" ELSE "nwrite")
      \/ ref[e] # 1 /\ UNCHANGED <<open, freed, chan>>
  BY DEF Close, pipe, pipeclose
<1>3. Types'
  <2>1. ref' \in [Ends -> Int] /\ fds' \in [Procs -> SUBSET Ends]
    BY <1>0, <1>1 DEF Types
  <2>2. open' \subseteq Ends /\ freed' \in BOOLEAN
    BY <1>0, <1>2 DEF Types
  <2>3. chan' \in [Procs -> {"none", "nread", "nwrite"}]
    BY <1>0, <1>2 DEF Types, Woken
  <2> QED
    BY <1>0, <1>1, <2>1, <2>2, <2>3 DEF Types
<1>4. Used' = Used /\ Room' = Room
  BY <1>1 DEF Used, Room
<1>5. InBounds'
  BY <1>0, <1>4 DEF InBounds
<1>6. RefsCount'
  <2>1. ASSUME NEW x \in Ends
        PROVE  ref'[x] = Cardinality(Holders(x)') /\ (x \in open' <=> ref'[x] # 0)
    <3>0. /\ IsFiniteSet(Holders(x)) /\ ref[x] = Cardinality(Holders(x)) /\ ref[x] \in Nat
          /\ (x \in open <=> ref[x] # 0)
      BY <1>0, HoldersFinite, FS_CardinalityType DEF RefsCount
    <3>1. CASE x = e
      <4>1. Holders(x)' = Holders(x) \ {p} /\ p \in Holders(x)
        BY <1>0, <1>1, <3>1 DEF Holders, Types
      <4>2. Cardinality(Holders(x)') = Cardinality(Holders(x)) - 1
        BY <3>0, <4>1, FS_RemoveElement
      <4>3. ref'[x] = ref[x] - 1
        BY <1>0, <1>1, <3>1 DEF Types
      <4>4. x \in open /\ ref[x] # 0
        BY <1>0, <1>1, <3>1, HeldIsOpen
      <4>5. x \in open' <=> ref[x] # 1
        BY <1>2, <3>1, <4>4
      <4> QED
        BY <3>0, <4>2, <4>3, <4>5
    <3>2. CASE x # e
      <4>1. Holders(x)' = Holders(x)
        BY <1>0, <1>1, <3>2 DEF Holders, Types
      <4>2. ref'[x] = ref[x]
        BY <1>0, <1>1, <3>2 DEF Types
      <4>3. x \in open' <=> x \in open
        BY <1>2, <3>2
      <4> QED
        BY <3>0, <4>1, <4>2, <4>3
    <3> QED
      BY <3>1, <3>2
  <2>2. freed' <=> open' = {}
    BY <1>0, <1>2 DEF RefsCount
  <2> QED
    BY <2>1, <2>2 DEF RefsCount
<1>7. CallsHold'
  <2> SUFFICES ASSUME NEW q \in Procs
               PROVE  /\ call'[q] = "none" => chan'[q] = "none" /\ todo'[q] = <<>>
                      /\ call'[q] = "read" => "r" \in fds'[q] /\ todo'[q] = <<>>
                      /\ call'[q] = "write" => "w" \in fds'[q]
    BY DEF CallsHold
  <2>1. chan[q] = "none" => chan'[q] = "none"
    BY <1>2 DEF Woken
  <2>2. call[q] # "none" => fds'[q] = fds[q]
    BY <1>0, <1>1 DEF Types
  <2> QED
    BY <1>0, <1>1, <2>1, <2>2 DEF CallsHold
<1>8. SleepersWait'
  <2> SUFFICES ASSUME NEW q \in Procs
               PROVE  /\ chan'[q] = "nread" => (nread' = nwrite' \/ quiet') /\ "w" \in open'
                      /\ chan'[q] = "nwrite" => Room' = 0 /\ "r" \in open'
                      /\ chan'[q] # "none" => q \notin killed'
    BY DEF SleepersWait
  <2>1. /\ chan[q] = "nread" => (nread = nwrite \/ quiet) /\ "w" \in open
        /\ chan[q] = "nwrite" => Room = 0 /\ "r" \in open
        /\ chan[q] # "none" => q \notin killed
    BY <1>0 DEF SleepersWait
  <2>2. /\ chan'[q] # "none" => chan'[q] = chan[q]
        /\ chan'[q] = "nread" => ("w" \in open => "w" \in open')
        /\ chan'[q] = "nwrite" => ("r" \in open => "r" \in open')
    BY <1>2 DEF Woken, Ends
  <2> QED
    BY <1>1, <1>4, <2>1, <2>2
<1> QED
  BY <1>3, <1>5, <1>6, <1>7, <1>8 DEF PInv

(* PInv holds in every state of every behaviour. *)
THEOREM Inductive == Spec => []PInv
<1>1. PInv /\ [Next]_vars => PInv'
  <2> SUFFICES ASSUME PInv, [Next]_vars PROVE PInv'
    OBVIOUS
  <2>1. CASE UNCHANGED vars
    BY <2>1 DEF PInv, vars, pipe, files, Types, InBounds, RefsCount, CallsHold, SleepersWait, Used, Room, Holders
  <2>2. CASE Next
    <3>1. PICK p \in Procs :
            \/ ReadCall(p) \/ ReadSleep(p) \/ WriteAll(p) \/ WriteSome(p) \/ Kill(p)
            \/ \E n \in Sizes : ReadCopy(p, n)
            \/ \E s \in Strings : WriteCall(p, s)
            \/ \E c \in Procs : Fork(p, c)
            \/ \E e \in Ends : Close(p, e)
      BY <2>2 DEF Next
    <3> QED
      BY <3>1, ReadCallInv, ReadSleepInv, WriteAllInv, WriteSomeInv, KillInv, ReadCopyInv,
         WriteCallInv, ForkInv, CloseInv
  <2> QED
    BY <2>1, <2>2
<1> QED
  BY <1>1, InitInv, PTL DEF Spec

(* filedup, fileclose and pipeclose: the two counts are the descriptors that *)
(* lead to each end, and the page is given back when nobody is in the pipe.  *)
THEOREM EndsAreCounted == Spec => []EndsSound
<1>1. PInv => EndsSound
  <2> SUFFICES ASSUME PInv PROVE EndsSound
    OBVIOUS
  <2>0. Types /\ InBounds /\ RefsCount /\ CallsHold
    BY DEF PInv
  <2>1. TypeOK
    BY <2>0 DEF TypeOK, Types, InBounds, RefsCount, CallsHold, Holders
  <2>2. NoUseAfterFree
    <3> SUFFICES ASSUME freed, NEW p \in Procs PROVE call[p] = "none" /\ fds[p] = {}
      BY DEF NoUseAfterFree
    <3>1. open = {}
      BY <2>0 DEF RefsCount
    <3>2. fds[p] = {}
      BY <2>0, <3>1, HeldIsOpen
    <3>3. call[p] \in {"none", "read", "write"}
      BY <2>0 DEF Types
    <3> QED
      BY <2>0, <3>2, <3>3 DEF CallsHold
  <2> QED
    BY <2>1, <2>2 DEF EndsSound
<1> QED
  BY <1>1, Inductive, PTL

(* The while loops of piperead and pipewrite: nobody sleeps on a condition *)
(* that another call has made true, but for the writer's error return.     *)
THEOREM NobodyOversleeps == Spec => []SleepersWait
<1>1. PInv => SleepersWait
  BY DEF PInv
<1> QED
  BY <1>1, Inductive, PTL

-----------------------------------------------------------------------------
(* The refinement: Contents is the queue, open the ends, result what a read got. *)
LEMMA ContentsIs ==
  ASSUME PInv
  PROVE  Contents \in Seq(Byte) /\ Len(Contents) = Used /\ Used \in Nat
<1>1. /\ nread \in Int /\ data \in [0 .. PIPESIZE - 1 -> Byte] /\ Used \in 0 .. PIPESIZE
      /\ Used \in Nat
  BY UsedIs, Sizes0 DEF PInv, Types, InBounds
<1>2. Contents = Ring(nread, data, Used)
  BY DEF Contents, Ring
<1> QED
  BY <1>1, <1>2, RingType

LEMMA SendStep ==
  ASSUME PInv, NEW p \in Procs, call[p] = "write",
         NEW k \in 0 .. Len(todo[p]), k <= Room, Copied(todo[p], k),
         UNCHANGED <<nread, open, result>>
  PROVE  [Bytes!Next]_<<Contents, open, result>>
<1> DEFINE s == SubSeq(todo[p], 1, k)
<1>1. /\ todo[p] \in Seq(Byte) /\ Len(todo[p]) \in Nat /\ PIPESIZE \in Nat
      /\ Contents \in Seq(Byte) /\ Len(Contents) = Used /\ Used \in Nat
  BY ContentsIs, LenProperties, Sizes0 DEF PInv, Types
<1>2. Contents' = Contents \o s
  BY <1>1, WriteStep DEF PInv
<1>3. s \in [1 .. k -> Byte] /\ s \in Seq(Byte) /\ Len(s) = k
  <2>1. \A i \in 1 .. k : todo[p][i] \in Byte
    BY <1>1, ElementOfSeq
  <2>2. s \in Seq(Byte) /\ Len(s) = k
    BY <1>1, <2>1, SubSeqProperties
  <2> QED
    BY <2>2, LenProperties
<1> HIDE DEF s
<1>4. CASE k = 0
  <2>1. s = <<>>
    BY <1>3, <1>4, EmptySeq
  <2>2. Contents' = Contents
    BY <1>1, <1>2, <2>1, ConcatEmptySeq
  <2> QED
    BY <2>2
<1>5. CASE k # 0
  <2>1. k \in 1 .. PIPESIZE - Len(Contents)
    BY <1>1, <1>5 DEF Room
  <2>2. "w" \in open
    <3>1. "w" \in fds[p]
      BY DEF PInv, CallsHold
    <3> QED
      BY <3>1, HeldIsOpen DEF PInv
  <2>3. s \in UNION {[1 .. j -> Byte] : j \in 1 .. PIPESIZE - Len(Contents)}
    BY <1>3, <2>1
  <2>4. Bytes!Send
    BY <1>2, <2>2, <2>3 DEF Bytes!Send
  <2> QED
    BY <2>4 DEF Bytes!Next
<1> QED
  BY <1>4, <1>5

LEMMA ReceiveStep ==
  ASSUME PInv, NEW p \in Procs, NEW n \in Sizes, ReadCopy(p, n)
  PROVE  Bytes!Next
<1> DEFINE k == IF Used < n THEN Used ELSE n
<1>1. /\ Types /\ InBounds /\ n \in Nat \ {0}
      /\ Contents \in Seq(Byte) /\ Len(Contents) = Used /\ Used \in Nat
      /\ (Used = 0 <=> nread = nwrite)
  BY PipeAssumption, UsedIs, ContentsIs DEF PInv
<1>2. k \in 0 .. Used /\ (k = 0 => Used = 0)
  BY <1>1
<1>3. /\ nread' = (nread + k) % WRAP /\ UNCHANGED <<data, nwrite, open>>
      /\ result' = [i \in 1 .. k |-> data[(nread + i - 1) % PIPESIZE]]
      /\ call[p] = "read" /\ (nread # nwrite \/ "w" \notin open)
  BY DEF ReadCopy
<1> HIDE DEF k
<1>4. /\ Contents' = SubSeq(Contents, k + 1, Used)
      /\ [i \in 1 .. k |-> data[(nread + i - 1) % PIPESIZE]] = SubSeq(Contents, 1, k)
  BY <1>1, <1>2, <1>3, ReadStep
<1>5. k \in 0 .. Len(Contents) /\ Contents' = SubSeq(Contents, k + 1, Len(Contents))
      /\ result' = SubSeq(Contents, 1, k)
  BY <1>1, <1>2, <1>3, <1>4
<1>6. "r" \in open
  <2>1. "r" \in fds[p]
    BY <1>3 DEF PInv, CallsHold
  <2> QED
    BY <2>1, HeldIsOpen DEF PInv
<1>7. k = 0 => Contents = <<>> /\ "w" \notin open
  BY <1>1, <1>2, <1>3, EmptySeq
<1>8. Bytes!Receive
  BY <1>3, <1>5, <1>6, <1>7 DEF Bytes!Receive
<1> QED
  BY <1>8 DEF Bytes!Next

LEMMA CloseStep ==
  ASSUME PInv, NEW p \in Procs, NEW e \in Ends, Close(p, e)
  PROVE  [Bytes!Next]_<<Contents, open, result>>
<1>1. UNCHANGED <<data, nread, nwrite, result>> /\ e \in fds[p]
  BY DEF Close, pipe, pipeclose
<1>2. Contents' = Contents
  BY <1>1 DEF Contents, Used
<1>3. CASE ref[e] = 1
  <2>1. open' = open \ {e} /\ e \in open
    BY <1>1, <1>3, HeldIsOpen DEF Close, pipeclose, PInv
  <2>2. Bytes!Close
    BY <1>1, <1>2, <2>1 DEF Bytes!Close
  <2> QED
    BY <2>2 DEF Bytes!Next
<1>4. CASE ref[e] # 1
  <2>1. open' = open
    BY <1>4 DEF Close, pipe
  <2> QED
    BY <1>1, <1>2, <2>1
<1> QED
  BY <1>3, <1>4

(* piperead, pipewrite and pipeclose: through a ring whose counters wrap, the *)
(* bytes come out in the order they went in, none lost and none twice, and a  *)
(* read that returns nothing is the end of the file.                          *)
THEOREM PipeIsChannel == Spec => ImplementsChannel
<1>1. Init => Bytes!Init
  <2> SUFFICES ASSUME Init PROVE Bytes!Init
    OBVIOUS
  <2>1. Contents \in Seq(Byte) /\ Len(Contents) = Used
    BY InitInv, ContentsIs
  <2>2. Used = 0
    BY InitInv, UsedIs DEF Init, PInv
  <2>3. Contents = <<>>
    BY <2>1, <2>2, EmptySeq
  <2> QED
    BY <2>3 DEF Init, Ends, Bytes!Init
<1>2. PInv /\ [Next]_vars => [Bytes!Next]_<<Contents, open, result>>
  <2> SUFFICES ASSUME PInv, [Next]_vars PROVE [Bytes!Next]_<<Contents, open, result>>
    OBVIOUS
  <2>0. ASSUME UNCHANGED <<pipe, result>> PROVE [Bytes!Next]_<<Contents, open, result>>
    BY <2>0 DEF pipe, Contents, Used
  <2>1. CASE UNCHANGED vars
    BY <2>0, <2>1 DEF vars
  <2>2. ASSUME NEW p \in Procs, WriteAll(p) PROVE [Bytes!Next]_<<Contents, open, result>>
    <3>1. Len(todo[p]) \in 0 .. Len(todo[p])
      BY LenProperties DEF PInv, Types
    <3>2. /\ call[p] = "write" /\ Len(todo[p]) <= Room /\ Copied(todo[p], Len(todo[p]))
          /\ UNCHANGED <<nread, open, result>>
      BY <2>2 DEF WriteAll
    <3> QED
      BY <3>1, <3>2, SendStep
  <2>3. ASSUME NEW p \in Procs, WriteSome(p) PROVE [Bytes!Next]_<<Contents, open, result>>
    <3>1. Room \in Nat /\ Len(todo[p]) \in Nat
      BY UsedIs, Sizes0, LenProperties DEF PInv, Types, InBounds, Room
    <3>2. /\ call[p] = "write" /\ Len(todo[p]) > Room /\ Copied(todo[p], Room)
          /\ UNCHANGED <<nread, open, result>>
      BY <2>3 DEF WriteSome
    <3>3. Room \in 0 .. Len(todo[p]) /\ Room <= Room
      BY <3>1, <3>2
    <3> QED
      BY <3>2, <3>3, SendStep
  <2>4. CASE Next
    <3>1. PICK p \in Procs :
            \/ ReadCall(p) \/ ReadSleep(p) \/ WriteAll(p) \/ WriteSome(p) \/ Kill(p)
            \/ \E n \in Sizes : ReadCopy(p, n)
            \/ \E s \in Strings : WriteCall(p, s)
            \/ \E c \in Procs : Fork(p, c)
            \/ \E e \in Ends : Close(p, e)
      BY <2>4 DEF Next
    <3>2. CASE ReadCall(p) \/ ReadSleep(p) \/ Kill(p) \/ (\E s \in Strings : WriteCall(p, s))
                 \/ (\E c \in Procs : Fork(p, c))
      BY <2>0, <3>2 DEF ReadCall, ReadSleep, Kill, WriteCall, Fork
    <3>3. CASE WriteAll(p) \/ WriteSome(p)
      BY <2>2, <2>3, <3>3
    <3>4. CASE \E n \in Sizes : ReadCopy(p, n)
      BY <3>4, ReceiveStep
    <3>5. CASE \E e \in Ends : Close(p, e)
      BY <3>5, CloseStep
    <3> QED
      BY <3>1, <3>2, <3>3, <3>4, <3>5
  <2> QED
    BY <2>1, <2>4
<1> QED
  BY <1>1, <1>2, Inductive, PTL DEF Spec, ImplementsChannel, Bytes!Spec
=============================================================================
