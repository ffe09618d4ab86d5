----------------------------- MODULE Text_proofs -----------------------------
(***************************************************************************)
(* What holds of Text for every text and every limit. A cut of a text is   *)
(* so many of its characters: the proofs say how many, and compare the     *)
(* sizes of the beginnings of one text.                                    *)
(***************************************************************************)
EXTENDS Text, Induction, SequenceTheorems

Characters == DOMAIN Width

Typed ==
  limit \in Nat \ {0} /\ marker \in Seq(Characters) /\ text \in Seq(Characters)

----------------------------------------------------------------------------
(* Sizes                                                                   *)

LEMMA Widths == \A char \in Characters : Width[char] \in 1 .. 3
BY DEF Characters, Width

(* A text is measured one character after the other. *)
LEMMA SizesFollow ==
  ASSUME NEW t \in Seq(Characters)
  PROVE  /\ Sizes(t)[0] = 0
         /\ \A k \in Nat : k < Len(t) =>
              Sizes(t)[k + 1] = Sizes(t)[k] + Width[t[k + 1]]
         /\ \A k \in 0 .. Len(t) : Sizes(t)[k] \in Nat
<1> DEFINE n == Len(t)
           S == Nat
           move == [i \in 1 .. n |-> [total \in S |-> total + Width[t[i]]]]
           Is(f) == f = [i \in 0 .. n |->
                           IF i = 0 THEN 0 ELSE f[i - 1] + Width[t[i]]]
           g == Sizes(t)
<1>0. \A i \in 1 .. n : Width[t[i]] \in Nat
  <2>1. \A i \in 1 .. n : t[i] \in Characters
    OBVIOUS
  <2> QED
    BY <2>1, Widths
<1>1. 0 \in S /\ n \in Nat /\ move \in [1 .. n -> [S -> S]]
  BY <1>0
<1>2. PICK f \in [0 .. n -> S] : Follows(f, 0, move, n)
  <2> HIDE DEF move, S, n
  <2> QED
    BY <1>1, RecursionExists
<1>3. f[0] = 0 /\ \A i \in 1 .. n : f[i] = move[i][f[i - 1]]
  BY <1>2 DEF Follows
<1>4. ASSUME NEW i \in 1 .. n
      PROVE  f[i] = f[i - 1] + Width[t[i]]
  <2>1. f[i - 1] \in S
    <3> HIDE DEF S, n
    <3> QED
      BY <1>1, <1>2
  <2> QED
    BY <1>3, <2>1
<1>5. \E h : Is(h)
  <2>1. ASSUME NEW i \in 0 .. n
        PROVE  f[i] = IF i = 0 THEN 0 ELSE f[i - 1] + Width[t[i]]
    <3>1. i # 0 => i \in 1 .. n
      OBVIOUS
    <3> QED
      BY <1>3, <1>4, <3>1
  <2>2. Is(f)
    <3> HIDE DEF S, n
    <3> QED
      BY <1>2, <2>1
  <2> QED
    BY <2>2
<1>6. Is(g)
  BY <1>5, Zenon DEF Sizes
<1> HIDE DEF g
<1>7. /\ g[0] = 0
      /\ \A k \in Nat : k < n => g[k + 1] = g[k] + Width[t[k + 1]]
  <2>1. \A i \in 0 .. n : g[i] = IF i = 0 THEN 0 ELSE g[i - 1] + Width[t[i]]
    BY <1>6, Zenon
  <2>2. 0 \in 0 .. n
    OBVIOUS
  <2>3. g[0] = 0
    BY <2>1, <2>2
  <2>4. ASSUME NEW k \in Nat, k < n
        PROVE  g[k + 1] = g[k] + Width[t[k + 1]]
    <3>1. k + 1 \in 0 .. n /\ k + 1 # 0 /\ k + 1 - 1 = k
      BY <2>4
    <3> QED
      BY <2>1, <3>1
  <2> QED
    BY <2>3, <2>4
<1>8. \A k \in 0 .. n : g[k] \in Nat
  <2> DEFINE T == {k \in Nat : k <= n => g[k] \in Nat}
  <2>1. 0 \in T
    BY <1>7
  <2>2. ASSUME NEW k \in T
        PROVE  k + 1 \in T
    <3> SUFFICES ASSUME k + 1 <= n
                 PROVE  g[k + 1] \in Nat
      OBVIOUS
    <3>1. k \in Nat /\ k < n /\ k + 1 \in 1 .. n /\ g[k] \in Nat
      OBVIOUS
    <3>2. g[k + 1] = g[k] + Width[t[k + 1]] /\ Width[t[k + 1]] \in Nat
      BY <1>0, <1>7, <3>1
    <3> QED
      BY <3>1, <3>2
  <2>3. T = Nat
    <3> HIDE DEF T
    <3>1. T \subseteq Nat
      BY DEF T
    <3> QED
      BY <2>1, <2>2, <3>1, Induct
  <2> QED
    BY <2>3
<1> QED
  BY <1>7, <1>8 DEF g

(* A longer beginning of a text is larger. *)
LEMMA SizesGrow ==
  ASSUME NEW t \in Seq(Characters), NEW j \in 0 .. Len(t),
         NEW k \in 0 .. Len(t), j <= k
  PROVE  Sizes(t)[j] + (k - j) <= Sizes(t)[k]
<1> DEFINE n == Len(t)
           g == Sizes(t)
           T == {i \in Nat : j <= i /\ i <= n => g[j] + (i - j) <= g[i]}
<1>1. \A i \in 0 .. n : g[i] \in Nat
  BY SizesFollow
<1>2. \A i \in Nat : i < n => g[i + 1] = g[i] + Width[t[i + 1]]
  BY SizesFollow
<1>3. \A i \in 1 .. n : Width[t[i]] \in Nat /\ Width[t[i]] >= 1
  <2>1. \A i \in 1 .. n : t[i] \in Characters
    OBVIOUS
  <2> QED
    BY <2>1, Widths
<1> HIDE DEF g
<1>4. 0 \in T
  <2>1. j <= 0 => j = 0
    OBVIOUS
  <2> QED
    BY <1>1, <2>1
<1>5. ASSUME NEW i \in T
      PROVE  i + 1 \in T
  <2> SUFFICES ASSUME j <= i + 1, i + 1 <= n
               PROVE  g[j] + (i + 1 - j) <= g[i + 1]
    OBVIOUS
  <2>1. i \in Nat /\ i < n /\ i + 1 \in 1 .. n /\ i + 1 \in 0 .. n
          /\ i \in 0 .. n
    OBVIOUS
  <2>2. CASE j = i + 1
    BY <1>1, <2>1, <2>2
  <2>3. CASE j <= i
    <3>1. g[j] + (i - j) <= g[i]
      BY <2>1, <2>3
    <3>2. g[i + 1] = g[i] + Width[t[i + 1]]
      BY <1>2, <2>1
    <3>3. Width[t[i + 1]] \in Nat /\ Width[t[i + 1]] >= 1
      BY <1>3, <2>1
    <3>4. g[i] \in Nat /\ g[j] \in Nat
      BY <1>1, <2>1
    <3> QED
      BY <2>1, <3>1, <3>2, <3>3, <3>4
  <2>4. j = i + 1 \/ j <= i
    BY <2>1
  <2> QED
    BY <2>2, <2>3, <2>4
<1>6. T = Nat
  <2> HIDE DEF T
  <2>1. T \subseteq Nat
    BY DEF T
  <2> QED
    BY <1>4, <1>5, <2>1, Induct
<1>7. k \in T
  BY <1>6
<1> QED
  BY <1>7 DEF g

(* The size of a beginning does not depend on what follows it. *)
LEMMA SizesAgree ==
  ASSUME NEW t \in Seq(Characters), NEW u \in Seq(Characters), NEW n \in Nat,
         n <= Len(t), n <= Len(u), \A i \in 1 .. n : t[i] = u[i]
  PROVE  Sizes(t)[n] = Sizes(u)[n]
<1> DEFINE f == Sizes(t)
           g == Sizes(u)
           T == {k \in Nat : k <= n => f[k] = g[k]}
<1>1. f[0] = 0 /\ g[0] = 0
  BY SizesFollow
<1>2. \A k \in Nat : k < Len(t) => f[k + 1] = f[k] + Width[t[k + 1]]
  BY SizesFollow
<1>3. \A k \in Nat : k < Len(u) => g[k + 1] = g[k] + Width[u[k + 1]]
  BY SizesFollow
<1> HIDE DEF f, g
<1>4. 0 \in T
  BY <1>1
<1>5. ASSUME NEW k \in T
      PROVE  k + 1 \in T
  <2> SUFFICES ASSUME k + 1 <= n
               PROVE  f[k + 1] = g[k + 1]
    OBVIOUS
  <2>1. /\ k \in Nat /\ k < Len(t) /\ k < Len(u) /\ f[k] = g[k]
        /\ t[k + 1] = u[k + 1]
    OBVIOUS
  <2> QED
    BY <1>2, <1>3, <2>1
<1>6. T = Nat
  <2> HIDE DEF T
  <2>1. T \subseteq Nat
    BY DEF T
  <2> QED
    BY <1>4, <1>5, <2>1, Induct
<1> QED
  BY <1>6 DEF f, g

LEMMA BytesOfConcat ==
  ASSUME NEW t \in Seq(Characters), NEW u \in Seq(Characters)
  PROVE  Bytes(t \o u) = Bytes(t) + Bytes(u)
<1> DEFINE both == t \o u
           n == Len(t)
           f == Sizes(both)
           g == Sizes(u)
           T == {k \in Nat : k <= Len(u) => f[n + k] = Bytes(t) + g[k]}
<1>1. /\ both \in Seq(Characters) /\ Len(both) = n + Len(u) /\ n \in Nat
      /\ \A i \in 1 .. n : both[i] = t[i]
      /\ \A i \in 1 .. Len(u) : both[n + i] = u[i]
  BY ConcatProperties
<1> HIDE DEF both
<1>2. g[0] = 0 /\ \A k \in Nat : k < Len(u) => g[k + 1] = g[k] + Width[u[k + 1]]
  BY SizesFollow
<1>3. ASSUME NEW k \in Nat, k < Len(u)
      PROVE  f[n + (k + 1)] = f[n + k] + Width[u[k + 1]]
  <2>1. /\ n + k \in Nat /\ n + k < Len(both) /\ n + (k + 1) = n + k + 1
        /\ k + 1 \in 1 .. Len(u)
    BY <1>1, <1>3
  <2>2. both[n + k + 1] = u[k + 1]
    BY <1>1, <2>1
  <2> QED
    BY <1>1, <2>1, <2>2, SizesFollow
<1>4. f[n] = Bytes(t) /\ Bytes(t) \in Nat
  <2>1. n <= Len(both) /\ n <= Len(t) /\ n \in 0 .. Len(t)
    BY <1>1
  <2>2. f[n] = Sizes(t)[n]
    <3> HIDE DEF n
    <3> QED
      BY <1>1, <2>1, SizesAgree
  <2>3. Bytes(t) = Sizes(t)[n] /\ Sizes(t)[n] \in Nat
    BY <2>1, SizesFollow DEF Bytes
  <2> QED
    BY <2>2, <2>3
<1>5. \A k \in 0 .. Len(u) : g[k] \in Nat
  BY SizesFollow
<1>6. \A k \in 1 .. Len(u) : Width[u[k]] \in Nat
  <2>1. \A k \in 1 .. Len(u) : u[k] \in Characters
    OBVIOUS
  <2> QED
    BY <2>1, Widths
<1> HIDE DEF f, g
<1>7. 0 \in T
  BY <1>1, <1>2, <1>4
<1>8. ASSUME NEW k \in T
      PROVE  k + 1 \in T
  <2> SUFFICES ASSUME k + 1 <= Len(u)
               PROVE  f[n + (k + 1)] = Bytes(t) + g[k + 1]
    OBVIOUS
  <2>1. /\ k \in Nat /\ k < Len(u) /\ k \in 0 .. Len(u) /\ k + 1 \in 1 .. Len(u)
        /\ f[n + k] = Bytes(t) + g[k]
    OBVIOUS
  <2>2. g[k] \in Nat /\ Width[u[k + 1]] \in Nat
    BY <1>5, <1>6, <2>1
  <2>3. /\ g[k + 1] = g[k] + Width[u[k + 1]]
        /\ f[n + (k + 1)] = f[n + k] + Width[u[k + 1]]
    BY <1>2, <1>3, <2>1
  <2> QED
    BY <1>4, <2>1, <2>2, <2>3
<1>9. T = Nat
  <2> HIDE DEF T
  <2>1. T \subseteq Nat
    BY DEF T
  <2> QED
    BY <1>7, <1>8, <2>1, Induct
<1>10. f[n + Len(u)] = Bytes(t) + g[Len(u)]
  BY <1>9
<1> QED
  BY <1>1, <1>10 DEF Bytes, f, g, both

----------------------------------------------------------------------------
(* Beginnings of a text                                                    *)

LEMMA TakeIsBeginning ==
  ASSUME NEW t \in Seq(Characters), NEW n \in 0 .. Len(t)
  PROVE  /\ Take(t, n) \in Seq(Characters) /\ Len(Take(t, n)) = n
         /\ \A i \in 1 .. n : Take(t, n)[i] = t[i]
         /\ \A k \in 0 .. n : Sizes(Take(t, n))[k] = Sizes(t)[k]
         /\ Bytes(Take(t, n)) = Sizes(t)[n]
<1>1. \A i \in 1 .. n : t[i] \in Characters
  OBVIOUS
<1>2. /\ Take(t, n) \in Seq(Characters) /\ Len(Take(t, n)) = n
      /\ \A i \in 1 .. n : Take(t, n)[i] = t[i]
  BY <1>1, SubSeqProperties DEF Take
<1>3. ASSUME NEW k \in 0 .. n
      PROVE  Sizes(Take(t, n))[k] = Sizes(t)[k]
  <2>1. k \in Nat /\ k <= Len(t) /\ k <= Len(Take(t, n))
    BY <1>2
  <2> QED
    BY <1>2, <2>1, SizesAgree
<1>4. n \in 0 .. n
  OBVIOUS
<1> QED
  BY <1>2, <1>3, <1>4 DEF Bytes

LEMMA TakeOfTake ==
  ASSUME NEW t \in Seq(Characters), NEW n \in 0 .. Len(t), NEW k \in 0 .. n
  PROVE  Take(Take(t, n), k) = Take(t, k)
<1>1. Take(t, n) \in Seq(Characters) /\ Len(Take(t, n)) = n
        /\ \A i \in 1 .. n : Take(t, n)[i] = t[i]
  BY TakeIsBeginning
<1>2. k \in 0 .. Len(t) /\ k \in 0 .. Len(Take(t, n))
  BY <1>1
<1>3. /\ Take(t, k) \in Seq(Characters) /\ Len(Take(t, k)) = k
      /\ \A i \in 1 .. k : Take(t, k)[i] = t[i]
  BY <1>2, TakeIsBeginning
<1>4. /\ Take(Take(t, n), k) \in Seq(Characters) /\ Len(Take(Take(t, n), k)) = k
      /\ \A i \in 1 .. k : Take(Take(t, n), k)[i] = Take(t, n)[i]
  BY <1>1, <1>2, TakeIsBeginning
<1>5. \A i \in 1 .. k : Take(Take(t, n), k)[i] = Take(t, k)[i]
  BY <1>1, <1>3, <1>4
<1> QED
  BY <1>3, <1>4, <1>5, SeqEqual

LEMMA MaxIsGreatest ==
  ASSUME NEW b \in Nat, NEW T, T \subseteq 0 .. b, T # {}
  PROVE  Max(T) \in T /\ \A k \in T : k <= Max(T)
<1>1. \E m \in T : \A k \in T : k <= m
  <2>1. T \subseteq Nat /\ \A k \in T : k <= b
    OBVIOUS
  <2> QED
    BY <2>1, Greatest
<1>2. \E m \in T : \A k \in T : m >= k
  BY <1>1
<1> QED
  BY <1>2 DEF Max

(* HardCut keeps all that fits, *)
LEMMA HardCutIsABeginning ==
  ASSUME NEW t \in Seq(Characters), NEW n \in Nat
  PROVE  \E i \in 0 .. Len(t) :
           /\ HardCut(t, n) = Take(t, i) /\ Sizes(t)[i] <= n
           /\ \A k \in i + 1 .. Len(t) : Sizes(t)[k] > n
<1> DEFINE T == {i \in 0 .. Len(t) : Bytes(Take(t, i)) <= n}
<1>1. \A i \in 0 .. Len(t) : Bytes(Take(t, i)) = Sizes(t)[i]
  BY TakeIsBeginning
<1>2. 0 \in T
  BY <1>1, SizesFollow
<1>3. Max(T) \in T /\ \A k \in T : k <= Max(T)
  <2>1. Len(t) \in Nat /\ T \subseteq 0 .. Len(t)
    OBVIOUS
  <2> HIDE DEF T
  <2> QED
    BY <1>2, <2>1, MaxIsGreatest
<1>4. HardCut(t, n) = Take(t, Max(T))
  BY DEF HardCut
<1> DEFINE i == Max(T)
<1>5. i \in 0 .. Len(t) /\ Sizes(t)[i] <= n
  BY <1>1, <1>3
<1>6. ASSUME NEW k \in i + 1 .. Len(t)
      PROVE  Sizes(t)[k] > n
  <2>1. k \in 0 .. Len(t) /\ ~(k <= i)
    BY <1>5
  <2>2. k \notin T
    BY <1>3, <2>1
  <2>3. ~(Sizes(t)[k] <= n)
    BY <1>1, <2>1, <2>2
  <2>4. Sizes(t)[k] \in Nat
    BY <2>1, SizesFollow
  <2> QED
    BY <2>3, <2>4
<1> QED
  BY <1>4, <1>5, <1>6

(* and RStrip all but the white space at the end. *)
LEMMA RStripIsABeginning ==
  ASSUME NEW t \in Seq(Characters)
  PROVE  \E i \in 0 .. Len(t) :
           /\ RStrip(t) = Take(t, i)
           /\ \A k \in i + 1 .. Len(t) : t[k] \in Whitespace
<1> DEFINE T == {i \in 0 .. Len(t) : i = 0 \/ t[i] \notin Whitespace}
           i == Max(T)
<1>1. i \in T /\ \A k \in T : k <= i
  <2>1. Len(t) \in Nat /\ T \subseteq 0 .. Len(t) /\ 0 \in T
    OBVIOUS
  <2> HIDE DEF T
  <2> QED
    BY <2>1, MaxIsGreatest
<1>2. RStrip(t) = Take(t, i)
  BY DEF RStrip
<1> HIDE DEF i
<1>3. i \in 0 .. Len(t)
  BY <1>1
<1>4. ASSUME NEW k \in i + 1 .. Len(t)
      PROVE  t[k] \in Whitespace
  <2>1. k \in 0 .. Len(t) /\ ~(k <= i)
    BY <1>3
  <2> QED
    BY <1>1, <2>1
<1> QED
  BY <1>2, <1>3, <1>4

(* What Trimmed keeps of t: k characters, those of a HardCut without the   *)
(* white space at its end, or those in front of the last space of these.   *)
Kind(t, room, k) ==
  /\ Sizes(t)[k] <= room
  /\ \/ Sizes(t)[k] >= MinUse(room)
     \/ \A n \in k + 1 .. Len(t) :
          t[n] \notin Whitespace => Sizes(t)[n] > room
  /\ Bytes(t) > room =>
       \A n \in 1 .. Len(t) - 1 :
         /\ t[n + 1] = "space" /\ t[n] \notin Whitespace
         /\ Sizes(t)[n] <= room /\ Sizes(t)[n] >= MinUse(room)
         => k < Len(t) /\ t[k + 1] \in Whitespace

LEMMA TrimmedIsABeginning ==
  ASSUME NEW t \in Seq(Characters), NEW room \in Nat
  PROVE  \E k \in 0 .. Len(t) :
           Trimmed(t, room) = Take(t, k) /\ Kind(t, room, k)
<1> DEFINE size == Sizes(t)
           cut == RStrip(HardCut(t, room))
           spaces == {n \in DOMAIN cut : cut[n] = "space"}
           candidate == RStrip(Take(cut, Max(spaces) - 1))
<1>1. PICK i \in 0 .. Len(t) :
        /\ HardCut(t, room) = Take(t, i) /\ size[i] <= room
        /\ \A k \in i + 1 .. Len(t) : size[k] > room
  BY HardCutIsABeginning
<1>2. /\ Take(t, i) \in Seq(Characters) /\ Len(Take(t, i)) = i
      /\ \A n \in 1 .. i : Take(t, i)[n] = t[n]
  BY TakeIsBeginning
<1>3. PICK j \in 0 .. i :
        /\ cut = Take(t, j)
        /\ \A k \in j + 1 .. i : t[k] \in Whitespace
  <2>1. PICK j \in 0 .. i :
          /\ cut = Take(Take(t, i), j)
          /\ \A k \in j + 1 .. i : Take(t, i)[k] \in Whitespace
    BY <1>1, <1>2, RStripIsABeginning
  <2>2. Take(Take(t, i), j) = Take(t, j)
    BY TakeOfTake
  <2>3. \A k \in j + 1 .. i : t[k] \in Whitespace
    BY <1>2, <2>1
  <2> QED
    BY <2>1, <2>2, <2>3
<1> HIDE DEF cut
<1>4. j \in 0 .. Len(t) /\ \A n \in 0 .. Len(t) : size[n] \in Nat
  BY SizesFollow
<1>5. /\ cut \in Seq(Characters) /\ Len(cut) = j /\ DOMAIN cut = 1 .. j
      /\ \A n \in 1 .. j : cut[n] = t[n]
  BY <1>3, <1>4, TakeIsBeginning
<1>6. MinUse(room) \in Int
  BY DEF MinUse
<1> HIDE DEF size
<1>7. \A m, n \in 0 .. Len(t) : m <= n => size[m] <= size[n]
  <2>1. ASSUME NEW m \in 0 .. Len(t), NEW n \in 0 .. Len(t), m <= n
        PROVE  size[m] <= size[n]
    <3>1. size[m] + (n - m) <= size[n]
      BY <2>1, SizesGrow DEF size
    <3>2. size[m] \in Nat /\ size[n] \in Nat
      BY <1>4
    <3> QED
      BY <2>1, <3>1, <3>2
  <2> QED
    BY <2>1
<1>8. size[j] <= room
  BY <1>1, <1>4, <1>7
<1>9. Trimmed(t, room) = IF spaces # {} /\ Bytes(candidate) >= MinUse(room)
                         THEN candidate ELSE cut
  BY DEF Trimmed, cut
<1>10. \A n \in j + 1 .. Len(t) : t[n] \notin Whitespace => size[n] > room
  BY <1>1, <1>3
<1>11. CASE spaces # {}
  <2>1. Max(spaces) \in spaces /\ \A n \in spaces : n <= Max(spaces)
    <3>1. spaces \subseteq 0 .. j /\ j \in Nat
      BY <1>5
    <3> HIDE DEF spaces
    <3> QED
      BY <1>11, <3>1, MaxIsGreatest
  <2> DEFINE s == Max(spaces)
  <2>2. /\ s \in 1 .. j /\ t[s] = "space"
        /\ \A n \in 1 .. j : t[n] = "space" => n <= s
    BY <1>5, <2>1
  <2> HIDE DEF s
  <2>3. s - 1 \in 0 .. j /\ s - 1 \in 0 .. Len(t)
    BY <1>4, <2>2
  <2>4. Take(cut, s - 1) = Take(t, s - 1)
    BY <1>3, <1>4, <2>3, TakeOfTake
  <2>5. /\ Take(t, s - 1) \in Seq(Characters) /\ Len(Take(t, s - 1)) = s - 1
        /\ \A n \in 1 .. s - 1 : Take(t, s - 1)[n] = t[n]
    BY <2>3, TakeIsBeginning
  <2>6. PICK c \in 0 .. s - 1 :
          /\ candidate = Take(t, c)
          /\ \A k \in c + 1 .. s - 1 : t[k] \in Whitespace
    <3>1. candidate = RStrip(Take(t, s - 1))
      BY <2>4 DEF s
    <3>2. PICK c \in 0 .. s - 1 :
            /\ RStrip(Take(t, s - 1)) = Take(Take(t, s - 1), c)
            /\ \A k \in c + 1 .. s - 1 : Take(t, s - 1)[k] \in Whitespace
      BY <2>5, RStripIsABeginning
    <3>3. Take(Take(t, s - 1), c) = Take(t, c)
      BY <2>3, TakeOfTake
    <3>4. \A k \in c + 1 .. s - 1 : t[k] \in Whitespace
      BY <2>5, <3>2
    <3> QED
      BY <3>1, <3>2, <3>3, <3>4
  <2>7. c \in 0 .. Len(t) /\ c < j /\ c < Len(t) /\ c + 1 \in 1 .. s
    BY <1>4, <2>2
  <2>8. Bytes(candidate) = size[c]
    BY <2>6, <2>7, TakeIsBeginning DEF size
  <2>9. t[c + 1] \in Whitespace
    <3>1. c + 1 = s \/ c + 1 \in c + 1 .. s - 1
      BY <2>7, <2>2
    <3> QED
      BY <2>2, <2>6, <3>1 DEF Whitespace
  <2>10. CASE Bytes(candidate) >= MinUse(room)
    <3>1. Trimmed(t, room) = Take(t, c)
      BY <1>9, <1>11, <2>6, <2>10
    <3>2. size[c] <= room
      BY <1>4, <1>7, <1>8, <2>7
    <3>3. Kind(t, room, c)
      BY <2>7, <2>8, <2>9, <2>10, <3>2 DEF Kind, size
    <3> QED
      BY <2>7, <3>1, <3>3
  <2>11. CASE ~(Bytes(candidate) >= MinUse(room))
    <3>1. Trimmed(t, room) = Take(t, j)
      BY <1>3, <1>9, <2>11
    <3>2. ASSUME Bytes(t) > room, NEW n \in 1 .. Len(t) - 1,
                 t[n + 1] = "space", t[n] \notin Whitespace,
                 size[n] <= room, size[n] >= MinUse(room)
          PROVE  j < Len(t) /\ t[j + 1] \in Whitespace
      <4>1. n \in 0 .. Len(t) /\ n \in 1 .. Len(t)
        OBVIOUS
      <4>2. n <= j
        BY <1>10, <1>4, <3>2, <4>1
      <4>3. n = j \/ n + 1 \in 1 .. j
        BY <1>4, <4>1, <4>2
      <4>4. CASE n = j
        BY <3>2, <4>4 DEF Whitespace
      <4>5. CASE n + 1 \in 1 .. j
        <5>1. n + 1 <= s
          BY <2>2, <3>2, <4>5
        <5>2. n <= c
          <6>1. n \in c + 1 .. s - 1 \/ n <= c
            BY <2>2, <2>7, <4>1, <5>1
          <6> QED
            BY <2>6, <3>2, <6>1
        <5>3. size[n] <= size[c]
          BY <1>7, <2>7, <4>1, <5>2
        <5>4. size[c] >= MinUse(room)
          BY <1>4, <1>6, <2>7, <3>2, <4>1, <5>3
        <5> QED
          BY <2>8, <2>11, <5>4
      <4> QED
        BY <4>3, <4>4, <4>5
    <3>3. Kind(t, room, j)
      BY <1>8, <1>10, <3>2 DEF Kind, size
    <3> QED
      BY <1>4, <3>1, <3>3
  <2> QED
    BY <2>10, <2>11
<1>12. CASE spaces = {}
  <2>1. Trimmed(t, room) = Take(t, j)
    BY <1>3, <1>9, <1>12
  <2>2. \A n \in 1 .. j : t[n] # "space"
    BY <1>5, <1>12
  <2>3. ASSUME NEW n \in 1 .. Len(t) - 1,
               t[n + 1] = "space", t[n] \notin Whitespace, size[n] <= room
        PROVE  j < Len(t) /\ t[j + 1] \in Whitespace
    <3>1. n \in 0 .. Len(t) /\ n \in 1 .. Len(t)
      OBVIOUS
    <3>2. n <= j
      BY <1>10, <1>4, <2>3, <3>1
    <3>3. n = j \/ n + 1 \in 1 .. j
      BY <1>4, <3>1, <3>2
    <3>4. n = j
      BY <2>2, <2>3, <3>3
    <3> QED
      BY <2>3, <3>4 DEF Whitespace
  <2>4. Kind(t, room, j)
    BY <1>8, <1>10, <2>3 DEF Kind, size
  <2> QED
    BY <1>4, <2>1, <2>4
<1> QED
  BY <1>11, <1>12

----------------------------------------------------------------------------
(* truncate_bytes                                                          *)

LEMMA TypedHolds == Spec => []Typed
<1>1. Init => Typed
  <2> SUFFICES ASSUME Init PROVE Typed
    OBVIOUS
  <2>1. marker = <<>> \/ marker = DefaultMarker
    BY DEF Init
  <2>2. DefaultMarker \in Seq(Characters)
    BY DEF DefaultMarker, Characters, Width
  <2>3. marker \in Seq(Characters) /\ text \in Seq(Characters)
    BY <2>1, <2>2, EmptySeq DEF Init
  <2> QED
    BY <2>3, LimitsAssumption DEF Init, Typed
<1>2. Typed /\ [Next]_vars => Typed'
  BY AppendProperties DEF Typed, Next, vars, Alphabet, Characters
<1> QED
  BY <1>1, <1>2, PTL DEF Spec

LEMMA BytesTypes == ASSUME NEW t \in Seq(Characters) PROVE Bytes(t) \in Nat
<1>1. Len(t) \in 0 .. Len(t)
  OBVIOUS
<1> QED
  BY <1>1, SizesFollow DEF Bytes

(* The three outcomes for a text: it fits, it is cut and marked, or it is  *)
(* cut where there is no room for the marker.                              *)
LEMMA TextFits ==
  ASSUME Typed, Bytes(text) <= limit
  PROVE  Result = text
<1>1. limit > 0 /\ Bytes(text) \in Nat /\ limit \in Nat
  BY BytesTypes DEF Typed
<1>2. ~(limit <= 0) /\ ~(Bytes(text) > limit)
  BY <1>1
<1> QED
  BY <1>1, <1>2 DEF Result, TruncateBytes

LEMMA TextIsCut ==
  ASSUME Typed, IsCut
  PROVE  \E k \in 0 .. Len(text) :
           /\ Result = Take(text, k) \o marker
           /\ Kept = Take(text, k) /\ Len(Kept) = k
           /\ Kind(text, Room, k)
<1>1. limit > 0 /\ Bytes(text) \in Nat /\ limit \in Nat /\ Bytes(marker) \in Nat
  BY BytesTypes DEF Typed
<1>2. ~(limit <= 0) /\ ~(Bytes(text) <= limit) /\ Room > 0 /\ ~(Room <= 0)
        /\ Room \in Nat
  BY <1>1 DEF IsCut, Room
<1>3. Result = Trimmed(text, Room) \o marker
  BY <1>1, <1>2 DEF Result, TruncateBytes, Room, IsCut
<1>4. text \in Seq(Characters) /\ marker \in Seq(Characters)
  BY DEF Typed
<1>5. PICK k \in 0 .. Len(text) :
        Trimmed(text, Room) = Take(text, k) /\ Kind(text, Room, k)
  BY <1>2, <1>4, TrimmedIsABeginning
<1> DEFINE part == Take(text, k)
<1>6. part \in Seq(Characters) /\ Len(part) = k
  BY <1>4, TakeIsBeginning
<1> HIDE DEF part
<1>7. /\ Result \in Seq(Characters) /\ Len(Result) = k + Len(marker)
      /\ \A i \in 1 .. k : Result[i] = part[i]
  <2>1. Result = part \o marker
    BY <1>3, <1>5 DEF part
  <2>2. part \o marker \in Seq(Characters)
          /\ Len(part \o marker) = k + Len(marker)
    BY <1>4, <1>6, ConcatProperties
  <2>3. \A i \in 1 .. k : (part \o marker)[i] = part[i]
    <3>1. \A i \in 1 .. k : i \in 1 .. Len(part) + Len(marker) /\ i <= Len(part)
      BY <1>4, <1>6
    <3> QED
      BY <1>4, <1>6, <3>1, ConcatProperties
  <2> QED
    BY <2>1, <2>2, <2>3
<1>8. Len(Result) - Len(marker) = k /\ k \in 0 .. Len(Result)
  BY <1>4, <1>7
<1>9. Kept = Take(Result, k)
  BY <1>8 DEF Kept
<1>10. /\ Kept \in Seq(Characters) /\ Len(Kept) = k
       /\ \A i \in 1 .. k : Kept[i] = Result[i]
  BY <1>7, <1>8, <1>9, TakeIsBeginning
<1>11. Kept = part
  BY <1>6, <1>7, <1>10, SeqEqual
<1> QED
  BY <1>3, <1>5, <1>10, <1>11 DEF part

LEMMA MarkerDoesNotFit ==
  ASSUME Typed, ~(Bytes(text) <= limit), ~IsCut
  PROVE  \E i \in 0 .. Len(text) :
           Result = Take(text, i) /\ Sizes(text)[i] <= limit
<1>1. limit > 0 /\ Bytes(text) \in Nat /\ limit \in Nat /\ Bytes(marker) \in Nat
  BY BytesTypes DEF Typed
<1>2. ~(limit <= 0) /\ Bytes(text) > limit /\ Room <= 0 /\ ~(Room > 0)
  BY <1>1 DEF IsCut, Room
<1>3. Result = HardCut(text, limit)
  BY <1>1, <1>2 DEF Result, TruncateBytes, Room
<1> QED
  BY <1>1, <1>3, HardCutIsABeginning DEF Typed

LEMMA TypedFits == Typed => FitsTheLimit
<1> SUFFICES ASSUME Typed PROVE Bytes(Result) <= limit
  BY DEF FitsTheLimit
<1>1. text \in Seq(Characters) /\ marker \in Seq(Characters) /\ limit \in Nat
  BY DEF Typed
<1>2. CASE Bytes(text) <= limit
  BY <1>2, TextFits
<1>3. CASE IsCut
  <2>1. PICK k \in 0 .. Len(text) :
          Result = Take(text, k) \o marker /\ Kind(text, Room, k)
    BY <1>3, TextIsCut
  <2>2. /\ Take(text, k) \in Seq(Characters)
        /\ Bytes(Take(text, k)) = Sizes(text)[k]
    BY <1>1, TakeIsBeginning
  <2>3. Bytes(Result) = Sizes(text)[k] + Bytes(marker)
    BY <1>1, <2>1, <2>2, BytesOfConcat
  <2>4. Sizes(text)[k] <= limit - Bytes(marker)
    BY <2>1 DEF Kind, Room
  <2>5. Sizes(text)[k] \in Nat /\ Bytes(marker) \in Nat
    BY <1>1, SizesFollow, BytesTypes
  <2> QED
    BY <1>1, <2>3, <2>4, <2>5
<1>4. CASE ~(Bytes(text) <= limit) /\ ~IsCut
  <2>1. PICK i \in 0 .. Len(text) :
          Result = Take(text, i) /\ Sizes(text)[i] <= limit
    BY <1>4, MarkerDoesNotFit
  <2> QED
    BY <1>1, <2>1, TakeIsBeginning
<1> QED
  BY <1>2, <1>3, <1>4

(* The result fits into the limit, marker included, for texts of every     *)
(* length and characters of every width (text.py:34-56).                   *)
THEOREM CutTextsFit == Spec => []FitsTheLimit
BY TypedHolds, TypedFits, PTL

LEMMA TakeIsPrefix ==
  ASSUME NEW t \in Seq(Characters), NEW n \in 0 .. Len(t)
  PROVE  IsPrefix(Take(t, n), t)
<1>1. Take(t, n) \in Seq(Characters) /\ Len(Take(t, n)) = n
  BY TakeIsBeginning
<1>2. SubSeq(Take(t, n), 1, n) = Take(t, n)
  BY <1>1, SubSeqFull
<1> QED
  BY <1>1, <1>2 DEF IsPrefix, Take

LEMMA TypedKeeps == Typed => KeepsTheBeginning
<1> SUFFICES ASSUME Typed PROVE KeepsTheBeginning
  OBVIOUS
<1>1. text \in Seq(Characters)
  BY DEF Typed
<1>2. CASE Bytes(text) <= limit
  BY <1>2, TextFits DEF KeepsTheBeginning
<1>3. CASE ~(Bytes(text) <= limit) /\ IsCut
  <2>1. PICK k \in 0 .. Len(text) :
          Result = Take(text, k) \o marker /\ Kept = Take(text, k)
    BY <1>3, TextIsCut
  <2>2. IsPrefix(Kept, text)
    BY <1>1, <2>1, TakeIsPrefix
  <2> QED
    BY <1>3, <2>1, <2>2 DEF KeepsTheBeginning
<1>4. CASE ~(Bytes(text) <= limit) /\ ~IsCut
  <2>1. PICK i \in 0 .. Len(text) : Result = Take(text, i)
    BY <1>4, MarkerDoesNotFit
  <2>2. IsPrefix(Result, text)
    BY <1>1, <2>1, TakeIsPrefix
  <2> QED
    BY <1>4, <2>2 DEF KeepsTheBeginning
<1> QED
  BY <1>2, <1>3, <1>4

(* A text that fits is left alone; of another one the beginning is kept    *)
(* and, if it has room, the marker is put after it (text.py:37-56).        *)
THEOREM CutTextsBeginAlike == Spec => []KeepsTheBeginning
BY TypedHolds, TypedKeeps, PTL

LEMMA TypedUses == Typed => UsesTheRoom
<1> SUFFICES ASSUME Typed, IsCut
             PROVE  \/ Bytes(Kept) >= MinUse(Room)
                    \/ \A n \in Len(Kept) + 1 .. Len(text) :
                         text[n] \notin Whitespace =>
                           Bytes(Take(text, n)) > Room
  BY DEF UsesTheRoom
<1>1. text \in Seq(Characters)
  BY DEF Typed
<1>2. PICK k \in 0 .. Len(text) :
        Kept = Take(text, k) /\ Len(Kept) = k /\ Kind(text, Room, k)
  BY TextIsCut
<1>3. \A n \in 0 .. Len(text) : Bytes(Take(text, n)) = Sizes(text)[n]
  BY <1>1, TakeIsBeginning
<1>4. \A n \in k + 1 .. Len(text) : Bytes(Take(text, n)) = Sizes(text)[n]
  <2>1. \A n \in k + 1 .. Len(text) : n \in 0 .. Len(text)
    OBVIOUS
  <2> QED
    BY <1>3, <2>1
<1>5. \/ Sizes(text)[k] >= MinUse(Room)
      \/ \A n \in k + 1 .. Len(text) :
           text[n] \notin Whitespace => Sizes(text)[n] > Room
  BY <1>2 DEF Kind
<1>6. Bytes(Kept) = Sizes(text)[k]
  BY <1>2, <1>3
<1> QED
  BY <1>2, <1>4, <1>5, <1>6

(* A cut wastes at most a fifth of the room, or else nothing that it cuts  *)
(* off would have fitted (text.py:48-54).                                  *)
THEOREM CutTextsUseTheRoom == Spec => []UsesTheRoom
BY TypedHolds, TypedUses, PTL

LEMMA TypedEnds == Typed => EndsAtAWord
<1> SUFFICES ASSUME Typed, IsCut,
                    NEW n \in 1 .. Len(text), n < Len(text),
                    text[n + 1] = "space", text[n] \notin Whitespace,
                    Bytes(Take(text, n)) \in MinUse(Room) .. Room
             PROVE  /\ Len(Kept) < Len(text)
                    /\ text[Len(Kept) + 1] \in Whitespace
  BY DEF EndsAtAWord
<1>1. /\ text \in Seq(Characters)
      /\ n \in 0 .. Len(text) /\ n \in 1 .. Len(text) - 1
  BY DEF Typed
<1>2. PICK k \in 0 .. Len(text) : Len(Kept) = k /\ Kind(text, Room, k)
  BY TextIsCut
<1>3. Bytes(Take(text, n)) = Sizes(text)[n]
  BY <1>1, TakeIsBeginning
<1>4. Sizes(text)[n] <= Room /\ Sizes(text)[n] >= MinUse(Room)
  BY <1>3
<1>5. Bytes(text) > Room
  <2>1. Bytes(text) \in Nat /\ Bytes(marker) \in Nat /\ limit \in Nat
    BY BytesTypes DEF Typed
  <2> QED
    BY <2>1 DEF IsCut, Room
<1> QED
  BY <1>1, <1>2, <1>4, <1>5 DEF Kind

(* No word is cut in two where some space leaves enough of the room used   *)
(* (text.py:50-54).                                                        *)
THEOREM CutTextsEndAtWords == Spec => []EndsAtAWord
BY TypedHolds, TypedEnds, PTL
=============================================================================
