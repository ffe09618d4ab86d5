---------------------------- MODULE NodeIds_proofs ----------------------------
(***************************************************************************)
(* normalize_node_id reads every documented spelling of every node id, of  *)
(* any length: numerals are read back, and so name one number each.        *)
(***************************************************************************)
EXTENDS NodeIds, Induction

Bases == {10, 16}

LEMMA Division ==
  ASSUME NEW n \in Nat, NEW base \in Bases
  PROVE  /\ n \div base \in Nat /\ n % base \in 0 .. base - 1
         /\ n = (n \div base) * base + (n % base)
         /\ n # 0 => n \div base < n
         /\ n = 0 => n \div base = 0
<1>1. CASE base = 10
  <2>1. n \div 10 \in Nat /\ n % 10 \in 0 .. 9
    OBVIOUS
  <2>2. n = (n \div 10) * 10 + (n % 10)
    OBVIOUS
  <2> QED
    BY <1>1, <2>1, <2>2
<1>2. CASE base = 16
  <2>1. n \div 16 \in Nat /\ n % 16 \in 0 .. 15
    OBVIOUS
  <2>2. n = (n \div 16) * 16 + (n % 16)
    OBVIOUS
  <2> QED
    BY <1>2, <2>1, <2>2
<1> QED
  BY <1>1, <1>2 DEF Bases

----------------------------------------------------------------------------
(* The three recursive definitions                                         *)

(* Each digit is divided off what the later ones leave. *)
LEMMA RestsFollow ==
  ASSUME NEW n \in Nat, NEW base \in Bases, NEW count \in Nat
  PROVE  /\ \A k \in 0 .. count : Rests(n, base, count)[k] \in Nat
         /\ Rests(n, base, count)[0] = n
         /\ \A k \in Nat : k < count =>
              Rests(n, base, count)[k + 1] =
                Rests(n, base, count)[k] \div base
<1> DEFINE move == [i \in 1 .. count |-> [m \in Nat |-> m \div base]]
           Is(f) == f = [i \in 0 .. count |->
                           IF i = 0 THEN n ELSE f[i - 1] \div base]
           g == Rests(n, base, count)
<1>1. move \in [1 .. count -> [Nat -> Nat]]
  BY Division
<1>2. PICK f \in [0 .. count -> Nat] : Follows(f, n, move, count)
  <2> HIDE DEF move
  <2> QED
    BY <1>1, RecursionExists
<1>3. f[0] = n /\ \A i \in 1 .. count : f[i] = move[i][f[i - 1]]
  BY <1>2 DEF Follows
<1>4. \E h : Is(h)
  <2>1. ASSUME NEW i \in 0 .. count
        PROVE  f[i] = IF i = 0 THEN n ELSE f[i - 1] \div base
    <3>1. CASE i # 0
      <4>1. i \in 1 .. count /\ i - 1 \in 0 .. count
        BY <3>1
      <4>2. f[i - 1] \in Nat
        BY <1>2, <4>1
      <4> QED
        BY <1>3, <3>1, <4>1, <4>2
    <3> QED
      BY <1>3, <3>1
  <2>2. Is(f)
    BY <1>2, <2>1
  <2> QED
    BY <2>2
<1>5. Is(g)
  BY <1>4, Zenon DEF Rests
<1> HIDE DEF g
<1>6. /\ g[0] = n
      /\ \A k \in Nat : k < count => g[k + 1] = g[k] \div base
  <2>1. ASSUME NEW k \in Nat, k < count
        PROVE  k + 1 \in 0 .. count /\ k + 1 # 0 /\ k + 1 - 1 = k
    BY <2>1
  <2>2. 0 \in 0 .. count
    OBVIOUS
  <2> QED
    BY <1>5, <2>1, <2>2
<1>7. \A k \in 0 .. count : g[k] \in Nat
  <2> DEFINE T == {k \in Nat : k <= count => g[k] \in Nat}
  <2>1. 0 \in T
    BY <1>6
  <2>2. ASSUME NEW k \in T
        PROVE  k + 1 \in T
    <3> SUFFICES ASSUME k + 1 <= count
                 PROVE  g[k + 1] \in Nat
      OBVIOUS
    <3>1. k \in Nat /\ k < count /\ g[k] \in Nat
      OBVIOUS
    <3>2. g[k + 1] = g[k] \div base
      BY <1>6, <3>1
    <3> QED
      BY <3>1, <3>2, Division
  <2>3. T = Nat
    <3> HIDE DEF T
    <3>1. T \subseteq Nat
      BY DEF T
    <3> QED
      BY <2>1, <2>2, <3>1, Induct
  <2> QED
    BY <2>3
<1> QED
  BY <1>6, <1>7 DEF g

(* The value grows by one digit after the other. *)
LEMMA ValuesFollow ==
  ASSUME NEW digits \in Seq(Nat), NEW base \in Bases
  PROVE  /\ Values(digits, base)[0] = 0
         /\ \A k \in Nat : k < Len(digits) =>
              Values(digits, base)[k + 1] =
                Values(digits, base)[k] * base + digits[k + 1]
<1> DEFINE n == Len(digits)
           add(i) == [m \in Nat |-> m * base + digits[i]]
           move == [i \in 1 .. n |-> add(i)]
           Is(f) == f = [i \in 0 .. n |->
                           IF i = 0 THEN 0 ELSE f[i - 1] * base + digits[i]]
           g == Values(digits, base)
<1>1. move \in [1 .. n -> [Nat -> Nat]]
  <2>1. \A m \in Nat, d \in Nat : m * base + d \in Nat
    BY DEF Bases
  <2>2. \A i \in 1 .. n : digits[i] \in Nat
    OBVIOUS
  <2>3. \A i \in 1 .. n : add(i) \in [Nat -> Nat]
    BY <2>1, <2>2
  <2> HIDE DEF add, n
  <2> QED
    BY <2>3
<1>2. PICK f \in [0 .. n -> Nat] : Follows(f, 0, move, n)
  <2>1. n \in Nat
    OBVIOUS
  <2> HIDE DEF move, n
  <2> QED
    BY <1>1, <2>1, RecursionExists
<1>3. f[0] = 0 /\ \A i \in 1 .. n : f[i] = move[i][f[i - 1]]
  BY <1>2 DEF Follows
<1>4. \E h : Is(h)
  <2>1. ASSUME NEW i \in 0 .. n
        PROVE  f[i] = IF i = 0 THEN 0 ELSE f[i - 1] * base + digits[i]
    <3>1. CASE i # 0
      <4>1. i \in 1 .. n /\ i - 1 \in 0 .. n
        BY <3>1
      <4>2. f[i - 1] \in Nat
        BY <1>2, <4>1
      <4> QED
        BY <1>3, <3>1, <4>1, <4>2
    <3> QED
      BY <1>3, <3>1
  <2>2. Is(f)
    <3> HIDE DEF n
    <3> QED
      BY <1>2, <2>1
  <2> QED
    BY <2>2
<1>5. Is(g)
  BY <1>4, Zenon DEF Values
<1> HIDE DEF g
<1>6. /\ g[0] = 0
      /\ \A k \in Nat : k < n => g[k + 1] = g[k] * base + digits[k + 1]
  <2>1. \A i \in 0 .. n :
          g[i] = IF i = 0 THEN 0 ELSE g[i - 1] * base + digits[i]
    BY <1>5, Zenon
  <2>2. 0 \in 0 .. n
    OBVIOUS
  <2>3. ASSUME NEW k \in Nat, k < n
        PROVE  g[k + 1] = g[k] * base + digits[k + 1]
    <3>1. k + 1 \in 0 .. n /\ k + 1 # 0 /\ k + 1 - 1 = k
      BY <2>3
    <3> QED
      BY <2>1, <3>1
  <2> QED
    BY <2>1, <2>2, <2>3
<1> QED
  BY <1>6 DEF g

LEMMA PowersFollow ==
  ASSUME NEW count \in Nat
  PROVE  /\ \A k \in 0 .. count : Powers(count)[k] \in Nat
         /\ Powers(count)[0] = 1
         /\ \A k \in Nat : k < count =>
              Powers(count)[k + 1] = Powers(count)[k] * 16
<1> DEFINE move == [i \in 1 .. count |-> [m \in Nat |-> m * 16]]
           Is(f) == f = [i \in 0 .. count |->
                           IF i = 0 THEN 1 ELSE f[i - 1] * 16]
           g == Powers(count)
<1>1. move \in [1 .. count -> [Nat -> Nat]]
  OBVIOUS
<1>2. PICK f \in [0 .. count -> Nat] : Follows(f, 1, move, count)
  <2> HIDE DEF move
  <2> QED
    BY <1>1, RecursionExists
<1>3. f[0] = 1 /\ \A i \in 1 .. count : f[i] = move[i][f[i - 1]]
  BY <1>2 DEF Follows
<1>4. \E h : Is(h)
  <2>1. ASSUME NEW i \in 0 .. count
        PROVE  f[i] = IF i = 0 THEN 1 ELSE f[i - 1] * 16
    <3>1. CASE i # 0
      <4>1. i \in 1 .. count /\ i - 1 \in 0 .. count
        BY <3>1
      <4>2. f[i - 1] \in Nat
        BY <1>2, <4>1
      <4> QED
        BY <1>3, <3>1, <4>1, <4>2
    <3> QED
      BY <1>3, <3>1
  <2>2. Is(f)
    BY <1>2, <2>1
  <2> QED
    BY <2>2
<1>5. Is(g)
  BY <1>4, Zenon DEF Powers
<1> HIDE DEF g
<1>6. /\ g[0] = 1
      /\ \A k \in Nat : k < count => g[k + 1] = g[k] * 16
  <2>1. ASSUME NEW k \in Nat, k < count
        PROVE  k + 1 \in 0 .. count /\ k + 1 # 0 /\ k + 1 - 1 = k
    BY <2>1
  <2>2. 0 \in 0 .. count
    OBVIOUS
  <2> QED
    BY <1>5, <2>1, <2>2
<1>7. \A k \in 0 .. count : g[k] \in Nat
  <2> DEFINE T == {k \in Nat : k <= count => g[k] \in Nat}
  <2>1. 0 \in T
    BY <1>6
  <2>2. ASSUME NEW k \in T
        PROVE  k + 1 \in T
    BY <1>6
  <2>3. T = Nat
    <3> HIDE DEF T
    <3>1. T \subseteq Nat
      BY DEF T
    <3> QED
      BY <2>1, <2>2, <3>1, Induct
  <2> QED
    BY <2>3
<1> QED
  BY <1>6, <1>7 DEF g

----------------------------------------------------------------------------
(* Numerals                                                                *)

(* What is left does not depend on how many more digits are divided off.   *)
LEMMA RestsAgree ==
  ASSUME NEW n \in Nat, NEW base \in Bases, NEW less \in Nat, NEW more \in Nat
  PROVE  \A k \in Nat : k <= less /\ k <= more =>
           Rests(n, base, less)[k] = Rests(n, base, more)[k]
<1> DEFINE f == Rests(n, base, less)
           g == Rests(n, base, more)
           T == {k \in Nat : k <= less /\ k <= more => f[k] = g[k]}
<1>0. f[0] = n /\ \A k \in Nat : k < less => f[k + 1] = f[k] \div base
  BY RestsFollow
<1>1. g[0] = n /\ \A k \in Nat : k < more => g[k + 1] = g[k] \div base
  BY RestsFollow
<1> HIDE DEF f, g
<1>2. 0 \in T
  BY <1>0, <1>1
<1>3. ASSUME NEW k \in T
      PROVE  k + 1 \in T
  BY <1>0, <1>1
<1>4. T = Nat
  <2> HIDE DEF T
  <2>1. T \subseteq Nat
    BY DEF T
  <2> QED
    BY <1>2, <1>3, <2>1, Induct
<1> QED
  BY <1>4 DEF f, g

(* It gets less until nothing is left. *)
LEMMA RestsShrink ==
  ASSUME NEW n \in Nat, NEW base \in Bases, NEW count \in Nat
  PROVE  \A k \in Nat : k <= count =>
           \/ Rests(n, base, count)[k] = 0
           \/ Rests(n, base, count)[k] + k <= n
<1> DEFINE g == Rests(n, base, count)
           T == {k \in Nat : k <= count => g[k] = 0 \/ g[k] + k <= n}
<1>1. /\ g[0] = n /\ \A k \in Nat : k < count => g[k + 1] = g[k] \div base
      /\ \A k \in 0 .. count : g[k] \in Nat
  BY RestsFollow
<1> HIDE DEF g
<1>2. 0 \in T
  BY <1>1
<1>3. ASSUME NEW k \in T
      PROVE  k + 1 \in T
  <2> SUFFICES ASSUME k + 1 <= count
               PROVE  g[k + 1] = 0 \/ g[k + 1] + (k + 1) <= n
    OBVIOUS
  <2>1. /\ k \in Nat /\ k < count /\ k \in 0 .. count
        /\ g[k] = 0 \/ g[k] + k <= n
    OBVIOUS
  <2>2. g[k + 1] = g[k] \div base /\ g[k] \in Nat
    BY <1>1, <2>1
  <2>3. /\ g[k + 1] \in Nat
        /\ g[k] # 0 => g[k + 1] < g[k]
        /\ g[k] = 0 => g[k + 1] = 0
    BY <2>2, Division
  <2> QED
    BY <2>1, <2>2, <2>3
<1>4. T = Nat
  <2> HIDE DEF T
  <2>1. T \subseteq Nat
    BY DEF T
  <2> QED
    BY <1>2, <1>3, <2>1, Induct
<1> QED
  BY <1>4 DEF g

(* Once nothing is left it stays so. *)
LEMMA RestsStop ==
  ASSUME NEW n \in Nat, NEW base \in Bases, NEW count \in Nat, NEW i \in Nat,
         Rests(n, base, count)[i] = 0
  PROVE  \A k \in Nat : i <= k /\ k <= count => Rests(n, base, count)[k] = 0
<1> DEFINE g == Rests(n, base, count)
           T == {k \in Nat : i <= k /\ k <= count => g[k] = 0}
<1>1. g[i] = 0 /\ \A k \in Nat : k < count => g[k + 1] = g[k] \div base
  BY RestsFollow
<1> HIDE DEF g
<1>2. 0 \in T
  BY <1>1
<1>3. ASSUME NEW k \in T
      PROVE  k + 1 \in T
  <2> SUFFICES ASSUME i <= k + 1, k + 1 <= count
               PROVE  g[k + 1] = 0
    OBVIOUS
  <2>1. CASE i = k + 1
    BY <1>1, <2>1
  <2>2. CASE i # k + 1
    <3>1. g[k] = 0 /\ g[k + 1] = g[k] \div base
      BY <1>1, <2>2
    <3> QED
      BY <3>1, Division
  <2> QED
    BY <2>1, <2>2
<1>4. T = Nat
  <2> HIDE DEF T
  <2>1. T \subseteq Nat
    BY DEF T
  <2> QED
    BY <1>2, <1>3, <2>1, Induct
<1> QED
  BY <1>4 DEF g

IsWidth(w, n, base, least) ==
  /\ w \in least .. n + least
  /\ Rests(n, base, w)[w] = 0
  /\ w > least => Rests(n, base, w)[w - 1] # 0

(* Every number has a numeral. *)
LEMMA WidthExists ==
  ASSUME NEW n \in Nat, NEW base \in Bases, NEW least \in Nat
  PROVE  \E w : IsWidth(w, n, base, least)
<1> DEFINE W == {w \in least .. n + least : Rests(n, base, w)[w] = 0}
<1>1. n + least \in W
  <2>1. \/ Rests(n, base, n + least)[n + least] = 0
        \/ Rests(n, base, n + least)[n + least] + (n + least) <= n
    BY RestsShrink
  <2>2. Rests(n, base, n + least)[n + least] \in Nat
    <3>1. n + least \in Nat /\ n + least \in 0 .. n + least
      OBVIOUS
    <3> QED
      BY <3>1, RestsFollow
  <2> QED
    BY <2>1, <2>2
<1>2. PICK w \in W : \A k \in W : w <= k
  <2>1. W \subseteq Nat
    OBVIOUS
  <2> HIDE DEF W
  <2> QED
    BY <1>1, <2>1, Least
<1>3. ASSUME w > least, Rests(n, base, w)[w - 1] = 0
      PROVE  FALSE
  <2>1. w - 1 \in least .. n + least /\ w - 1 \in Nat /\ w \in Nat
    BY <1>2, <1>3
  <2>2. Rests(n, base, w - 1)[w - 1] = 0
    BY <1>3, <2>1, RestsAgree
  <2>3. w - 1 \in W
    BY <2>1, <2>2
  <2> QED
    BY <1>2, <2>1, <2>3
<1> QED
  BY <1>2, <1>3 DEF IsWidth

LEMMA DigitsAre ==
  ASSUME NEW n \in Nat, NEW base \in Bases, NEW least \in Nat
  PROVE  \E w \in Nat :
           /\ IsWidth(w, n, base, least)
           /\ Digits(n, base, least) =
                [i \in 1 .. w |-> Rests(n, base, w)[w - i] % base]
<1> DEFINE w == CHOOSE w \in least .. n + least :
                  /\ Rests(n, base, w)[w] = 0
                  /\ w > least => Rests(n, base, w)[w - 1] # 0
<1>1. IsWidth(w, n, base, least)
  BY WidthExists DEF IsWidth
<1>2. Digits(n, base, least) =
        [i \in 1 .. w |-> Rests(n, base, w)[w - i] % base]
  BY Zenon DEF Digits
<1>3. w \in Nat
  BY <1>1 DEF IsWidth
<1> HIDE DEF w
<1> QED
  BY <1>1, <1>2, <1>3

LEMMA DigitsAreDigits ==
  ASSUME NEW n \in Nat, NEW base \in Bases, NEW least \in Nat
  PROVE  /\ Digits(n, base, least) \in Seq(Nat)
         /\ \A i \in DOMAIN Digits(n, base, least) :
              Digits(n, base, least)[i] < base
<1>1. PICK w \in Nat :
        /\ IsWidth(w, n, base, least)
        /\ Digits(n, base, least) =
             [i \in 1 .. w |-> Rests(n, base, w)[w - i] % base]
  BY DigitsAre
<1>2. ASSUME NEW i \in 1 .. w
      PROVE  /\ Rests(n, base, w)[w - i] % base \in Nat
             /\ Rests(n, base, w)[w - i] % base < base
  <2>1. w - i \in 0 .. w
    OBVIOUS
  <2>2. Rests(n, base, w)[w - i] \in Nat
    BY <2>1, RestsFollow
  <2>3. Rests(n, base, w)[w - i] % base \in 0 .. base - 1
    BY <2>2, Division
  <2> QED
    BY <2>3 DEF Bases
<1> DEFINE digit(i) == Rests(n, base, w)[w - i] % base
<1>3. Digits(n, base, least) = [i \in 1 .. w |-> digit(i)]
  BY <1>1
<1>4. \A i \in 1 .. w : digit(i) \in Nat /\ digit(i) < base
  BY <1>2
<1> HIDE DEF digit
<1> QED
  BY <1>3, <1>4

(* A numeral is read back as the number that was written. *)
THEOREM NumeralsAreReadBack ==
  ASSUME NEW n \in Nat, NEW base \in Bases, NEW least \in Nat
  PROVE  ValueOf(Digits(n, base, least), base) = n
<1> DEFINE digits == Digits(n, base, least)
<1>1. PICK w \in Nat :
        /\ IsWidth(w, n, base, least)
        /\ digits = [i \in 1 .. w |-> Rests(n, base, w)[w - i] % base]
  BY DigitsAre
<1> DEFINE rest == Rests(n, base, w)
           value == Values(digits, base)
           T == {k \in Nat : k <= w => value[k] = rest[w - k]}
<1>2. /\ rest[0] = n /\ rest[w] = 0
      /\ \A k \in Nat : k < w => rest[k + 1] = rest[k] \div base
      /\ \A k \in 0 .. w : rest[k] \in Nat
  <2>1. /\ rest[0] = n
        /\ \A k \in Nat : k < w => rest[k + 1] = rest[k] \div base
    BY RestsFollow
  <2>2. \A k \in 0 .. w : rest[k] \in Nat
    BY RestsFollow
  <2>3. rest[w] = 0
    BY <1>1 DEF IsWidth
  <2> QED
    BY <2>1, <2>2, <2>3
<1>3. digits \in Seq(Nat) /\ Len(digits) = w
  <2>1. digits \in Seq(Nat)
    BY DigitsAreDigits
  <2>2. DOMAIN digits = 1 .. w
    <3> DEFINE digit(i) == rest[w - i] % base
    <3>1. digits = [i \in 1 .. w |-> digit(i)]
      BY <1>1
    <3> HIDE DEF digit, digits
    <3> QED
      BY <3>1
  <2> HIDE DEF digits
  <2> QED
    BY <2>1, <2>2
<1>4. \A i \in 1 .. w : digits[i] = rest[w - i] % base
  BY <1>1
<1> HIDE DEF digits, rest
<1>5. /\ value[0] = 0
      /\ \A k \in Nat : k < w => value[k + 1] = value[k] * base + digits[k + 1]
  BY <1>3, ValuesFollow
<1> HIDE DEF value
<1>6. 0 \in T
  BY <1>2, <1>5
<1>7. ASSUME NEW k \in T
      PROVE  k + 1 \in T
  <2> SUFFICES ASSUME k + 1 <= w
               PROVE  value[k + 1] = rest[w - (k + 1)]
    OBVIOUS
  <2> DEFINE j == w - (k + 1)
  <2>1. /\ k \in Nat /\ k < w /\ k + 1 \in 1 .. w
        /\ j \in Nat /\ j < w /\ j + 1 = w - k /\ j \in 0 .. w
        /\ value[k] = rest[w - k]
    OBVIOUS
  <2> HIDE DEF j
  <2>2. value[k] = rest[j] \div base
    BY <1>2, <2>1
  <2>3. digits[k + 1] = rest[j] % base
    BY <1>4, <2>1 DEF j
  <2>4. value[k + 1] = (rest[j] \div base) * base + (rest[j] % base)
    BY <1>5, <2>1, <2>2, <2>3
  <2>5. rest[j] = (rest[j] \div base) * base + (rest[j] % base)
    BY <1>2, <2>1, Division
  <2> QED
    BY <2>4, <2>5 DEF j
<1>8. T = Nat
  <2> HIDE DEF T
  <2>1. T \subseteq Nat
    BY DEF T
  <2> QED
    BY <1>6, <1>7, <2>1, Induct
<1>9. value[w] = n
  BY <1>2, <1>8
<1> QED
  BY <1>3, <1>9 DEF ValueOf, value, digits

(* So two numbers have two numerals. *)
LEMMA NumeralsDiffer ==
  ASSUME NEW n \in Nat, NEW m \in Nat, NEW base \in Bases, NEW least \in Nat
  PROVE  Digits(n, base, least) = Digits(m, base, least) <=> n = m
  BY NumeralsAreReadBack

(* A number below 16^count has nothing left after so many digits. *)
LEMMA NothingLeft ==
  ASSUME NEW n \in Nat, NEW count \in Nat, n < Powers(count)[count]
  PROVE  Rests(n, 16, count)[count] = 0
<1> DEFINE rest == Rests(n, 16, count)
           power == Powers(count)
           T == {k \in Nat : k <= count => rest[k] < power[count - k]}
<1>0. 16 \in Bases
  BY DEF Bases
<1>1. /\ rest[0] = n
      /\ \A k \in Nat : k < count => rest[k + 1] = rest[k] \div 16
      /\ \A k \in 0 .. count : rest[k] \in Nat
  <2>1. /\ rest[0] = n
        /\ \A k \in Nat : k < count => rest[k + 1] = rest[k] \div 16
    BY <1>0, RestsFollow
  <2>2. \A k \in 0 .. count : rest[k] \in Nat
    BY <1>0, RestsFollow
  <2> QED
    BY <2>1, <2>2
<1>2. /\ power[0] = 1
      /\ \A k \in Nat : k < count => power[k + 1] = power[k] * 16
      /\ \A k \in 0 .. count : power[k] \in Nat
  BY PowersFollow
<1>3. n < power[count]
  OBVIOUS
<1> HIDE DEF rest, power
<1>4. 0 \in T
  BY <1>1, <1>3
<1>5. ASSUME NEW k \in T
      PROVE  k + 1 \in T
  <2> SUFFICES ASSUME k + 1 <= count
               PROVE  rest[k + 1] < power[count - (k + 1)]
    OBVIOUS
  <2> DEFINE j == count - (k + 1)
  <2>1. /\ k \in Nat /\ k < count /\ k \in 0 .. count
        /\ j \in Nat /\ j < count /\ j + 1 = count - k /\ j \in 0 .. count
        /\ rest[k] < power[count - k]
    OBVIOUS
  <2> HIDE DEF j
  <2>2. rest[k] < power[j] * 16
    BY <1>2, <2>1
  <2>3. rest[k] \in Nat /\ power[j] \in Nat /\ rest[k + 1] = rest[k] \div 16
    BY <1>1, <1>2, <2>1
  <2>4. \A a, b \in Nat : a < b * 16 => a \div 16 < b
    OBVIOUS
  <2> QED
    BY <2>2, <2>3, <2>4 DEF j
<1>6. T = Nat
  <2> HIDE DEF T
  <2>1. T \subseteq Nat
    BY DEF T
  <2> QED
    BY <1>4, <1>5, <2>1, Induct
<1>7. rest[count] < power[0]
  <2>1. count \in T /\ count - count = 0
    BY <1>6
  <2> QED
    BY <2>1
<1> QED
  BY <1>1, <1>2, <1>7 DEF rest

(* An id has its eight digits, no more. *)
LEMMA IdsAreShort ==
  ASSUME NEW node \in NodeNumbers
  PROVE  node \in Nat /\ Len(Digits(node, 16, IdDigits)) = IdDigits
<1>1. IdDigits \in Nat /\ 16 \in Bases
  BY IdAssumption DEF Bases
<1>2. Powers(IdDigits)[IdDigits] \in Nat
  BY <1>1, PowersFollow
<1>3. node \in Nat /\ node < Powers(IdDigits)[IdDigits]
  BY <1>2 DEF NodeNumbers
<1>4. Rests(node, 16, IdDigits)[IdDigits] = 0
  BY <1>1, <1>3, NothingLeft
<1>5. PICK w \in Nat :
        /\ IsWidth(w, node, 16, IdDigits)
        /\ Digits(node, 16, IdDigits) =
             [i \in 1 .. w |-> Rests(node, 16, w)[w - i] % 16]
  BY <1>1, <1>3, DigitsAre
<1>6. ASSUME w > IdDigits
      PROVE  FALSE
  <2>1. w - 1 \in Nat /\ IdDigits <= w - 1 /\ w - 1 <= w
    BY <1>1, <1>6
  <2>2. Rests(node, 16, w)[IdDigits] = 0
    BY <1>1, <1>3, <1>4, <1>6, RestsAgree
  <2>3. Rests(node, 16, w)[w - 1] = 0
    BY <1>1, <1>3, <2>1, <2>2, RestsStop
  <2> QED
    BY <1>5, <1>6, <2>3 DEF IsWidth
<1>7. w = IdDigits
  BY <1>1, <1>5, <1>6 DEF IsWidth
<1> QED
  BY <1>3, <1>5, <1>7

----------------------------------------------------------------------------
(* Every documented spelling is read: over all node numbers, for ids of    *)
(* any length, normalize_node_id makes a spelling equal to the id of       *)
(* another node exactly when they are the same node (config.py:70-97).     *)
THEOREM EverySpellingIsRead == SpellingsAreRead
<1> SUFFICES ASSUME NEW node \in NodeNumbers, NEW other \in NodeNumbers,
                    NEW id \in Spellings(node)
             PROVE  Normalize(id) = Normalize(IdOf(other)) <=> node = other
  BY DEF SpellingsAreRead
<1> DEFINE D(n) == Digits(n, 16, IdDigits)
<1>1. IdDigits \in Nat /\ 16 \in Bases /\ 10 \in Bases /\ 1 \in Nat
  BY IdAssumption DEF Bases
<1>2. ASSUME NEW n \in NodeNumbers
      PROVE  Normalize(IdOf(n)) = D(n)
  <2>1. IdOf(n) = [form |-> "text", value |-> D(n)]
    BY DEF IdOf, Text
  <2>2. ~(Len(D(n)) > IdDigits)
    BY <1>1, IdsAreShort
  <2> HIDE DEF D
  <2>3. /\ IdOf(n).form = "text" /\ IdOf(n).form # "number"
        /\ IdOf(n).value = D(n)
    BY <2>1
  <2> QED
    BY <2>2, <2>3 DEF Normalize
<1>3. D(node) = D(other) <=> node = other
  BY <1>1, IdsAreShort, NumeralsDiffer
<1>4. Normalize(id) = D(node)
  <2>1. CASE id = IdOf(node)
    BY <1>2, <2>1
  <2>2. CASE id = Number(node)
    <3>1. id.form = "number" /\ id.value = node
      BY <2>2 DEF Number
    <3> QED
      BY <3>1 DEF Normalize
  <2>3. CASE \E digits \in {d \in {Digits(node, 10, 1)} : Len(d) > IdDigits} :
               id = Text(digits)
    <3> DEFINE decimal == Digits(node, 10, 1)
    <3>1. id = Text(decimal) /\ Len(decimal) > IdDigits
      BY <2>3
    <3>2. node \in Nat
      BY IdsAreShort
    <3>3. IsDecimal(decimal)
      BY <1>1, <3>2, DigitsAreDigits DEF IsDecimal
    <3>4. ValueOf(decimal, 10) = node
      BY <1>1, <3>2, NumeralsAreReadBack
    <3> HIDE DEF decimal
    <3>5. id.form = "text" /\ id.form # "number" /\ id.value = decimal
      BY <3>1 DEF Text
    <3> QED
      BY <3>1, <3>3, <3>4, <3>5 DEF Normalize
  <2> QED
    BY <2>1, <2>2, <2>3 DEF Spellings
<1> QED
  BY <1>2, <1>3, <1>4
=============================================================================
