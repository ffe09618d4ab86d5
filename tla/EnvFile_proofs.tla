--------------------------- MODULE EnvFile_proofs ---------------------------
(***************************************************************************)
(* What holds of EnvFile for every template, all names and values, and any *)
(* number of runs, failures and edits.                                     *)
(***************************************************************************)
EXTENDS EnvFile, Induction

Contents == Anything \union {"text", "paste the key here"}
Line == [name : STRING \union {"#"}, value : Contents]

(* No line assigns the name, or one does. *)
NoLine(file, name) == \A i \in DOMAIN file : file[i].name # name
OneLine(file, name) ==
  \E n \in DOMAIN file : \A i \in DOMAIN file : file[i].name = name <=> i = n

----------------------------------------------------------------------------
(* The two recursive definitions                                           *)

(* Reading goes by one line after the other. *)
LEMMA ReadingFollows ==
  ASSUME NEW file \in Seq(Line), NEW name
  PROVE  /\ Reading(file, name)[0] = "unset"
         /\ \A k \in Nat : k < Len(file) =>
              Reading(file, name)[k + 1] =
                IF file[k + 1].name = name THEN file[k + 1].value
                                           ELSE Reading(file, name)[k]
<1> DEFINE n == Len(file)
           S == {"unset"} \union {file[i].value : i \in 1 .. n}
           move == [i \in 1 .. n |-> [v \in S |->
                      IF file[i].name = name THEN file[i].value ELSE v]]
           Is(f) == f = [i \in 0 .. n |->
                           IF i = 0 THEN "unset"
                           ELSE IF file[i].name = name THEN file[i].value
                           ELSE f[i - 1]]
<1>1. "unset" \in S /\ n \in Nat /\ move \in [1 .. n -> [S -> S]]
  OBVIOUS
<1>2. PICK f \in [0 .. n -> S] : Follows(f, "unset", move, n)
  <2> HIDE DEF move, S, n
  <2> QED
    BY <1>1, RecursionExists
<1>3. \E g : Is(g)
  <2>1. f[0] = "unset" /\ \A i \in 1 .. n : f[i] = move[i][f[i - 1]]
    BY <1>2 DEF Follows
  <2>2. ASSUME NEW i \in 1 .. n
        PROVE  f[i] = IF file[i].name = name THEN file[i].value ELSE f[i - 1]
    <3>1. f[i - 1] \in S
      <4> HIDE DEF S, n
      <4> QED
        BY <1>1, <1>2
    <3> QED
      BY <2>1, <3>1
  <2>3. Is(f)
    <3> HIDE DEF S, n
    <3> QED
      BY <1>2, <2>1, <2>2
  <2> QED
    BY <2>3
<1>4. Is(Reading(file, name))
  BY <1>3, Zenon DEF Reading
<1>5. ASSUME NEW k \in Nat, k < n
      PROVE  k + 1 \in 0 .. n /\ k + 1 # 0 /\ k + 1 - 1 = k
  OBVIOUS
<1> QED
  BY <1>4, <1>5

(* The lines that come later do not matter to those before. *)
LEMMA ReadingOfAppend ==
  ASSUME NEW file \in Seq(Line), NEW line \in Line, NEW name,
         NEW i \in 0 .. Len(file)
  PROVE  Reading(Append(file, line), name)[i] = Reading(file, name)[i]
<1> DEFINE longer == Append(file, line)
           T == {k \in Nat : k <= Len(file) =>
                   Reading(longer, name)[k] = Reading(file, name)[k]}
<1>1. /\ longer \in Seq(Line) /\ Len(longer) = Len(file) + 1
      /\ \A k \in 1 .. Len(file) : longer[k] = file[k]
  OBVIOUS
<1>2. 0 \in T
  <2>1. Reading(longer, name)[0] = "unset" /\ Reading(file, name)[0] = "unset"
    BY <1>1, ReadingFollows
  <2> QED
    BY <2>1
<1>3. ASSUME NEW k \in T
      PROVE  k + 1 \in T
  <2> SUFFICES ASSUME k + 1 <= Len(file)
               PROVE  Reading(longer, name)[k + 1] = Reading(file, name)[k + 1]
    OBVIOUS
  <2>1. /\ k \in Nat /\ k < Len(longer) /\ k < Len(file)
        /\ k + 1 \in 1 .. Len(file)
    BY <1>1
  <2>2. Reading(longer, name)[k] = Reading(file, name)[k]
    BY <2>1
  <2>3. longer[k + 1] = file[k + 1]
    BY <1>1, <2>1
  <2> HIDE DEF T, longer
  <2>4. Reading(longer, name)[k + 1] =
          IF longer[k + 1].name = name THEN longer[k + 1].value
          ELSE Reading(longer, name)[k]
    BY <1>1, <2>1, ReadingFollows
  <2>5. Reading(file, name)[k + 1] =
          IF file[k + 1].name = name THEN file[k + 1].value
          ELSE Reading(file, name)[k]
    BY <2>1, ReadingFollows
  <2> QED
    BY <2>2, <2>3, <2>4, <2>5 DEF T
<1>4. T = Nat
  <2> HIDE DEF T
  <2>1. T \subseteq Nat
    BY DEF T
  <2> QED
    BY <1>2, <1>3, <2>1, Induct
<1> QED
  BY <1>4

(* The last line of a name counts. *)
LEMMA ValueOfAppend ==
  ASSUME NEW file \in Seq(Line), NEW line \in Line, NEW name
  PROVE  ValueIn(Append(file, line), name) =
           IF line.name = name THEN line.value ELSE ValueIn(file, name)
<1> DEFINE longer == Append(file, line)
           n == Len(file)
<1>1. /\ longer \in Seq(Line) /\ Len(longer) = n + 1 /\ longer[n + 1] = line
      /\ n \in Nat /\ n + 1 \in 1 .. Len(longer) /\ n \in 0 .. Len(file)
  OBVIOUS
<1> HIDE DEF longer
<1>2. Reading(longer, name)[n + 1] =
        IF longer[n + 1].name = name THEN longer[n + 1].value
        ELSE Reading(longer, name)[n + 1 - 1]
  BY <1>1, ReadingFollows
<1>3. Reading(longer, name)[n] = Reading(file, name)[n]
  BY <1>1, ReadingOfAppend DEF longer
<1>4. ValueIn(longer, name) =
        IF line.name = name THEN line.value ELSE ValueIn(file, name)
  BY <1>1, <1>2, <1>3 DEF ValueIn
<1> QED
  BY <1>4 DEF longer

(* A value that a file gives is the one of some line. *)
LEMMA ValueIsALines ==
  ASSUME NEW file \in Seq(Line), NEW name
  PROVE  \/ ValueIn(file, name) = "unset"
         \/ \E i \in DOMAIN file : /\ file[i].name = name
                                   /\ ValueIn(file, name) = file[i].value
<1> DEFINE T == {k \in Nat : k <= Len(file) =>
                   \/ Reading(file, name)[k] = "unset"
                   \/ \E i \in DOMAIN file :
                        /\ file[i].name = name
                        /\ Reading(file, name)[k] = file[i].value}
<1>1. 0 \in T
  BY ReadingFollows
<1>2. ASSUME NEW k \in T
      PROVE  k + 1 \in T
  <2> SUFFICES ASSUME k + 1 <= Len(file)
               PROVE  k + 1 \in T
    OBVIOUS
  <2>1. k + 1 \in 1 .. Len(file) /\ k + 1 \in DOMAIN file /\ k + 1 - 1 = k
    OBVIOUS
  <2>2. Reading(file, name)[k + 1] =
          IF file[k + 1].name = name THEN file[k + 1].value
          ELSE Reading(file, name)[k]
    BY <2>1, ReadingFollows
  <2> QED
    BY <2>1, <2>2
<1>3. T = Nat
  <2> HIDE DEF T
  <2>1. T \subseteq Nat
    BY DEF T
  <2> QED
    BY <1>1, <1>2, <2>1, Induct
<1>4. Len(file) \in T
  BY <1>3
<1> QED
  BY <1>4 DEF ValueIn

LEMMA ValueIsContents ==
  ASSUME NEW file \in Seq(Line), NEW name
  PROVE  ValueIn(file, name) \in Contents
<1>1. "unset" \in Contents
  BY DEF Contents, Anything
<1>2. \A i \in DOMAIN file : file[i].value \in Contents
  <2>1. \A line \in Line : line.value \in Contents
    BY DEF Line
  <2>2. \A i \in DOMAIN file : file[i] \in Line
    OBVIOUS
  <2> QED
    BY <2>1, <2>2
<1>3. CASE ValueIn(file, name) = "unset"
  BY <1>1, <1>3
<1>4. CASE \E i \in DOMAIN file : /\ file[i].name = name
                                 /\ ValueIn(file, name) = file[i].value
  BY <1>2, <1>4
<1> QED
  BY <1>3, <1>4, ValueIsALines

(* The lines for other names are kept one after the other. *)
LEMMA OthersFollow ==
  ASSUME NEW file \in Seq(Line), NEW name
  PROVE  /\ Others(file, name) \in [0 .. Len(file) -> Seq(Line)]
         /\ Others(file, name)[0] = <<>>
         /\ \A k \in Nat : k < Len(file) =>
              Others(file, name)[k + 1] =
                IF file[k + 1].name = name THEN Others(file, name)[k]
                ELSE Append(Others(file, name)[k], file[k + 1])
<1> DEFINE n == Len(file)
           S == Seq(Line)
           move == [i \in 1 .. n |-> [kept \in S |->
                      IF file[i].name = name THEN kept
                                             ELSE Append(kept, file[i])]]
           Is(f) == f = [i \in 0 .. n |->
                           IF i = 0 THEN <<>>
                           ELSE IF file[i].name = name THEN f[i - 1]
                           ELSE Append(f[i - 1], file[i])]
           g == Others(file, name)
<1>1. <<>> \in S /\ n \in Nat /\ move \in [1 .. n -> [S -> S]]
  OBVIOUS
<1>2. PICK f \in [0 .. n -> S] : Follows(f, <<>>, move, n)
  <2> HIDE DEF move, S, n
  <2> QED
    BY <1>1, RecursionExists
<1>3. f[0] = <<>> /\ \A i \in 1 .. n : f[i] = move[i][f[i - 1]]
  BY <1>2 DEF Follows
<1>4. ASSUME NEW i \in 1 .. n
      PROVE  f[i] = IF file[i].name = name THEN f[i - 1]
                                           ELSE Append(f[i - 1], file[i])
  <2>1. f[i - 1] \in S
    <3> HIDE DEF S, n
    <3> QED
      BY <1>1, <1>2
  <2> QED
    BY <1>3, <2>1
<1>5. \E h : Is(h)
  <2>1. ASSUME NEW i \in 0 .. n
        PROVE  f[i] = IF i = 0 THEN <<>>
                      ELSE IF file[i].name = name THEN f[i - 1]
                      ELSE Append(f[i - 1], file[i])
    <3>1. i # 0 => i \in 1 .. n
      OBVIOUS
    <3> QED
      BY <1>3, <1>4, <3>1
  <2>2. Is(f)
    <3> HIDE DEF S, n
    <3> QED
      BY <1>2, <2>1
  <2> QED
    BY <2>2
<1>6. Is(g)
  BY <1>5, Zenon DEF Others
<1> HIDE DEF g
<1>7. /\ g[0] = <<>>
      /\ \A k \in Nat : k < n =>
           g[k + 1] = IF file[k + 1].name = name THEN g[k]
                      ELSE Append(g[k], file[k + 1])
  <2>1. \A i \in 0 .. n :
          g[i] = IF i = 0 THEN <<>>
                 ELSE IF file[i].name = name THEN g[i - 1]
                 ELSE Append(g[i - 1], file[i])
    BY <1>6, Zenon
  <2>2. 0 \in 0 .. n
    OBVIOUS
  <2> HIDE DEF S
  <2>3. g[0] = <<>>
    BY <2>1, <2>2
  <2>4. ASSUME NEW k \in Nat, k < n
        PROVE  g[k + 1] = IF file[k + 1].name = name THEN g[k]
                          ELSE Append(g[k], file[k + 1])
    <3>1. k + 1 \in 0 .. n /\ k + 1 # 0 /\ k + 1 - 1 = k
      BY <2>4
    <3> QED
      BY <2>1, <3>1
  <2> QED
    BY <2>3, <2>4
<1>8. \A k \in 0 .. n : g[k] \in S
  <2> DEFINE T == {k \in Nat : k <= n => g[k] \in S}
  <2>1. 0 \in T
    <3> HIDE DEF S
    <3> QED
      BY <1>1, <1>7
  <2>2. ASSUME NEW k \in T
        PROVE  k + 1 \in T
    <3> SUFFICES ASSUME k + 1 <= n
                 PROVE  g[k + 1] \in S
      OBVIOUS
    <3>1. k \in Nat /\ k < n /\ g[k] \in S /\ file[k + 1] \in Line
      OBVIOUS
    <3>2. g[k + 1] = IF file[k + 1].name = name THEN g[k]
                                                ELSE Append(g[k], file[k + 1])
      BY <1>7, <3>1
    <3> QED
      BY <3>1, <3>2
  <2>3. T = Nat
    <3> HIDE DEF T
    <3>1. T \subseteq Nat
      BY DEF T
    <3> QED
      BY <2>1, <2>2, <3>1, Induct
  <2> QED
    BY <2>3
<1>9. g \in [0 .. n -> S]
  <2>1. g = [i \in 0 .. n |-> g[i]]
    BY <1>6
  <2> HIDE DEF S
  <2> QED
    BY <1>8, <2>1
<1> QED
  BY <1>7, <1>9 DEF g

(* What other names are given stays. *)
LEMMA ValueOfOthers ==
  ASSUME NEW file \in Seq(Line), NEW other, NEW name, name # other
  PROVE  ValueIn(Others(file, other)[Len(file)], name) = ValueIn(file, name)
<1> DEFINE kept == Others(file, other)
           T == {k \in Nat : k <= Len(file) =>
                   ValueIn(kept[k], name) = Reading(file, name)[k]}
<1>1. /\ kept \in [0 .. Len(file) -> Seq(Line)]
      /\ kept[0] = <<>>
      /\ \A k \in Nat : k < Len(file) =>
           kept[k + 1] = IF file[k + 1].name = other THEN kept[k]
                         ELSE Append(kept[k], file[k + 1])
  BY OthersFollow
<1> HIDE DEF kept
<1>2. 0 \in T
  <2>1. <<>> \in Seq(Line) /\ Len(<<>>) = 0
    OBVIOUS
  <2>2. Reading(<<>>, name)[0] = "unset" /\ Reading(file, name)[0] = "unset"
    BY <2>1, ReadingFollows
  <2> QED
    BY <1>1, <2>1, <2>2 DEF ValueIn
<1>3. ASSUME NEW k \in T
      PROVE  k + 1 \in T
  <2> SUFFICES ASSUME k + 1 <= Len(file)
               PROVE  ValueIn(kept[k + 1], name) = Reading(file, name)[k + 1]
    OBVIOUS
  <2>1. /\ k + 1 \in 1 .. Len(file) /\ k + 1 - 1 = k /\ k \in 0 .. Len(file)
        /\ file[k + 1] \in Line
        /\ ValueIn(kept[k], name) = Reading(file, name)[k]
    OBVIOUS
  <2> HIDE DEF T
  <2>2. Reading(file, name)[k + 1] =
          IF file[k + 1].name = name THEN file[k + 1].value
          ELSE Reading(file, name)[k]
    BY <2>1, ReadingFollows
  <2>3. kept[k] \in Seq(Line)
    BY <1>1, <2>1
  <2>4. kept[k + 1] = IF file[k + 1].name = other THEN kept[k]
                      ELSE Append(kept[k], file[k + 1])
    BY <1>1, <2>1
  <2>5. ValueIn(Append(kept[k], file[k + 1]), name) =
          IF file[k + 1].name = name THEN file[k + 1].value
          ELSE ValueIn(kept[k], name)
    BY <2>1, <2>3, ValueOfAppend
  <2> QED
    BY <2>1, <2>2, <2>4, <2>5
<1>4. T = Nat
  <2> HIDE DEF T
  <2>1. T \subseteq Nat
    BY DEF T
  <2> QED
    BY <1>2, <1>3, <2>1, Induct
<1> QED
  BY <1>4 DEF ValueIn, kept

(* The lines for the name itself are gone, *)
LEMMA NoLineOfOthers ==
  ASSUME NEW file \in Seq(Line), NEW name
  PROVE  NoLine(Others(file, name)[Len(file)], name)
<1> DEFINE kept == Others(file, name)
           T == {k \in Nat : k <= Len(file) => NoLine(kept[k], name)}
<1>1. /\ kept \in [0 .. Len(file) -> Seq(Line)]
      /\ kept[0] = <<>>
      /\ \A k \in Nat : k < Len(file) =>
           kept[k + 1] = IF file[k + 1].name = name THEN kept[k]
                         ELSE Append(kept[k], file[k + 1])
  BY OthersFollow
<1> HIDE DEF kept
<1>2. 0 \in T
  BY <1>1 DEF NoLine
<1>3. ASSUME NEW k \in T
      PROVE  k + 1 \in T
  <2> SUFFICES ASSUME k + 1 <= Len(file)
               PROVE  NoLine(kept[k + 1], name)
    OBVIOUS
  <2>1. /\ k + 1 \in 1 .. Len(file) /\ k + 1 - 1 = k /\ k \in 0 .. Len(file)
        /\ file[k + 1] \in Line
        /\ NoLine(kept[k], name)
    OBVIOUS
  <2> HIDE DEF T
  <2>2. kept[k] \in Seq(Line)
    BY <1>1, <2>1
  <2>3. kept[k + 1] = IF file[k + 1].name = name THEN kept[k]
                      ELSE Append(kept[k], file[k + 1])
    BY <1>1, <2>1
  <2> QED
    BY <2>1, <2>2, <2>3 DEF NoLine
<1>4. T = Nat
  <2> HIDE DEF T
  <2>1. T \subseteq Nat
    BY DEF T
  <2> QED
    BY <1>2, <1>3, <2>1, Induct
<1> QED
  BY <1>4 DEF kept

LEMMA LinesOfAppend ==
  ASSUME NEW file \in Seq(Line), NEW line \in Line, NEW name
  PROVE  /\ NoLine(file, name) /\ line.name # name
              => NoLine(Append(file, line), name)
         /\ NoLine(file, name) /\ line.name = name
              => OneLine(Append(file, line), name)
         /\ OneLine(file, name) /\ line.name # name
              => OneLine(Append(file, line), name)
<1> DEFINE n == Len(file)
           longer == Append(file, line)
<1>1. /\ DOMAIN file = 1 .. n /\ DOMAIN longer = 1 .. n + 1
      /\ longer[n + 1] = line /\ \A i \in 1 .. n : longer[i] = file[i]
      /\ n \in Nat
  OBVIOUS
<1> HIDE DEF longer, n
<1>2. NoLine(file, name) /\ line.name # name => NoLine(longer, name)
  BY <1>1 DEF NoLine
<1>3. ASSUME NoLine(file, name), line.name = name
      PROVE  OneLine(longer, name)
  <2>1. \A i \in DOMAIN longer : longer[i].name = name <=> i = n + 1
    BY <1>1, <1>3 DEF NoLine
  <2>2. n + 1 \in DOMAIN longer
    BY <1>1
  <2> QED
    BY <2>1, <2>2 DEF OneLine
<1>4. ASSUME OneLine(file, name), line.name # name
      PROVE  OneLine(longer, name)
  <2>1. PICK j \in DOMAIN file :
          \A i \in DOMAIN file : file[i].name = name <=> i = j
    BY <1>4 DEF OneLine
  <2>2. \A i \in DOMAIN longer : longer[i].name = name <=> i = j
    BY <1>1, <1>4, <2>1
  <2>3. j \in DOMAIN longer
    BY <1>1, <2>1
  <2> QED
    BY <2>2, <2>3 DEF OneLine
<1> QED
  BY <1>2, <1>3, <1>4 DEF longer

(* and the one line for another name is still one. *)
LEMMA OneLineOfOthers ==
  ASSUME NEW file \in Seq(Line), NEW other, NEW name, name # other,
         OneLine(file, name)
  PROVE  OneLine(Others(file, other)[Len(file)], name)
<1>1. PICK j \in DOMAIN file :
        \A i \in DOMAIN file : file[i].name = name <=> i = j
  BY DEF OneLine
<1> DEFINE kept == Others(file, other)
           T == {k \in Nat : k <= Len(file) =>
                   /\ k < j => NoLine(kept[k], name)
                   /\ k >= j => OneLine(kept[k], name)}
<1>2. /\ kept \in [0 .. Len(file) -> Seq(Line)]
      /\ kept[0] = <<>>
      /\ \A k \in Nat : k < Len(file) =>
           kept[k + 1] = IF file[k + 1].name = other THEN kept[k]
                         ELSE Append(kept[k], file[k + 1])
  BY OthersFollow
<1> HIDE DEF kept
<1>3. 0 \in T
  BY <1>1, <1>2 DEF NoLine
<1>4. ASSUME NEW k \in T
      PROVE  k + 1 \in T
  <2> SUFFICES ASSUME k + 1 <= Len(file)
               PROVE  /\ k + 1 < j => NoLine(kept[k + 1], name)
                      /\ k + 1 >= j => OneLine(kept[k + 1], name)
    OBVIOUS
  <2>1. /\ k + 1 \in 1 .. Len(file) /\ k + 1 - 1 = k /\ k \in 0 .. Len(file)
        /\ k < j => NoLine(kept[k], name)
        /\ k >= j => OneLine(kept[k], name)
    OBVIOUS
  <2>2. /\ file[k + 1] \in Line
        /\ file[k + 1].name = name <=> k + 1 = j
        /\ j \in Nat
    BY <1>1, <2>1
  <2> HIDE DEF T
  <2>3. kept[k] \in Seq(Line)
    BY <1>2, <2>1
  <2>4. kept[k + 1] = IF file[k + 1].name = other THEN kept[k]
                      ELSE Append(kept[k], file[k + 1])
    BY <1>2, <2>1
  <2> DEFINE before == kept[k]
             line == file[k + 1]
             longer == Append(before, line)
  <2>5. /\ NoLine(before, name) /\ line.name # name => NoLine(longer, name)
        /\ NoLine(before, name) /\ line.name = name => OneLine(longer, name)
        /\ OneLine(before, name) /\ line.name # name => OneLine(longer, name)
    <3> HIDE DEF before, line
    <3>1. before \in Seq(Line) /\ line \in Line
      BY <2>2, <2>3 DEF before, line
    <3> QED
      BY <3>1, LinesOfAppend
  <2>6. CASE k + 1 < j
    BY <2>1, <2>2, <2>4, <2>5, <2>6
  <2>7. CASE k + 1 = j
    BY <2>1, <2>2, <2>4, <2>5, <2>7
  <2>8. CASE k + 1 > j
    BY <2>1, <2>2, <2>4, <2>5, <2>8
  <2> QED
    BY <2>1, <2>2, <2>6, <2>7, <2>8
<1>5. T = Nat
  <2> HIDE DEF T
  <2>1. T \subseteq Nat
    BY DEF T
  <2> QED
    BY <1>3, <1>4, <2>1, Induct
<1> QED
  BY <1>1, <1>5 DEF kept

----------------------------------------------------------------------------
(* The writers                                                             *)

LEMMA NamesAreTexts == Names \subseteq STRING
<1>1. \A i \in DOMAIN CapturedVars : CapturedVars[i] \in STRING
  BY NamesAssumption
<1> QED
  BY <1>1, NamesAssumption DEF Names, ToSet

(* upsert_env_file gives the name its value, on one line, and leaves every *)
(* other name alone.                                                       *)
LEMMA UpsertSets ==
  ASSUME NEW file \in Seq(Line), NEW name \in STRING, NEW value \in Anything
  PROVE  /\ Upsert(file, name, value) \in Seq(Line)
         /\ ValueIn(Upsert(file, name, value), name) = value
         /\ OneLine(Upsert(file, name, value), name)
<1> DEFINE kept == Others(file, name)[Len(file)]
           line == Assign(name, value)
<1>1. kept \in Seq(Line)
  <2>1. Len(file) \in 0 .. Len(file)
    OBVIOUS
  <2> QED
    BY <2>1, OthersFollow
<1>2. line \in Line /\ line.name = name /\ line.value = value
  BY DEF Assign, Line, Contents
<1>3. NoLine(kept, name)
  BY NoLineOfOthers
<1>4. Upsert(file, name, value) = Append(kept, line)
  BY DEF Upsert
<1> HIDE DEF kept, line
<1>5. Append(kept, line) \in Seq(Line)
  BY <1>1, <1>2
<1>6. ValueIn(Append(kept, line), name) = value
  BY <1>1, <1>2, ValueOfAppend
<1>7. OneLine(Append(kept, line), name)
  BY <1>1, <1>2, <1>3, LinesOfAppend
<1> QED
  BY <1>4, <1>5, <1>6, <1>7

LEMMA UpsertKeeps ==
  ASSUME NEW file \in Seq(Line), NEW name \in STRING, NEW value \in Anything,
         NEW other, other # name
  PROVE  /\ ValueIn(Upsert(file, name, value), other) = ValueIn(file, other)
         /\ OneLine(file, other) => OneLine(Upsert(file, name, value), other)
<1> DEFINE kept == Others(file, name)[Len(file)]
           line == Assign(name, value)
<1>1. kept \in Seq(Line)
  <2>1. Len(file) \in 0 .. Len(file)
    OBVIOUS
  <2> QED
    BY <2>1, OthersFollow
<1>2. line \in Line /\ line.name = name
  BY DEF Assign, Line, Contents
<1>3. ValueIn(kept, other) = ValueIn(file, other)
  BY ValueOfOthers
<1>4. OneLine(file, other) => OneLine(kept, other)
  BY OneLineOfOthers
<1>5. Upsert(file, name, value) = Append(kept, line)
  BY DEF Upsert
<1> HIDE DEF kept, line
<1>6. ValueIn(Append(kept, line), other) = ValueIn(kept, other)
  BY <1>1, <1>2, ValueOfAppend
<1>7. OneLine(kept, other) => OneLine(Append(kept, line), other)
  BY <1>1, <1>2, LinesOfAppend
<1> QED
  BY <1>3, <1>4, <1>5, <1>6, <1>7

LEMMA CommentLines ==
  /\ Comment \in Line /\ Comment.name = "#"
  /\ Placeholder \in Line /\ Placeholder.name = "#"
<1>1. Comment = [name |-> "#", value |-> "text"]
  BY DEF Comment, Assign
<1>2. Placeholder = [name |-> "#", value |-> "paste the key here"]
  BY DEF Placeholder, Assign
<1>3. Comment \in Line
  BY <1>1 DEF Line, Contents
<1>4. Placeholder \in Line
  BY <1>2 DEF Line, Contents
<1> QED
  BY <1>1, <1>2, <1>3, <1>4

(* The hint of set_agent_key changes no name. *)
LEMMA HintKeeps ==
  ASSUME NEW file \in Seq(Line), NEW name, name # "#"
  PROVE  LET hinted == file \o <<Comment, Comment, Placeholder>> IN
         /\ hinted \in Seq(Line)
         /\ ValueIn(hinted, name) = ValueIn(file, name)
         /\ OneLine(file, name) => OneLine(hinted, name)
<1> DEFINE one == Append(file, Comment)
           two == Append(one, Comment)
           three == Append(two, Placeholder)
<1>1. /\ Comment \in Line /\ Comment.name = "#"
      /\ Placeholder \in Line /\ Placeholder.name = "#"
  BY CommentLines
<1>2. one \in Seq(Line) /\ two \in Seq(Line) /\ three \in Seq(Line)
  BY <1>1
<1>3. file \o <<Comment, Comment, Placeholder>> = three
  BY <1>1
<1>4. ValueIn(one, name) = ValueIn(file, name)
  BY <1>1, ValueOfAppend
<1>5. OneLine(file, name) => OneLine(one, name)
  BY <1>1, LinesOfAppend
<1> HIDE DEF one
<1>6. ValueIn(two, name) = ValueIn(one, name)
  BY <1>1, <1>2, ValueOfAppend
<1>7. OneLine(one, name) => OneLine(two, name)
  BY <1>1, <1>2, LinesOfAppend
<1> HIDE DEF two
<1>8. ValueIn(three, name) = ValueIn(two, name)
  BY <1>1, <1>2, ValueOfAppend
<1>9. OneLine(two, name) => OneLine(three, name)
  BY <1>1, <1>2, LinesOfAppend
<1> HIDE DEF three
<1> QED
  BY <1>2, <1>3, <1>4, <1>5, <1>6, <1>7, <1>8, <1>9

(* A file with the lines of the template, or comments, gives values that   *)
(* may be there before anyone asked for anything.                          *)
LEMMA NothingAskedFor ==
  ASSUME NEW file \in Seq(Line), NEW name \in Names,
         \A i \in DOMAIN file :
           file[i].name = "#" \/ file[i].value \in {"template", "torn"}
  PROVE  ValueIn(file, name) \in Anything
<1>1. CASE ValueIn(file, name) = "unset"
  BY <1>1 DEF Anything
<1>2. CASE \E i \in DOMAIN file : /\ file[i].name = name
                                 /\ ValueIn(file, name) = file[i].value
  BY <1>2, NamesAssumption DEF Anything
<1> QED
  BY <1>1, <1>2, ValueIsALines

LEMMA TemplateLines ==
  /\ Template \in Seq(Line)
  /\ \A i \in DOMAIN Template : Template[i].value = "template"
<1> DEFINE L == [name : STRING, value : {"template"}]
<1>1. L \subseteq Line
  BY DEF Line, Contents, Anything
<1>2. Template \in Seq(L)
  BY TemplateAssumption
<1>3. \A i \in DOMAIN Template : Template[i] \in L
  <2> HIDE DEF L
  <2> QED
    BY <1>2
<1>4. Template \in Seq(Line)
  <2> HIDE DEF L
  <2> QED
    BY <1>1, <1>2
<1> QED
  BY <1>3, <1>4

LEMMA PartialCopiesLines ==
  ASSUME NEW file \in PartialCopies
  PROVE  /\ file \in Seq(Line)
         /\ \A i \in DOMAIN file : file[i].value \in {"template", "torn"}
<1> DEFINE whole(n) == SubSeq(Template, 1, n)
<1>1. ASSUME NEW n \in 0 .. Len(Template)
      PROVE  /\ whole(n) \in Seq(Line) /\ Len(whole(n)) = n
             /\ \A i \in 1 .. n : whole(n)[i] = Template[i]
             /\ \A i \in 1 .. n : whole(n)[i].value = "template"
  BY TemplateLines
<1>2. CASE \E n \in 0 .. Len(Template) : file = whole(n)
  <2>1. PICK n \in 0 .. Len(Template) : file = whole(n)
    BY <1>2
  <2> HIDE DEF whole
  <2> QED
    BY <1>1, <2>1
<1>3. CASE \E n \in DOMAIN Template :
             file = Append(whole(n - 1), [Template[n] EXCEPT !.value = "torn"])
  <2>1. PICK n \in DOMAIN Template :
          file = Append(whole(n - 1), [Template[n] EXCEPT !.value = "torn"])
    BY <1>3
  <2> DEFINE line == [Template[n] EXCEPT !.value = "torn"]
             before == whole(n - 1)
  <2>2. n - 1 \in 0 .. Len(Template) /\ Template[n] \in Line
    BY TemplateLines
  <2>3. line \in Line /\ line.value = "torn"
    BY <2>2 DEF Line, Contents, Anything
  <2>4. /\ before \in Seq(Line) /\ Len(before) = n - 1
        /\ \A i \in 1 .. n - 1 : before[i].value = "template"
    <3> HIDE DEF whole
    <3> QED
      BY <1>1, <2>2
  <2>5. file = Append(before, line)
    BY <2>1
  <2> HIDE DEF before, line
  <2> QED
    BY <2>2, <2>3, <2>4, <2>5
<1> QED
  BY <1>2, <1>3 DEF PartialCopies

----------------------------------------------------------------------------
(* The inductive invariant                                                 *)

TypeOK ==
  /\ exists \in BOOLEAN
  /\ lines \in Seq(Line)
  /\ step \in {"idle", "seed", "copying", "capture", "set-key", "restart"}
  /\ shell \in [Names -> Values \union {"unset"}]
  /\ todo \in Seq(ToSet(CapturedVars))
  /\ wanted \in [Names -> SUBSET Contents]

(* Only a run that has just begun finds no file, *)
SeededFirst == exists = FALSE => step \in {"idle", "seed"}

(* and nothing is asked for before it is filled. *)
Fresh ==
  exists = FALSE \/ step = "copying" =>
    \A name \in Names : Anything \subseteq wanted[name]

(* What a run is to write, it may write. *)
Granted ==
  step # "idle" =>
    \A name \in Names : Exported(name) => shell[name] \in wanted[name]

(* The exported names that a run has come past have their value, once. *)
Written(name) ==
  Exported(name) => /\ OneLine(lines, name)
                    /\ ValueIn(lines, name) = shell[name]

Progress ==
  /\ step = "capture" =>
       \A name \in ToSet(CapturedVars) : name \in ToSet(todo) \/ Written(name)
  /\ step = "set-key" => \A name \in ToSet(CapturedVars) : Written(name)
  /\ step = "restart" => \A name \in Names : Written(name)

(* The whole list is before a run until it starts to capture. *)
AllToDo == step \in {"seed", "copying"} => todo = CapturedVars

IInv ==
  TypeOK /\ SeededFirst /\ Fresh /\ Granted /\ AllToDo /\ Progress
    /\ KeptOrExported

LEMMA InitIInv == Init => IInv
<1> SUFFICES ASSUME Init PROVE IInv
  OBVIOUS
<1> USE DEF Init
<1>1. TypeOK
  <2>1. lines \in Seq(Line) /\ todo \in Seq(ToSet(CapturedVars))
    OBVIOUS
  <2>2. wanted \in [Names -> SUBSET Contents]
    BY DEF Contents
  <2>3. shell \in [Names -> Values \union {"unset"}]
    OBVIOUS
  <2> QED
    BY <2>1, <2>2, <2>3 DEF TypeOK
<1>2. Fresh
  BY DEF Fresh
<1> QED
  BY <1>1, <1>2
     DEF IInv, SeededFirst, Granted, AllToDo, Progress, KeptOrExported

(* The operator *)
LEMMA StartStep ==
  ASSUME IInv, NEW environ \in [Names -> Values \union {"unset"}],
         Start(environ)
  PROVE  IInv'
<1>1. /\ step = "idle" /\ step' = "seed" /\ shell' = environ
      /\ todo' = CapturedVars /\ lines' = lines /\ exists' = exists
      /\ wanted' = [name \in Names |-> wanted[name] \union
                      IF environ[name] = "unset" THEN {} ELSE {environ[name]}]
  BY DEF Start
<1>2. TypeOK'
  <2>1. CapturedVars \in Seq(ToSet(CapturedVars))
    BY NamesAssumption DEF ToSet
  <2>2. wanted' \in [Names -> SUBSET Contents]
    BY <1>1 DEF IInv, TypeOK, Contents, Anything
  <2> QED
    BY <1>1, <2>1, <2>2 DEF IInv, TypeOK
<1>3. \A name \in Names : wanted[name] \subseteq wanted'[name]
  BY <1>1
<1>4. Fresh'
  BY <1>1, <1>3 DEF IInv, Fresh
<1>5. Granted'
  BY <1>1 DEF Granted, Exported
<1>6. KeptOrExported'
  BY <1>1, <1>3 DEF IInv, KeptOrExported
<1> QED
  BY <1>1, <1>2, <1>4, <1>5, <1>6
     DEF IInv, SeededFirst, AllToDo, Progress

LEMMA EditedLines ==
  ASSUME NEW file \in Seq(Line), NEW edited \in EditsOf(file)
  PROVE  edited \in Seq(Line)
<1>1. ASSUME NEW name \in Names, NEW value \in Values
      PROVE  Append(file, Assign(name, value)) \in Seq(Line)
  <2>1. Assign(name, value) \in Line
    BY NamesAreTexts DEF Assign, Line, Contents, Anything
  <2> QED
    BY <2>1
<1>2. ASSUME NEW i \in DOMAIN file, NEW value \in Values
      PROVE  [file EXCEPT ![i].value = value] \in Seq(Line)
  <2> DEFINE line == [file[i] EXCEPT !.value = value]
  <2>1. line \in Line
    <3>1. file[i] \in Line
      OBVIOUS
    <3> QED
      BY <3>1 DEF Line, Contents, Anything
  <2>2. [file EXCEPT ![i].value = value] = [file EXCEPT ![i] = line]
    OBVIOUS
  <2> HIDE DEF line
  <2>3. [file EXCEPT ![i] = line] \in Seq(Line)
    BY <2>1
  <2> QED
    BY <2>2, <2>3
<1>3. ASSUME NEW i \in DOMAIN file
      PROVE  RemoveAt(file, i) \in Seq(Line)
  <2>1. SubSeq(file, 1, i - 1) \in Seq(Line)
    OBVIOUS
  <2>2. SubSeq(file, i + 1, Len(file)) \in Seq(Line)
    OBVIOUS
  <2> QED
    BY <2>1, <2>2 DEF RemoveAt
<1> QED
  BY <1>1, <1>2, <1>3 DEF EditsOf

LEMMA EditStep ==
  ASSUME IInv, NEW file \in EditsOf(lines), Edit(file)
  PROVE  IInv'
<1>1. /\ step = "idle" /\ step' = step /\ shell' = shell
      /\ todo' = todo /\ lines' = file /\ exists = TRUE /\ exists' = exists
      /\ wanted' = [name \in Names |->
                      IF ValueIn(file, name) = ValueIn(lines, name)
                      THEN wanted[name] ELSE {ValueIn(file, name)}]
  BY DEF Edit, IInv, TypeOK
<1>2. TypeOK'
  <2>1. file \in Seq(Line)
    BY EditedLines DEF IInv, TypeOK
  <2>2. \A name : ValueIn(file, name) \in Contents
    BY <2>1, ValueIsContents
  <2>3. wanted' \in [Names -> SUBSET Contents]
    BY <1>1, <2>2 DEF IInv, TypeOK
  <2> QED
    BY <1>1, <2>1, <2>3 DEF IInv, TypeOK
<1>3. KeptOrExported'
  BY <1>1 DEF IInv, KeptOrExported
<1> QED
  BY <1>1, <1>2, <1>3
     DEF IInv, SeededFirst, Fresh, Granted, AllToDo, Progress

(* The installer *)
LEMMA SeedStep ==
  ASSUME IInv, Seed
  PROVE  IInv'
<1>1. /\ step = "seed" /\ step' \in {"capture", "copying"}
      /\ exists' = TRUE
      /\ shell' = shell /\ todo' = todo /\ wanted' = wanted
      /\ exists = TRUE => step' = "capture" /\ lines' = lines
      /\ exists = FALSE => step' = "copying" /\ lines' = <<>>
  BY DEF Seed, IInv, TypeOK
<1>2. lines' \in Seq(Line)
  <2>1. <<>> \in Seq(Line)
    OBVIOUS
  <2> QED
    BY <1>1, <2>1 DEF IInv, TypeOK
<1>3. TypeOK'
  BY <1>1, <1>2 DEF IInv, TypeOK
<1>4. Fresh'
  BY <1>1 DEF IInv, TypeOK, Fresh
<1>5. Granted'
  BY <1>1 DEF IInv, Granted, Exported
<1>6. Progress'
  BY <1>1, NamesAssumption DEF IInv, AllToDo, Progress
<1>7. KeptOrExported'
  BY <1>1 DEF IInv, TypeOK, KeptOrExported
<1> QED
  BY <1>1, <1>3, <1>4, <1>5, <1>6, <1>7 DEF IInv, SeededFirst, AllToDo

LEMMA CopyStep ==
  ASSUME IInv, Copy
  PROVE  IInv'
<1>1. /\ step = "copying" /\ step' = "capture" /\ exists' = exists
      /\ shell' = shell /\ todo' = todo /\ wanted' = wanted
      /\ lines' \in {Template, <<Comment>>}
  BY DEF Copy
<1>2. /\ lines' \in Seq(Line)
      /\ \A i \in DOMAIN lines' : \/ lines'[i].name = "#"
                                 \/ lines'[i].value \in {"template", "torn"}
  <2>1. CASE lines' = Template
    BY <2>1, TemplateLines
  <2>2. CASE lines' = <<Comment>>
    BY <2>2, CommentLines
  <2> QED
    BY <1>1, <2>1, <2>2
<1>3. TypeOK'
  BY <1>1, <1>2 DEF IInv, TypeOK
<1>4. KeptOrExported'
  <2>1. \A name \in Names : ValueIn(lines', name) \in Anything
    BY <1>2, NothingAskedFor
  <2> QED
    BY <1>1, <2>1 DEF IInv, Fresh, KeptOrExported
<1>5. Fresh' /\ SeededFirst'
  BY <1>1 DEF IInv, TypeOK, SeededFirst, Fresh
<1>6. Granted'
  BY <1>1 DEF IInv, Granted, Exported
<1>7. Progress'
  BY <1>1, NamesAssumption DEF IInv, AllToDo, Progress
<1> QED
  BY <1>1, <1>3, <1>4, <1>5, <1>6, <1>7 DEF IInv, AllToDo

LEMMA CaptureStep ==
  ASSUME IInv, Capture
  PROVE  IInv'
<1>1. /\ step = "capture" /\ exists' = exists /\ exists = TRUE
      /\ shell' = shell /\ wanted' = wanted
  BY DEF Capture, IInv, TypeOK, SeededFirst
<1>2. CASE todo = <<>>
  <2>1. step' = "set-key" /\ lines' = lines /\ todo' = todo
    BY <1>2 DEF Capture
  <2>2. ToSet(todo) = {}
    BY <1>2 DEF ToSet
  <2>3. TypeOK'
    BY <1>1, <2>1 DEF IInv, TypeOK
  <2>4. Progress'
    BY <1>1, <2>1, <2>2 DEF IInv, Progress, Written, Exported
  <2>5. KeptOrExported'
    BY <1>1, <2>1 DEF IInv, KeptOrExported
  <2> QED
    BY <1>1, <2>1, <2>3, <2>4, <2>5
       DEF IInv, SeededFirst, Fresh, Granted, Exported, AllToDo
<1>3. CASE todo # <<>>
  <2> DEFINE next == Head(todo)
  <2>1. /\ step' = step /\ todo' = Tail(todo)
        /\ lines' = IF Exported(next) THEN Upsert(lines, next, shell[next])
                    ELSE lines
    BY <1>3 DEF Capture
  <2>2. /\ next \in ToSet(CapturedVars) /\ todo' \in Seq(ToSet(CapturedVars))
        /\ ToSet(todo) = {next} \union ToSet(todo')
    <3>1. todo \in Seq(ToSet(CapturedVars))
      BY DEF IInv, TypeOK
    <3>2. /\ next \in ToSet(CapturedVars)
          /\ Tail(todo) \in Seq(ToSet(CapturedVars))
      BY <1>3, <3>1
    <3>3. ToSet(todo) = {next} \union ToSet(Tail(todo))
      <4>1. /\ DOMAIN Tail(todo) = 1 .. Len(todo) - 1 /\ Len(todo) \in Nat \ {0}
            /\ \A i \in 1 .. Len(todo) - 1 : Tail(todo)[i] = todo[i + 1]
            /\ DOMAIN todo = 1 .. Len(todo) /\ next = todo[1]
        BY <1>3, <3>1
      <4>2. ASSUME NEW i \in DOMAIN todo
            PROVE  todo[i] = next \/ todo[i] \in ToSet(Tail(todo))
        <5>1. i # 1 => /\ i - 1 \in DOMAIN Tail(todo)
                       /\ Tail(todo)[i - 1] = todo[i]
          BY <4>1
        <5> QED
          BY <4>1, <5>1 DEF ToSet
      <4>3. ASSUME NEW i \in DOMAIN Tail(todo)
            PROVE  Tail(todo)[i] \in ToSet(todo)
        <5>1. i + 1 \in DOMAIN todo /\ todo[i + 1] = Tail(todo)[i]
          BY <4>1
        <5> QED
          BY <5>1 DEF ToSet
      <4>4. next \in ToSet(todo)
        <5>1. 1 \in DOMAIN todo /\ todo[1] = next
          BY <4>1
        <5> QED
          BY <5>1 DEF ToSet
      <4> QED
        BY <4>2, <4>3, <4>4 DEF ToSet
    <3> QED
      BY <2>1, <3>2, <3>3
  <2>3. next \in Names /\ next \in STRING
    BY <2>2, NamesAreTexts DEF Names
  <2>4. lines \in Seq(Line) /\ shell[next] \in Anything
    BY <2>3 DEF IInv, TypeOK, Anything
  <2> HIDE DEF next
  <2>5. CASE ~Exported(next)
    <3>1. lines' = lines /\ Written(next)
      BY <2>1, <2>5 DEF Written
    <3>2. TypeOK'
      BY <1>1, <2>1, <2>2, <3>1 DEF IInv, TypeOK
    <3>3. Progress'
      BY <1>1, <2>1, <2>2, <3>1 DEF IInv, Progress, Written, Exported
    <3>4. KeptOrExported'
      BY <1>1, <3>1, <2>1 DEF IInv, KeptOrExported
    <3> QED
      BY <1>1, <2>1, <3>1, <3>2, <3>3, <3>4
         DEF IInv, SeededFirst, Fresh, Granted, Exported, AllToDo
  <2>6. CASE Exported(next)
    <3>1. lines' = Upsert(lines, next, shell[next])
      BY <2>1, <2>6
    <3>2. /\ lines' \in Seq(Line) /\ ValueIn(lines', next) = shell[next]
          /\ OneLine(lines', next)
      BY <2>3, <2>4, <3>1, UpsertSets
    <3>3. \A name : name # next =>
            /\ ValueIn(lines', name) = ValueIn(lines, name)
            /\ OneLine(lines, name) => OneLine(lines', name)
      BY <2>3, <2>4, <3>1, UpsertKeeps
    <3>4. TypeOK'
      BY <1>1, <2>1, <2>2, <3>2 DEF IInv, TypeOK
    <3>5. Progress'
      <4>1. \A name \in ToSet(CapturedVars) :
              name \in ToSet(todo') \/ Written(name)'
        BY <1>1, <2>2, <3>2, <3>3 DEF IInv, Progress, Written, Exported
      <4> QED
        BY <1>1, <2>1, <4>1 DEF Progress
    <3>6. KeptOrExported'
      BY <1>1, <2>1, <2>3, <2>6, <3>2, <3>3 DEF IInv, Granted, KeptOrExported
    <3> QED
      BY <1>1, <2>1, <3>4, <3>5, <3>6
         DEF IInv, SeededFirst, Fresh, Granted, Exported, AllToDo
  <2> QED
    BY <2>5, <2>6
<1> QED
  BY <1>2, <1>3

LEMMA SetKeyStep ==
  ASSUME IInv, SetKey
  PROVE  IInv'
<1>1. /\ step = "set-key" /\ step' = "restart"
      /\ exists' = exists /\ exists = TRUE
      /\ shell' = shell /\ todo' = todo /\ wanted' = wanted
      /\ lines \in Seq(Line)
  BY DEF SetKey, IInv, TypeOK, SeededFirst
<1>2. KeyVar \in Names /\ KeyVar \in STRING /\ shell[KeyVar] \in Anything
  BY NamesAssumption DEF IInv, TypeOK, Names, Anything
<1>3. Names = ToSet(CapturedVars) \union {KeyVar}
  BY DEF Names
<1>4. ASSUME lines' \in Seq(Line),
             \A name \in Names : Written(name)',
             \A name \in Names : ValueIn(lines', name) \in wanted[name]
      PROVE  IInv'
  <2>1. TypeOK'
    BY <1>1, <1>4 DEF IInv, TypeOK
  <2>2. Progress'
    BY <1>1, <1>4 DEF Progress
  <2>3. KeptOrExported'
    BY <1>1, <1>4 DEF KeptOrExported
  <2> QED
    BY <1>1, <2>1, <2>2, <2>3
       DEF IInv, SeededFirst, Fresh, Granted, Exported, AllToDo
<1>5. /\ \A name \in ToSet(CapturedVars) : Written(name)
      /\ \A name \in Names : ValueIn(lines, name) \in wanted[name]
      /\ \A name \in Names : Exported(name) => shell[name] \in wanted[name]
  BY <1>1 DEF IInv, Progress, Granted, KeptOrExported
<1>6. CASE Exported(KeyVar)
  <2>1. lines' = Upsert(lines, KeyVar, shell[KeyVar])
    BY <1>6 DEF SetKey
  <2>2. /\ lines' \in Seq(Line) /\ ValueIn(lines', KeyVar) = shell[KeyVar]
        /\ OneLine(lines', KeyVar)
    BY <1>1, <1>2, <2>1, UpsertSets
  <2>3. \A name : name # KeyVar =>
          /\ ValueIn(lines', name) = ValueIn(lines, name)
          /\ OneLine(lines, name) => OneLine(lines', name)
    BY <1>1, <1>2, <2>1, UpsertKeeps
  <2>4. \A name \in Names : Written(name)'
    BY <1>1, <1>3, <1>5, <2>2, <2>3 DEF Written, Exported
  <2>5. \A name \in Names : ValueIn(lines', name) \in wanted[name]
    BY <1>2, <1>5, <1>6, <2>2, <2>3
  <2> QED
    BY <1>4, <2>2, <2>4, <2>5
<1>7. CASE ~Exported(KeyVar)
  <2>1. Written(KeyVar)
    BY <1>7 DEF Written
  <2>2. CASE HasKey
    <3>1. lines' = lines
      BY <1>7, <2>2 DEF SetKey
    <3>2. \A name \in Names : Written(name)'
      BY <1>1, <1>3, <1>5, <2>1, <3>1 DEF Written, Exported
    <3> QED
      BY <1>1, <1>4, <1>5, <3>1, <3>2
  <2>3. CASE ~HasKey
    <3>1. lines' = lines \o <<Comment, Comment, Placeholder>>
      BY <1>7, <2>3 DEF SetKey
    <3>2. \A name \in Names : name # "#"
      BY NamesAssumption
    <3>3. ASSUME NEW name \in Names
          PROVE  /\ lines' \in Seq(Line)
                 /\ ValueIn(lines', name) = ValueIn(lines, name)
                 /\ OneLine(lines, name) => OneLine(lines', name)
      BY <1>1, <3>1, <3>2, HintKeeps
    <3>4. lines' \in Seq(Line)
      BY <1>2, <3>3
    <3>5. \A name \in Names : ValueIn(lines', name) \in wanted[name]
      BY <1>5, <3>3
    <3>6. ASSUME NEW name \in Names
          PROVE  Written(name)'
      <4>1. Written(name)
        BY <1>3, <1>5, <2>1
      <4>2. Written(name)' <=> (Exported(name) =>
              OneLine(lines', name) /\ ValueIn(lines', name) = shell[name])
        BY <1>1 DEF Written, Exported
      <4> QED
        BY <3>3, <4>1, <4>2 DEF Written
    <3> QED
      BY <1>4, <3>4, <3>5, <3>6
  <2> QED
    BY <2>2, <2>3
<1> QED
  BY <1>6, <1>7

LEMMA RestartStep ==
  ASSUME IInv, Restart
  PROVE  IInv'
<1>1. /\ step = "restart" /\ step' = "idle"
      /\ exists' = exists /\ exists = TRUE
      /\ shell' = shell /\ todo' = todo /\ lines' = lines
      /\ lines \in Seq(Line) /\ shell \in [Names -> Values \union {"unset"}]
      /\ wanted' = [name \in Names |-> {IF Exported(name) THEN shell[name]
                                                ELSE ValueIn(lines, name)}]
  BY DEF Restart, IInv, TypeOK, SeededFirst
<1>2. \A name : ValueIn(lines, name) \in Contents
  BY <1>1, ValueIsContents
<1>3. \A name \in Names : shell[name] \in Contents
  BY <1>1 DEF Contents, Anything
<1>4. TypeOK'
  BY <1>1, <1>2, <1>3 DEF IInv, TypeOK
<1>5. \A name \in Names : ValueIn(lines, name) \in wanted'[name]
  BY <1>1 DEF IInv, Progress, Written
<1>6. KeptOrExported'
  BY <1>1, <1>5 DEF KeptOrExported
<1> QED
  BY <1>1, <1>4, <1>6
     DEF IInv, SeededFirst, Fresh, Granted, AllToDo, Progress

LEMMA AbortStep ==
  ASSUME IInv, Abort
  PROVE  IInv'
<1>1. /\ step # "idle" /\ step' = "idle" /\ exists' = exists
      /\ shell' = shell /\ todo' = todo /\ wanted' = wanted
      /\ step = "copying" => lines' \in PartialCopies
      /\ step # "copying" => lines' = lines
  BY DEF Abort
<1>2. /\ lines' \in Seq(Line)
      /\ step = "copying" =>
           \A name \in Names : ValueIn(lines', name) \in Anything
  BY <1>1, PartialCopiesLines, NothingAskedFor DEF IInv, TypeOK
<1>3. TypeOK'
  BY <1>1, <1>2 DEF IInv, TypeOK
<1>4. KeptOrExported'
  BY <1>1, <1>2 DEF IInv, Fresh, KeptOrExported
<1> QED
  BY <1>1, <1>3, <1>4
     DEF IInv, SeededFirst, Fresh, Granted, AllToDo, Progress

LEMMA NextIInv == IInv /\ [Next]_vars => IInv'
<1> SUFFICES ASSUME IInv, [Next]_vars PROVE IInv'
  OBVIOUS
<1>1. CASE \E environ \in [Names -> Values \union {"unset"}] : Start(environ)
  BY <1>1, StartStep
<1>2. CASE \E file \in EditsOf(lines) : Edit(file)
  BY <1>2, EditStep
<1>3. CASE Seed
  BY <1>3, SeedStep
<1>4. CASE Copy
  BY <1>4, CopyStep
<1>5. CASE Capture
  BY <1>5, CaptureStep
<1>6. CASE SetKey
  BY <1>6, SetKeyStep
<1>7. CASE Restart
  BY <1>7, RestartStep
<1>8. CASE Abort
  BY <1>8, AbortStep
<1>9. CASE UNCHANGED vars
  BY <1>9 DEF vars, IInv, TypeOK, SeededFirst, Fresh, Granted, AllToDo,
              Progress, Written, Exported, KeptOrExported
<1> QED
  BY <1>1, <1>2, <1>3, <1>4, <1>5, <1>6, <1>7, <1>8, <1>9 DEF Next

LEMMA EnvFileInvariant == Spec => []IInv
  BY InitIInv, NextIInv, PTL DEF Spec

----------------------------------------------------------------------------
(* What follows                                                            *)

(* Over any number of runs, failures and edits, a name has the value that  *)
(* was exported for it, or the one the file had (environment.py:77-165).   *)
THEOREM ShellWins == Spec => []KeptOrExported
<1>1. IInv => KeptOrExported
  BY DEF IInv
<1> QED
  BY <1>1, EnvFileInvariant, PTL

(* Whatever the file looked like, the service finds one line for a name    *)
(* that was exported (environment.py:116-138).                             *)
THEOREM NoDuplicates == Spec => []ExportedHasOneLine
<1>1. IInv => ExportedHasOneLine
  BY DEF IInv, Progress, Written, OneLine, ExportedHasOneLine
<1> QED
  BY <1>1, EnvFileInvariant, PTL

(* No step of a run but the first meets a missing file: the early return   *)
(* that capture_from_shell has for one would give up on the exported names *)
(* without an error (environment.py:103-113, 130-132).                     *)
THEOREM FileIsThere ==
  Spec => [](exists \/ step \in {"idle", "seed"})
<1>1. IInv => exists \/ step \in {"idle", "seed"}
  BY DEF IInv, TypeOK, SeededFirst
<1> QED
  BY <1>1, EnvFileInvariant, PTL
=============================================================================
