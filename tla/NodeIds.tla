------------------------------- MODULE NodeIds -------------------------------
(***************************************************************************)
(* The spellings of a node id and how bridge/config.py compares them. A    *)
(* node is a number; an entry of allowed_nodes is a number or a text, of   *)
(* which the digits matter: blanks around it, the case and a leading "!"   *)
(* are dropped before anything else is looked at.                          *)
(***************************************************************************)
EXTENDS Integers, Sequences

CONSTANT IdDigits   \* hexadecimal digits of a node id: 8, fewer for TLC

ASSUME IdAssumption == IdDigits \in Nat \ {0}

Number(n) == [form |-> "number", value |-> n]
Text(digits) == [form |-> "text", value |-> digits]

(* What is left of n without its last digits, up to so many of them. *)
Rests(n, base, count) ==
  LET rest[i \in 0 .. count] ==
        IF i = 0 THEN n ELSE rest[i - 1] \div base
  IN rest

(* n in a base, with at least the given number of digits. *)
Digits(n, base, least) ==
  LET width == CHOOSE w \in least .. n + least :
                 /\ Rests(n, base, w)[w] = 0
                 /\ w > least => Rests(n, base, w)[w - 1] # 0
  IN [i \in 1 .. width |-> Rests(n, base, width)[width - i] % base]

(* The values of the first so many digits. *)
Values(digits, base) ==
  LET value[i \in 0 .. Len(digits)] ==
        IF i = 0 THEN 0 ELSE value[i - 1] * base + digits[i]
  IN value

(* int(text, base). *)
ValueOf(digits, base) == Values(digits, base)[Len(digits)]

(* "%08x": the one spelling the meshtastic library gives to a node. *)
IdOf(node) == Text(Digits(node, 16, IdDigits))

IsDecimal(digits) == \A i \in DOMAIN digits : digits[i] < 10

(* normalize_node_id: the digits behind the "!"; none if it is unusable. A *)
(* decimal text is known by its length alone.                              *)
Normalize(id) ==
  CASE id.form = "number" -> Digits(id.value, 16, IdDigits)
    [] id.form = "text" /\ IsDecimal(id.value) /\ Len(id.value) > IdDigits ->
         Digits(ValueOf(id.value, 10), 16, IdDigits)
    [] OTHER -> id.value

(* The documented spellings of a node: its id, its number, or its number   *)
(* as a text, which is longer than an id.                                  *)
Spellings(node) ==
  LET decimal == Digits(node, 10, 1) IN
  {IdOf(node), Number(node)} \union
    {Text(digits) : digits \in {d \in {decimal} : Len(d) > IdDigits}}

(* How many numbers have up to so many hexadecimal digits. *)
Powers(count) ==
  LET power[i \in 0 .. count] == IF i = 0 THEN 1 ELSE power[i - 1] * 16
  IN power

NodeNumbers == 0 .. Powers(IdDigits)[IdDigits] - 1

Names(id, node) == id \in Spellings(node)

(* normalize_node_id is right about every documented spelling: it makes    *)
(* two ids equal exactly when they name the same node (config.py:70-97).   *)
SpellingsAreRead ==
  \A node, other \in NodeNumbers : \A id \in Spellings(node) :
    Normalize(id) = Normalize(IdOf(other)) <=> node = other
=============================================================================
