-------------------------------- MODULE Text --------------------------------
(***************************************************************************)
(* Cutting a text to the byte budget of a LoRa message: truncate_bytes     *)
(* (bridge/text.py), as replies are cut to max_message_length and posted   *)
(* texts to LORA_MAX_BYTES.                                                *)
(*                                                                         *)
(* A text is a sequence of characters. What the algorithm tells apart of a *)
(* character is how many bytes UTF-8 gives it, whether rstrip() takes it   *)
(* off, and whether it is the space that rfind() looks for. Texts grow one *)
(* character at a time, so that every text up to MaxLength is reached.     *)
(***************************************************************************)
EXTENDS Integers, Sequences, SequencesExt

CONSTANTS
  Limits,    \* the values max_message_length may have, LORA_MAX_BYTES
  MaxLength  \* bound: characters of a text

ASSUME LimitsAssumption == Limits \subseteq Nat \ {0}   \* Config.validate

VARIABLES
  limit,   \* the budget of the caller, fixed at the start
  marker,  \* the marker, or "" for a plain cut
  text     \* the text to be sent

vars == <<limit, marker, text>>

(* How many bytes a character takes in UTF-8. *)
Width == [letter |-> 1, dot |-> 1, space |-> 1, newline |-> 1, kana |-> 3]

Whitespace == {"space", "newline"}
Alphabet == DOMAIN Width \ {"dot"}
DefaultMarker == <<"dot", "dot", "dot">>

Init ==
  /\ limit \in Limits
  /\ marker \in {<<>>, DefaultMarker}
  /\ text = <<>>

Next ==
  /\ Len(text) < MaxLength
  /\ \E char \in Alphabet : text' = Append(text, char)
  /\ UNCHANGED <<limit, marker>>

Spec == Init /\ [][Next]_vars

----------------------------------------------------------------------------
(* truncate_bytes                                                          *)

(* How many bytes the first so many characters take, and all of them.      *)
Sizes(t) ==
  LET size[i \in 0 .. Len(t)] ==
        IF i = 0 THEN 0 ELSE size[i - 1] + Width[t[i]]
  IN size
Bytes(t) == Sizes(t)[Len(t)]

Take(t, n) == SubSeq(t, 1, n)

(* t.encode()[:n].decode(errors="ignore"): a character that would be split *)
(* is left out.                                                            *)
HardCut(t, n) == Take(t, Max({i \in 0 .. Len(t) : Bytes(Take(t, i)) <= n}))

(* Mutant: strip() instead of rstrip(). *)
MutRStrip(t) ==
  LET ink == {i \in DOMAIN t : t[i] \notin Whitespace}
  IN IF ink = {} THEN <<>> ELSE SubSeq(t, Min(ink), Max(ink))

RStrip(t) ==
  Take(t, Max({i \in 0 .. Len(t) : i = 0 \/ t[i] \notin Whitespace}))

(* int(room * MIN_BUDGET_USE), which is exact below 5000 bytes. *)
MinUse(room) == (4 * room) \div 5

(* Mutants of Trimmed: the word boundary has no price; or it never has     *)
(* priority.                                                               *)
MutTrimmedFar(t, room) ==
  LET cut == RStrip(HardCut(t, room))
      spaces == {i \in DOMAIN cut : cut[i] = "space"}
  IN IF spaces = {} THEN cut ELSE RStrip(Take(cut, Max(spaces) - 1))
MutTrimmedHard(t, room) == RStrip(HardCut(t, room))

(* What is kept of a text that has to be cut to so many bytes: back to the *)
(* last space, unless that would waste too much of the room.               *)
Trimmed(t, room) ==
  LET cut == RStrip(HardCut(t, room))
      spaces == {i \in DOMAIN cut : cut[i] = "space"}
      candidate == RStrip(Take(cut, Max(spaces) - 1))
  IN IF spaces # {} /\ Bytes(candidate) >= MinUse(room) THEN candidate ELSE cut

(* Mutant: the marker does not count against the limit. *)
MutTruncateBytes(t, n, mark) ==
  IF n <= 0 THEN <<>> ELSE IF Bytes(t) <= n THEN t ELSE Trimmed(t, n) \o mark

TruncateBytes(t, n, mark) ==
  LET room == n - Bytes(mark) IN
  CASE n <= 0 -> <<>>
    [] n > 0 /\ Bytes(t) <= n -> t
    [] n > 0 /\ Bytes(t) > n /\ room <= 0 -> HardCut(t, n)
    [] n > 0 /\ Bytes(t) > n /\ room > 0 -> Trimmed(t, room) \o mark

----------------------------------------------------------------------------
(* Correctness                                                             *)

Result == TruncateBytes(text, limit, marker)
Room == limit - Bytes(marker)
IsCut == Bytes(text) > limit /\ Room > 0
Kept == Take(Result, Len(Result) - Len(marker))

(* The result takes at most limit bytes, marker included, whatever the     *)
(* widths of the characters at the cut (text.py:34-56).                    *)
FitsTheLimit == Bytes(Result) <= limit

(* A text is changed only if it is too long; then its beginning is kept    *)
(* and, where there is room, the marker tells the reader of the cut        *)
(* (text.py:37-56).                                                        *)
KeepsTheBeginning ==
  IF Bytes(text) <= limit THEN Result = text
  ELSE IF IsCut THEN Kept \o marker = Result /\ IsPrefix(Kept, text)
  ELSE IsPrefix(Result, text)

(* A cut wastes little: four fifths of the room are used, or else what     *)
(* follows the kept part, white space aside, did not fit (text.py:48-54).  *)
UsesTheRoom ==
  IsCut => \/ Bytes(Kept) >= MinUse(Room)
           \/ \A n \in Len(Kept) + 1 .. Len(text) :
                text[n] \notin Whitespace => Bytes(Take(text, n)) > Room

(* No word is cut in two if some space leaves enough of the room used:     *)
(* the kept part ends where a word ends (text.py:50-54).                   *)
EndsAtAWord ==
  LET WordEnd(n) == n < Len(text) /\ text[n + 1] \in Whitespace IN
  IsCut /\ (\E n \in 1 .. Len(text) :
              /\ n < Len(text) /\ text[n + 1] = "space"
              /\ text[n] \notin Whitespace
              /\ Bytes(Take(text, n)) \in MinUse(Room) .. Room)
    => WordEnd(Len(Kept))
=============================================================================
