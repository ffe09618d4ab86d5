------------------------------ MODULE MCBridge ------------------------------
(* TLC instance of Bridge. Ids have two digits, so that node 5 needs a     *)
(* leading zero, and the decimal 171 is longer than the id "!ab".          *)
EXTENDS Bridge, TLC

(* EverySpellingIsRead of NodeIds_proofs, evaluated for all numbers of two *)
(* digits.                                                                 *)
ASSUME SpellingsAssumption == SpellingsAreRead

MCSpellings == {{}, {Number(5)}, {Text(<<10, 11>>)}, {Text(<<1, 7, 1>>)},
                {Text(<<0, 5>>), Number(171)}, {Text(<<2, 0, 0>>)}}
MCListedOrNot == {{}, {Text(<<2, 0, 0>>)}}

Symmetry == Permutations(Msgs)
=============================================================================
