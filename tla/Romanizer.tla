------------------------------ MODULE Romanizer ------------------------------
(***************************************************************************)
(* Romanization of a query or an index line: util.cpp getUTF8Len and the   *)
(* get_all_results / all_english_char / convert_to_letters functions that  *)
(* prefixmatch.cpp (server) and indexer.cpp (indexer) each define.         *)
(*                                                                         *)
(* A text is a sequence of units.  A unit is one ASCII byte (code < 128),  *)
(* one stray byte that is not a valid UTF-8 lead byte (128 .. 191), or one *)
(* whole three-byte ideograph (code >= 256); NUL is 0.  A romanization is a *)
(* sequence of ASCII codes.  A dictionary is a function from ideographs to *)
(* their non-empty list of readings, in file order (read_chinese_map keeps *)
(* only lines with at least one reading).                                  *)
(***************************************************************************)
EXTENDS Naturals, Sequences, SequencesExt

(* A unit below 256 is one byte; a unit of 256 or more is a whole         *)
(* three-byte ideograph.  getUTF8Len: 0 for NUL, 1 below 0x80, then 2, 3   *)
(* or 4 for the lead bytes 110xxxxx, 1110xxxx, 11110xxx, and 0 for a       *)
(* continuation byte (10xxxxxx) or 0xF8..0xFF.                             *)
Utf8Len(u) ==
    CASE u = 0                -> 0
      [] u < 128              -> 1
      [] u \in 192 .. 223     -> 2
      [] u \in 224 .. 239     -> 3
      [] u \in 240 .. 247     -> 4
      [] u < 256              -> 0
      [] OTHER                -> 3

(* A lone lead byte makes the split loops step over the bytes after it;    *)
(* the walks below advance one unit at a time, so inputs hold none.        *)
LoneLeadBytes == 192 .. 247

all_english_char(s) == \A i \in DOMAIN s : s[i] < 128

(***************************************************************************)
(* get_all_results, loop by loop.  For each further stack S[i] the current *)
(* output O (uOutCount entries) is first copied |S[i]| - 1 more times by   *)
(* push_back, then replica j gets S[i][j] appended to each of its entries. *)
(***************************************************************************)
(* Mutant: the copy loop runs |S[i]| times instead of |S[i]| - 1.         *)
RECURSIVE DupLoopExtra(_, _, _, _)
DupLoopExtra(v, j, uItemCount, uOutCount) ==
    IF j >= uItemCount THEN v
    ELSE DupLoopExtra(v \o SubSeq(v, 1, uOutCount), j + 1, uItemCount, uOutCount)

RECURSIVE DupLoop(_, _, _, _)
DupLoop(v, j, uItemCount, uOutCount) ==
    IF j >= uItemCount - 1 THEN v
    ELSE DupLoop(v \o SubSeq(v, 1, uOutCount), j + 1, uItemCount, uOutCount)

AppendLoop(v, items, uOutCount) ==
    [k \in DOMAIN v |->
        IF k <= Len(items) * uOutCount
        THEN v[k] \o items[(k - 1) \div uOutCount + 1]
        ELSE v[k]]

RECURSIVE ProductLoop(_, _, _)
ProductLoop(vOut, vecAll, i) ==
    IF i > Len(vecAll) THEN vOut
    ELSE ProductLoop(AppendLoop(DupLoop(vOut, 0, Len(vecAll[i]), Len(vOut)),
                                vecAll[i], Len(vOut)),
                     vecAll, i + 1)

get_all_results(vecAll) ==
    IF vecAll = <<>> THEN <<>> ELSE ProductLoop(vecAll[1], vecAll, 2)

(***************************************************************************)
(* The walk of convert_to_letters over the units of s.  A unit whose       *)
(* length is 0 leaves p where it is: the while loop never ends, which the  *)
(* result reports as hangs.  Otherwise each unit found in the dictionary   *)
(* pushes its readings (and, for the indexer, their first letters) and     *)
(* any unit of length <= 1 clears all_chinese_flag.                        *)
(***************************************************************************)
RECURSIVE Walk(_, _, _, _)
Walk(s, i, dict, acc) ==
    IF i > Len(s) THEN acc
    ELSE IF Utf8Len(s[i]) = 0 THEN [acc EXCEPT !.hangs = TRUE]
    ELSE Walk(s, i + 1, dict,
              [acc EXCEPT
                 !.vecAll = IF s[i] \in DOMAIN dict THEN Append(@, dict[s[i]]) ELSE @,
                 !.vecFC  = IF s[i] \in DOMAIN dict
                            THEN Append(@, [r \in DOMAIN dict[s[i]] |->
                                              SubSeq(dict[s[i]][r], 1, 1)])
                            ELSE @,
                 !.all_chinese = @ /\ Utf8Len(s[i]) > 1])

WalkOf(s, dict) ==
    Walk(s, 1, dict, [hangs |-> FALSE, vecAll |-> <<>>, vecFC |-> <<>>,
                      all_chinese |-> TRUE])

(* prefixmatch.cpp convert_to_letters: no initials.                        *)
ServerConvertToLetters(s, dict) ==
    IF all_english_char(s) THEN [hangs |-> FALSE, out |-> <<s>>]
    ELSE LET w == WalkOf(s, dict) IN
         [hangs |-> w.hangs, out |-> get_all_results(w.vecAll)]

(* indexer.cpp convert_to_letters: the product of the readings, then that  *)
(* of the initials when every unit was multi-byte.                         *)
IndexerConvertToLetters(s, dict) ==
    IF all_english_char(s) THEN [hangs |-> FALSE, out |-> <<s>>]
    ELSE LET w == WalkOf(s, dict) IN
         [hangs |-> w.hangs,
          out |-> get_all_results(w.vecAll)
                  \o (IF w.all_chinese THEN get_all_results(w.vecFC) ELSE <<>>)]

(***************************************************************************)
(* Reference: the Cartesian product of spec section 4.1, the first stack   *)
(* varying fastest, built by recursion on the last stack.                  *)
(***************************************************************************)
RECURSIVE ProductRef(_)
ProductRef(S) ==
    IF S = <<>> THEN <<>>
    ELSE IF Len(S) = 1 THEN S[1]
    ELSE LET P == ProductRef(SubSeq(S, 1, Len(S) - 1))
             T == S[Len(S)]
         IN FlattenSeq([j \in DOMAIN T |-> [k \in DOMAIN P |-> P[k] \o T[j]]])
=============================================================================
