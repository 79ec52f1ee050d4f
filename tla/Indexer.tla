------------------------------- MODULE Indexer -------------------------------
(***************************************************************************)
(* The offline indexer (indexer.cpp create_index) and the trie it builds.  *)
(* Every line of the ranked-names file is split on TAB; a line with two    *)
(* non-empty fields gives the item (name, atof(rank)), and the romanization*)
(* of the WHOLE line (name, TAB and rank text) gives the keys the item is  *)
(* filed under.  The keys, in std::map order, are handed to the dastrie    *)
(* builder as the range [&r[0], &r[n-1]).                                  *)
(* The trie library is not part of this repository: its build and its     *)
(* get_children are taken from the specification (section 4.2).           *)
(***************************************************************************)
EXTENDS Romanizer

TAB == 9

(* sepstr(s, sep) without empty fields: the maximal runs free of sep.      *)
RECURSIVE SepStr(_, _, _, _)
SepStr(s, sep, cur, acc) ==
    IF s = <<>> THEN (IF cur = <<>> THEN acc ELSE Append(acc, cur))
    ELSE IF Head(s) = sep
         THEN SepStr(Tail(s), sep, <<>>, IF cur = <<>> THEN acc ELSE Append(acc, cur))
         ELSE SepStr(Tail(s), sep, Append(cur, Head(s)), acc)

(* trim(line, " \t\r", 1): strip those bytes from both ends.               *)
Blank(u) == u \in {32, 9, 13}
RECURSIVE TrimLeft(_)
TrimLeft(s) == IF s # <<>> /\ Blank(Head(s)) THEN TrimLeft(Tail(s)) ELSE s
RECURSIVE TrimRight(_)
TrimRight(s) == IF s # <<>> /\ Blank(Last(s)) THEN TrimRight(Front(s)) ELSE s
trim(s) == TrimRight(TrimLeft(s))

(* read_chinese_map, one line of the dictionary file: trimmed, split on    *)
(* spaces, kept when it has a key and a reading; a later line of the same  *)
(* key replaces the earlier one.  Only a key of one unit is ever looked up *)
(* (convert_to_letters looks up one code point at a time), so the model   *)
(* keeps those.                                                            *)
AddDictLine(m, line) ==
    LET f == SepStr(trim(line), 32, <<>>, <<>>)
    IN IF Len(f) < 2 \/ Len(f[1]) # 1 THEN m
       ELSE [u \in DOMAIN m \cup {f[1][1]} |->
               IF u = f[1][1] THEN Tail(f) ELSE m[u]]

read_chinese_map(lines) == FoldLeft(AddDictLine, <<>>, lines)

(* atof on a rank field: the value of its leading decimal digits.          *)
RECURSIVE Atof(_, _)
Atof(t, v) ==
    IF t = <<>> \/ Head(t) < 48 \/ Head(t) > 57 THEN v
    ELSE Atof(Tail(t), 10 * v + Head(t) - 48)

(* std::string ordering (byte-wise, as unsigned char).                     *)
RECURSIVE KeyLess(_, _)
KeyLess(s, t) ==
    IF t = <<>> THEN FALSE
    ELSE IF s = <<>> THEN TRUE
    ELSE IF Head(s) # Head(t) THEN Head(s) < Head(t)
    ELSE KeyLess(Tail(s), Tail(t))

(* A set of keys in std::map iteration order.                             *)
RECURSIVE KeyOrder(_)
KeyOrder(S) ==
    IF S = {} THEN <<>>
    ELSE LET m == CHOOSE k \in S : \A j \in S : ~KeyLess(j, k)
         IN <<m>> \o KeyOrder(S \ {m})

(* The body of the getline loop of create_index for one line: the          *)
(* mLetterToItems map grows by the item under each key of the line.        *)
AddLine(m, line, dict) ==
    LET f    == SepStr(line, TAB, <<>>, <<>>)
        item == [strName |-> f[1], fRank |-> Atof(f[2], 0)]
        keys == IndexerConvertToLetters(line, dict).out
        add(mm, k) == IF k \in DOMAIN mm
                      THEN [mm EXCEPT ![k] = Append(@, item)]
                      ELSE [x \in DOMAIN mm \cup {k} |->
                               IF x = k THEN <<item>> ELSE mm[x]]
    IN IF Len(f) # 2 THEN m ELSE FoldLeft(add, m, keys)

(* Whether romanizing some well-formed line never terminates.              *)
IndexerHangs(lines, dict) ==
    \E i \in DOMAIN lines :
        Len(SepStr(lines[i], TAB, <<>>, <<>>)) = 2
        /\ IndexerConvertToLetters(lines[i], dict).hangs

(* create_index: the records in key order, less the last one.              *)
create_index(lines, dict) ==
    LET m       == FoldLeft(LAMBDA mm, l : AddLine(mm, l, dict), <<>>, lines)
        records == KeyOrder(DOMAIN m)
    IN [k \in ToSet(SubSeq(records, 1, Len(records) - 1)) |-> m[k]]

(* dastrie get_children(prefix, out, max_depth), appended to out: the      *)
(* stored pairs whose key extends prefix by at most max_depth bytes, in    *)
(* key order.                                                              *)
getChildren(trie, prefix, max_depth) ==
    LET ks == {k \in DOMAIN trie : IsPrefix(prefix, k)
                                   /\ Len(k) - Len(prefix) <= max_depth}
    IN [i \in 1 .. Cardinality(ks) |->
          LET k == KeyOrder(ks)[i] IN [key |-> k, value |-> trie[k]]]
=============================================================================
