---------------------------- MODULE ConfigParser ----------------------------
(***************************************************************************)
(* Start-up configuration (config.cpp, util.cpp, server.cpp):              *)
(*   - settings_init, the defaults;                                        *)
(*   - parse_config: fgets line by line, the last character dropped and a  *)
(*     trailing '\r', delstr of every space and tab, '#' comments,         *)
(*     parse_string_fast at '=', and the set_config_* table, which matches *)
(*     a key by strncmp over the length of the table's name;               *)
(*   - main's -f test and init_server's check_settings.                    *)
(* Text is kept as TLA+ strings, one character per position; operators   *)
(* only, as parse_config runs once, before any other thread exists.        *)
(***************************************************************************)
EXTENDS Integers, Sequences, SequencesExt, TLC

CONSTANTS
    NULL,       \* a NULL char *
    BufSize     \* bufsize, parse_config's line buffer (1024)

Char(s, i) == SubSeq(s, i, i)
From(s, i) == SubSeq(s, i, Len(s))

(* strchr: the first position of character c in s, or 0.                   *)
StrChr(s, c) ==
    LET P == {i \in 1 .. Len(s) : Char(s, i) = c}
    IN IF P = {} THEN 0 ELSE Min(P)

(* settings_init: the fields parse_config may set, with their defaults    *)
(* (log_level and monitor_port are left zero by the global's              *)
(* initialisation); cfgpath is set by main from -f.                        *)
Defaults ==
    [cfgpath |-> NULL, username |-> NULL, pidfile |-> NULL,
     log_path |-> NULL, port |-> 10000, maxconns |-> 1024, verbose |-> 0,
     socketpath |-> NULL, num_threads |-> 4, reqs_per_event |-> 20,
     backlog |-> 1024, index_path |-> NULL, chinese_map_file |-> NULL,
     max_depth |-> 1024, monitor_timeout |-> 10, log_level |-> NULL,
     monitor_port |-> 0]

(* The set_config_* lines of parse_config, in their order (verbose twice). *)
ConfigTable ==
    << [name |-> "username", param |-> "username", kind |-> "str"],
       [name |-> "pidfile", param |-> "pidfile", kind |-> "str"],
       [name |-> "unixpath", param |-> "socketpath", kind |-> "str"],
       [name |-> "port", param |-> "port", kind |-> "int"],
       [name |-> "verbose", param |-> "verbose", kind |-> "int"],
       [name |-> "maxconn", param |-> "maxconns", kind |-> "int"],
       [name |-> "verbose", param |-> "verbose", kind |-> "int"],
       [name |-> "threads", param |-> "num_threads", kind |-> "int"],
       [name |-> "backlog", param |-> "backlog", kind |-> "int"],
       [name |-> "max_requests", param |-> "reqs_per_event", kind |-> "int"],
       [name |-> "chinese_map_file", param |-> "chinese_map_file", kind |-> "str"],
       [name |-> "index_file", param |-> "index_path", kind |-> "str"],
       [name |-> "max_depth", param |-> "max_depth", kind |-> "int"],
       [name |-> "log_path", param |-> "log_path", kind |-> "str"],
       [name |-> "log_level", param |-> "log_level", kind |-> "str"],
       [name |-> "monitor_port", param |-> "monitor_port", kind |-> "short"],
       [name |-> "monitor_timeout", param |-> "monitor_timeout", kind |-> "int"] >>

(* fgets(buf, bufsize, fp): the length of the next piece, up to and       *)
(* including the first '\n', at most bufsize - 1 characters.               *)
FgetsLen(f) ==
    LET room == IF Len(f) < BufSize - 1 THEN Len(f) ELSE BufSize - 1
        nl == StrChr(SubSeq(f, 1, room), "\n")
    IN IF nl = 0 THEN room ELSE nl

(* The pieces successive fgets calls return until end of file.            *)
RECURSIVE Fgets(_)
Fgets(f) ==
    IF f = "" THEN <<>>
    ELSE <<SubSeq(f, 1, FgetsLen(f))>> \o Fgets(From(f, FgetsLen(f) + 1))

(* Mutant: the '\r' of a CRLF line is kept.                                *)
ChopLineKeepingCR(buf) == SubSeq(buf, 1, Len(buf) - 1)

(* buf[strlen(buf) - 1] = '\0', whether or not that character is '\n',    *)
(* then a trailing '\r' likewise.  For a lone "\n" the second test reads   *)
(* buf[-1]; whatever that byte is, buf stays empty and the line is         *)
(* skipped.                                                                *)
ChopLine(buf) ==
    LET b == SubSeq(buf, 1, Len(buf) - 1)
    IN IF b # "" /\ Char(b, Len(b)) = "\r" THEN SubSeq(b, 1, Len(b) - 1) ELSE b

(* delstr(str, delchs): every character of delchs compacted out.          *)
RECURSIVE DelStr(_, _)
DelStr(s, delchs) ==
    IF s = "" THEN ""
    ELSE (IF Char(s, 1) \in delchs THEN "" ELSE Char(s, 1)) \o DelStr(From(s, 2), delchs)

(* parse_string_fast(str, split, dest, &size): the pieces between the     *)
(* split characters.  Its MAX_KEYWORD_LENGTH (1024) cap needs more pieces *)
(* than a line of bufsize - 1 characters can hold.                         *)
RECURSIVE ParseStringFast(_, _)
ParseStringFast(s, sep) ==
    LET i == StrChr(s, sep)
    IN IF i = 0 THEN <<s>>
       ELSE <<SubSeq(s, 1, i - 1)>> \o ParseStringFast(From(s, i + 1), sep)

Digits == "0123456789"
IsDigit(c) == StrChr(Digits, c) > 0

RECURSIVE DigitsValue(_, _)
DigitsValue(s, acc) ==
    IF s # "" /\ IsDigit(Char(s, 1))
    THEN DigitsValue(From(s, 2), 10 * acc + StrChr(Digits, Char(s, 1)) - 1)
    ELSE acc

(* atoi: an optional sign and the leading digits (spaces are gone by now; *)
(* the inputs stay far below INT_MAX).                                     *)
Atoi(s) ==
    CASE s # "" /\ Char(s, 1) = "-" -> -DigitsValue(From(s, 2), 0)
      [] s # "" /\ Char(s, 1) = "+" -> DigitsValue(From(s, 2), 0)
      [] OTHER -> DigitsValue(s, 0)

(* What set_config_int, set_config_short (a short stored in the unsigned  *)
(* short monitor_port) and set_config_str (strdup) store.                  *)
ConfigValue(kind, v) ==
    CASE kind = "int" -> Atoi(v)
      [] kind = "short" -> Atoi(v) % 65536
      [] kind = "str" -> v

(* One line's set_config_* lines: !strncmp(name, key, strlen(name)), that *)
(* is, every table name that is a prefix of the key; of the lines that     *)
(* match, the last one that sets a field wins.                             *)
SetConfig(st, key, v) ==
    [f \in DOMAIN st |->
        LET M == {i \in DOMAIN ConfigTable : ConfigTable[i].param = f
                                             /\ IsPrefix(ConfigTable[i].name, key)}
        IN IF M = {} THEN st[f] ELSE ConfigValue(ConfigTable[Max(M)].kind, v)]

(* One turn of parse_config's loop, for the piece fgets returned.         *)
ConfigLine(st, piece) ==
    LET buf == DelStr(ChopLine(piece), {" ", "\t"})
        result == ParseStringFast(buf, "=")
    IN IF buf = "" \/ Char(buf, 1) = "#" \/ Len(result) # 2 THEN st
       ELSE SetConfig(st, result[1], result[2])

(* parse_config: nothing for an empty cfgpath or a file fopen cannot      *)
(* open (NULL); else its while loop, one ConfigLine per piece fgets        *)
(* returns.                                                                *)
ParseConfig(st, file) ==
    IF st.cfgpath = "" \/ file = NULL THEN st
    ELSE LET pieces == Fgets(file)
             loop[i \in 0 .. Len(pieces)] ==
                 IF i = 0 THEN st ELSE ConfigLine(loop[i - 1], pieces[i])
         IN loop[Len(pieces)]

(* check_settings: strlen of cfgpath, index_path, chinese_map_file in     *)
(* turn; an empty one prints its name and fails, a NULL one (a key absent  *)
(* from the file) is dereferenced.                                         *)
CheckSettings(settings) ==
    LET order == <<"cfgpath", "index_path", "chinese_map_file">>
        bad == {i \in 1 .. 3 : settings[order[i]] \in {NULL, ""}}
    IN CASE bad = {} -> "ok"
         [] settings[order[Min(bad)]] = NULL -> "crash"
         [] OTHER -> "config_error"

(* main and init_server up to check_settings, for -f cfgpath (NULL when   *)
(* -f is not given) and the file's contents (NULL: it cannot be opened).   *)
StartUp(cfgpath, file) ==
    LET initial == [Defaults EXCEPT !.cfgpath = cfgpath]
        parsed == ParseConfig(initial, file)
    IN CASE cfgpath = NULL -> [status |-> "usage", settings |-> initial]
         [] cfgpath = "" -> [status |-> "no_config", settings |-> initial]
         [] OTHER -> [status |-> CheckSettings(parsed), settings |-> parsed]

-----------------------------------------------------------------------------
(* The configuration format as the specification states it (Server CLI):  *)
(* lines of key=value, '#' comments, whitespace trimmed, unknown keys      *)
(* ignored; a number is written in decimal; a later line overrides an      *)
(* earlier one.  Numbers are read back within Numbers.                     *)
Blank == {" ", "\t", "\r"}

Trimmed(s) ==
    LET P == {i \in 1 .. Len(s) : Char(s, i) \notin Blank}
    IN IF P = {} THEN "" ELSE SubSeq(s, Min(P), Max(P))

SpecLines(f) ==
    LET cuts == {0, Len(f) + 1} \cup {i \in 1 .. Len(f) : Char(f, i) = "\n"}
        cut(k) == CHOOSE j \in cuts : Cardinality({m \in cuts : m < j}) = k
    IN [k \in 1 .. Cardinality(cuts) - 1 |-> SubSeq(f, cut(k - 1) + 1, cut(k) - 1)]

SpecLine(Numbers, st, l) ==
    LET t == Trimmed(l)
        eqs == {i \in 1 .. Len(t) : Char(t, i) = "="}
        e == CHOOSE i \in eqs : TRUE
        key == Trimmed(SubSeq(t, 1, e - 1))
        v == Trimmed(From(t, e + 1))
        entries == {x \in ToSet(ConfigTable) : x.name = key}
        x == CHOOSE y \in entries : TRUE
    IN IF t = "" \/ Char(t, 1) = "#" \/ Cardinality(eqs) # 1 \/ entries = {}
       THEN st
       ELSE [st EXCEPT ![x.param] =
                 IF x.kind = "str" THEN v
                 ELSE CHOOSE n \in Numbers : ToString(n) = v]

SpecSettings(Numbers, cfgpath, f) ==
    FoldLeft(LAMBDA st, l : SpecLine(Numbers, st, l),
             [Defaults EXCEPT !.cfgpath = cfgpath], SpecLines(f))

=============================================================================
