---------------------------- MODULE MCPrefixQuery ----------------------------
EXTENDS PrefixQuery

(* Bytes and ideographs, by code (see Romanizer).                          *)
a == 97   b == 98   c == 99   h == 104   x == 120   z == 122
SP == 32  NUL == 0  BAD == 128
R1 == 49  R2 == 50  R3 == 51  R5 == 53     \* rank digits
Chang == 300  Xing == 301  Chang2 == 302  Unknown == 303

(* The dictionary file: 长 chang/zhang, 行 xing/hang, 常 chang, readings   *)
(* abbreviated to their letters; with a CR-terminated line, a line with    *)
(* no reading, a two-character key, and a key given twice (the last wins).*)
CR == 13
MCDictLines == << <<Chang, SP, c, h, SP, z>>, <<Xing>>, <<Chang2, SP, z>>,
                  <<SP, Xing, SP, x, SP, h, CR>>, <<Chang, Xing, SP, c>>,
                  <<Chang2, SP, c, h>> >>
MCDict == read_chinese_map(MCDictLines)

(* 长行 1, 常行 2, 长 3, ab 2, a line without a rank, and zz 5 (the last   *)
(* key, which create_index leaves out).                                    *)
MCLines == << <<Chang, Xing, TAB, R1>>, <<Chang2, Xing, TAB, R2>>,
              <<Chang, TAB, R3>>, <<a, b, TAB, R2>>, <<a, TAB>>,
              <<z, z, TAB, R5>> >>

MCBodies == { <<>>, <<c>>, <<z>>, <<c, h>>, <<Chang>>, <<Xing>>,
              <<Chang, Xing>>, <<Chang2>>, <<Unknown>>, <<SP, Chang>>,
              <<a>>, <<Chang, NUL, BAD>>, <<x, Xing>> }

(* The safety run adds a query with a stray byte, whose worker never      *)
(* returns from Query.                                                     *)
SafetyBodies == MCBodies \cup { <<Chang, BAD>> }

(* Keys of the admin requests: empty, ASCII, ideographs found and not,    *)
(* and the stray byte, which hangs the main thread.                        *)
HttpSafetyBodies == { <<>>, <<c>>, <<Chang>>, <<Chang, Xing>>, <<Unknown>>,
                      <<Chang, BAD>> }

(* atoi of the admin number: negative, zero and below max_depth.           *)
MCHttpNumbers == {-1, 0, 1}

(* Inputs of the runs that show one disagreement each.                     *)
StrayBodies  == { <<Chang, BAD>> }
AsciiLines   == << <<a, b, TAB, R1>> >>
AsciiBodies  == { <<a, b>> }
(* The server's configuration file (ConfigParser): max_depth comes from   *)
(* parse_config, through CRLF lines, tabs and spaces around '=', a comment *)
(* and a blank line.                                                       *)
CONSTANT NoFile   \* a NULL pointer, and a file fopen cannot open
Cfg == INSTANCE ConfigParser WITH NULL <- NoFile, BufSize <- 1024

CfgPath == "prefix_match.conf"

ServerConf ==
    "# prefix_match_server\nport = 10001\nthreads=2\r\nindex_file = idx.dat\r\nchinese_map_file\t=\tpy.txt\n\nmax_depth=2\n"

MCMaxDepth == Cfg!StartUp(CfgPath, ServerConf).settings.max_depth

(* Files of the specification's format: a key set twice, a negative and a *)
(* four-digit number, lines with two '=' or none, an unknown key, an      *)
(* indented comment, values padded with tabs, an empty path, blank lines, *)
(* an empty file; and one file outside CodeFormat for each way out of it:  *)
(* a key that starts with a table name, a value with a blank inside, a    *)
(* port above 16 bits, a last line without its newline.                    *)
ConfigFiles ==
    { ServerConf,
      "  # port=1\na=b=c\nnovalue\ncolour=red\nverbose=1\nverbose = 3\nmaxconn=-1\nmonitor_port=8080\n",
      "username=nobody\r\nunixpath = /tmp/pm.sock\nlog_level=debug\r\nlog_path=\t/var/log\t\nindex_file=\nmonitor_timeout=30\n",
      "\n\n#\n",
      "",
      "portal=7\n",
      "log_path=/var/my log\n",
      "monitor_port=70000\n",
      "max_depth=2" }

ConfigNumbers == -10 .. 10100

(* The key and the value of a line of the format, blanks trimmed.         *)
SpecKey(l)   == LET t == Cfg!Trimmed(l) IN Cfg!Trimmed(SubSeq(t, 1, Cfg!StrChr(t, "=") - 1))
SpecValue(l) == LET t == Cfg!Trimmed(l) IN Cfg!Trimmed(Cfg!From(t, Cfg!StrChr(t, "=") + 1))
IsSetting(l) ==
    LET t == Cfg!Trimmed(l)
    IN t # "" /\ Cfg!Char(t, 1) # "#" /\ Cfg!StrChr(t, "=") > 0
TableNames == {Cfg!ConfigTable[i].name : i \in DOMAIN Cfg!ConfigTable}

(* The part of the format parse_config reads as the specification says:   *)
(* the last line ends in a newline, no line fills fgets' buffer, a key is *)
(* a table name or starts with none, a value holds no blank inside, and a *)
(* monitor_port fits its unsigned short.                                   *)
CodeFormat(f) ==
    /\ f = "" \/ Cfg!Char(f, Len(f)) = "\n"
    /\ \A k \in DOMAIN Cfg!SpecLines(f) :
           LET l == Cfg!SpecLines(f)[k] IN
           /\ Len(l) < 1023
           /\ IsSetting(l) =>
                 /\ SpecKey(l) \in TableNames
                    \/ \A n \in TableNames : ~IsPrefix(n, SpecKey(l))
                 /\ Cfg!StrChr(SpecValue(l), " ") = 0 /\ Cfg!StrChr(SpecValue(l), "\t") = 0
                 /\ SpecKey(l) = "monitor_port" =>
                       Cfg!Atoi(SpecValue(l)) \in 0 .. 65535

(* What parse_config and check_settings make of the files of CodeFormat:  *)
(* the settings of each, and whether the server's own file starts a       *)
(* server.                                                                 *)
ConfigAgrees ==
    /\ \A f \in ConfigFiles :
           CodeFormat(f) =>
           Cfg!StartUp(CfgPath, f).settings
               = Cfg!SpecSettings(ConfigNumbers, CfgPath, f)
    /\ Cfg!StartUp(CfgPath, ServerConf).status = "ok"

(* A request is only ever answered by a server that main and init_server  *)
(* started: parse_config, line by line through fgets, its chop of the last *)
(* character and of a '\r', delstr and parse_string_fast, gives every file *)
(* of the specification's format (key=value, '#' comments, whitespace     *)
(* trimmed, unknown keys ignored, the later line winning) that lies within *)
(* CodeFormat the settings the format describes, and the server's own file *)
(* passes check_settings.  Files outside CodeFormat are where the code and *)
(* the format disagree (prefix-matched keys, blanks removed inside values, *)
(* the 16-bit monitor_port, the lost last character).                      *)
ConfigFollowsFormat ==
    pending # <<>> => ConfigAgrees
=============================================================================
