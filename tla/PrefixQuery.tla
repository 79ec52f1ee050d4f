----------------------------- MODULE PrefixQuery -----------------------------
(***************************************************************************)
(* The two callers of Get against the index the indexer built: a worker   *)
(* answering binary GET requests (complete_nread -> Get -> Query ->        *)
(* filter_result -> write_bin_response / write_bin_error, the reply as the *)
(* client decodes it) and the main thread answering the HTTP admin         *)
(* interface's opt=get (process_http_cb).  SIGINT's exiting() is the only  *)
(* other writer of the state Get reads.  The index is fixed here; its hot  *)
(* swap, and opt=reload, are IndexSwap's subject.                          *)
(***************************************************************************)
EXTENDS Indexer

CONSTANTS
    Dict,           \* the Han -> pinyin dictionary (chinese_map)
    Lines,          \* the lines of the ranked-names file, in file order
    Bodies,         \* query bytes a client may send after max_number
    Numbers,        \* max_number values a client may send
    MaxDepth,       \* g_settings.max_depth
    AllocFailures,  \* whether calloc of the reply may fail
    HttpBodies,     \* keys an admin URL may carry
    HttpNumbers,    \* atoi of the number parameters an admin URL may carry
    NoNumber        \* the number parameter is absent or empty

ASSUME NoNumber \notin Int

ASSUME ~IndexerHangs(Lines, Dict)

ASSUME \A q \in Bodies \cup HttpBodies \cup ToSet(Lines) :
           \A i \in DOMAIN q : q[i] \notin LoneLeadBytes

ENOMEM == 130               \* RESPONSE_ENOMEM = 0x82
DEFAULT_GET_NUMBER == 10
ErrText == 13               \* strlen("Out of memory")
HTTP_OK == 200  HTTP_NOCONTENT == 204  HTTP_BADREQUEST == 400  HTTP_NOTFOUND == 404

(* The trie g_index serves, built once from the input file.              *)
index == create_index(Lines, Dict)

VARIABLES
    exiting,    \* g_exiting
    pending,    \* <<the request whose body has been read>>, or <<>>
    spinning,   \* the worker is stuck inside Query
    reply,      \* <<the last reply written, as the client decodes it>>, or <<>>
    http,       \* <<the admin request the main thread is handling>>, or <<>>
    mainSpinning, \* the main thread is stuck inside Query
    httpReply   \* <<the last HTTP reply sent>>, or <<>>

vars == <<exiting, pending, spinning, reply, http, mainSpinning, httpReply>>

TypeOK ==
    /\ exiting \in BOOLEAN /\ spinning \in BOOLEAN
    /\ Len(pending) <= 1 /\ Len(reply) <= 1
    /\ \A p \in ToSet(pending) : p.key \in Seq(Nat) /\ p.number \in Numbers
    /\ \A r \in ToSet(reply) :
          /\ r.kind \in {"ok", "error"} /\ r.status \in 0 .. 255
          /\ r.key \in Seq(Nat) /\ r.names \in Seq(Seq(Nat))
          /\ r.count \in Nat /\ r.bodylen \in Nat
    /\ mainSpinning \in BOOLEAN /\ Len(http) <= 1 /\ Len(httpReply) <= 1
    /\ \A h \in ToSet(http) :
          h.opt \in {"get", "bad", "unknown"} /\ h.number \in HttpNumbers \cup {NoNumber}
    /\ \A r \in ToSet(httpReply) :
          r.status \in {HTTP_OK, HTTP_NOCONTENT, HTTP_BADREQUEST, HTTP_NOTFOUND}
          /\ r.names \in Seq(Seq(Nat))

(* std::string(data, 0, vlen - 4): data is read as a C string, so the key  *)
(* ends at the first NUL of the body.                                      *)
CStr(b) == LET n == SelectInSeq(b, LAMBDA u : u = 0) IN
           IF n = 0 THEN b ELSE SubSeq(b, 1, n - 1)

(* std::sort by rank_compare; below 16 elements libstdc++ sorts by         *)
(* insertion, which moves an item left only past strictly greater ranks.   *)
RECURSIVE InsertByRank(_, _)
InsertByRank(s, x) ==
    IF s = <<>> \/ ~(x.fRank < Last(s).fRank) THEN Append(s, x)
    ELSE Append(InsertByRank(Front(s), x), Last(s))

RECURSIVE SortByRank(_, _)
SortByRank(done, rest) ==
    IF rest = <<>> THEN done
    ELSE SortByRank(InsertByRank(done, Head(rest)), Tail(rest))

(* std::set<NodeItem>::insert keyed by strName: the first item of a name   *)
(* stays; iteration is in name order.                                      *)
DedupByName(s) ==
    LET first == {i \in DOMAIN s : \A j \in 1 .. i - 1 : s[j].strName # s[i].strName}
        names == KeyOrder({s[i].strName : i \in first})
    IN [k \in DOMAIN names |->
          s[CHOOSE i \in first : s[i].strName = names[k]]]

(* Mutant: the items are not checked against the query's ideographs.     *)
FilterResultNoRule(results, filter_rule, nMaxNumToGet) ==
    LET sorted == SortByRank(<<>>, DedupByName(results))
    IN [i \in 1 .. Min({Len(sorted), nMaxNumToGet}) |-> sorted[i].strName]

(* Mutant: the candidates are cut to nMaxNumToGet before dedup and sort.  *)
FilterResultTruncateFirst(results, filter_rule, nMaxNumToGet) ==
    LET kept   == SelectSeq(results, LAMBDA it :
                      \A j \in DOMAIN filter_rule : filter_rule[j] \in ToSet(it.strName))
        cut    == SubSeq(kept, 1, Min({Len(kept), nMaxNumToGet}))
        sorted == SortByRank(<<>>, DedupByName(cut))
    IN [i \in DOMAIN sorted |-> sorted[i].strName]

(* filter_result: keep the items whose name contains every ideograph of    *)
(* the query, dedup by name, sort by rank, keep nMaxNumToGet names.        *)
filter_result(results, filter_rule, nMaxNumToGet) ==
    LET kept   == SelectSeq(results, LAMBDA it :
                      \A j \in DOMAIN filter_rule : filter_rule[j] \in ToSet(it.strName))
        sorted == SortByRank(<<>>, DedupByName(kept))
    IN [i \in 1 .. Min({Len(sorted), nMaxNumToGet}) |-> sorted[i].strName]

(* The outcome of Get: its return value and vRes, or a call that never     *)
(* returns.                                                                *)
Ret(ret, vRes) == [hangs |-> FALSE, ret |-> ret, vRes |-> vRes]
Hang == [hangs |-> TRUE, ret |-> 0, vRes |-> <<>>]

(* Query: the ideograph split loop (which never ends on a unit of length   *)
(* 0), convert_to_letters, a get_children per letter under the read lock,  *)
(* the values flattened in order, then filter_result.                      *)
Query(q, nMaxNumToGet) ==
    LET vChinese == SelectSeq(q, LAMBDA u : Utf8Len(u) > 1)
        vLetters == ServerConvertToLetters(q, Dict).out
        hits     == FlattenSeq([i \in DOMAIN vLetters |->
                                  getChildren(index, vLetters[i], MaxDepth)])
        vTmpNode == FlattenSeq([i \in DOMAIN hits |-> hits[i].value])
    IN CASE \E i \in DOMAIN q : Utf8Len(q[i]) = 0 -> Hang
         [] vLetters = <<>> -> Ret(-1, <<>>)
         [] OTHER -> Ret(0, filter_result(vTmpNode, vChinese, nMaxNumToGet))

(* Query(trim(line), g_settings.max_depth) for every key a request can     *)
(* carry; the index does not change, so each answer is computed once.     *)
Answers == [q \in {trim(CStr(b)) : b \in Bodies} |-> Query(q, MaxDepth)]

Get(line) ==
    CASE exiting        -> Ret(0, <<>>)
      [] line = <<>>    -> Ret(-1, <<>>)
      [] OTHER          -> Answers[trim(line)]

(* The header's status field is a uint8_t: (uint16_t)htons(err) is cut to *)
(* its low byte, which on a little-endian host is err's high byte.         *)
WireStatus(err) == ((err % 256) * 256 + err \div 256) % 256

(* write_bin_error(c, RESPONSE_ENOMEM, 0): header and "Out of memory".     *)
ErrorReply(key) ==
    [kind |-> "error", key |-> key, status |-> WireStatus(ENOMEM), count |-> 0,
     names |-> <<>>, bodylen |-> ErrText]

(* The success branch of complete_nread: number 0 means 10 and is capped   *)
(* at vRes.size(), then the count and EVERY entry of vRes are written.     *)
SuccessReply(key, number, vRes) ==
    LET n1 == IF number = 0 THEN DEFAULT_GET_NUMBER ELSE number
        n2 == IF n1 > Len(vRes) THEN Len(vRes) ELSE n1
    IN [kind |-> "ok", key |-> key, status |-> WireStatus(0), count |-> n2,
        names |-> vRes,
        bodylen |-> 4 + SumFunction([i \in DOMAIN vRes |-> 4 + Len(vRes[i])])]

Init ==
    /\ exiting = FALSE /\ spinning = FALSE
    /\ pending = <<>> /\ reply = <<>>
    /\ http = <<>> /\ mainSpinning = FALSE /\ httpReply = <<>>

(* conn_nread has read a GET body: max_number, then the query bytes.       *)
Request(b, n) ==
    /\ pending = <<>> /\ ~spinning
    /\ pending' = <<[key |-> CStr(b), number |-> n]>>
    /\ reply' = <<>>
    /\ UNCHANGED <<exiting, spinning, http, mainSpinning, httpReply>>

(* complete_nread on the pending request.                                  *)
complete_nread ==
    /\ pending # <<>> /\ ~spinning
    /\ LET key == pending[1].key
           r   == Get(key)
       IN CASE r.hangs    -> spinning' = TRUE /\ UNCHANGED <<pending, reply>>
            [] r.ret = -1 -> reply' = <<ErrorReply(key)>> /\ pending' = <<>>
                                 /\ UNCHANGED spinning
            [] OTHER ->
                 /\ \/ reply' = <<SuccessReply(key, pending[1].number, r.vRes)>>
                    \/ AllocFailures /\ reply' = <<ErrorReply(key)>>
                 /\ pending' = <<>> /\ UNCHANGED spinning
    /\ UNCHANGED <<exiting, http, mainSpinning, httpReply>>

(* sig_handler_int: exiting() sets g_exiting before the process exits.     *)
SigInt ==
    /\ ~exiting
    /\ exiting' = TRUE
    /\ UNCHANGED <<pending, spinning, reply, http, mainSpinning, httpReply>>

(* evhttp has read an admin GET: "bad" stands for a URI that does not     *)
(* parse or has no opt, "unknown" for an opt other than get and reload.    *)
HttpRequest(o, b, n) ==
    /\ http = <<>> /\ ~mainSpinning
    /\ http' = <<[opt |-> o, key |-> CStr(b), number |-> n]>>
    /\ httpReply' = <<>>
    /\ UNCHANGED <<exiting, pending, spinning, reply, mainSpinning>>

(* Mutant: the listing loop stops one name early.                         *)
HttpListedShort(number, vRes) ==
    LET n0 == IF number = NoNumber THEN 10 ELSE number
        n1 == IF n0 < 0 \/ n0 > Len(vRes) THEN Len(vRes) ELSE n0
    IN SubSeq(vRes, 1, n1 - 1)

(* The <li> lines of opt=get: number is 10 unless given, then atoi; the   *)
(* int is compared with vRes.size(), a size_t, so a negative number       *)
(* counts as larger than any size and lists everything.                   *)
HttpListed(number, vRes) ==
    LET n0 == IF number = NoNumber THEN 10 ELSE number
        n1 == IF n0 < 0 \/ n0 > Len(vRes) THEN Len(vRes) ELSE n0
    IN SubSeq(vRes, 1, n1)

(* evhttp_send_reply(status) and the request is done.                     *)
HttpReply(status, h, names) ==
    /\ httpReply' = <<[status |-> status, key |-> h.key, number |-> h.number,
                        names |-> names]>>
    /\ http' = <<>>
    /\ UNCHANGED mainSpinning

(* process_http_cb for a request other than opt=reload.                   *)
process_http_cb ==
    /\ http # <<>> /\ ~mainSpinning
    /\ LET h == http[1]
           r == Get(h.key)
       IN CASE h.opt = "bad"     -> HttpReply(HTTP_BADREQUEST, h, <<>>)
            [] h.opt = "unknown" -> HttpReply(HTTP_NOTFOUND, h, <<>>)
            [] h.key = <<>>      -> HttpReply(HTTP_BADREQUEST, h, <<>>)
            [] r.hangs           -> mainSpinning' = TRUE /\ UNCHANGED <<http, httpReply>>
            [] r.ret # 0 \/ r.vRes = <<>> -> HttpReply(HTTP_NOCONTENT, h, <<>>)
            [] OTHER -> HttpReply(HTTP_OK, h, HttpListed(h.number, r.vRes))
    /\ UNCHANGED <<exiting, pending, spinning, reply>>

Next ==
    \/ \E b \in Bodies, n \in Numbers : Request(b, n)
    \/ complete_nread
    \/ \E o \in {"get", "bad", "unknown"}, b \in HttpBodies, n \in HttpNumbers \cup {NoNumber} :
          HttpRequest(o, b, n)
    \/ process_http_cb
    \/ SigInt

Spec == Init /\ [][Next]_vars

(* The worker runs complete_nread once the body is in; the main thread's  *)
(* event loop runs process_http_cb once the request is in.                *)
FairSpec == Spec /\ WF_vars(complete_nread) /\ WF_vars(process_http_cb)

-----------------------------------------------------------------------------
(* Views of a reply used by the properties.                                *)

Answered == reply # <<>> /\ reply[1].kind = "ok" /\ ~exiting

QueryText(r) == trim(r.key)
Ideographs(q) == {q[i] : i \in {j \in DOMAIN q : Utf8Len(q[j]) > 1}}
LettersOf(q) == ToSet(ServerConvertToLetters(q, Dict).out)

(* The names and ranks of the well-formed lines of the input file.         *)
Fields(l) == SepStr(l, TAB, <<>>, <<>>)
InputNames == {Fields(Lines[i])[1] : i \in {j \in DOMAIN Lines : Len(Fields(Lines[j])) = 2}}
RankOf(n) == Atof(Fields(Lines[CHOOSE i \in DOMAIN Lines :
                         Len(Fields(Lines[i])) = 2 /\ Fields(Lines[i])[1] = n])[2], 0)

(* A key is reached from letter l by get_children(l, .., max_depth).       *)
Reaches(l, k) == IsPrefix(l, k) /\ Len(k) - Len(l) <= MaxDepth

(* The names the index can give for query q: stored under a key some      *)
(* letter of q reaches, and containing every ideograph of q.               *)
Eligible(q) ==
    {n \in InputNames :
        /\ Ideographs(q) \subseteq ToSet(n)
        /\ \E k \in DOMAIN index, l \in LettersOf(q) :
              Reaches(l, k) /\ \E j \in DOMAIN index[k] : index[k][j].strName = n}

(* ns are distinct names of el by ascending rank, the best ranked of el,    *)
(* and as many as el has up to cap.                                        *)
TopRanked(ns, el, cap) ==
    /\ IsInjective(ns)
    /\ \A i, j \in DOMAIN ns : i < j => RankOf(ns[i]) <= RankOf(ns[j])
    /\ Len(ns) = Min({Cardinality(el), cap})
    /\ \A m \in el \ ToSet(ns), i \in DOMAIN ns : RankOf(ns[i]) <= RankOf(m)

(* Spec section 8: every name returned is stored under a romanization      *)
(* that a letter of the query prefixes, and contains every ideograph of    *)
(* the query (filter_result's rule check over Query's fan-out).            *)
ResultsSound ==
    Answered => ToSet(reply[1].names) \subseteq Eligible(QueryText(reply[1]))

(* The reply lists distinct names by ascending rank, and they are the best *)
(* ranked of the eligible names, as many as max_depth allows: the dedup,   *)
(* the sort and the truncation of filter_result in that order.             *)
ResultsTopRanked ==
    Answered =>
      TopRanked(reply[1].names, Eligible(QueryText(reply[1])), MaxDepth)

(* The admin page of opt=get lists distinct best-ranked eligible names by  *)
(* ascending rank: as many as number asks (10 when absent) and the index   *)
(* gives, all of them when number is negative (the int is compared with a  *)
(* size_t in process_http_cb).                                             *)
HttpListsBestRanked ==
    httpReply # <<>> /\ httpReply[1].status = HTTP_OK =>
      LET r    == httpReply[1]
          want == CASE r.number = NoNumber -> 10
                    [] r.number < 0        -> MaxDepth
                    [] OTHER               -> r.number
      IN TopRanked(r.names, Eligible(trim(r.key)), Min({want, MaxDepth}))

(* get_all_results builds the Cartesian product of spec section 4.1, in    *)
(* its order, from the readings and from the initials of the ideographs   *)
(* of the request being answered.                                          *)
ProductMatchesReference ==
    \A p \in ToSet(pending) :
        LET w == WalkOf(trim(p.key), Dict) IN
        ~w.hangs => /\ get_all_results(w.vecAll) = ProductRef(w.vecAll)
                    /\ get_all_results(w.vecFC) = ProductRef(w.vecFC)

(* Spec sections 4.1, 4.3 and 8: a name is found by every query some       *)
(* letter of which prefixes a romanization of the name (with its initials *)
(* when the name is all ideographs), within max_depth, unless the reply is *)
(* already full.                                                           *)
IndexedNamesFound ==
    Answered /\ Len(reply[1].names) < MaxDepth =>
      \A n \in InputNames :
        (/\ Ideographs(QueryText(reply[1])) \subseteq ToSet(n)
         /\ \E k \in ToSet(IndexerConvertToLetters(n, Dict).out),
               l \in LettersOf(QueryText(reply[1])) : Reaches(l, k))
        => n \in ToSet(reply[1].names)

(* Every request whose body has been read is eventually answered:         *)
(* complete_nread returns for every key (spec section 8, protocol          *)
(* round-trip).                                                            *)
(* The same holds of the main thread and the admin requests it reads.      *)
RequestAnswered ==
    /\ pending # <<>> ~> reply # <<>>
    /\ http # <<>> ~> httpReply # <<>>

=============================================================================
