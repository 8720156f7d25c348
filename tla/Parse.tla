-------------------------------- MODULE Parse --------------------------------
(***************************************************************************)
(* The parsers of src/parse.cpp: functions from a text and the offset of the *)
(* scanner in it to the offset it is left at and what was read.  A text is a *)
(* sequence of characters, offsets count from 0.  "res" says whether a       *)
(* function returned true or false, or failed an assertion.                  *)
(*                                                                           *)
(* The state is one call at a time: the argument, put together from what it  *)
(* is meant to say, the result and the Request a head was parsed into.       *)
(***************************************************************************)
EXTENDS Integers, Sequences, FiniteSets, TLC

CONSTANTS
    Upper, Lower,           \* the letters an instance uses
    UINT8_MAX, UINT16_MAX, MAX_INT,
    MAX_REQUEST_HEADERS,    \* header lines a Request holds (32)
    CONTENT_LENGTH,         \* the characters of that header's name
    IPv4Texts, IPv6Texts,   \* the arguments of the calls, see "Calls" below
    RequestTexts,
    Junk                    \* what may lie behind the data in a buffer

VARIABLES
    arg,                    \* the call: a function and what its text means
    ret,                    \* its result
    req                     \* the Request of the last Request::parse

vars == <<arg, ret, req>>

SX == INSTANCE SequencesExt
BU == INSTANCE Buffer WITH INITIAL_SIZE <- 256, MIN_READ <- 256

DigitChars == <<"0", "1", "2", "3", "4", "5", "6", "7", "8", "9">>
Digit == {DigitChars[i] : i \in 1 .. 10}
DigitValue(c) == (CHOOSE i \in 1 .. 10 : DigitChars[i] = c) - 1

Alpha      == Upper \cup Lower
HexLetter  == Alpha \cap {"a", "b", "c", "d", "e", "f", "A", "B", "C", "D", "E", "F"}
Subdelim   == {"!", "$", "&", "'", "(", ")", "*", "+", ",", ";", "="}
Unreserved == Alpha \cup Digit \cup {"-", ".", "_", "~"}
Pchar      == Unreserved \cup Subdelim \cup {":", "@"}
Space      == {" ", "TAB", "CR", "LF"}
Other      == {"%", "/", "?", "#", "[", "]"}
Char       == Pchar \cup Space \cup Other

CRLF == <<"CR", "LF">>

-----------------------------------------------------------------------------
(* The scanner.                                                             *)

\* consume(const char*), and what it tests.
sees(text, off, str) == off + Len(str) <= Len(text) /\ SubSeq(text, off + 1, off + Len(str)) = str

next_in(text, off, chars) == off < Len(text) /\ text[off + 1] \in chars

\* consume(testfn): where the longest run of such characters from "off" ends.
span(text, off, chars) ==
    CHOOSE end \in off .. Len(text) :
        /\ \A i \in off .. end - 1 : text[i + 1] \in chars
        /\ ~next_in(text, end, chars)

\* Mutant of Slice: the offset of the end for the length.
SliceTo(off, end) == [str |-> 0, off |-> off, len |-> end]

\* A slice points "off" characters behind "str".
Slice(off, end) == [str |-> 0, off |-> off, len |-> end - off]
NoSlice == [str |-> 0, off |-> 0, len |-> 0]

Read(off, val) == [res |-> "true", off |-> off, val |-> val]
Unread(off) == [res |-> "false", off |-> off]
Abort == [res |-> "abort", off |-> -1]

\* One parser behind another: "rest" goes on from what the first one read.
Then(first, rest(_)) == IF first.res = "true" THEN rest(first) ELSE first

-----------------------------------------------------------------------------
(* Numbers.                                                                 *)

\* Mutant of Accumulated: ">=" for ">" where a digit is checked against the limit.
AccumulatedBelow(digits, base, max) ==
    LET value[k \in 0 .. Len(digits)] ==
            IF k = 0 THEN 0
            ELSE LET d == DigitValue(digits[k])
                     v == value[k - 1]
                 IN  IF v = -1 \/ v >= (max - d) \div base THEN -1 ELSE v * base + d
    IN  value

\* The value of the first k digits, -1 from where it would exceed max.
Accumulated(digits, base, max) ==
    LET value[k \in 0 .. Len(digits)] ==
            IF k = 0 THEN 0
            ELSE LET d == DigitValue(digits[k])
                     v == value[k - 1]
                 IN  IF v = -1 \/ v > (max - d) \div base THEN -1 ELSE v * base + d
    IN  value

\* How many digits were taken, of which "value" has the values one after another.
count_in(value) ==
    CHOOSE k \in DOMAIN value : value[k] # -1 /\ (k + 1 \in DOMAIN value => value[k + 1] = -1)

number_of(text, off, base, value) ==
    LET count == count_in(value)
    IN  IF count + 1 \in DOMAIN value THEN Read(off + count - 1, value[count])
        ELSE IF base = 16 /\ next_in(text, off + count, HexLetter) THEN Abort
        ELSE IF count = 0 THEN Unread(off)
        ELSE Read(off + count, value[count])

\* parse_u8_base10, parse_u16_base10 and parse_u16_base16: at a digit that is one
\* too many the cursor goes back over the last digit that counted.  The value of
\* a hex letter is taken from '0' as well, which fails the assertion.
parse_number(text, off, base, max) ==
    number_of(text, off, base,
              Accumulated(SubSeq(text, off + 1, span(text, off, Digit)), base, max))

-----------------------------------------------------------------------------
(* Addresses.                                                               *)

\* Groups of digits from s on, the first one without a separator in front.
next_group(text, s, sep, base, max) ==
    LET first == s.val = <<>>
    IN  IF ~first /\ ~next_in(text, s.off, {sep}) THEN Unread(s.off)
        ELSE Then(parse_number(text, IF first THEN s.off ELSE s.off + 1, base, max),
                  LAMBDA n : Read(n.off, Append(s.val, n.val)))

parse_ipv4(text, off) ==
    LET octets[i \in 0 .. 4] ==
            IF i = 0 THEN Read(off, <<>>)
            ELSE Then(octets[i - 1], LAMBDA s : next_group(text, s, ".", 10, UINT8_MAX))
    IN  octets[4]

\* "n" groups of an IPv6 address, at most.  With upto set they end at "::".
groups16(text, off, n, upto) ==
    LET step[i \in 0 .. n] ==
            IF i = 0 THEN Read(off, <<>>)
            ELSE Then(step[i - 1],
                      LAMBDA s : IF upto /\ sees(text, s.off, <<":", ":">>) THEN s
                                 ELSE next_group(text, s, ":", 16, UINT16_MAX))
    IN  step[n]

\* Mutant of Filled: the zero groups come behind the tail.
FilledBehind(head, tail) == head \o tail \o [i \in 1 .. 8 - Len(head) - Len(tail) |-> 0]

\* The groups that "::" stands for.
Filled(head, tail) == head \o [i \in 1 .. 8 - Len(head) - Len(tail) |-> 0] \o tail

\* Behind "::" the rest is read up to seven groups in all.
parse_ipv6(text, off) ==
    Then(groups16(text, off, 8, TRUE),
         LAMBDA head : IF Len(head.val) = 8 THEN head
                       ELSE Then(groups16(text, head.off + 2, 7 - Len(head.val), FALSE),
                                 LAMBDA tail : Read(tail.off, Filled(head.val, tail.val))))

-----------------------------------------------------------------------------
(* URLs.                                                                    *)

host_name(text, off) ==
    LET end == span(text, off, Unreserved \cup Subdelim)
    IN  Read(end, [type |-> "NAME", text |-> Slice(off, end)])

\* An IPv4 address that does not parse leaves the cursor where it gave up, and
\* a name is read from there on.
parse_host(text, off) ==
    LET ip4 == parse_ipv4(text, off)
    IN  IF off = Len(text) THEN Unread(off)
        ELSE IF next_in(text, off, {"["})
        THEN Then(parse_ipv6(text, off),
                  LAMBDA ip6 : IF next_in(text, ip6.off, {"]"})
                               THEN Read(ip6.off + 1, [type |-> "IPV6", text |-> Slice(off, ip6.off)])
                               ELSE Unread(ip6.off))
        ELSE IF ~next_in(text, off, Digit) THEN host_name(text, off)
        ELSE IF ip4.res = "true" THEN Read(ip4.off, [type |-> "IPV4", text |-> Slice(off, ip4.off)])
        ELSE host_name(text, ip4.off)

\* Mutant of parse_user_info: the cursor is not put back without an "@".
parse_user_info_kept(text, off) ==
    LET end == span(text, off, Unreserved \cup Subdelim \cup {":"})
    IN  IF next_in(text, end, {"@"}) THEN Read(end + 1, Slice(off, Len(text)))
        ELSE Read(end, NoSlice)

\* parse_user_info: only with an "@" behind it; its length is that of all the
\* text that is left.
parse_user_info(text, off) ==
    LET end == span(text, off, Unreserved \cup Subdelim \cup {":"})
    IN  IF end > off /\ next_in(text, end, {"@"})
        THEN Read(end + 1, Slice(off, Len(text)))
        ELSE Read(off, NoSlice)

\* A ":" without a digit behind it is passed over.
parse_port(text, off) ==
    IF ~next_in(text, off, {":"}) THEN Read(off, -1)
    ELSE IF next_in(text, off + 1, Digit) THEN parse_number(text, off + 1, 10, UINT16_MAX)
    ELSE Read(off + 1, -1)

parse_authority(text, off) ==
    Then(parse_user_info(text, off), LAMBDA info :
    Then(parse_host(text, info.off), LAMBDA host :
    Then(parse_port(text, host.off), LAMBDA port :
        Read(port.off, [userinfo |-> info.val, host |-> host.val, port |-> port.val]))))

\* parse_scheme: the slice is "str + off" behind the scheme, not at it.
parse_scheme(text, off) ==
    LET end == span(text, off, Upper \cup Digit \cup {"+", "-", "."})
    IN  IF next_in(text, off, Upper) /\ next_in(text, end, {":"})
        THEN Read(end + 1, [str |-> end + 1, off |-> off, len |-> end + 1 - off])
        ELSE Read(off, NoSlice)

NoAuthority == [userinfo |-> NoSlice, host |-> [type |-> "IPV4", text |-> NoSlice], port |-> -1]
NoURL == [full |-> NoSlice, scheme |-> NoSlice, authority |-> NoAuthority,
          path |-> NoSlice, query |-> NoSlice, fragment |-> NoSlice]

\* Mutant of parse_marked: a "?" ends a query, as it ends a path.
parse_marked_once(text, off, mark) ==
    IF next_in(text, off, {mark})
    THEN LET end == span(text, off + 1, Pchar \cup {"/"}) IN Read(end, Slice(off + 1, end))
    ELSE Read(off, NoSlice)

\* "?" or "#" and what follows it.
parse_marked(text, off, mark) ==
    IF next_in(text, off, {mark})
    THEN LET end == span(text, off + 1, Pchar \cup {"/", "?"}) IN Read(end, Slice(off + 1, end))
    ELSE Read(off, NoSlice)

parse_path_abempty(text, off) ==
    LET pieces[o \in off .. Len(text)] ==
            IF next_in(text, o, {"/"}) THEN pieces[span(text, o + 1, Pchar)] ELSE o
    IN  pieces[off]

\* Behind an authority there is a path if the character after next is "/".
url_path(text, off, absolute) ==
    LET end == IF absolute THEN parse_path_abempty(text, off) ELSE span(text, off, Pchar \cup {"/"})
    IN  IF absolute /\ off + 1 >= Len(text) THEN Abort
        ELSE IF absolute /\ ~next_in(text, off + 1, {"/"}) THEN Read(off, NoSlice)
        ELSE Read(end, Slice(off, end))

parse_url(text, off) ==
    Then(parse_scheme(text, off), LAMBDA scheme :
    LET absolute == sees(text, scheme.off, <<"/", "/">>) IN
    Then(IF absolute THEN parse_authority(text, scheme.off + 2) ELSE Read(scheme.off, NoAuthority),
         LAMBDA authority :
    Then(url_path(text, authority.off, absolute), LAMBDA path :
    Then(parse_marked(text, path.off, "?"), LAMBDA query :
    Then(parse_marked(text, query.off, "#"), LAMBDA fragment :
        Read(fragment.off,
             [full |-> Slice(off, fragment.off), scheme |-> scheme.val,
              authority |-> authority.val, path |-> path.val,
              query |-> query.val, fragment |-> fragment.val]))))))

-----------------------------------------------------------------------------
(* Requests.                                                                *)

Methods == {<<"G", "E", "T">>, <<"P", "O", "S", "T">>}

VersionTokens == {<<" ", "H", "T", "T", "P", "/", "1">> \o minor \o CRLF :
                     minor \in {<<>>, <<".", "0">>, <<".", "1">>}}

\* A Request just constructed.
NewRequest == [valid |-> FALSE, method |-> <<"G", "E", "T">>, url |-> NoURL,
               headers |-> <<>>, ignored_count |-> 0]

\* The header lines from "off" up to the empty line behind them; "val" has the
\* headers read before an error as well.
parse_headers(text, off) ==
    LET lines[o \in off .. Len(text)] ==
            LET name_end  == span(text, o, Char \ {":"})
                value_end == span(text, name_end + 1, Char \ {"CR"})
                header    == [name  |-> Slice(o, name_end),
                              value |-> Slice(name_end + 1, value_end)]
                rest      == lines[value_end + 2]
            IN  IF ~next_in(text, name_end, {":"})
                THEN [res |-> "false", off |-> name_end, val |-> <<>>]
                ELSE IF ~sees(text, value_end, CRLF)
                THEN [res |-> "false", off |-> value_end, val |-> <<header>>]
                ELSE IF sees(text, value_end + 2, CRLF)
                THEN Read(value_end + 4, <<header>>)
                ELSE [rest EXCEPT !.val = <<header>> \o @]
    IN  IF sees(text, off, CRLF) THEN Read(off + 2, <<>>) ELSE lines[off]

\* Mutant of with_headers: only the end of the text is looked for, not whether the
\* lines were read.
with_headers_unchecked(text, r, lines) ==
    LET count == IF Len(lines.val) < MAX_REQUEST_HEADERS THEN Len(lines.val)
                 ELSE MAX_REQUEST_HEADERS
        good  == lines.off = Len(text)
    IN  [res |-> IF good THEN "true" ELSE "false", off |-> lines.off,
         val |-> [r EXCEPT !.valid = good, !.headers = SubSeq(lines.val, 1, count),
                           !.ignored_count = Len(lines.val) - count]]

\* A Request with the header lines that were read; the headers beyond
\* MAX_REQUEST_HEADERS are only counted.
with_headers(text, r, lines) ==
    LET count == IF Len(lines.val) < MAX_REQUEST_HEADERS THEN Len(lines.val)
                 ELSE MAX_REQUEST_HEADERS
        good  == lines.res = "true" /\ lines.off = Len(text)
    IN  [res |-> IF good THEN "true" ELSE "false", off |-> lines.off,
         val |-> [r EXCEPT !.valid = good, !.headers = SubSeq(lines.val, 1, count),
                           !.ignored_count = Len(lines.val) - count]]

with_url(text, r, url) ==
    LET versions == {v \in VersionTokens : sees(text, url.off, v)}
    IN  IF url.res # "true" THEN [res |-> url.res, off |-> url.off, val |-> r]
        ELSE IF versions = {} THEN [res |-> "false", off |-> url.off, val |-> [r EXCEPT !.url = url.val]]
        ELSE with_headers(text, [r EXCEPT !.url = url.val],
                          parse_headers(text, url.off + Len(CHOOSE v \in versions : TRUE)))

\* What parse_request() leaves in a new Request, with "valid" as Request::parse()
\* sets it.
parse_request(text) ==
    LET method == span(text, 0, Upper)
        name   == SubSeq(text, 1, method)
        some   == [NewRequest EXCEPT !.method = name]
    IN  IF name \notin Methods THEN [res |-> "false", off |-> method, val |-> NewRequest]
        ELSE IF ~next_in(text, method, {" "}) THEN [res |-> "false", off |-> method, val |-> some]
        ELSE with_url(text, some, parse_url(text, method + 1))

Denoted(text, slice) == SubSeq(text, slice.str + slice.off + 1, slice.str + slice.off + slice.len)

\* Request::content_length() of a request that was parsed from text.
content_length(text, r) ==
    LET named  == {i \in 1 .. Len(r.headers) : Denoted(text, r.headers[i].name) = CONTENT_LENGTH}
        value  == Denoted(text, r.headers[CHOOSE i \in named : \A j \in named : i <= j].value)
        start  == span(value, 0, Space)
        digits == SubSeq(value, start + 1, span(value, start, Digit))
    IN  IF ~r.valid \/ named = {} THEN 0
        ELSE Accumulated(digits, 10, MAX_INT)[Len(digits)]

-----------------------------------------------------------------------------
(* Calls.  A number is [text, val]: digits and what they denote.            *)

Joined(numbers, sep) ==
    SX!FlattenSeq([i \in 1 .. Len(numbers) |->
                      IF i = 1 THEN numbers[i].text ELSE <<sep>> \o numbers[i].text])

\* An optional part is a sequence of at most one text.
Marked(mark, part) == IF part = <<>> THEN <<>> ELSE <<mark>> \o part[1]

IPv4Text(t) == Joined(t.octets, ".") \o t.behind

IPv6Text(t) ==
    Joined(t.head, ":") \o (IF t.skip THEN <<":", ":">> ELSE <<>>) \o Joined(t.tail, ":") \o t.behind

AuthorityText(a) ==
    <<"/", "/">> \o (IF a.user = <<>> THEN <<>> ELSE a.user[1] \o <<"@">>)
                \o a.host.text \o (IF a.port = <<>> THEN <<>> ELSE <<":">> \o a.port[1].text)

URLText(u) ==
    (IF u.authority = <<>> THEN <<>> ELSE AuthorityText(u.authority[1]))
        \o u.path \o Marked("?", u.query) \o Marked("#", u.fragment)

HeadText(t) ==
    t.method \o <<" ">> \o URLText(t.url) \o t.version
        \o SX!FlattenSeq([i \in 1 .. Len(t.headers) |->
                             t.headers[i].name \o <<":">> \o t.headers[i].value.text \o CRLF])
        \o CRLF

\* What an input buffer holds: a head and what follows it, or a head that lacks
\* its last characters.
Data(t) == SubSeq(HeadText(t.of), 1, Len(HeadText(t.of)) - t.lacks) \o t.more

\* The slice wait() makes of it and parses.
RequestText(t) == BU!slice_until(Data(t), t.behind, CRLF \o CRLF)

Arrivals(head) ==
    [of: {head}, lacks: {0}, more: {<<>>, HeadText(head)}, behind: {<<>>}]
        \cup [of: {head}, lacks: 1 .. Len(HeadText(head)), more: {<<>>},
              behind: {<<c>> : c \in Junk}]

-----------------------------------------------------------------------------
(* What the arguments are.                                                  *)

\* No letter is one of the other characters.
ASSUME LettersAssumption ==
    Alpha \cap (Digit \cup Subdelim \cup {"-", ".", "_", "~", ":", "@"} \cup Space \cup Other) = {}

\* The limits are those of types that hold a digit.
ASSUME LimitsAssumption ==
    /\ UINT8_MAX \in Nat /\ UINT8_MAX >= 9
    /\ UINT16_MAX \in Nat /\ UINT16_MAX >= 9
    /\ MAX_INT \in Nat /\ MAX_REQUEST_HEADERS \in Nat

\* The arguments are texts, and every head ends with an empty line, the only one
\* in it.
ASSUME TextsAssumption ==
    /\ \A t \in IPv4Texts : IPv4Text(t) \in Seq(Char)
    /\ \A t \in IPv6Texts : IPv6Text(t) \in Seq(Char)
    /\ \A head \in RequestTexts :
          LET text == HeadText(head)
          IN  /\ text \in Seq(Char) /\ Len(text) >= 4
              /\ SubSeq(text, Len(text) - 3, Len(text)) = CRLF \o CRLF
              /\ \A i \in 1 .. Len(text) - 4 :
                    <<text[i], text[i + 1], text[i + 2]>> # <<"CR", "LF", "CR">>
    /\ Junk \subseteq Char

\* What the first k digits denote.
Denotation(digits, base) ==
    LET value[k \in 0 .. Len(digits)] ==
            IF k = 0 THEN 0 ELSE value[k - 1] * base + DigitValue(digits[k])
    IN  value

\* Digits and what they denote.
Numeral(base) ==
    {n \in [text: Seq(Digit) \ {<<>>}, val: Nat] : n.val = Denotation(n.text, base)[Len(n.text)]}

\* No other number follows, with or without a separator.
EndsNumbers(behind, sep) ==
    /\ ~next_in(behind, 0, Digit)
    /\ ~(next_in(behind, 0, {sep}) /\ next_in(behind, 1, Digit))

IsIPv4(t) ==
    t.octets \in Seq(Numeral(10)) /\ t.behind \in Seq(Char) /\ EndsNumbers(t.behind, ".")

IsIPv6(t) ==
    /\ t.head \in Seq(Numeral(16)) /\ t.tail \in Seq(Numeral(16)) /\ t.skip \in BOOLEAN
    /\ t.behind \in Seq(Char) /\ EndsNumbers(t.behind, ":")
    /\ ~t.skip => t.tail = <<>> /\ ~sees(t.behind, 0, <<":", ":">>)

Optional(part) == {p \in Seq(part) : Len(p) <= 1}

\* The last number of an IPv4 address may be too large.
IsHost(h) ==
    \/ h.type = "NAME" /\ h.text \in Seq(Unreserved \cup Subdelim)
    \/ /\ h.type = "IPV4" /\ h.octets \in Seq(Numeral(10)) /\ Len(h.octets) = 4
       /\ \A i \in 1 .. 3 : h.octets[i].val <= UINT8_MAX
       /\ h.text = Joined(h.octets, ".")
    \/ h.type = "IPV6" /\ h.text \in Seq(Char \ Space) /\ next_in(h.text, 0, {"["})

IsAuthority(a) ==
    /\ a.user \in Optional(Seq(Unreserved \cup Subdelim \cup {":"}))
    /\ IsHost(a.host)
    /\ a.port \in Optional(Numeral(10))

\* Without an authority the path begins neither like one nor like a scheme.
IsURL(u) ==
    /\ u.path \in Seq(Pchar \cup {"/"})
    /\ u.query \in Optional(Seq(Pchar \cup {"/", "?"}))
    /\ u.fragment \in Optional(Seq(Pchar \cup {"/", "?"}))
    /\ IF u.authority = <<>>
       THEN /\ ~(next_in(u.path, 0, {"/"}) /\ next_in(u.path, 1, {"/"}))
            /\ next_in(u.path, 0, Upper) =>
                  ~next_in(u.path, span(u.path, 0, Upper \cup Digit \cup {"+", "-", "."}), {":"})
       ELSE /\ Len(u.authority) = 1 /\ IsAuthority(u.authority[1])
            /\ u.path = <<>> \/ next_in(u.path, 0, {"/"})

\* The digits behind the spaces, -1 from where they would exceed an int.
IsLength(value) ==
    LET start  == span(value.text, 0, Space)
        digits == SubSeq(value.text, start + 1, span(value.text, start, Digit))
        exact  == Denotation(digits, 10)
    IN  value.val = IF \E k \in 1 .. Len(digits) :
                          exact[k - 1] > (MAX_INT - DigitValue(digits[k])) \div 10
                    THEN -1 ELSE exact[Len(digits)]

HeaderLine == [name: Seq(Char \ {":", "CR"}), value: [text: Seq(Char \ {"CR"}), val: Int]]

IsHead(t) ==
    /\ t.method \in Methods \cap Seq(Upper)
    /\ IsURL(t.url)
    /\ t.version \in VersionTokens
    /\ t.headers \in Seq(HeaderLine)
    /\ \A i \in 1 .. Len(t.headers) :
          t.headers[i].name = CONTENT_LENGTH => IsLength(t.headers[i].value)

ASSUME MeaningAssumption ==
    /\ \A t \in IPv4Texts : IsIPv4(t)
    /\ \A t \in IPv6Texts : IsIPv6(t)
    /\ \A head \in RequestTexts : IsHead(head)

-----------------------------------------------------------------------------
(* Steps: a call and its return.                                            *)

NoCall == [fn |-> "none"]

Init == arg = NoCall /\ ret = NoCall /\ req = NewRequest

IPv4_parse ==
    /\ arg = NoCall
    /\ \E t \in IPv4Texts : arg' = [fn |-> "IPv4", means |-> t] /\ ret' = parse_ipv4(IPv4Text(t), 0)
    /\ UNCHANGED req

IPv6_parse ==
    /\ arg = NoCall
    /\ \E t \in IPv6Texts : arg' = [fn |-> "IPv6", means |-> t] /\ ret' = parse_ipv6(IPv6Text(t), 0)
    /\ UNCHANGED req

Request_parse ==
    /\ arg = NoCall
    /\ \E head \in RequestTexts : \E t \in Arrivals(head) :
         LET result == parse_request(RequestText(t)) IN
         /\ arg' = [fn |-> "Request", means |-> t]
         /\ ret' = [res |-> result.res, off |-> result.off]
         /\ req' = result.val

Request_content_length ==
    /\ arg.fn = "Request" /\ ret.res # "abort"
    /\ arg' = [arg EXCEPT !.fn = "content_length"]
    /\ ret' = Read(0, content_length(RequestText(arg.means), req))
    /\ UNCHANGED req

\* The caller is done with the result.  A failed assertion ends the program.
Return ==
    /\ arg # NoCall /\ ret.res # "abort"
    /\ arg' = NoCall /\ ret' = NoCall /\ req' = NewRequest

Next == IPv4_parse \/ IPv6_parse \/ Request_parse \/ Request_content_length \/ Return

Spec == Init /\ [][Next]_vars

-----------------------------------------------------------------------------
(* Properties.                                                              *)

Values(numbers) == [i \in 1 .. Len(numbers) |-> numbers[i].val]

\* A number behind the cursor was not read to its end: it grew too large.
CutShort(text) == next_in(text, ret.off, Digit)

\* Four numbers up to 255 with dots in between, without leading zeros and with
\* nothing behind them: what inet_pton() takes for an IPv4 address.
IsDottedDecimal(t) ==
    /\ Len(t.octets) = 4 /\ t.behind = <<>>
    /\ \A i \in 1 .. 4 : /\ t.octets[i].val <= UINT8_MAX
                         /\ t.octets[i].text[1] = "0" => Len(t.octets[i].text) = 1

\* IPv4::parse() reads an address in dotted decimal whole and gives its numbers.
\* From any text it accepts, the numbers it gives are the first four that are
\* written there, unless it cut one short (parse.cpp:318).
IPv4Read ==
    LET t    == arg.means
        text == IPv4Text(t)
        all  == Values(t.octets)
    IN  arg.fn = "IPv4" =>
            /\ IsDottedDecimal(t) => ret = Read(Len(text), all)
            /\ ret.res = "true" /\ ~CutShort(text) =>
                  /\ Len(all) >= 4 /\ \A i \in 1 .. 4 : all[i] <= UINT8_MAX
                  /\ ret.val = SubSeq(all, 1, 4)

\* The groups written in t, with a zero for "::".
GroupValues(t) == Values(t.head) \o (IF t.skip THEN <<0>> ELSE <<>>) \o Values(t.tail)

IsShort(numbers) ==
    \A i \in 1 .. Len(numbers) : Len(numbers[i].text) <= 4 /\ numbers[i].val <= UINT16_MAX

\* The groups in front of a hexadecimal letter in t are in range, and it belongs
\* to a group that is wanted: to the last of them, or to a further one.
LetterWanted(t) ==
    LET last == IF t.skip THEN t.tail ELSE t.head
        room == IF t.skip THEN 7 - Len(t.head) ELSE 8
    IN  /\ \A i \in 1 .. Len(GroupValues(t)) : GroupValues(t)[i] <= UINT16_MAX
        /\ Len(last) <= room
        /\ \/ last # <<>> /\ next_in(t.behind, 0, HexLetter)
           \/ last = <<>> /\ room > 0 /\ next_in(t.behind, 0, HexLetter)
           \/ last # <<>> /\ Len(last) < room
              /\ next_in(t.behind, 0, {":"}) /\ next_in(t.behind, 1, HexLetter)

\* IPv6::parse() reads eight groups of up to four decimal digits whole, or seven
\* with "::" for the eighth anywhere, and gives their values.  From any text it
\* accepts, the values it gives are those that are written there, unless it cut a
\* number short.  At a hexadecimal letter where a group is wanted it fails its
\* assertion (parse.cpp:211).
IPv6Read ==
    LET t    == arg.means
        text == IPv6Text(t)
        all  == GroupValues(t)
    IN  arg.fn = "IPv6" =>
            /\ Len(all) = 8 /\ IsShort(t.head) /\ IsShort(t.tail) /\ t.behind = <<>>
                  => ret = Read(Len(text), all)
            /\ ret.res = "true" /\ ~CutShort(text) =>
                  /\ Len(all) >= 8 /\ \A i \in 1 .. 8 : all[i] <= UINT16_MAX
                  /\ ret.val = SubSeq(all, 1, 8)
            /\ LetterWanted(t) => ret = Abort

\* Eight groups of up to four hexadecimal digits with ":" in between, or fewer
\* with one "::", at either end too, for the others.
IsHexGroups(text) ==
    LET hex    == Digit \cup HexLetter
        chars(i, set) == next_in(text, i, set)
        places == 0 .. Len(text) - 1
        gaps   == {i \in places : sees(text, i, <<":", ":">>)}
        groups == {i \in places : chars(i, hex) /\ (i = 0 \/ ~chars(i - 1, hex))}
    IN  /\ \A i \in places : chars(i, hex \cup {":"})
        /\ \A i \in groups : span(text, i, hex) - i <= 4
        /\ \A i \in places : chars(i, {":"}) /\ i \in {0, Len(text) - 1} => gaps \cap {i - 1, i} # {}
        /\ IF gaps = {} THEN Cardinality(groups) = 8
           ELSE Cardinality(gaps) = 1 /\ Cardinality(groups) < 8

\* An address parser accepts what inet_pton() does ("case 1: test(ok)", "case 0:
\* case -1: test(!ok)", test/fuzz_parse_ipv4.cpp:19 and test/fuzz_parse_ipv6.cpp:19)
\* and, of IPv6, what the comment of parse_ipv6() says: hex numbers of at most 4
\* digits, with "::" for "the remaining" ones (parse.cpp:232).
AddressesAsInetPton ==
    /\ arg.fn = "IPv4" => (ret.res = "true" <=> IsDottedDecimal(arg.means))
    /\ arg.fn = "IPv6" => (ret.res = "true" <=> IsHexGroups(IPv6Text(arg.means)))

IsWhole(t) == t.lacks = 0

\* A well-formed head whose URL has no authority is told apart from what follows
\* it in the buffer and is accepted, and the method,
\* the parts of the URL and the headers are those that were written, in order;
\* headers beyond MAX_REQUEST_HEADERS are counted as ignored (parse.cpp:606).
RequestAsMeant ==
    LET head == arg.means.of
        text == RequestText(arg.means)
        part(slice, optional) == Denoted(text, slice) = IF optional = <<>> THEN <<>> ELSE optional[1]
    IN  arg.fn = "Request" /\ IsWhole(arg.means) /\ head.url.authority = <<>> =>
            /\ ret = [res |-> "true", off |-> Len(HeadText(head))] /\ req.valid
            /\ req.method = head.method
            /\ Denoted(text, req.url.full) = URLText(head.url)
            /\ Denoted(text, req.url.path) = head.url.path
            /\ part(req.url.query, head.url.query)
            /\ part(req.url.fragment, head.url.fragment)
            /\ Len(req.headers) + req.ignored_count = Len(head.headers)
            /\ req.ignored_count > 0 => Len(req.headers) = MAX_REQUEST_HEADERS
            /\ \A i \in 1 .. Len(req.headers) :
                  /\ Denoted(text, req.headers[i].name) = head.headers[i].name
                  /\ Denoted(text, req.headers[i].value) = head.headers[i].value.text

\* When a URL with an authority is accepted, its host and its port are those that
\* were written, unless the host is a name that begins with a digit (the part of
\* it that looked like an IPv4 address is lost, parse.cpp:408).
AuthorityAsMeant ==
    LET head == arg.means.of
        text == RequestText(arg.means)
        host == head.url.authority[1].host
        port == head.url.authority[1].port
    IN  /\ arg.fn = "Request" /\ IsWhole(arg.means) /\ req.valid
        /\ head.url.authority # <<>>
        /\ host.type = "NAME" => ~next_in(host.text, 0, Digit)
        => /\ req.url.authority.host.type = host.type
           /\ Denoted(text, req.url.authority.host.text) = host.text
           /\ req.url.authority.port = IF port = <<>> THEN -1 ELSE port[1].val
           /\ Denoted(text, req.url.path) = head.url.path

\* A head of which only part has arrived is parsed with the byte behind the data
\* (Buffer::seek, buffer.hpp:232).  It is accepted only if all but its last
\* byte has arrived and that byte happens to lie there.
OnlyWholeHeads ==
    arg.fn = "Request" /\ ret.res = "true" =>
        IsWhole(arg.means) \/ (arg.means.lacks = 1 /\ arg.means.behind = <<"LF">>)

\* content_length() is the number in the first Content-Length header among those
\* that were kept, -1 when it does not fit an int, and 0 without such a header or
\* for a head that was not accepted.
ContentLengthExact ==
    LET headers == arg.means.of.headers
        named   == {i \in 1 .. Len(headers) : headers[i].name = CONTENT_LENGTH
                                               /\ i <= MAX_REQUEST_HEADERS}
        first   == CHOOSE i \in named : \A j \in named : i <= j
    IN  arg.fn = "content_length" =>
            ret.val = IF ~req.valid \/ named = {} THEN 0 ELSE headers[first].value.val

\* The cursor stays inside the text, and so does every slice of an accepted
\* Request but those of the scheme and the user info.
TypeOK ==
    LET text   == RequestText(arg.means)
        inside(slice) == slice.off \in 0 .. Len(text) /\ slice.off + slice.len \in slice.off .. Len(text)
        url    == req.url
    IN  /\ arg.fn \in {"none", "IPv4", "IPv6", "Request", "content_length"}
        /\ arg.fn = "IPv4" => ret.off \in 0 .. Len(IPv4Text(arg.means))
        /\ arg.fn = "IPv6" /\ ret.res # "abort" => ret.off \in 0 .. Len(IPv6Text(arg.means))
        /\ arg.fn = "Request" /\ ret.res # "abort" =>
              /\ ret.off \in 0 .. Len(text)
              /\ \A slice \in {url.full, url.path, url.query, url.fragment, url.authority.host.text} :
                    inside(slice)
              /\ \A i \in 1 .. Len(req.headers) :
                    inside(req.headers[i].name) /\ inside(req.headers[i].value)
=============================================================================
