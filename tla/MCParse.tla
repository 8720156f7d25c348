------------------------------- MODULE MCParse -------------------------------
EXTENDS Parse

SomeUpper == {"A", "C", "E", "G", "H", "L", "O", "P", "S", "T"}
SomeLower == {"a", "h", "u", "x"}
SomeJunk  == {"LF", "CR", "a", ":"}
TheName   == <<"C", "L">>

Number(text, val) == [text |-> text, val |-> val]

Octets == {Number(<<"0">>, 0), Number(<<"0", "7">>, 7), Number(<<"2", "5", "5">>, 255),
           Number(<<"2", "5", "6">>, 256), Number(<<"3", "0", "0">>, 300)}

SomeIPv4 == [octets: UNION {[1 .. n -> Octets] : n \in 0 .. 4}, behind: {<<>>, <<"x">>, <<".">>}]
                \cup [octets: {[i \in 1 .. 5 |-> Number(<<"1">>, 1)]}, behind: {<<>>}]

Groups == {Number(<<"0", "0", "0", "0", "9">>, 9), Number(<<"9", "9", "9", "9">>, 39321),
           Number(<<"1", "0", "0", "0", "0">>, 65536)}

\* n groups, all the same but the one at i.
SomeGroups(n) ==
    {[j \in 1 .. n |-> IF j = i THEN g ELSE Number(<<"1", "2">>, 18)] : i \in 1 .. n, g \in Groups}
        \cup (IF n = 0 THEN {<<>>} ELSE {})

\* Behind decimal groups: nothing, the end of a literal, or a letter that goes on
\* with the last group or begins a further one.
Behinds == {<<>>, <<"]">>, <<"a">>, <<":", "a">>}

\* Addresses that begin with a letter, the eight groups and the short form.
LetterFirst == {<<"a", ":", "1", ":", "a", ":", "1", ":", "a", ":", "1", ":", "a", ":", "1">>,
                <<"a", ":", ":", "C">>}

SomeIPv6 ==
    [head: UNION {SomeGroups(n) : n \in 0 .. 8}, tail: {<<>>}, skip: {FALSE}, behind: Behinds]
        \cup [head: UNION {SomeGroups(n) : n \in 0 .. 7}, tail: UNION {SomeGroups(n) : n \in 0 .. 8},
               skip: {TRUE}, behind: Behinds \ {<<"]">>}]
        \cup [head: {<<>>}, tail: {<<>>}, skip: BOOLEAN, behind: LetterFirst]

-----------------------------------------------------------------------------
Get == <<"G", "E", "T">>
Version == <<" ", "H", "T", "T", "P", "/", "1">> \o CRLF

Url(authority, path, query, fragment) ==
    [authority |-> authority, path |-> path, query |-> query, fragment |-> fragment]

RequestHead(method, url, version, headers) ==
    [method |-> method, url |-> url, version |-> version, headers |-> headers]

Header(name, text, val) == [name |-> name, value |-> Number(text, val)]

Paths     == {<<>>, <<"/">>, <<"/", "a", "/", ":">>, <<"a", ":", "/", "/", "h">>}
Queries   == {<<>>, << <<>> >>, << <<"a", "=", "?">> >>}
Fragments == {<<>>, << <<"/">> >>}

PlainUrls == {Url(<<>>, p, q, f) : p \in Paths, q \in Queries, f \in Fragments}

Address(last) ==
    LET octets == <<Number(<<"1">>, 1), Number(<<"2">>, 2), Number(<<"0">>, 0), last>>
    IN  [type |-> "IPV4", octets |-> octets, text |-> Joined(octets, ".")]

Hosts == {[type |-> "NAME", text |-> <<"h", "0">>], [type |-> "NAME", text |-> <<"0", "h">>],
          Address(Number(<<"4">>, 4)), Address(Number(<<"2", "5", "6">>, 256))}
Ports == {<<>>, <<Number(<<"8", "0">>, 80)>>, <<Number(<<"6", "5", "5", "3", "6">>, 65536)>>}

AuthorityUrls ==
    {Url(<<[user |-> u, host |-> h, port |-> n]>>, p, <<>>, <<>>) :
        u \in {<<>>, << <<"u", ":", "x">> >>}, h \in Hosts, n \in Ports,
        p \in {<<>>, <<"/", "/", "a">>}}

\* "CL" as a name, too large and largest numbers, and another header in front.
Lengths == {Header(TheName, <<" ", "7", "x">>, 7), Header(TheName, <<>>, 0),
            Header(TheName, <<"2", "1", "4", "7", "4", "8", "3", "6", "4", "7">>, 2147483647),
            Header(TheName, <<"2", "1", "4", "7", "4", "8", "3", "6", "4", "8">>, -1)}
OtherHeader == Header(<<"a">>, <<":", "9">>, 9)

HeaderLists ==
    {<<>>, <<OtherHeader, OtherHeader>>, <<OtherHeader, OtherHeader, Header(TheName, <<"5">>, 5)>>}
        \cup {<<h>> : h \in Lengths} \cup {<<OtherHeader, h>> : h \in Lengths}
        \cup {<<h, g>> : h \in Lengths, g \in Lengths}

SomeRequests ==
    {RequestHead(Get, u, Version, <<OtherHeader>>) : u \in PlainUrls \cup AuthorityUrls}
        \cup {RequestHead(m, Url(<<>>, <<"/">>, <<>>, <<>>), v, <<>>) : m \in Methods, v \in VersionTokens}
        \cup {RequestHead(Get, Url(<<>>, <<"/">>, <<>>, <<>>), Version, hs) : hs \in HeaderLists}
=============================================================================
