------------------------------ MODULE MCSetup -------------------------------
(* Files of every kind of section, for module Setup. *)
EXTENDS Setup, TLC

CONSTANT Modes

Header(c, n)     == [kind |-> "header", class |-> c, name |-> n]
Other            == [kind |-> "other"]
Item(k, num, ws) == [kind |-> "item", key |-> k, val |-> [num |-> num, list |-> ws]]
Number(k, num)   == Item(k, num, <<"number">>)
Text(k, ws)      == Item(k, 0, ws)

V4(w)                == [family |-> "inet", words |-> <<w>>]
V6(w1, w2, w3, w4)   == [family |-> "inet6", words |-> <<w1, w2, w3, w4>>]
Net(addr, num)       == [addr |-> addr, slash |-> TRUE, num |-> num]
Single(addr)         == [addr |-> addr, slash |-> FALSE, num |-> 0]

MCCidrText ==
    ("all4" :> Net(V4(2), 0)) @@ ("half4" :> Net(V4(2), 1)) @@ ("long4" :> Net(V4(1), 99)) @@
    ("one4" :> Single(V4(3))) @@ ("all6" :> Net(V6(1, 2, 3, 0), -1)) @@
    ("word6" :> Net(V6(1, 2, 3, 0), 2)) @@ ("mid6" :> Net(V6(1, 2, 3, 0), 5)) @@
    ("low6" :> Net(V6(1, 2, 3, 0), 7)) @@ ("one6" :> Single(V6(3, 0, 2, 1)))

MCAddrText ==
    ("host" :> [host |-> "host", port |-> -1]) @@ ("host:1" :> [host |-> "host", port |-> 1]) @@
    ("host:" :> [host |-> "host", port |-> 0]) @@ (":1" :> [host |-> "", port |-> 1]) @@
    ("[::]" :> [host |-> "[:", port |-> 0]) @@ ("[::]:1" :> [host |-> "[::]", port |-> 1])

File(lines, ended) == [lines |-> lines, ended |-> ended]

P  == Header("proxy", "proxy")
S  == Header("server", "s")
C  == Header("client", "c")
B  == Header("balancer", "b")

ProxyParts ==
    {<<P>>, <<Other, P, Other>>, <<P, Text("listeners", <<>>)>>,
     <<P, Text("listeners", <<"host:1", ":1", "host:", "[::]">>), Text("info_enabled", <<"no">>),
       Number("info_period", 1)>>}

ServerParts ==
    {<<>>,
     <<S, Text("address", <<"host:1">>)>>,
     <<S, Text("address", <<"host:">>)>>,
     <<S, Text("address", <<":1">>)>>,
     <<S, Text("address", <<"[::]">>), Header("server", "t"), Text("address", <<"[::]:1">>)>>,
     <<S, Text("address", <<"host">>), Number("max_slots", 0)>>,
     <<S, Number("max_slots", -5), Text("address", <<"host">>), Header("server", "t"),
       Text("address", <<"host">>), Number("check_mode", 7), S, Number("max_slots", 3)>>}

ClientParts ==
    {<<>>,
     <<C, Text("sources", <<"half4", "bad", "mid6">>)>>,
     <<C, Text("sources", <<"bad">>)>>,
     <<C, Text("sources", <<"word6", "one4">>), Number("max_slots", 0),
       Header("client", "d"), Text("sources", <<"low6">>), C, Text("sources", <<"long4">>)>>}

BalancerParts ==
    {<<>>,
     <<B>>,
     <<B, Text("clients", <<"all">>), Text("servers", <<>>)>>,
     <<B, Text("servers", <<"s", "u">>), Text("clients", <<"d", "all", "c">>)>>,
     <<B, Text("servers", <<"t">>), Header("balancer", "e"), Text("clients", <<"c">>), B,
       Text("servers", <<"s">>), Text("method", <<"byrequests">>)>>}

\* All sections in every combination, the proxy's first or last.
SectionFiles ==
    {File(p \o s \o c \o b, TRUE) :
        p \in ProxyParts, s \in ServerParts, c \in ClientParts, b \in BalancerParts}
    \cup {File(b \o c \o s \o <<P>>, TRUE) :
        s \in ServerParts, c \in ClientParts, b \in BalancerParts}
    \cup {File(<<P>> \o c \o b \o s, FALSE) :
        s \in ServerParts, c \in ClientParts, b \in BalancerParts}

Valid ==
    <<S, Text("address", <<"host">>), C, Text("sources", <<"all4", "all6", "one6">>), B>>

\* Each option at, inside and beyond its bounds.
OptionFiles ==
    {File(Valid \o <<P, Number(k, n)>>, e) : e \in BOOLEAN,
        n \in {-1, 0, 1, 4, 10, 30, 901, 10000},
        k \in {"info_period", "status_period", "cache_timeout", "conn_timeout", "max_faults"}}

\* The modes of buffers.
ModeFiles ==
    {File(Valid \o <<P, Text("listeners", <<"host:1">>), Number("socket_mode", s), 
                     Number("buffer_mode", b), Number("max_buffer", m)>>, TRUE) : s \in {0, 1, 2}, b \in {1, 2, 3}, m \in Modes}

MCFiles == SectionFiles \cup OptionFiles \cup ModeFiles \cup {File(<<>>, FALSE)}
=============================================================================
