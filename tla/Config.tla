------------------------------- MODULE Config -------------------------------
(***************************************************************************)
(* The configuration file: how it is read (src/src/nrdpx_config.cpp) and   *)
(* what main and nrdpx_load_config make of it (src/src/nrdpx_server.cpp).  *)
(*                                                                         *)
(* A file is a sequence of lines: headers of sections, items, and others.  *)
(* The text of a value is given by what the code reads out of it: list,    *)
(* its words, and num, what atoi returns for it.  Names are equal when     *)
(* stricmp says so.                                                        *)
(***************************************************************************)
EXTENDS Cidr, SequencesExt

CONSTANTS
    Files,      \* files: [lines, ended], ended: the last line has an end of line
    CidrText,   \* words of "sources" that have an address (host_to_addr)
    AddrText    \* words of addresses: [host, port] where the code splits them,
                \* port -1 if it finds nowhere to

\* The value of an item.  A value without words is empty.
Value == [num : Int, list : Seq(STRING \ {""})]

\* A line of a file.
Line == [kind : {"header"}, class : STRING, name : STRING]
        \cup [kind : {"item"}, key : STRING, val : Value]
        \cup [kind : {"other"}]

\* An empty word has no address.
ASSUME ConfigAssumption ==
    /\ \A f \in Files : f.lines \in Seq(Line) /\ f.ended \in BOOLEAN
    /\ "" \notin DOMAIN CidrText \cup DOMAIN AddrText
    /\ \A w \in DOMAIN CidrText :
          /\ CidrText[w].addr \in Address
          /\ CidrText[w].slash \in BOOLEAN /\ CidrText[w].num \in Int
    /\ \A w \in DOMAIN AddrText : AddrText[w].host \in STRING /\ AddrText[w].port \in Int

VARIABLES
    file,       \* the file
    pc,         \* what is loaded next
    next,       \* the section that is loaded next
    sections,   \* sections[c]: those of class c, the m_sects of a nrdpx_config_t
    data,       \* data[c]: names of the sections whose m_data is set
    proxy,      \* options of __proxy, and its listeners
    clients, servers, balancers \* of __proxy

configVars == <<file, pc, next, sections, data, proxy, clients, servers, balancers>>

Classes == {"proxy", "server", "client", "balancer"}

CONN_PORT       == 3389
INFO_PORT       == 4073
BUFFER_SIZE_MIN == 8760
BUFFER_SIZE_MAX == 131072
SYSTEM          == 0
ALIGN           == 1
MAXBUF          == 2

NoItems == [k \in {} |-> ""]

AtLeast(low, v) == IF v < low THEN low ELSE v

\* The elements of s that are in S.
Among(s, S) == FoldLeft(LAMBDA p, x : IF x \in S THEN Append(p, x) ELSE p, <<>>, s)

\* The items of new, and those of old it does not have.
Over(new, old) ==
    [k \in DOMAIN new \cup DOMAIN old |-> IF k \in DOMAIN new THEN new[k] ELSE old[k]]

-----------------------------------------------------------------------------
(* nrdpx_config_t: reading the sections of one class. *)

\* Mutant: a section that comes again replaces what was read of it.
AddSectReplaces(sects, sc) ==
    IF \E j \in DOMAIN sects : sects[j].name = sc.name
    THEN [j \in DOMAIN sects |-> IF sects[j].name = sc.name THEN sc ELSE sects[j]]
    ELSE Append(sects, sc)

\* A section that comes again extends and overrides the first.
AddSect(sects, sc) ==
    IF \E j \in DOMAIN sects : sects[j].name = sc.name
    THEN [j \in DOMAIN sects |->
            IF sects[j].name = sc.name
            THEN [sects[j] EXCEPT !.items = Over(sc.items, @)] ELSE sects[j]]
    ELSE Append(sects, sc)

\* The section being read, if there is one, is complete.
Flush(st) == IF st.cur = <<>> THEN st.sects ELSE AddSect(st.sects, st.cur[1])

\* A header ends the section before it, and begins one if its class is wanted.
\* Items go to the section being read.
ReadLine(class, st, line) ==
    CASE line.kind = "header" ->
            [sects |-> Flush(st),
             cur   |-> IF line.class = class THEN <<[name |-> line.name, items |-> NoItems]>>
                                             ELSE <<>>]
      [] line.kind = "item" /\ st.cur # <<>> ->
            [st EXCEPT !.cur[1].items = Over([k \in {line.key} |-> line.val], @)]
      [] OTHER -> st

\* An item on the last line is read only if the line has an end.
Lines(f) ==
    IF ~f.ended /\ f.lines # <<>> /\ Last(f.lines).kind = "item" THEN Front(f.lines) ELSE f.lines

LoadFromFile(f, class) ==
    Flush(FoldLeft(LAMBDA st, line : ReadLine(class, st, line),
                   [sects |-> <<>>, cur |-> <<>>], Lines(f)))

Has(sc, key) == key \in DOMAIN sc.items

\* An empty value is a list of one empty word.
GetStrings(sc, key) ==
    IF ~Has(sc, key) THEN <<>>
    ELSE IF sc.items[key].list = <<>> THEN <<"">> ELSE sc.items[key].list

GetInteger(sc, key, default) ==
    IF ~Has(sc, key) \/ sc.items[key].list = <<>> THEN default ELSE sc.items[key].num

GetBoolean(sc, key, default) ==
    IF ~Has(sc, key) \/ sc.items[key].list = <<>> THEN default
    ELSE sc.items[key].list \in {<<"true">>, <<"yes">>, <<"1">>}

-----------------------------------------------------------------------------
(* nrdpx_load_config. *)

\* A word is split after the last "]" that a colon follows, or else at its last colon:
\* one in brackets without a port is split inside of them.
ParseHostPort(word, port) ==
    IF word \notin DOMAIN AddrText THEN [host |-> "", port |-> port]
    ELSE [host |-> AddrText[word].host,
          port |-> IF AddrText[word].port = -1 THEN port ELSE AddrText[word].port]

\* nrdpx_listener_t.
Listener(word) ==
    LET a == ParseHostPort(word, 0)
    IN [host |-> IF a.host = "" THEN "0.0.0.0" ELSE a.host,
        port |-> IF a.port = 0 THEN CONN_PORT ELSE a.port]

\* Those of a file that names none; their hosts are not parsed.
DefaultListeners == <<[host |-> "0.0.0.0", port |-> CONN_PORT], [host |-> "[::]", port |-> CONN_PORT]>>

\* nrdpx_proxy_t.
DefaultProxy ==
    [listeners |-> <<>>, info_enabled |-> TRUE, info_port |-> INFO_PORT, info_period |-> 15,
     status_period |-> 300, cache_timeout |-> 60, conn_timeout |-> 30, max_faults |-> 2,
     socket_mode |-> SYSTEM, buffer_mode |-> SYSTEM, max_buffer |-> BUFFER_SIZE_MAX]

\* Mutant: conn_timeout is taken as it is.
LoadProxyUnfit(sc) ==
    [DefaultProxy EXCEPT
        !.listeners = IF Has(sc, "listeners")
                      THEN [j \in DOMAIN GetStrings(sc, "listeners") |->
                               Listener(GetStrings(sc, "listeners")[j])]
                      ELSE DefaultListeners,
        !.conn_timeout = GetInteger(sc, "conn_timeout", @)]

LoadProxy(sc) ==
    LET enabled == GetBoolean(sc, "info_enabled", DefaultProxy.info_enabled)
        timeout == GetInteger(sc, "cache_timeout", DefaultProxy.cache_timeout)
    IN [DefaultProxy EXCEPT
        !.listeners = IF Has(sc, "listeners")
                      THEN [j \in DOMAIN GetStrings(sc, "listeners") |->
                               Listener(GetStrings(sc, "listeners")[j])]
                      ELSE DefaultListeners,
        !.info_enabled = enabled,
        !.info_port = IF enabled THEN GetInteger(sc, "info_port", @) ELSE @,
        !.info_period = IF enabled THEN AtLeast(10, GetInteger(sc, "info_period", @)) ELSE @,
        !.status_period = AtLeast(60, GetInteger(sc, "status_period", @)),
        !.cache_timeout = IF timeout = 0 THEN 0 ELSE AtLeast(5, timeout),
        !.conn_timeout = Fit(GetInteger(sc, "conn_timeout", @), 10, 900),
        !.max_faults = AtLeast(1, GetInteger(sc, "max_faults", @)),
        !.socket_mode = Fit(GetInteger(sc, "socket_mode", @), SYSTEM, MAXBUF),
        !.buffer_mode = Fit(GetInteger(sc, "buffer_mode", @), SYSTEM, MAXBUF),
        !.max_buffer = Fit(GetInteger(sc, "max_buffer", @), BUFFER_SIZE_MIN, BUFFER_SIZE_MAX)]

ConfigInit ==
    /\ file \in Files
    /\ pc = "options" /\ next = 1
    /\ sections = [c \in Classes |-> <<>>]
    /\ data = [c \in {"client", "server"} |-> {}]
    /\ proxy = DefaultProxy
    /\ clients = <<>> /\ servers = <<>> /\ balancers = <<>>

\* All sections are read; the options are those of the first one of the proxy.
LoadOptions ==
    LET all == [c \in Classes |-> LoadFromFile(file, c)]
    IN /\ pc = "options"
       /\ \A c \in Classes : all[c] # <<>>
       /\ sections' = all
       /\ proxy' = LoadProxy(all["proxy"][1])
       /\ pc' = "client"
       /\ UNCHANGED <<file, next, data, clients, servers, balancers>>

\* The file cannot be read, or has no section of some class.
LoadNothing ==
    /\ pc = "options"
    /\ \E c \in Classes : LoadFromFile(file, c) = <<>>
    /\ pc' = "failed"
    /\ UNCHANGED <<file, next, sections, data, proxy, clients, servers, balancers>>

Section(class) == sections[class][next]

\* The loop over the sections of a class goes on to the next one.
Loading(class) ==
    /\ pc = class
    /\ next <= Len(sections[class])
    /\ next' = next + 1
    /\ UNCHANGED <<file, pc, sections, proxy>>

NextClass(class, then) ==
    /\ pc = class
    /\ next > Len(sections[class])
    /\ pc' = then
    /\ next' = 1
    /\ UNCHANGED <<file, sections, data, proxy, clients, servers, balancers>>

SourcesOf(sc) ==
    LET words == Among(GetStrings(sc, "sources"), DOMAIN CidrText)
    IN [j \in DOMAIN words |-> ParseCidr(CidrText[words[j]])]

ClientOf(sc) ==
    [name |-> sc.name, sources |-> SourcesOf(sc),
     max_slots |-> AtLeast(0, GetInteger(sc, "max_slots", 1000))]

\* A client group without sources is ignored; one without slots is not.
LoadClient ==
    /\ Loading("client")
    /\ LET c == ClientOf(Section("client"))
       IN IF c.sources = <<>> THEN UNCHANGED <<clients, data>>
          ELSE /\ clients' = Append(clients, c)
               /\ data' = [data EXCEPT !["client"] = @ \cup {c.name}]
    /\ UNCHANGED <<servers, balancers>>

\* check_mode falls back to connection checks when no info is to be had.
ServerOf(sc) ==
    LET addr == ParseHostPort(IF Has(sc, "address") THEN GetStrings(sc, "address")[1] ELSE "",
                              CONN_PORT)
        mode == Fit(GetInteger(sc, "check_mode", 2), 0, 3)
    IN [name |-> sc.name, host |-> addr.host, port |-> addr.port,
        check_mode |-> IF mode >= 2 /\ ~proxy.info_enabled THEN 1 ELSE mode,
        info_port |-> IF mode >= 2 /\ proxy.info_enabled
                      THEN GetInteger(sc, "info_port", INFO_PORT) ELSE INFO_PORT,
        max_slots |-> AtLeast(0, GetInteger(sc, "max_slots", 100)),
        max_weight |-> Fit(GetInteger(sc, "max_weight", 100), 1, 100),
        redundant |-> GetBoolean(sc, "redundant", FALSE)]

\* Mutant: the section refers to its server before the server is looked at.
LoadServerEarly ==
    /\ Loading("server")
    /\ LET s == ServerOf(Section("server"))
       IN /\ servers' = IF s.host = "" \/ s.port = 0 \/ s.max_slots = 0 THEN servers
                                                                       ELSE Append(servers, s)
          /\ data' = [data EXCEPT !["server"] = @ \cup {s.name}]
    /\ UNCHANGED <<clients, balancers>>

\* A server without an address or without slots is ignored.
LoadServer ==
    /\ Loading("server")
    /\ LET s == ServerOf(Section("server"))
       IN IF s.host = "" \/ s.port = 0 \/ s.max_slots = 0 THEN UNCHANGED <<servers, data>>
          ELSE /\ servers' = Append(servers, s)
               /\ data' = [data EXCEPT !["server"] = @ \cup {s.name}]
    /\ UNCHANGED <<clients, balancers>>

Names(objects) == [j \in DOMAIN objects |-> objects[j].name]

\* The objects a balancer lists: all of them, or those of the sections it names
\* that were found, which none without a name is, and have an object.
Listed(words, class, objects) ==
    IF words = <<>> \/ words[1] = "all" THEN Names(objects)
    ELSE Among(words, {w \in data[class] \ {""} :
                          \E j \in DOMAIN sections[class] : sections[class][j].name = w})

Metrics(words) ==
    LET known == ToSet(words) \cap {"cap", "mem", "cpu"}
    IN IF known = {} THEN {"cap"} ELSE known

BalancerOf(sc) ==
    [name |-> sc.name,
     clients |-> Listed(GetStrings(sc, "clients"), "client", clients),
     servers |-> Listed(GetStrings(sc, "servers"), "server", servers),
     method |-> IF GetStrings(sc, "method") = <<"byrequests">>
                THEN "byrequests" ELSE "bybusyness",
     metrics |-> Metrics(GetStrings(sc, "metrics"))]

\* A balancer without clients or without servers is ignored.
LoadBalancer ==
    /\ Loading("balancer")
    /\ LET b == BalancerOf(Section("balancer"))
       IN balancers' = IF b.clients = <<>> \/ b.servers = <<>> THEN balancers
                                                               ELSE Append(balancers, b)
    /\ UNCHANGED <<data, clients, servers>>

LoadEnd ==
    \/ NextClass("client", "server")
    \/ NextClass("server", "balancer")
    \/ NextClass("balancer", IF balancers = <<>> THEN "failed" ELSE "listen")

\* main: listeners that cannot be created are dropped; one has to be left.
Listen ==
    /\ pc = "listen"
    /\ \E ok \in SUBSET DOMAIN proxy.listeners :
          /\ LET left == Among([j \in DOMAIN proxy.listeners |-> j], ok)
             IN proxy' = [proxy EXCEPT !.listeners = [j \in DOMAIN left |-> @[left[j]]]]
          /\ pc' = IF ok = {} THEN "no listener" ELSE "running"
    /\ UNCHANGED <<file, next, sections, data, clients, servers, balancers>>

ConfigNext ==
    \/ LoadOptions \/ LoadNothing
    \/ LoadClient \/ LoadServer \/ LoadBalancer \/ LoadEnd
    \/ Listen
=============================================================================
