------------------------------- MODULE Setup --------------------------------
(***************************************************************************)
(* From the configuration file to the first connection: the file is loaded *)
(* (Config), sources are matched by the ranges in it (Cidr), and a channel *)
(* gets its buffers as its options say (Buffers).  What the other modules  *)
(* assume of the configuration and of buffers is shown here.               *)
(***************************************************************************)
EXTENDS Config, Buffers

CONSTANT Visited    \* bound: files with which a client connects

ASSUME SetupAssumption == Visited \subseteq Files

vars == <<configVars, bufferVars>>

Init == ConfigInit /\ BuffersInit

Load == ConfigNext /\ UNCHANGED bufferVars

Connect ==
    /\ pc = "running" /\ file \in Visited
    /\ \/ AcceptBuffers(proxy.socket_mode, proxy.max_buffer)
       \/ FailoverBuffers(proxy.socket_mode, proxy.max_buffer)
       \/ ConnectedBuffers(proxy.socket_mode, proxy.buffer_mode, proxy.max_buffer)
       \/ \E s \in Ends : Grow(s)
    /\ UNCHANGED configVars

Next == Load \/ Connect

Spec == Init /\ [][Next]_vars

-----------------------------------------------------------------------------
(* What the lines of the file say, without the order they are read in. *)

LineNos == {n \in DOMAIN file.lines : n < Len(file.lines) \/ file.ended}

HeadersBefore(n) == {h \in 1 .. n - 1 : file.lines[h].kind = "header"}

\* Lines that set key in the sections of class c with name n.
Settings(c, n, key) ==
    {l \in LineNos :
        /\ file.lines[l].kind = "item" /\ file.lines[l].key = key
        /\ HeadersBefore(l) # {}
        /\ LET h == file.lines[Max(HeadersBefore(l))] IN h.class = c /\ h.name = n}

NamesOf(c) == {line.name : line \in {x \in ToSet(file.lines) : x.kind = "header" /\ x.class = c}}

Keys == {line.key : line \in {x \in ToSet(file.lines) : x.kind = "item"}}

\* The words of a key, when the last line that sets it counts.
Words(c, n, key) ==
    LET l == Settings(c, n, key) IN IF l = {} THEN <<>> ELSE file.lines[Max(l)].val.list

UsableClient(n) == \E w \in ToSet(Words("client", n, "sources")) : w \in DOMAIN CidrText

UsableServer(n) ==
    /\ Words("server", n, "address") # <<>>
    /\ LET w == Words("server", n, "address")[1]
       IN w \in DOMAIN AddrText /\ AddrText[w].host # "" /\ AddrText[w].port # 0
    /\ LET l == Settings("server", n, "max_slots")
       IN l = {} \/ file.lines[Max(l)].val.list = <<>> \/ file.lines[Max(l)].val.num > 0

Usable(c) == {n \in NamesOf(c) : IF c = "client" THEN UsableClient(n) ELSE UsableServer(n)}

\* What balancer b should have of class c, key being "clients" or "servers".
Meant(b, c, key) ==
    IF Settings("balancer", b, key) = {} THEN Usable(c)
    ELSE IF Head(Words("balancer", b, key) \o <<"">>) = "all" THEN Usable(c)
    ELSE Usable(c) \cap ToSet(Words("balancer", b, key))

-----------------------------------------------------------------------------
(* Properties. *)

\* The variables have their types, and the options the bounds that Routing, Monitor,
\* Relay and Tracker take for granted, whatever the file says.  The bounds are those of
\* the code: CONFIG.md gives cache_timeout as 0 or at least 10, the code takes any from 5
\* and raises the others but 0 to 5.
TypeOK ==
    /\ proxy.conn_timeout \in 10 .. 900
    /\ proxy.cache_timeout = 0 \/ proxy.cache_timeout >= 5
    /\ proxy.max_faults >= 1 /\ proxy.info_period >= 10 /\ proxy.status_period >= 60
    /\ proxy.socket_mode \in SYSTEM .. MAXBUF /\ proxy.buffer_mode \in SYSTEM .. MAXBUF
    /\ proxy.max_buffer \in BUFFER_SIZE_MIN .. BUFFER_SIZE_MAX
    /\ \A l \in ToSet(proxy.listeners) : l.host # "" /\ l.port # 0
    /\ \A c \in ToSet(clients) : c.sources # <<>> /\ c.max_slots >= 0
    /\ \A s \in ToSet(servers) :
          /\ s.max_slots >= 1 /\ s.max_weight \in 1 .. 100 /\ s.check_mode \in 0 .. 3
          /\ ~proxy.info_enabled => s.check_mode <= 1
    /\ pc \in Classes \cup {"options", "failed", "listen", "no listener", "running"}
    /\ \A s \in Ends : size[s] >= BUFFER_SIZE_MIN
    /\ channel \in {"none", "open", "connected"}

\* Sections are read as they are written: each once, in order, with the last value of
\* each key, wherever in the file it stands (but for a last line without an end).
ReadAsWritten ==
    pc \notin {"options", "failed"} => \A c \in Classes :
        /\ Len(sections[c]) = Cardinality(NamesOf(c))
        /\ {sections[c][j].name : j \in DOMAIN sections[c]} = NamesOf(c)
        /\ \A j \in DOMAIN sections[c], key \in Keys :
              LET sc == sections[c][j]
                  l  == Settings(c, sc.name, key)
              IN /\ Has(sc, key) <=> l # {}
                 /\ Has(sc, key) => sc.items[key] = file.lines[Max(l)].val

\* The balancers are those of the file that have usable clients and servers, with
\* all they name of them and no object that was ignored and deleted; the
\* configuration is refused exactly when there is none, or no section of the proxy.
LoadedAsMeant ==
    LET valid == {b \in NamesOf("balancer") : /\ Meant(b, "client", "clients") # {}
                                              /\ Meant(b, "server", "servers") # {}}
    IN /\ pc \in {"listen", "running"} =>
             /\ ToSet(Names(balancers)) = valid
             /\ \A b \in ToSet(balancers) :
                   /\ ToSet(b.clients) = Meant(b.name, "client", "clients")
                   /\ ToSet(b.servers) = Meant(b.name, "server", "servers")
             /\ ToSet(Names(clients)) = Usable("client")
             /\ ToSet(Names(servers)) = Usable("server")
       /\ pc \in {"listen", "running"} => NamesOf("proxy") # {} /\ valid # {}
       /\ pc = "failed" => NamesOf("proxy") = {} \/ valid = {}

\* An address belongs to a client group exactly when it begins like one of its
\* sources: for any length, over all words of an address, within its family.
MatchesSources ==
    pc = "listen" => \A c \in ToSet(clients), a \in Address :
        (\E net \in ToSet(c.sources) : InCidr(a, net)) <=>
        (\E net \in ToSet(c.sources) : SamePrefix(a, net))

\* The buffers of a channel hold data when it becomes connected: they never shrink.
\* Aligned with the sockets, they can take what one holds and what the other accepts.
BuffersFit ==
    [][channel = "open" /\ channel' = "connected" =>
        \A s \in Ends :
            /\ size'[s] >= size[s]
            /\ proxy.buffer_mode = ALIGN =>
                  /\ size'[s] >= system'[s]["recv"] \div 2
                  /\ size'[s] >= system'[Opposite(s)]["send"] \div 2
            /\ proxy.buffer_mode = MAXBUF => size'[s] = proxy.max_buffer]_vars

\* However often a connection fails over, its source keeps its buffers: aligning again
\* what was aligned neither enlarges it, by what the system doubles, nor wears it
\* down; only a size the system has cut becomes whole segments.
AlignSettles ==
    [][channel = "open" /\ channel' = "open" /\ set["source"] =>
        \A d \in Directions :
            \/ system'["source"][d] = system["source"][d]
            \/ /\ system["source"][d] = 2 * SysMax
               /\ system'["source"][d] <= system["source"][d]
               /\ system'["source"][d] > system["source"][d] - 2 * mss["source"]]_vars
=============================================================================
