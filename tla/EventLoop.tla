----------------------------- MODULE EventLoop ------------------------------
(***************************************************************************)
(* The main thread's loop, nrdpx_main_proc (src/src/nrdpx_server.cpp):     *)
(* select on the descriptors of all channels, accept, and one pass over    *)
(* the channels that notices failed and slow connects, fails them over,    *)
(* and reads and writes what select said is ready.  The data of a channel  *)
(* is that of module Relay.                                                *)
(*                                                                         *)
(* A step of the main thread is one system call with what depends on it,   *)
(* so that peers may speak, leave or fail between any two of them.  The    *)
(* descriptor table, the sets select filled and errno are kept as the code *)
(* uses them: a descriptor closed in a pass may be reused in it, the sets  *)
(* of an interrupted select are those that were asked for, and a recv that *)
(* returns 0 looks at the errno of an earlier call.                        *)
(*                                                                         *)
(* Sockets are those of Linux: the listener and the targets do not block,  *)
(* an accepted source does.  A step of a call that would block is disabled *)
(* until it does not.  The choice of a server is module Routing's; here a  *)
(* new channel may be refused or get a connecting target.                  *)
(***************************************************************************)
EXTENDS Relay, SequencesExt

CONSTANTS
    Fds,        \* descriptors, one of which is the listener's
    Listener,
    Window,     \* bytes the system takes for a peer that does not read
    MaxSaid,    \* bound: bytes each side says in the life of a connection
    MaxTries    \* bound: targets tried for a connection

ASSUME EventLoopAssumption ==
    /\ Fds \in SUBSET Nat
    /\ Listener \in Fds
    /\ Window \in Nat \ {0}
    /\ MaxSaid \in [Conns -> [Sides -> Nat]]
    /\ \A k \in Conns, s \in Sides : 1 .. MaxSaid[k][s] \subseteq Bytes
    /\ MaxTries \in [Conns -> Nat]

VARIABLES
    backlog,    \* connections the listener has not accepted yet
    up,         \* up[k]: the connection to the target is established
    gone,       \* gone[k][s]: side s has closed or reset; a failed connect resets
    room,       \* room[k][s]: bytes the system would take now for side s
    late,       \* late[k]: conn_time + conn_timeout < now
    tries,      \* tries[k]: targets tried so far
    chans,      \* __proxy->channels
    owner,      \* the descriptor table: what each descriptor refers to
    rset, wset, \* the descriptor sets after select
    rc,         \* sel_rc: sockets are ready, none is, or select was interrupted
    errno,      \* of the main thread: would is_error_fatal take it for fatal
    pc,         \* where the main thread is
    i,          \* its index in the loop over the channels
    step        \* the first part of the turn of channel i not done yet

netVars  == <<backlog, up, gone, room, late>>
loopVars == <<tries, chans, owner, rset, wset, rc, errno, pc, i, step>>
vars     == <<relayVars, netVars, loopVars>>

\* A descriptor is a side of a connection, the listener or free.
Nobody    == <<"nobody", "free">>
Listening == <<"nobody", "listener">>

Free == {f \in Fds : owner[f] = Nobody}

\* socket and accept return the lowest descriptor that is free.
Lowest(F) == CHOOSE f \in F : \A g \in F : f <= g

\* A channel; seen: it has had its turn in this pass (for InTurn only).
Chan(k, src, dst) == [conn |-> k, source |-> src, target |-> dst, seen |-> FALSE]

Init ==
    /\ RelayInit
    /\ backlog = {}
    /\ up = [k \in Conns |-> FALSE]
    /\ gone = [k \in Conns |-> [s \in Sides |-> "no"]]
    /\ room = [k \in Conns |-> [s \in Sides |-> Window]]
    /\ late = [k \in Conns |-> FALSE]
    /\ tries = [k \in Conns |-> 0]
    /\ chans = <<>>
    /\ owner = [f \in Fds |-> IF f = Listener THEN Listening ELSE Nobody]
    /\ rset = {} /\ wset = {}
    /\ rc = "idle"
    /\ errno = "fatal"
    /\ pc = "select"
    /\ i = 1
    /\ step = 1

-----------------------------------------------------------------------------
(* The peers, the network and the clock. *)

Arrive(k) ==
    /\ phase[k] = "new"
    /\ k \notin backlog
    /\ backlog' = backlog \cup {k}
    /\ UNCHANGED <<relayVars, up, gone, room, late, loopVars>>

\* Side s of k has a connection to the proxy.
Present(k, s) ==
    IF s = "source" THEN k \in backlog \/ phase[k] = "open"
                    ELSE phase[k] = "open" /\ up[k]

Speak(k, s) ==
    /\ Present(k, s)
    /\ gone[k][s] = "no"
    /\ Len(said[k][s]) < MaxSaid[k][s]
    /\ Say(k, s, Len(said[k][s]) + 1)
    /\ UNCHANGED <<netVars, loopVars>>

\* The peer reads what the system holds for it.
Drain(k, s) ==
    /\ Present(k, s)
    /\ gone[k][s] # "reset"
    /\ room[k][s] < Window
    /\ room' = [room EXCEPT ![k][s] = Window]
    /\ UNCHANGED <<relayVars, backlog, up, gone, late, loopVars>>

\* The peer closes its connection, or closes it while the proxy still sends.
Leave(k, s) ==
    /\ Present(k, s)
    /\ \/ gone[k][s] = "no" /\ gone' = [gone EXCEPT ![k][s] = "closed"]
       \/ gone[k][s] # "reset" /\ gone' = [gone EXCEPT ![k][s] = "reset"]
    /\ UNCHANGED <<relayVars, backlog, up, room, late, loopVars>>

\* The connect to the target succeeds or fails.
Establish(k) ==
    /\ phase[k] = "open" /\ ~up[k] /\ gone[k]["target"] = "no"
    /\ \/ up' = [up EXCEPT ![k] = TRUE] /\ UNCHANGED gone
       \/ gone' = [gone EXCEPT ![k]["target"] = "reset"] /\ UNCHANGED up
    /\ UNCHANGED <<relayVars, backlog, room, late, loopVars>>

\* conn_timeout has passed.  Only the time read after select counts.
Tick(k) ==
    /\ pc = "select"
    /\ phase[k] = "open" /\ ~connected[k] /\ ~late[k]
    /\ late' = [late EXCEPT ![k] = TRUE]
    /\ UNCHANGED <<relayVars, backlog, up, gone, room, loopVars>>

-----------------------------------------------------------------------------
(* select. *)

\* Sides of channels, as <<index, side>>.
Ends == (DOMAIN chans) \X Sides

\* Mutant: a side is to be written when its own buffer holds something.
AskedSwapped ==
    [read  |-> {Listener} \cup
               {chans[e[1]][e[2]] : e \in {x \in Ends : Space(chans[x[1]].conn, x[2])}},
     write |-> {chans[e[1]][e[2]] : e \in {x \in Ends : buf[chans[x[1]].conn][x[2]] # <<>>}}]

\* fill_fds: sides with space in their buffer are to be read, sides for which
\* the other buffer holds something are to be written.
Asked ==
    [read  |-> {Listener} \cup
               {chans[e[1]][e[2]] : e \in {x \in Ends : Space(chans[x[1]].conn, x[2])}},
     write |-> {chans[e[1]][e[2]] : e \in {x \in Ends : buf[chans[x[1]].conn][Other(x[2])] # <<>>}}]

\* recv on side s of k would return: data, end of file or an error.
Answers(k, s) == wire[k][s] # <<>> \/ gone[k][s] # "no"

\* send to side s of k would return: bytes or an error.
Takes(k, s) == (room[k][s] > 0 /\ (s = "target" => up[k])) \/ gone[k][s] = "reset"

Ready ==
    [read  |-> {f \in Asked.read : IF f = Listener THEN backlog # {}
                                                   ELSE Answers(owner[f][1], owner[f][2])},
     write |-> {f \in Asked.write : Takes(owner[f][1], owner[f][2])}]

\* select returns with the sets sr and sw; a pass over the channels begins.
SelectReturns(result, sr, sw) ==
    /\ pc = "select"
    /\ rc' = result
    /\ rset' = sr
    /\ wset' = sw
    /\ chans' = [j \in DOMAIN chans |-> [chans[j] EXCEPT !.seen = FALSE]]
    /\ pc' = "accept"
    /\ i' = 1
    /\ UNCHANGED <<relayVars, netVars, tries, owner, step>>

NoneReady == Ready.read \cup Ready.write = {}

SelectReady ==
    /\ ~NoneReady
    /\ SelectReturns("ready", Ready.read, Ready.write)
    /\ UNCHANGED errno

\* After 5 seconds.
SelectIdle ==
    /\ NoneReady
    /\ SelectReturns("idle", {}, {})
    /\ UNCHANGED errno

\* A signal, that of the server checker's alarm, interrupts the wait: the sets
\* stay as fill_fds left them, and EINTR is not fatal.
SelectInterrupted ==
    /\ NoneReady
    /\ SelectReturns("interrupted", Asked.read, Asked.write)
    /\ errno' = "soft"

-----------------------------------------------------------------------------
(* accept and nrdpx_channel_create, as far as they use descriptors. *)

\* The channel of k is refused: its source is closed.
Refuse(k) ==
    /\ Free # {}
    /\ Drop(k)
    /\ backlog' = backlog \ {k}
    /\ UNCHANGED <<up, gone, room, late, tries, chans, owner>>

\* It gets a source, a target and a place at the end of the channels.
Admit(k) ==
    /\ Free # {} /\ Free \ {Lowest(Free)} # {}
    /\ Create(k)
    /\ backlog' = backlog \ {k}
    /\ LET src == Lowest(Free)
           dst == Lowest(Free \ {src})
       IN /\ owner' = [owner EXCEPT ![src] = <<k, "source">>, ![dst] = <<k, "target">>]
          /\ chans' = Append(chans, Chan(k, src, dst))
    /\ tries' = [tries EXCEPT ![k] = 1]
    /\ UNCHANGED <<up, gone, room, late>>

\* connect may leave EINPROGRESS in errno, which is fatal to is_error_fatal.
Accept ==
    /\ pc = "accept"
    /\ Listener \in rset
    /\ \E k \in backlog : Refuse(k) \/ Admit(k)
    /\ errno' \in {errno, "fatal"}
    /\ pc' = "check"
    /\ UNCHANGED <<rset, wset, rc, i, step>>

\* Nothing to accept (the listener does not block), or no descriptor for it.
AcceptNone ==
    /\ pc = "accept"
    /\ Listener \in rset => backlog = {} \/ Free = {}
    /\ errno' = IF Listener \notin rset THEN errno
                ELSE IF backlog = {} THEN "soft" ELSE "fatal"
    /\ pc' = "check"
    /\ UNCHANGED <<relayVars, netVars, tries, chans, owner, rset, wset, rc, i, step>>

-----------------------------------------------------------------------------
(* The turn of channel i: first a look at an unfinished connect. *)

InPass == i <= Len(chans)

Cur == chans[i].conn

\* Mutant: the index is not taken back, and the channel that follows is skipped.
DeleteSkips ==
    /\ Drop(Cur)
    /\ owner' = [owner EXCEPT ![chans[i].source] = Nobody, ![chans[i].target] = Nobody]
    /\ chans' = RemoveAt(chans, i)
    /\ up' = [up EXCEPT ![Cur] = FALSE]
    /\ gone' = [gone EXCEPT ![Cur] = [s \in Sides |-> "no"]]
    /\ room' = [room EXCEPT ![Cur] = [s \in Sides |-> Window]]
    /\ late' = [late EXCEPT ![Cur] = FALSE]
    /\ pc' = "check"
    /\ i' = i + 1
    /\ step' = 1
    /\ UNCHANGED <<backlog, tries, rset, wset, rc>>

\* Channel i is deleted: its sockets are closed, the next one takes its place.
Delete ==
    /\ Drop(Cur)
    /\ owner' = [owner EXCEPT ![chans[i].source] = Nobody, ![chans[i].target] = Nobody]
    /\ chans' = RemoveAt(chans, i)
    /\ up' = [up EXCEPT ![Cur] = FALSE]
    /\ gone' = [gone EXCEPT ![Cur] = [s \in Sides |-> "no"]]
    /\ room' = [room EXCEPT ![Cur] = [s \in Sides |-> Window]]
    /\ late' = [late EXCEPT ![Cur] = FALSE]
    /\ pc' = "check"
    /\ step' = 1
    /\ UNCHANGED <<backlog, tries, rset, wset, rc, i>>

\* Mutant: conn_timeout is not looked at.
ConnectFailedOnError(k) == ~connected[k] /\ gone[k]["target"] = "reset"

ConnectFailed(k) == ~connected[k] /\ (late[k] \/ gone[k]["target"] = "reset")

\* Mutant: the failed channel still has its source when it is deleted.
FailoverClosesSource ==
    /\ pc = "check" /\ InPass
    /\ ConnectFailed(Cur)
    /\ Free # {}
    /\ tries[Cur] < MaxTries[Cur]
    /\ Reroute(Cur)
    /\ LET c == chans[i]
           dst == Lowest(Free)
       IN /\ owner' = [owner EXCEPT ![dst] = <<Cur, "target">>, ![c.target] = Nobody,
                                    ![c.source] = Nobody]
          /\ chans' = Append(RemoveAt(chans, i), Chan(Cur, c.source, dst))
    /\ tries' = [tries EXCEPT ![Cur] = @ + 1]
    /\ up' = [up EXCEPT ![Cur] = FALSE]
    /\ gone' = [gone EXCEPT ![Cur]["target"] = "no"]
    /\ room' = [room EXCEPT ![Cur]["target"] = Window]
    /\ late' = [late EXCEPT ![Cur] = FALSE]
    /\ errno' \in {errno, "fatal"}
    /\ UNCHANGED <<backlog, rset, wset, rc, pc, i, step>>

\* A new channel with the same source and another target goes to the end; only
\* then is the old one deleted and its target closed.
Failover ==
    /\ pc = "check" /\ InPass
    /\ ConnectFailed(Cur)
    /\ Free # {}
    /\ tries[Cur] < MaxTries[Cur]
    /\ Reroute(Cur)
    /\ LET c == chans[i]
           dst == Lowest(Free)
       IN /\ owner' = [owner EXCEPT ![dst] = <<Cur, "target">>, ![c.target] = Nobody]
          /\ chans' = Append(RemoveAt(chans, i), Chan(Cur, c.source, dst))
    /\ tries' = [tries EXCEPT ![Cur] = @ + 1]
    /\ up' = [up EXCEPT ![Cur] = FALSE]
    /\ gone' = [gone EXCEPT ![Cur]["target"] = "no"]
    /\ room' = [room EXCEPT ![Cur]["target"] = Window]
    /\ late' = [late EXCEPT ![Cur] = FALSE]
    /\ errno' \in {errno, "fatal"}
    /\ UNCHANGED <<backlog, rset, wset, rc, pc, i, step>>

\* No other server can be had: the connection of the client is closed.
FailoverRefused ==
    /\ pc = "check" /\ InPass
    /\ ConnectFailed(Cur)
    /\ Delete
    /\ errno' \in {errno, "fatal"}

\* Channel i is served, unless no socket was selected.
Serve ==
    /\ pc = "check" /\ InPass
    /\ ~ConnectFailed(Cur)
    /\ chans' = [chans EXCEPT ![i].seen = TRUE]
    /\ IF rc = "idle" THEN i' = i + 1 /\ UNCHANGED pc
                      ELSE pc' = "serve" /\ UNCHANGED i
    /\ UNCHANGED <<relayVars, netVars, tries, owner, rset, wset, rc, errno, step>>

\* All channels have had their turn.  The sleep may be interrupted.
EndPass ==
    /\ pc = "check" /\ ~InPass
    /\ pc' = "select"
    /\ rset' = {} /\ wset' = {}
    /\ rc' = "idle"
    /\ errno' \in {errno, "soft"}
    /\ UNCHANGED <<relayVars, netVars, tries, chans, owner, i, step>>

-----------------------------------------------------------------------------
(* Then the parts of its turn, each of them if select has marked the socket. *)

\* A source blocks: what the system does not take at once is the rest of its send.
Turn == << <<"read", "source">>, <<"read", "target">>,
           <<"write", "source">>, <<"rest", "source">>, <<"write", "target">> >>

Marked(j) ==
    LET s == Turn[j][2]
        f == chans[i][s]
    IN IF Turn[j][1] = "read" THEN f \in rset /\ Space(Cur, s)
                              ELSE f \in wset /\ buf[Cur][Other(s)] # <<>>

\* The main thread is at part j of the turn.
At(op, s) ==
    /\ pc = "serve"
    /\ \E j \in step .. Len(Turn) :
          /\ Turn[j] = <<op, s>>
          /\ Marked(j)
          /\ \A h \in step .. j - 1 : ~Marked(h)

\* It goes on to the next part.
Done(op, s) ==
    /\ step' = (CHOOSE j \in DOMAIN Turn : Turn[j] = <<op, s>>) + 1
    /\ UNCHANGED <<backlog, up, gone, late, tries, chans, owner, rset, wset, rc, pc, i>>

Least(m, n) == IF m < n THEN m ELSE n

\* Mutant: it reads on until the buffer is full.
ReadAll(s) ==
    /\ At("read", s)
    /\ wire[Cur][s] # <<>>
    /\ LET size == Size(connected[Cur] \/ s = "target")
       IN Read(Cur, s, Least(Len(wire[Cur][s]), size - Len(buf[Cur][s])))
    /\ UNCHANGED <<netVars, loopVars>>

ReadSome(s) ==
    /\ At("read", s)
    /\ wire[Cur][s] # <<>>
    /\ LET size == Size(connected[Cur] \/ s = "target")
       IN Read(Cur, s, Least(Len(wire[Cur][s]), size - Len(buf[Cur][s])))
    /\ Done("read", s)
    /\ UNCHANGED <<room, errno>>

\* Mutant: only an error ends a channel.
ReadEofGoesOn(s) ==
    /\ At("read", s)
    /\ wire[Cur][s] = <<>> /\ gone[Cur][s] = "closed"
    /\ TouchOnly(Cur, s)
    /\ Done("read", s)
    /\ UNCHANGED <<room, errno>>

\* recv returns 0 and leaves errno alone, which decides all the same.
ReadEof(s) ==
    /\ At("read", s)
    /\ wire[Cur][s] = <<>> /\ gone[Cur][s] = "closed"
    /\ IF errno = "fatal" THEN Delete
                          ELSE TouchOnly(Cur, s) /\ Done("read", s) /\ UNCHANGED room
    /\ UNCHANGED errno

ReadError(s) ==
    /\ At("read", s)
    /\ wire[Cur][s] = <<>> /\ gone[Cur][s] = "reset"
    /\ Delete
    /\ errno' = "fatal"

\* Nothing to read from a target.  From a source, recv waits instead.
ReadNothing ==
    /\ At("read", "target")
    /\ ~Answers(Cur, "target")
    /\ TouchOnly(Cur, "target")
    /\ Done("read", "target")
    /\ errno' = "soft"
    /\ UNCHANGED room

\* The system takes what it has room for.
Send(s) ==
    LET n == Least(room[Cur][s], Len(buf[Cur][Other(s)])) IN
    /\ gone[Cur][s] # "reset" /\ Takes(Cur, s)
    /\ Write(Cur, Other(s), n)
    /\ room' = [room EXCEPT ![Cur][s] = @ - n]
    /\ UNCHANGED errno

WriteSome(s) ==
    /\ At("write", s)
    /\ Send(s)
    /\ Done("write", s)

\* A send to a source goes on until all is taken.
WriteRest ==
    /\ At("rest", "source")
    /\ Send("source")
    /\ UNCHANGED <<backlog, up, gone, late, tries, chans, owner, rset, wset, rc, pc, i, step>>

\* It returns what was taken so far.
RestLeft ==
    /\ At("rest", "source")
    /\ Done("rest", "source")
    /\ UNCHANGED <<relayVars, room, errno>>

\* The client has reset its connection: the next call will say so.
RestReset == RestLeft /\ gone[Cur]["source"] = "reset"

\* A signal ends a send that has taken something.
RestInterrupted == RestLeft /\ ~Takes(Cur, "source")

WriteError(s) ==
    /\ At("write", s)
    /\ gone[Cur][s] = "reset"
    /\ Delete
    /\ errno' = "fatal"

\* The target takes nothing now.  For a source, send waits instead.
WriteNothing ==
    /\ At("write", "target")
    /\ ~Takes(Cur, "target")
    /\ TouchOnly(Cur, "target")
    /\ Done("write", "target")
    /\ errno' = "soft"
    /\ UNCHANGED room

\* Mutant: the same channel has its next turn at once.
EndTurnStays ==
    /\ pc = "serve"
    /\ \A j \in step .. Len(Turn) : ~Marked(j)
    /\ pc' = "check"
    /\ step' = 1
    /\ UNCHANGED <<relayVars, netVars, tries, chans, owner, rset, wset, rc, errno, i>>

EndTurn ==
    /\ pc = "serve"
    /\ \A j \in step .. Len(Turn) : ~Marked(j)
    /\ pc' = "check"
    /\ i' = i + 1
    /\ step' = 1
    /\ UNCHANGED <<relayVars, netVars, tries, chans, owner, rset, wset, rc, errno>>

-----------------------------------------------------------------------------
MainNext ==
    \/ SelectReady \/ SelectIdle \/ SelectInterrupted
    \/ Accept \/ AcceptNone
    \/ Failover \/ FailoverRefused \/ Serve \/ EndPass
    \/ \E s \in Sides : \/ ReadSome(s) \/ ReadEof(s) \/ ReadError(s)
                        \/ WriteSome(s) \/ WriteError(s)
    \/ ReadNothing \/ WriteRest \/ RestReset \/ WriteNothing \/ EndTurn

NetNext ==
    \E k \in Conns :
        \/ Arrive(k) \/ Establish(k) \/ Tick(k)
        \/ \E s \in Sides : Speak(k, s) \/ Drain(k, s) \/ Leave(k, s)

Next == MainNext \/ RestInterrupted \/ NetNext

\* The main thread runs as long as the call it is in does not wait; connects come
\* to an end, and time passes.  No peer has to speak, to read or to leave.
Fairness ==
    /\ WF_vars(MainNext)
    /\ \A k \in Conns :
          /\ SF_vars(Tick(k)) /\ WF_vars(Establish(k))

Spec == Init /\ [][Next]_vars /\ Fairness

-----------------------------------------------------------------------------
(* Properties. *)

NetOK ==
    /\ backlog \subseteq Conns
    /\ up \in [Conns -> BOOLEAN] /\ late \in [Conns -> BOOLEAN]
    /\ gone \in [Conns -> [Sides -> {"no", "closed", "reset"}]]
    /\ room \in [Conns -> [Sides -> 0 .. Window]]

LoopOK ==
    /\ tries \in [Conns -> Nat]
    /\ chans \in Seq([conn : Conns, source : Fds, target : Fds, seen : BOOLEAN])
    /\ owner \in [Fds -> {Listening, Nobody} \cup (Conns \X Sides)]
    /\ rset \subseteq Fds /\ wset \subseteq Fds
    /\ rc \in {"ready", "idle", "interrupted"}
    /\ errno \in {"soft", "fatal"}
    /\ pc \in {"select", "accept", "check", "serve"}
    /\ i \in Nat \ {0} /\ step \in 1 .. Len(Turn) + 1

\* Variables have their types; no buffer of a channel overflows, and no byte
\* passes in a channel that does not count as connected.
TypeOK == RelayOK /\ NetOK /\ LoopOK

\* The open descriptors are exactly those of the channels, each in one place of
\* one channel: none is leaked when a channel is refused, failed over or deleted,
\* none is closed twice or closed while another channel has its number, and every
\* open connection has exactly one channel.
DescriptorsExact ==
    /\ {<<f, owner[f]>> : f \in {g \in Fds : owner[g] \notin {Nobody, Listening}}} =
       {<<chans[e[1]][e[2]], <<chans[e[1]].conn, e[2]>>>> : e \in Ends}
    /\ \A j, h \in DOMAIN chans : chans[j].conn = chans[h].conn => j = h
    /\ {k \in Conns : phase[k] = "open"} = {chans[j].conn : j \in DOMAIN chans}

\* A pass gives every channel its turn exactly once, in order, although channels
\* are deleted and appended while the loop runs: i-- skips none and repeats none.
InTurn ==
    \A j \in DOMAIN chans :
        chans[j].seen <=> j < i + (IF pc = "serve" THEN 1 ELSE 0)

\* recv of a source with nothing to read: the main thread waits for this client.
WaitsInRecv == At("read", "source") /\ ~Answers(Cur, "source")

\* The main thread waits for a client to speak only in a pass that follows an
\* interrupted select: no descriptor closed and reused in a pass, no order of
\* reads and deletions leads it into a recv that select has not announced.
WaitsOnlyInterrupted == WaitsInRecv => rc = "interrupted"

\* send to a source that takes nothing: the main thread waits for this client, and
\* all other channels wait with it.
WaitsInSend ==
    /\ At("write", "source") \/ At("rest", "source")
    /\ ~Takes(Cur, "source")

\* The main thread comes back to select whatever peers do, unless it ends up in a
\* call on the socket of one client, which blocks: in a recv, when the client does
\* not speak, or in a send, when it does not read.
Responsive == []<>(pc = "select") \/ <>[]WaitsInRecv \/ <>[]WaitsInSend

Unblocked == ~<>[]WaitsInRecv /\ ~<>[]WaitsInSend

\* Every accepted connection gets a connected channel or is closed: failovers
\* and timeouts do not leave it half open.
ConnectSettles ==
    Unblocked => \A k \in Conns : phase[k] = "open" ~> (connected[k] \/ phase[k] = "closed")

\* Side s of k reads what it is sent.
Reads(k, s) == []<>(room[k][s] > 0)

\* What was read is written, or its connection ends, as long as the side that is
\* to get it reads.
Delivered ==
    Unblocked => \A k \in Conns, s \in Sides :
        Reads(k, Other(s)) =>
            (phase[k] = "open" /\ buf[k][s] # <<>>) ~> (buf[k][s] = <<>> \/ phase[k] = "closed")

\* After the client has closed, so does the proxy, unless the server does not read,
\* so that nothing more is read from the client, or some call that would have
\* blocked or was interrupted has left its error code in errno.
EofCloses ==
    Unblocked => \A k \in Conns :
        Reads(k, "target") =>
            (phase[k] = "open" /\ gone[k]["source"] # "no")
                ~> (phase[k] = "closed" \/ errno = "soft")

\* A channel counts as connected only when the connection to its server was
\* established, which has to happen within conn_timeout (CONFIG.md:63).
ConnectedEstablished ==
    \A k \in Conns : phase[k] = "open" /\ connected[k] => up[k]
=============================================================================
