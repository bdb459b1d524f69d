------------------------------ MODULE Buffers -------------------------------
(***************************************************************************)
(* The sizes of the buffers of one channel: those the system keeps for its *)
(* two sockets (src/src/nrdpx_socket.cpp), and the two of its own          *)
(* (nrdpx_channel_t, src/src/nrdpx_server.cpp).                            *)
(*                                                                         *)
(* The system is Linux: a size that is set is cut at a maximum, doubled,   *)
(* and returned doubled; a size that was never set may grow by itself.     *)
(* The code halves what is returned.  A failover makes a new channel with  *)
(* the same source, whose socket is then adjusted once more.               *)
(***************************************************************************)
EXTENDS Integers

CONSTANTS
    Initial,    \* sizes the system may give to a socket, as it returns them
    Segments,   \* maximum segment sizes of a connection (TCP_MAXSEG)
    SysMin,     \* least size as it returns it
    SysMax      \* greatest size that can be set, before it is doubled

ASSUME BuffersAssumption ==
    /\ Initial \subseteq Nat \ {0} /\ Segments \subseteq Nat \ {0}
    /\ SysMin \in Nat /\ SysMax \in Nat
    /\ \A v \in Initial : v >= SysMin

VARIABLES
    system,     \* system[s][d]: SO_SNDBUF or SO_RCVBUF of the socket of side s
    mss,        \* mss[s]: its TCP_MAXSEG
    set,        \* set[s]: its sizes were set, and no longer grow by themselves
    size,       \* size[s]: inputs.s.size
    channel     \* there is a channel, which is connected, or not

bufferVars == <<system, mss, set, size, channel>>

Ends       == {"source", "target"}
Directions == {"send", "recv"}

Opposite(s) == IF s = "source" THEN "target" ELSE "source"

Lesser(v, w)  == IF v < w THEN v ELSE w
Greater(v, w) == IF v > w THEN v ELSE w

STANDARD_MSS == 1460
STANDARD_BSS == 6 * STANDARD_MSS
SIZE_MAX     == 131072

\* setsockopt.
Store(v) == Greater(2 * Lesser(v, SysMax), SysMin)

\* Mutant: the doubled size is taken for the size.
HalfNot(v) == v

\* nrdpx_socket_get_send_buffer and nrdpx_socket_get_recv_buffer.
Half(v) == v \div 2

\* nrdpx_socket_calc_buffer_size: odd sizes are left alone; others are whole
\* segments within the limit, but not less than six of them.
CalcBufferSize(m, bss, limit) ==
    IF m < STANDARD_MSS \div 3 \/ bss < STANDARD_BSS \div 3 \/ bss \div m < 4 THEN bss
    ELSE LET aligned == (Lesser(bss, limit) \div m) * m
         IN IF aligned < 6 * m THEN Lesser(bss, 6 * m) ELSE aligned

\* nrdpx_socket_adjust_buffers of a socket with sizes sizes and segments of m.
Adjusted(sizes, m, align, limit) ==
    [d \in Directions |-> Store(IF align THEN CalcBufferSize(m, Half(sizes[d]), limit) ELSE limit)]

\* adjust_source and adjust_target: nothing is set in the mode of the system.
Adjust(sizes, m, mode, limit) == IF mode > 0 THEN Adjusted(sizes, m, mode = 1, limit) ELSE sizes

BuffersInit ==
    /\ system = [s \in Ends |-> [d \in Directions |-> SysMin]]
    /\ mss = [s \in Ends |-> STANDARD_MSS]
    /\ set = [s \in Ends |-> FALSE]
    /\ size = [s \in Ends |-> STANDARD_BSS]
    /\ channel = "none"

\* A channel for a source that was accepted and a target that connects.
AcceptBuffers(mode, limit) ==
    /\ channel = "none"
    /\ \E f \in [Directions -> Initial], m \in Segments :
          /\ system' = [system EXCEPT !["source"] = Adjust(f, m, mode, limit), !["target"] = f]
          /\ mss' = [s \in Ends |-> m]
    /\ set' = [set EXCEPT !["source"] = mode > 0]
    /\ channel' = "open"
    /\ UNCHANGED size

\* A failover: another target, and a new channel, for the same source.
FailoverBuffers(mode, limit) ==
    /\ channel = "open"
    /\ \E v \in Initial, m \in Segments :
          /\ system' = [system EXCEPT !["source"] = Adjust(@, mss["source"], mode, limit),
                                      !["target"] = [d \in Directions |-> v]]
          /\ mss' = [mss EXCEPT !["target"] = m]
    /\ set' = [set EXCEPT !["source"] = mode > 0]
    /\ UNCHANGED <<size, channel>>

\* The system lets a size grow.
Grow(s) ==
    /\ channel # "none"
    /\ ~set[s]
    /\ \E d \in Directions, v \in Initial :
          /\ v > system[s][d]
          /\ system' = [system EXCEPT ![s][d] = v]
    /\ UNCHANGED <<mss, set, size, channel>>

\* Mutant: the sockets are taken the wrong way round.
RequiredSwapped(sys, s, mode, limit) ==
    CASE mode = 1 -> LET new == Greater(Half(sys[s]["send"]), Half(sys[Opposite(s)]["recv"]))
                     IN IF new = 0 THEN limit ELSE new
      [] mode = 2 -> limit
      [] OTHER    -> SIZE_MAX

\* adjust_buffers: the size that inputs.s needs, which is filled from the socket of
\* s and emptied to the other one.
Required(sys, s, mode, limit) ==
    CASE mode = 1 -> LET new == Greater(Half(sys[s]["recv"]), Half(sys[Opposite(s)]["send"]))
                     IN IF new = 0 THEN limit ELSE new
      [] mode = 2 -> limit
      [] OTHER    -> SIZE_MAX

\* set_connected: the target's socket is adjusted, and the buffers after it.
ConnectedBuffers(socketMode, bufferMode, limit) ==
    /\ channel = "open"
    /\ LET sys == [system EXCEPT !["target"] = Adjust(@, mss["target"], socketMode, limit)]
       IN /\ system' = sys
          /\ size' = [s \in Ends |-> Greater(size[s], Required(sys, s, bufferMode, limit))]
    /\ set' = [set EXCEPT !["target"] = socketMode > 0]
    /\ channel' = "connected"
    /\ UNCHANGED mss
=============================================================================
