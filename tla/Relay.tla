------------------------------- MODULE Relay --------------------------------
(***************************************************************************)
(* The bytes of a channel (nrdpx_channel_t and the reads and writes of     *)
(* nrdpx_main_proc, src/src/nrdpx_server.cpp): what either side says is    *)
(* read into a bounded buffer of the channel and written from there to the *)
(* other side, by partial reads and writes.                                *)
(*                                                                         *)
(* The buffers grow when the channel becomes connected, which is when its  *)
(* target is first read or written.  Until then the connection may fail    *)
(* over to another target, with fresh buffers.  When a channel is deleted, *)
(* its buffers go with it, whatever they hold.                             *)
(*                                                                         *)
(* Module EventLoop says when the main thread takes these steps.           *)
(***************************************************************************)
EXTENDS Integers, Sequences

CONSTANTS
    Conns,      \* connections of clients, each with one channel at a time
    Bytes,
    BufMin,     \* NRDPX_BUFFER_SIZE_MIN: size of a new buffer
    BufMax      \* its size after adjust_buffers

ASSUME RelayAssumption ==
    /\ BufMin \in Nat \ {0}
    /\ BufMax \in Nat
    /\ BufMin <= BufMax

\* Members of inputs_t and sockets_t: the client's side and the server's.
Sides == {"source", "target"}

Other(s) == IF s = "source" THEN "target" ELSE "source"

VARIABLES
    said,       \* said[k][s]: all that side s of connection k has sent
    wire,       \* wire[k][s]: the part of it the proxy has not read yet
    buf,        \* buf[k][s]: inputs.s, what was read and not yet written
    got,        \* got[k][s]: what was written from buf[k][s] to the other side
    phase,      \* phase[k]: the connection has no channel yet, one, or no more
    connected   \* connected[k]: the member of that channel

relayVars == <<said, wire, buf, got, phase, connected>>

Phases == {"new", "open", "closed"}

Empty == [k \in Conns |-> [s \in Sides |-> <<>>]]

RelayInit ==
    /\ said = Empty
    /\ wire = Empty
    /\ buf = Empty
    /\ got = Empty
    /\ phase = [k \in Conns |-> "new"]
    /\ connected = [k \in Conns |-> FALSE]

Size(c) == IF c THEN BufMax ELSE BufMin

\* Is there space left in inputs.s?  Then its socket is selected for reading.
Space(k, s) == Len(buf[k][s]) < Size(connected[k])

-----------------------------------------------------------------------------
(* The two peers. *)

Say(k, s, b) ==
    /\ said' = [said EXCEPT ![k][s] = Append(@, b)]
    /\ wire' = [wire EXCEPT ![k][s] = Append(@, b)]
    /\ UNCHANGED <<buf, got, phase, connected>>

(* The main thread. *)

\* A connection was accepted and has a channel, with new buffers.
Create(k) ==
    /\ phase[k] = "new"
    /\ phase' = [phase EXCEPT ![k] = "open"]
    /\ UNCHANGED <<said, wire, buf, got, connected>>

\* Mutant: the channel connects without set_connected.
TouchNothing(k, s) == connected' = connected

\* The channel touches its target: set_connected, with larger buffers.
Touch(k, s) == connected' = [connected EXCEPT ![k] = @ \/ s = "target"]

\* recv of n bytes from side s, after set_connected if that is the target.
Read(k, s, n) ==
    /\ phase[k] = "open"
    /\ Space(k, s)
    /\ Touch(k, s)
    /\ n <= Len(wire[k][s])
    /\ Len(buf[k][s]) + n <= Size(connected'[k])
    /\ buf' = [buf EXCEPT ![k][s] = @ \o SubSeq(wire[k][s], 1, n)]
    /\ wire' = [wire EXCEPT ![k][s] = SubSeq(@, n + 1, Len(@))]
    /\ UNCHANGED <<said, got, phase>>

\* Mutant: after a partial send the rest stays where it is.
WriteWithoutMove(k, s, n) ==
    /\ phase[k] = "open"
    /\ n <= Len(buf[k][s])
    /\ Touch(k, Other(s))
    /\ got' = [got EXCEPT ![k][s] = @ \o SubSeq(buf[k][s], 1, n)]
    /\ buf' = [buf EXCEPT ![k][s] = SubSeq(@, 1, Len(@) - n)]
    /\ UNCHANGED <<said, wire, phase>>

\* send of n bytes from inputs.s to the other side; the rest moves to the front.
Write(k, s, n) ==
    /\ phase[k] = "open"
    /\ n <= Len(buf[k][s])
    /\ Touch(k, Other(s))
    /\ got' = [got EXCEPT ![k][s] = @ \o SubSeq(buf[k][s], 1, n)]
    /\ buf' = [buf EXCEPT ![k][s] = SubSeq(@, n + 1, Len(@))]
    /\ UNCHANGED <<said, wire, phase>>

\* recv or send transferred nothing, but set_connected was called before it.
TouchOnly(k, s) ==
    /\ phase[k] = "open"
    /\ Touch(k, s)
    /\ UNCHANGED <<said, wire, buf, got, phase>>

\* The target could not be connected: a new channel, with new buffers and a new
\* target.  What the source has said and the old channel has read is lost.
Reroute(k) ==
    /\ phase[k] = "open"
    /\ ~connected[k]
    /\ buf' = [buf EXCEPT ![k] = [s \in Sides |-> <<>>]]
    /\ wire' = [wire EXCEPT ![k]["target"] = <<>>]
    /\ UNCHANGED <<said, got, phase, connected>>

\* The connection is refused, or its channel is deleted.
Drop(k) ==
    /\ phase[k] # "closed"
    /\ phase' = [phase EXCEPT ![k] = "closed"]
    /\ UNCHANGED <<said, wire, buf, got, connected>>

-----------------------------------------------------------------------------
RelayNext ==
    \E k \in Conns :
        \/ Create(k) \/ Reroute(k) \/ Drop(k)
        \/ \E s \in Sides :
              \/ \E b \in Bytes : Say(k, s, b)
              \/ TouchOnly(k, s)
              \/ \E n \in 1 .. Len(wire[k][s]) : Read(k, s, n)
              \/ \E n \in 1 .. Len(buf[k][s]) : Write(k, s, n)

RelaySpec == RelayInit /\ [][RelayNext]_relayVars

-----------------------------------------------------------------------------
(* Properties. *)

\* Buffers never hold more than their size, and nothing passes between client
\* and server before the channel counts as connected.
RelayOK ==
    /\ \A v \in {said, wire, buf, got} : v \in [Conns -> [Sides -> Seq(Bytes)]]
    /\ phase \in [Conns -> Phases]
    /\ connected \in [Conns -> BOOLEAN]
    /\ \A k \in Conns, s \in Sides :
          /\ Len(buf[k][s]) <= Size(connected[k])
          /\ ~connected[k] => got[k][s] = <<>>

\* What the stream from side s of k has lost: bytes the proxy has neither got,
\* nor holds, nor written.
Lost(k, s) == Len(said[k][s]) - Len(wire[k][s]) - Len(buf[k][s]) - Len(got[k][s])

S(k, s) == INSTANCE Stream WITH
    sent <- said[k][s],
    got  <- got[k][s],
    from <- Lost(k, s)

\* Each direction of each connection is a stream: however reads and writes are
\* split, whatever fails over or is closed, the bytes arrive in order, once and
\* without gaps; only the beginning may be missing, lost by a failover.
Streams ==
    /\ \A k \in Conns, s \in Sides : S(k, s)!Init
    /\ [][\A k \in Conns, s \in Sides : [S(k, s)!Next]_(S(k, s)!vars)]_relayVars
=============================================================================
