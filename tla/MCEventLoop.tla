---------------------------- MODULE MCEventLoop -----------------------------
(* Instances of the event loop: two connections that compete for descriptors *)
(* and turns, one of which speaks and may fail over; or one alone whose      *)
(* peers both speak.                                                         *)
EXTENDS EventLoop, TLC

CONSTANTS a, b

Says(source, target) == "source" :> source @@ "target" :> target

SaidOfTwo  == a :> Says(1, 0) @@ b :> Says(0, 0)
TriesOfTwo == a :> 2 @@ b :> 1

SaidOfOne  == a :> Says(1, 2)
TriesOfOne == a :> 2
=============================================================================
