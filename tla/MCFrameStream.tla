---------------------------- MODULE MCFrameStream ----------------------------
(***************************************************************************)
(* FrameStream for TLC: cells of base 4, a length of two cells, a header   *)
(* of one; every stream of up to MaxStream cells, and up to MaxSent frames *)
(* of a few bodies, the shortest empty, the longest beyond MaxBody.         *)
(***************************************************************************)
EXTENDS FrameStream

CONSTANTS MaxStream, MaxSent

Bodies == {<<>>, <<1>>, <<0, 2>>, <<3, 0, 3>>, <<0, 3, 0, 2>>}

MCStreams == UNION {[1..n -> 0..(Base - 1)] : n \in 0..MaxStream}

MCSendings == UNION {[1..n -> Bodies] : n \in 1..MaxSent}

=============================================================================
