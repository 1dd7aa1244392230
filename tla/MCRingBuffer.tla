---------------------------- MODULE MCRingBuffer ----------------------------
(* A ring of four bytes.  Chunks of up to three bytes wrap at every offset; *)
(* the one of five never fits.                                              *)
EXTENDS RingBuffer, SequencesExt

MCByte == 0 .. 2
MCCapacity == 4
MCChunk == BoundedSeq(MCByte, 3) \cup {<<1, 2, 1, 2, 1>>}
MCRequest == 0 .. MCCapacity + 1
=============================================================================
