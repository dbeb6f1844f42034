--------------------------- MODULE MCCompression ---------------------------
(* Compression for TLC.                                                    *)
EXTENDS Compression

\* An output with two images, and an injected message.
MCFeedbacks ==
  {[Said("user", "repl", Filler(4)) EXCEPT !.images = 2], Said("user", "note", Filler(1))}
=============================================================================
