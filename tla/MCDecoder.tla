------------------------------ MODULE MCDecoder ------------------------------
(* Small instances of Decoder for TLC.                                     *)
EXTENDS Decoder

\* Complete, empty, truncated and damaged files, a file with data after its
\* end, and two streams in a row.
SomeFiles == { <<HEAD, 1, 3, TAIL>>,
               <<HEAD, TAIL>>,
               <<>>,
               <<HEAD, 2>>,
               <<HEAD, 2, BAD, TAIL>>,
               <<HEAD, 1, TAIL, BAD>>,
               <<HEAD, 2, TAIL, HEAD, 3, TAIL>> }
=============================================================================
