--------------------------- MODULE MCAsyncLogging ---------------------------
(* AsyncLogging with two lines to a buffer and at most three buffers to    *)
(* write: fifteen lines overrun the back end once or twice, or never.       *)
EXTENDS AsyncLogging
=============================================================================
