-------------------------- MODULE MCRxTimedSamples --------------------------
(* A small instance of RxTimedSamples for TLC. *)
EXTENDS RxTimedSamples

\* A capture that can be made again, one whose start has passed, one of no
\* samples that keeps no file, one with a rate of zero.
MCCaptures ==
  { [file |-> "a", sps |-> 1, t0 |-> 3, n |-> 2, null |-> FALSE],
    [file |-> "a", sps |-> 2, t0 |-> 0, n |-> 3, null |-> FALSE],
    [file |-> "b", sps |-> 1, t0 |-> 4, n |-> 0, null |-> TRUE],
    [file |-> "b", sps |-> 0, t0 |-> 3, n |-> 1, null |-> FALSE] }
=============================================================================
