----------------------------- MODULE MCUsrpOps ------------------------------
(* Small instances of UsrpOps for TLC. *)
EXTENDS UsrpOps

Request(fields, fc, sps, t0, n) ==
  [fields |-> fields, fc |-> fc, sps |-> sps, t0 |-> t0, n |-> n, ant |-> "RX2"]

\* The first three write the same file: the same start, and starts one tick
\* apart. Then a message cut off after n (antenna missing), a rate of zero, and
\* a fast capture of more than one buffer.
MixedRequests ==
  { Request(8, 10, 1, 4, 1), Request(8, 12, 1, 5, 1), Request(8, 10, 1, 5, 0),
    [Request(7, 20, 1, 5, 1) EXCEPT !.ant = "TX/RX"], Request(8, 20, 0, 3, 1),
    Request(8, 20, 2, 3, 3) }

\* Zero samples, a rate of zero, a fast capture, an empty message.
EdgeRequests ==
  { Request(8, 10, 1, 3, 0), Request(8, 20, 0, 3, 1), Request(8, 20, 2, 3, 3),
    Request(-1, 0, 0, 0, 0) }

Always == Steps
OnlyWaiting == {"wait"}
=============================================================================
