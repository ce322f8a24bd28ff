--------------------------- MODULE MCReadRequest ----------------------------
(* Instances of ReadRequest for TLC.                                       *)
EXTENDS ReadRequest

MCConns == {1, 2}

Split(a, b, source) ==
  [size |-> [c \in MCConns |-> IF c = 1 THEN a ELSE b], source |-> source]

\* Two splits of two connections, one of them empty; the second may be of a
\* kind that has no data source.
MCSplits == <<Split(2, 0, {"served"}), Split(1, 1, {"served", "unsupported"})>>
=============================================================================
