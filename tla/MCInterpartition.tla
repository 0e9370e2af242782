-------------------------- MODULE MCInterpartition --------------------------
(* For safety, a queuing channel from one partition to another and a sampling  *)
(* channel from the first to both others. For liveness two channels of each    *)
(* kind, the first of them to a partition without processes: its destination   *)
(* stays full, or is not there, while the other channel goes on.               *)
EXTENDS InterpartitionCommunication

CONSTANTS A, B, C, a1, a2, b1, qs, qd, ss, sb, sc, qt, qc, st

Partitions == {A, B, C}
Ports == {qs, qd, ss, sb, sc}
AllPorts == Ports \cup {qt, qc, st}
MCHome == [x \in {a1, a2, b1} \cup AllPorts |->
             IF x \in {a1, a2, qs, ss, qt, st} THEN A ELSE IF x \in {b1, qd, sb} THEN B ELSE C]
OneEach == {a1, b1}
TwoSenders == {a1, a2, b1}
QueuingPorts2 == {qs, qd}
SamplingPorts3 == {ss, sb, sc}
QueuingSources == {qs}
SamplingSources == {ss}
TwoAndOne == [q \in QueuingPorts2 |-> IF q = qs THEN 2 ELSE 1]
Numbers == 0..(Numbering - 1)
QueuingTable == <<[source |-> qs, destination |-> qd]>>
SamplingTable == <<[source |-> ss, destinations |-> <<sb, sc>>]>>

QueuingPorts4 == {qt, qc, qs, qd}
SamplingPorts4 == {st, sc, ss, sb}
TwoQueuingSources == {qt, qs}
TwoSamplingSources == {st, ss}
OnePlaceEach == [q \in QueuingPorts4 |-> 1]
TwoQueuingChannels == <<[source |-> qt, destination |-> qc], [source |-> qs, destination |-> qd]>>
TwoSamplingChannels ==
  <<[source |-> st, destinations |-> <<sc>>], [source |-> ss, destinations |-> <<sb>>]>>
=============================================================================
