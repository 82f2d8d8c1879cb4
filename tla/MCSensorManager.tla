--------------------------- MODULE MCSensorManager ---------------------------
\* One sensor at a time with trouble, then the card and the clicks together under
\* each source.
EXTENDS SensorManager

MCClicks == 1..2
MCChannels == 1..2
MCHeated == {1}
MCScalars == {"dps310"}
MCAddresses == {118, 119}
MCSampleOf == [k \in 1..2 |-> k]
MCSetups ==
    {[workers |-> {"clicks"}, source |-> "max31865_click", trouble |-> 1],
     [workers |-> {"rtd"}, source |-> "sequent_rtd", trouble |-> 3],
     [workers |-> {"dps310"}, source |-> "disabled", trouble |-> 2]}
    \cup {[workers |-> {"rtd", "clicks"}, source |-> s, trouble |-> 0] : s \in Sources}
=============================================================================
