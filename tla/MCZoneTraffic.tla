--------------------------- MODULE MCZoneTraffic ---------------------------
EXTENDS ZoneTraffic, TLC

\* Two trains that meet: each crosses first what the other crosses last, and
\* one of the stages is a pair of close turnouts.
MCScenes ==
  { << << << 1 :> "S", (2 :> "C" @@ 3 :> "S") >>, << (2 :> "S" @@ 3 :> "S"), 1 :> "C" >> >>, 0 >> }

MCPosition == << "S", "S", "C" >>
=============================================================================
