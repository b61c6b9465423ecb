---------------------------- MODULE MCVisibility ----------------------------
(* Values for the constants of Visibility that a .cfg cannot write. *)
EXTENDS Visibility

CONSTANTS Pulsar

\* The day before: all of the date may be planned.
MCNow == -1

MCWanted == {<<Sun>>, <<Pulsar, Sun>>}

Sky(sun, pulsar) == [t \in Targets |-> IF t = Sun THEN sun ELSE pulsar]
Minutes(set) == [m \in 0 .. Day |-> m \in set]

SunSkies == {Minutes(up) : up \in SUBSET (1 .. Day - 2)}
PulsarSkies ==
    {sky \in [0 .. Day -> BOOLEAN] : sky[Day] => sky[Day - 1]}

\* Every day of the sun with one of the pulsar, and the other way round.
MCSkies ==
    {Sky(sun, Minutes({0, 2, Day - 1, Day})) : sun \in SunSkies}
        \cup {Sky(Minutes({1, 3}), pulsar) : pulsar \in PulsarSkies}

=============================================================================
