--------------------------- MODULE MCConfigStore ---------------------------
\* Small instances of ConfigStore: two callers, two keys; the file is missing
\* or was edited by hand, with a comment and a key twice.
EXTENDS ConfigStore, TLC

CONSTANTS c1, c2, k1, k2, v1, v2, long

MCCaller == {c1, c2}
MCKey == {k1, k2}
MCValue == {v1, v2, long}
MCBadValue == {long}
MCFiles == {<<>>,
            <<[key |-> k1, value |-> v1], [key |-> Comment, value |-> v1],
              [key |-> k1, value |-> v2], [key |-> k2, value |-> v1]>>}
=============================================================================
