--------------------------- MODULE MCTorrentsList ---------------------------
EXTENDS TorrentsList

CONSTANTS t1, t2, t3, all, some

MCStart == <<t3, t1>>
MCMatch == [c \in Criteria |-> IF c = all THEN {t1, t2, t3} ELSE {t1, t2}]
=============================================================================
