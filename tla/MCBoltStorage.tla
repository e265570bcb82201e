--------------------------- MODULE MCBoltStorage ---------------------------
(* Instance of BoltStorage and HistoryQuery for TLC: values of constants    *)
(* that a cfg cannot write as expressions.                                  *)
EXTENDS HistoryQuery

\* A device in one zone, east of UTC.
OneZone == {1}

\* The same device when its zone's offset changes (daylight saving ends).
TwoZones == {1, 2}

=============================================================================
