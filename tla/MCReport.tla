------------------------------ MODULE MCReport ------------------------------
(* An instance of SarifParser, and of ReportStream under it, for TLC. *)
EXTENDS SarifParser

CONSTANTS a, b

\* The parser shares nothing with the stream but the hand-over, so it is followed
\* from one of the states in which a report has been read whole.
OneHandOver ==
    stage = "idle" /\ stage' # "idle" =>
        /\ body = 1 /\ maxBytes = 1 /\ parserMax = 1 /\ expected = NoSize
        /\ ~damaged
=============================================================================
