---------------------------- MODULE MCStreamWorker ----------------------------
(* Instances of StreamWorker for TLC.                                      *)
EXTENDS StreamWorker, TLC

CONSTANTS chat, mail, meeting

\* The first entry is telemetry and sorts last; the other two are of one
\* conversation, about one meeting, and sort as strings: 10 before 9.
LateFirst == <<3, 2, 1>>
TwoOfAChat == <<mail, chat, chat>>
OneMeeting == <<NoItem, meeting, meeting>>
FirstIsQuiet == {1}

=============================================================================
