------------------------- MODULE MCInterviewSession -------------------------
(* Small instances of InterviewSession: one interview under several        *)
(* handlers, or two interviews of one candidate with few of them.          *)
EXTENDS InterviewSession, TLC

CONSTANTS i1, i2, ada, h1, h2

OneInterview == {i1}
TwoInterviews == {i1, i2}
TheCandidate == {ada}
OneTask == {h1}
TwoTasks == {h1, h2}

OneOwner == [i \in Interview |-> ada]
OwnCredit == [i \in Interview |-> "RESERVED"]
CampaignPays == [i \in Interview |-> "SPONSORED"]
OneCredit == [c \in Candidate |-> 1]

AllOperations == Operation
NoFaults == {}
SomeCrash == {"CRASH"}
SomeSlow == {"SLOW"}

PreparationOperations == {"ANALYZE", "CANCEL", "SETUP", "START", "END"}
RoomOperations == {"START", "END", "JOIN", "GONE"}
LiveOperations == {"START", "END", "JOIN", "GONE", "ANSWER", "ADVANCE"}
StartOperations == {"ANALYZE", "CANCEL", "SETUP", "START"}
TurnOperations == {"START", "ANSWER", "ADVANCE"}

Symmetry == Permutations(Task) \cup Permutations(Interview)
=============================================================================
