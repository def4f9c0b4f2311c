---------------------------- MODULE MCEvaluation ----------------------------
(* Small suites for Evaluation: a task and one to be declined, over two seeds; and two *)
(* tasks that share their graders, for two whole calls.                               *)
EXTENDS Evaluation

MCKind == [written |-> "file", judge |-> "judge", untouched |-> "unchanged", mentions |-> "text"]
MCHundredths == [n \in 0..2 |-> 50 * n]
MCSuite == <<[id |-> "report", graders |-> <<"written", "judge">>, resets |-> FALSE],
             [id |-> "decline", graders |-> <<"untouched", "mentions">>, resets |-> TRUE]>>
MCShared == <<[id |-> "report", graders |-> <<"written", "judge">>, resets |-> FALSE],
              [id |-> "notes", graders |-> <<"written", "judge">>, resets |-> TRUE]>>
=============================================================================
