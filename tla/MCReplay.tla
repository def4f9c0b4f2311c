------------------------------ MODULE MCReplay ------------------------------
(* Small instances of Replay for TLC. *)
EXTENDS Replay

mcTexts == {"", "prompt", "task", "said", "summary"}
mcTools == {"read", "write", "nosuch"}

histories == {[resumed |-> FALSE, messages |-> <<System("prompt"), User("task")>>]}

Says  == Response("said", <<>>, "end_turn")
Calls(c) == Response("", c, "tool_use")
mixed == {Says, Calls(<<"write", "read">>), Calls(<<"nosuch">>)}

summaries == {Response("summary", <<>>, "end_turn")}
=============================================================================
