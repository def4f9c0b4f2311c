---------------------------- MODULE MCAgentLoop ----------------------------
(* Small instances of AgentLoop for TLC. *)
EXTENDS AgentLoopProps, Truncate

mcTexts == {"", "prompt", "task", "nudge", "said", "summary"}
mcTools == {"read", "write", "rm", "nosuch"}

\* What run() starts from, and what resume() starts from after a run that made
\* three steps and was stopped, with and without a nudge.
Fresh == [resumed |-> FALSE, messages |-> <<System("prompt"), User("task")>>]
Step  == <<Assistant("", <<"read">>), Results(<<[what |-> "output", seen |-> 0, cut |-> FALSE]>>)>>
Stopped == [resumed |-> TRUE, messages |-> Fresh.messages \o Step \o Step \o Step]
Nudged  == [Stopped EXCEPT !.messages = Append(@, User("nudge"))]

justRun    == {Fresh}
runOrResume == {Fresh, Stopped, Nudged}
justNudged == {Nudged}

Says  == Response("said", <<>>, "end_turn")
Calls(c) == Response("", c, "tool_use")

\* A model that reads, writes, tries what the policy denies, names a tool that does
\* not exist, is cut off in the middle of a call, and stops.
mixed == {Says, Calls(<<"read", "nosuch">>), Calls(<<"rm", "write">>),
          Response("", <<"write">>, "max_tokens")}
plain == {Says, Calls(<<"read">>), Calls(<<"read", "read">>)}

\* The texts the loop may have to shorten: up to 120 characters, three lines at most.
texts == {Text(n, b, Estimated(n)) : n \in 0..120, b \in {{}, {1}, {9, 40}, {12, 118}}}

\* Counted by characters, a cut text keeps no character twice and stays in its budget.
ASSUME EstimatedTextsAdd ==
  \A t \in {u \in texts : \A b \in u.breaks : b <= u.length}, max_tokens \in 0..32 :
    LET kept == TruncateMiddle(t, max_tokens)
    IN  Adds(t, kept) /\ (kept.cut => 10 * (kept.head + kept.tail) <= 36 * max_tokens)

\* Counted by tiktoken, a text with a token to each character is kept twice in part.
ASSUME DenseTextsOverlap == ~Adds(Text(100, {}, 100), TruncateMiddle(Text(100, {}, 100), 60))

summaries == {Response("summary", <<>>, "end_turn"), Response("", <<>>, "other")}
=============================================================================
