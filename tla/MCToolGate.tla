----------------------------- MODULE MCToolGate -----------------------------
(* Small instances of ToolGate. *)
EXTENDS ToolGate

Arg(n, v) == [name |-> n, value |-> v]
Rule(tool, words, open) == [tool |-> tool, words |-> words, open |-> open]

\* The empty file; one whose allow entry is wider than its deny entry; one that asks
\* about a tool that reads and refuses an imported tool.
MCFiles ==
  {[deny |-> <<>>, allow |-> <<>>, ask |-> <<>>],
   [deny |-> <<Rule("run_command", <<"git", "push">>, TRUE)>>,
    allow |-> <<Rule("run_command", <<"git">>, TRUE)>>, ask |-> <<>>],
   [deny |-> <<Rule("mcp_fetch", <<"b">>, FALSE)>>,
    allow |-> <<Rule("*", <<"b">>, TRUE)>>, ask |-> <<Rule("read_file", <<>>, TRUE)>>]}

MCLocalTools ==
  [read_file |-> [effect |-> "read", takes |-> {"path"}],
   run_command |-> [effect |-> "write", takes |-> {"command"}],
   write_file |-> [effect |-> "write", takes |-> {"path", "content"}]]
MCServerTools ==
  [read_file |-> [effect |-> "read", takes |-> {"path"}],
   fetch |-> [effect |-> "write", takes |-> {"url"}]]
\* With the prefix mcp_, and with none.
MCNamings == {[read_file |-> "mcp_read_file", fetch |-> "mcp_fetch"],
              [read_file |-> "read_file", fetch |-> "fetch"]}

MCCalls ==
  {[tool |-> "run_command", args |-> <<Arg("command", <<"git", "push">>)>>],
   [tool |-> "run_command", args |-> <<Arg("command", <<"git", "log">>)>>],
   [tool |-> "write_file", args |-> <<Arg("path", <<"a">>), Arg("content", <<"b", "c">>)>>],
   [tool |-> "write_file", args |-> <<Arg("path", <<"a", "b">>), Arg("content", <<"c">>)>>],
   [tool |-> "read_file", args |-> <<Arg("path", <<"a">>)>>],
   [tool |-> "mcp_fetch", args |-> <<Arg("url", <<"a">>)>>],
   [tool |-> "mcp_fetch", args |-> <<Arg("url", <<"b">>)>>],
   [tool |-> "mcp_read_file", args |-> <<>>]}
=============================================================================
