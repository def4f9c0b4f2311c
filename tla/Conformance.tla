----------------------------- MODULE Conformance -----------------------------
(***************************************************************************)
(* run_conformance (providers/conformance.py): eighteen checks of an       *)
(* adapter, made on histories and responses of its own, and the targets of *)
(* the package (providers/targets.py).  C14, that a payload is the same    *)
(* object and not an equal one, says nothing about values and is left out. *)
(***************************************************************************)
EXTENDS Wire

\* An adapter under test: [provider, habits, built]; Anthropic's is signatures only.
Target(provider, habits, built) == [provider |-> provider, habits |-> habits, built |-> built]
Shipped == {Target("openai", {}, TRUE), Target("ollama", {}, TRUE), Target("anthropic", {}, FALSE)}

\* _openai_wire: usage is told if a count is not zero, its details if some was cached.
Built(text, calls, stop, usage, extras) ==
  [text |-> text, calls |-> calls, finish |-> stop, extras |-> extras,
   usage |-> IF usage.input + usage.output = 0 THEN {} ELSE {usage}]

RawCall(id, json) == [id |-> id, name |-> "read_file", json |-> json, type |-> "function"]
ReadFile(id, path) == Call(id, "read_file", [kind |-> "object", json |-> <<"{", path, "}">>])
Assistant(calls) == Message("assistant", None, calls, <<>>, <<>>)
Results(list) == Message("tool_results", None, <<>>, list, <<>>)

ParallelCalls ==
  <<Message("system", <<"be helpful">>, <<>>, <<>>, <<>>),
    Message("user", <<"read both files">>, <<>>, <<>>, <<>>),
    Assistant(<<ReadFile("c1", "a.txt"), ReadFile("c2", "b.txt")>>),
    Results(<<Result("c1", <<"A">>, FALSE), Result("c2", <<"B">>, TRUE)>>)>>

\* Mutant: the results come in the order of the calls already.
TidyResults ==
  <<Assistant(<<ReadFile("first", "1"), ReadFile("second", "2")>>),
    Results(<<Result("first", <<"ONE">>, FALSE), Result("second", <<"TWO">>, FALSE)>>)>>

UntidyResults ==
  <<Assistant(<<ReadFile("first", "1"), ReadFile("second", "2")>>),
    Results(<<Result("second", <<"TWO">>, FALSE), Result("first", <<"ONE">>, FALSE)>>)>>

\* The vocabulary an adapter declares is its own word for what it does.
StopReasons(target) ==
  IF "declares_merged" \in target.habits THEN [Stops EXCEPT !.length = "end_turn"] ELSE Stops

\* What the repr of rendered messages says, wherever it says it, and how often an id.
Words(wire) ==
  UNION {Range(wire[i].content) \cup {wire[i].tool_call_id} \cup
         UNION {{c.id, c.name} \cup Range(c.arguments) : c \in Range(wire[i].tool_calls)}
           : i \in DOMAIN wire}
Times(id, wire) ==
  Cardinality({i \in DOMAIN wire : wire[i].tool_call_id = id})
    + Cardinality({p \in (DOMAIN wire) \X (1..2) :
                     p[2] <= Len(wire[p[1]].tool_calls) /\ wire[p[1]].tool_calls[p[2]].id = id})

\* Each check, and whether the target passes it: a check asks no more than this.
Report(target) ==
  LET render(history) == RenderMessages(target.habits, history)
      parse(text, calls, stop, usage, extras) ==
        Parsed(target.habits, target.provider, Built(text, calls, stop, usage, extras))
      none == Usage(0, 0, 0)
      says(stop) == parse(<<"x">>, <<>>, stop, none, <<>>)
      asks(calls) == parse(None, calls, "tool_calls", none, <<>>).message.calls
      spent(usage) == parse(<<"x">>, <<>>, "stop", usage, <<>>).usage
      at(wire, content) == Min({Len(wire) + 1} \cup {i \in DOMAIN wire : wire[i].content = content})
      wire == render(ParallelCalls)
      untidy == render(UntidyResults)
      tools == RenderTools(target.habits,
                           <<[name |-> "read_file", parameters |-> {"path", "limit"}]>>)
  IN
  [C01 |-> target.provider # "",
   C02 |-> target.built,
   C03 |-> target.built /\ {"c1", "c2", "read_file", "a.txt", "b.txt"} \subseteq Words(wire),
   C04 |-> target.built /\ Times("c1", wire) >= 2 /\ {"A", "B"} \subseteq Words(wire),
   C05 |-> target.built /\ at(untidy, <<"ONE">>) < at(untidy, <<"TWO">>)
                        /\ at(untidy, <<"TWO">>) <= Len(untidy),
   C06 |-> target.built /\ tools[1].name = "read_file"
                        /\ {"path", "limit"} \subseteq tools[1].parameters,
   C07 |-> target.built /\ LET m == parse(<<"hello">>, <<>>, "stop", none, <<>>).message
                           IN  m.role = "assistant" /\ m.text = <<"hello">>,
   C08 |-> target.built /\ asks(<<RawCall("c1", <<"{", "x.txt", "}">>)>>) =
             <<Call("c1", "read_file", [kind |-> "object", json |-> <<"{", "x.txt", "}">>])>>,
   C09 |-> target.built /\ LET calls == asks(<<RawCall("c1", <<"{", "}">>), RawCall("c2", <<"{", "}">>)>>)
                           IN  Len(calls) = 2 /\ calls[1].id = "c1" /\ calls[2].id = "c2",
   C10 |-> target.built /\ LET calls == asks(<<RawCall("c1", <<"{">>)>>)
                           IN  Len(calls) = 1 /\ calls[1].arguments.kind = "malformed",
   C11 |-> target.built /\ LET declared == StopReasons(target)
                           IN  \A stop \in DOMAIN declared : says(stop).stop = declared[stop],
   C12 |-> target.built /\ says("a_reason_invented_in_2030").stop = "other",
   C13 |-> target.built /\ \E o \in Range(parse(<<"x">>, <<>>, "stop", none, <<<<"reasoning">>>>).message.opaque) :
                             o = <<target.provider, <<"reasoning">>>>,
   C15 |-> target.built /\ LET u == spent(Usage(11, 7, 0)) IN u.input = 11 /\ u.output = 7,
   C16 |-> target.built /\ \A h \in {<<>>, ParallelCalls} : CountTokens(target.habits, h) >= 0,
   C17 |-> target.built /\ LET u == spent(Usage(1000, 10, 750)) IN u.cached = 750 /\ u.input = 1000,
   C18 |-> target.built /\ spent(Usage(5, 1, 0)).cached = 0]

Passes(target) == LET report == Report(target) IN \A c \in DOMAIN report : report[c]
=============================================================================
