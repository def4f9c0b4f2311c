-------------------------------- MODULE Wire --------------------------------
(***************************************************************************)
(* The translations at the two edges of a turn: the Chat Completions       *)
(* adapter (providers/openai.py), which renders messages and parses        *)
(* responses, and the tape's codec (record/codec.py), which encodes and    *)
(* decodes both; canonical_json (record/canonical.py), which every line of *)
(* a tape and every key goes through.                                      *)
(*                                                                         *)
(* A text, and the JSON text of a call's arguments, is a sequence of       *)
(* pieces: it can be cut between any two.  habits is what another adapter  *)
(* would do differently, one string for each way of getting a row of       *)
(* docs/explanation/provider-differences.md wrong; the adapters of the     *)
(* package that are implemented have none.                                 *)
(***************************************************************************)
EXTENDS Naturals, FiniteSets, SequencesExt, FiniteSetsExt

CONSTANT
  Forms   \* a text, the JSON text of some arguments, or a payload of a vendor that is not
          \* in canonical form -> its canonical form: what is not listed is canonical

None == <<"None">>      \* no text, as against an empty one

\* normalize and sort_keys: another spelling of the same characters (NFC), another
\* order of the same keys.
Canonical(text) == IF text \in DOMAIN Forms THEN Forms[text] ELSE text

ASSUME FormsAssumption ==
  /\ \A t \in DOMAIN Forms : Canonical(Forms[t]) = Forms[t]
  /\ \A t \in {None, <<>>} : t \notin DOMAIN Forms /\ \A u \in DOMAIN Forms : Forms[u] # t

Message(role, text, calls, results, opaque) ==
  [role |-> role, text |-> text, calls |-> calls, results |-> results, opaque |-> opaque]
Call(id, name, arguments) == [id |-> id, name |-> name, arguments |-> arguments]
Result(id, content, is_error) == [call_id |-> id, content |-> content, is_error |-> is_error]
Usage(input, output, cached) == [input |-> input, output |-> output, cached |-> cached]

\* json.loads of a call's arguments; what does not parse is kept under __malformed__.
Loads(json) ==
  IF json = <<>> THEN [kind |-> "object", json |-> <<"{", "}">>]
  ELSE [kind |-> IF Last(json) = "}" THEN "object" ELSE "malformed", json |-> json]

\* json.dumps of them: a malformed text goes out again inside an object.
Dumps(arguments) ==
  IF arguments.kind = "malformed" THEN <<"{malformed:">> \o arguments.json \o <<"}">>
  ELSE arguments.json

-----------------------------------------------------------------------------
(* order_results *)

Position(calls, id) == Max({i \in DOMAIN calls : calls[i].id = id})
Orderable(results, calls) ==
  calls = <<>> \/ \A i \in DOMAIN results : \E j \in DOMAIN calls : calls[j].id = results[i].call_id

\* sorted: a result is preceded by those of earlier calls, and by those of its own call
\* that came before it.
Upto(results, calls, i) ==
  LET place(j) == Position(calls, results[j].call_id)
  IN  {j \in DOMAIN results : place(j) < place(i) \/ (place(j) = place(i) /\ j <= i)}

Ordered(results, calls) ==
  IF calls = <<>> THEN results
  ELSE [k \in DOMAIN results |->
          results[CHOOSE i \in DOMAIN results : Cardinality(Upto(results, calls, i)) = k]]

-----------------------------------------------------------------------------
(* render_messages, render_tools, count_tokens *)

Item(role, content, calls, id) ==
  [role |-> role, content |-> content, tool_calls |-> calls, tool_call_id |-> id]

\* The calls the results at i are ordered against: another set of results between
\* them and their assistant message does not forget them.
Pending(history, i) ==
  LET before == {j \in 1..i - 1 : history[j].role # "tool_results"}
  IN  IF before = {} THEN <<>> ELSE history[Max(before)].calls

Rendered(habits, message, pending) ==
  IF message.role = "tool_results"
    THEN LET all == IF "arrival_order" \in habits THEN message.results
                    ELSE Ordered(message.results, pending)
             some == IF "first_result" \in habits /\ all # <<>> THEN <<Head(all)>> ELSE all
             call(i) == IF "answers_first" \in habits THEN some[1].call_id ELSE some[i].call_id
         IN  [i \in DOMAIN some |-> Item("tool", some[i].content, <<>>, call(i))]
    ELSE LET calls == IF "loses_calls" \in habits THEN <<>> ELSE message.calls
         IN  <<Item(message.role, message.text,
                    [i \in DOMAIN calls |-> Call(calls[i].id, calls[i].name,
                                                 Dumps(calls[i].arguments))], "")>>

RenderMessages(habits, history) ==
  FlattenSeq([i \in DOMAIN history |-> Rendered(habits, history[i], Pending(history, i))])

RenderTools(habits, tools) ==
  [i \in DOMAIN tools |->
     [name |-> tools[i].name, strict |-> TRUE,
      parameters |-> IF "loses_parameters" \in habits THEN {} ELSE tools[i].parameters]]

CountTokens(habits, history) == Len(RenderMessages(habits, history)) \div 4

-----------------------------------------------------------------------------
(* _parse *)

Stops == [stop |-> "end_turn", tool_calls |-> "tool_use", function_call |-> "tool_use",
          length |-> "max_tokens", content_filter |-> "filtered"]

StopOf(habits, finish) ==
  IF finish = "length" /\ habits \cap {"merges_stops", "declares_merged"} # {} THEN "end_turn"
  ELSE IF finish \in DOMAIN Stops THEN Stops[finish]
  ELSE IF "unknown_ends" \in habits THEN "end_turn" ELSE "other"

UsageOf(habits, raw) ==
  IF raw.usage = {} \/ "no_usage" \in habits THEN Usage(0, 0, 0)
  ELSE LET u == CHOOSE u \in raw.usage : TRUE
       IN  Usage(u.input, u.output, IF "no_cached" \in habits THEN 0 ELSE u.cached)

\* What f has for some numbers, in the order of the numbers.
Listed(f) ==
  [k \in 1..Cardinality(DOMAIN f) |->
     f[CHOOSE i \in DOMAIN f : Cardinality({j \in DOMAIN f : j <= i}) = k]]

CallsOf(habits, raw) ==
  LET functions == {i \in DOMAIN raw.calls : raw.calls[i].type = "function"}
      parsed == [i \in functions |->
                   Call(raw.calls[i].id, raw.calls[i].name,
                        IF "raw_arguments" \in habits THEN [kind |-> "text", json |-> raw.calls[i].json]
                        ELSE Loads(raw.calls[i].json))]
      kept == {i \in functions : "drops_malformed" \in habits => parsed[i].arguments.kind # "malformed"}
      calls == Listed([i \in kept |-> parsed[i]])
  IN  IF "first_call" \in habits /\ calls # <<>> THEN <<Head(calls)>> ELSE calls

\* raw: [text, calls, finish, usage, extras], as ChatCompletion holds them; usage is a
\* set of at most one, extras those the SDK does not know.
Parsed(habits, provider, raw) ==
  [message |-> Message("assistant",
                       IF "text_or_calls" \in habits /\ raw.calls # <<>> THEN None ELSE raw.text,
                       CallsOf(habits, raw), <<>>,
                       IF "no_extras" \in habits THEN <<>>
                       ELSE [i \in DOMAIN raw.extras |-> <<provider, raw.extras[i]>>]),
   stop |-> StopOf(habits, raw.finish), usage |-> UsageOf(habits, raw)]

-----------------------------------------------------------------------------
(* The codec: a JSON object holds the keys that say something. What it encodes is
   written, or hashed, by canonical_json and by nothing else, so the canonical form is
   taken here, of the message: ids and names are taken to be canonical as they come. *)

\* A call's arguments are a dict, which keeps the order of the model's JSON.
CanonicalCall(call) ==
  Call(call.id, call.name, [kind |-> call.arguments.kind, json |-> Canonical(call.arguments.json)])

CanonicalMessage(message) ==
  Message(message.role, Canonical(message.text),
          [i \in DOMAIN message.calls |-> CanonicalCall(message.calls[i])],
          [i \in DOMAIN message.results |->
             Result(message.results[i].call_id, Canonical(message.results[i].content),
                    message.results[i].is_error)],
          [i \in DOMAIN message.opaque |-> <<message.opaque[i][1], Canonical(message.opaque[i][2])>>])

Get(object, key, default) == IF key \in DOMAIN object THEN object[key] ELSE default

\* Mutant: `if message.text` for `if message.text is not None`.
KeysOfTruthy(message) ==
  {"role"} \cup {k \in {"calls", "results", "opaque"} : message[k] # <<>>}
           \cup {k \in {"text"} : message.text \notin {None, <<>>}}

Keys(message) ==
  {"role"} \cup {k \in {"calls", "results", "opaque"} : message[k] # <<>>}
           \cup {k \in {"text"} : message.text # None}

EncodedResult(r) ==
  [k \in {"call_id", "content"} \cup {k \in {"is_error"} : r.is_error} |-> r[k]]

Encoded(message, calls) ==
  LET ordered == Ordered(message.results, calls)
  IN  [k \in Keys(message) |->
         IF k = "results" THEN [i \in DOMAIN ordered |-> EncodedResult(ordered[i])]
         ELSE message[k]]

EncodeMessage(message, calls) == Encoded(CanonicalMessage(message), calls)

DecodeMessage(object) ==
  LET results == Get(object, "results", <<>>)
  IN  Message(object.role, Get(object, "text", None), Get(object, "calls", <<>>),
              [i \in DOMAIN results |-> Result(results[i].call_id, results[i].content,
                                               Get(results[i], "is_error", FALSE))],
              Get(object, "opaque", <<>>))

EncodeResponse(response) ==
  [message |-> EncodeMessage(response.message, <<>>), stop |-> response.stop,
   usage |-> [k \in {j \in DOMAIN response.usage : response.usage[j] # 0} |-> response.usage[k]]]

DecodeResponse(object) ==
  [message |-> DecodeMessage(object.message), stop |-> object.stop,
   usage |-> Usage(Get(object.usage, "input", 0), Get(object.usage, "output", 0),
                   Get(object.usage, "cached", 0))]

\* Each assistant's calls order the results right after it, and no later ones.
EncodeHistory(history) ==
  [i \in DOMAIN history |->
     EncodeMessage(history[i], IF i = 1 THEN <<>> ELSE history[i - 1].calls)]

StepKey(provider, history) == <<provider, EncodeHistory(history)>>
=============================================================================
