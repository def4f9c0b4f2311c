----------------------------- MODULE StreamTurn -----------------------------
(***************************************************************************)
(* One turn as a provider sends it and tapeloop takes it: an adapter is    *)
(* tested (`tapeloop conformance`), the response arrives whole or in       *)
(* chunks (OpenAIClient.complete and stream, ToolCallAccumulator), it and  *)
(* the results of its calls go on the tape and in the history, and the     *)
(* next request is made from the one or the other.                         *)
(*                                                                         *)
(* The server cuts a response where it likes: fragments of several calls   *)
(* interleave, a chunk holds text, fragments, both or nothing, usage comes *)
(* with a chunk or alone, and chunks may follow the one with the reason to *)
(* stop.  When a stream breaks off is the matter of RetryTurn.             *)
(***************************************************************************)
EXTENDS Conformance

CONSTANTS
  Responses,   \* what providers answer: [text, calls, finish, usage, extras]
  Targets,     \* the adapters tested
  MaxTrailing  \* bound: chunks after the reason to stop

Absent == ""   \* None, as a field of a delta and as a finish_reason

\* Texts are sequences, and a call that can be made has an id and a name.
ASSUME ResponsesAssumption ==
  \A r \in Responses :
    /\ r.text \in Seq(Range(r.text)) /\ r.calls \in Seq(Range(r.calls))
    /\ \A i \in DOMAIN r.calls :
         LET c == r.calls[i]
         IN  /\ c.json \in Seq(Range(c.json))
             /\ c.type = "function" => c.id # Absent /\ c.name # Absent

VARIABLES
  pc,        \* "test", "turn", "stream", "record", "next", "refused"
  target, raw,
  sent,      \* of the stream: [text, calls, finish, usage, trailing]: how much has been sent
  slots,     \* ToolCallAccumulator._by_index
  parts,     \* text_parts
  finish, usage,
  response,  \* a set of at most one
  told,      \* what the tape holds of the turn: [step, results], once it is recorded
  history    \* the loop's messages

vars == <<pc, target, raw, sent, slots, parts, finish, usage, response, told, history>>

Task == <<Message("system", <<"s">>, <<>>, <<>>, <<>>), Message("user", <<"u">>, <<>>, <<>>, <<>>)>>
Nothing == [text |-> 0, calls |-> <<>>, finish |-> FALSE, usage |-> FALSE, trailing |-> 0]
NoSlots == [i \in {} |-> 0]

Init ==
  /\ pc = "test" /\ target \in Targets /\ raw \in Responses
  /\ sent = Nothing /\ slots = NoSlots /\ parts = <<>> /\ finish = Absent /\ usage = Usage(0, 0, 0)
  /\ response = {} /\ told = {} /\ history = Task

\* An adapter that fails a check is not used.
Test ==
  /\ pc = "test" /\ pc' = (IF Passes(target) THEN "turn" ELSE "refused")
  /\ UNCHANGED <<target, raw, sent, slots, parts, finish, usage, response, told, history>>

Complete ==
  /\ pc = "turn" /\ pc' = "record"
  /\ response' = {Parsed(target.habits, target.provider, raw)}
  /\ UNCHANGED <<target, raw, sent, slots, parts, finish, usage, told, history>>

\* Only the adapter of the package streams here.
OpenStream ==
  /\ pc = "turn" /\ target.habits = {} /\ pc' = "stream"
  /\ sent' = [Nothing EXCEPT !.calls = [i \in DOMAIN raw.calls |-> 0]]
  /\ UNCHANGED <<target, raw, slots, parts, finish, usage, response, told, history>>

-----------------------------------------------------------------------------
(* The server: sent.calls[i] is 0 until the call is opened, then 1 + the pieces of its
   arguments sent. *)

Pieces(text) == IF text = None THEN 0 ELSE Len(text)
AllOf(s) == /\ s.text = Pieces(raw.text)
            /\ \A i \in DOMAIN raw.calls : s.calls[i] = 1 + Len(raw.calls[i].json)
AllSent == AllOf(sent)

\* A delta of call i: the first holds its id and, of a function, its name.
Delta(i, n) ==
  LET c == raw.calls[i]  opens == sent.calls[i] = 0  isFunction == c.type = "function"
      from == IF opens THEN 0 ELSE sent.calls[i] - 1
  IN  [index |-> i, id |-> IF opens THEN c.id ELSE Absent,
       name |-> IF opens /\ isFunction THEN c.name ELSE Absent,
       fragment |-> IF isFunction THEN SubSeq(c.json, from + 1, from + n) ELSE <<>>]

\* What call i may be sent next: n pieces; calls are opened in their order.
CanSend(i, n) ==
  /\ (\A j \in 1..i - 1 : sent.calls[j] > 0)
  /\ IF sent.calls[i] = 0 THEN n <= Len(raw.calls[i].json)
     ELSE n > 0 /\ sent.calls[i] - 1 + n <= Len(raw.calls[i].json)
Sent(i, n) == IF sent.calls[i] = 0 THEN 1 + n ELSE sent.calls[i] + n

-----------------------------------------------------------------------------
(* The client: stream, ToolCallAccumulator.add and finish *)

Partial == [id |-> Absent, name |-> Absent, json |-> <<>>]

\* Mutant: a fragment without an id goes to the call opened last.
AddedToLast(at, d) ==
  LET i == IF d.id = Absent /\ DOMAIN at # {} THEN Max(DOMAIN at) ELSE d.index
      slot == IF i \in DOMAIN at THEN at[i] ELSE Partial
  IN  [j \in DOMAIN at \cup {i} |->
         IF j # i THEN at[j]
         ELSE [id |-> IF d.id # Absent THEN d.id ELSE slot.id,
               name |-> IF d.name # Absent THEN d.name ELSE slot.name,
               json |-> slot.json \o d.fragment]]

Added(at, d) ==
  LET slot == IF d.index \in DOMAIN at THEN at[d.index] ELSE Partial
  IN  [j \in DOMAIN at \cup {d.index} |->
         IF j # d.index THEN at[j]
         ELSE [id |-> IF d.id # Absent THEN d.id ELSE slot.id,
               name |-> IF d.name # Absent THEN d.name ELSE slot.name,
               json |-> slot.json \o d.fragment]]

\* accumulator.finish: in the order of the indices; a slot without id or name is no call.
Calls ==
  LET named == {i \in DOMAIN slots : slots[i].id # Absent /\ slots[i].name # Absent}
  IN  Listed([i \in named |-> Call(slots[i].id, slots[i].name, Loads(slots[i].json))])

\* What a chunk does to the client; `finish_reason or finish`. at: its slots, with the
\* fragment in the chunk added.
Takes(text, at, why, withUsage) ==
  /\ usage' = IF withUsage THEN UsageOf({}, raw) ELSE usage
  /\ finish' = IF why # Absent THEN why ELSE finish
  /\ parts' = parts \o text
  /\ slots' = at

\* A chunk with some of the text, some of one call's arguments, or both; the last one
\* may hold the reason to stop as well.
Chunk ==
  /\ pc = "stream" /\ ~sent.finish /\ ~AllSent
  /\ \E n \in 0..Pieces(raw.text) - sent.text, withCall, ends \in BOOLEAN :
       \E i \in IF withCall THEN DOMAIN raw.calls ELSE {0} :
       \E k \in IF withCall THEN 0..Len(raw.calls[i].json) ELSE {0} :
         /\ withCall \/ n > 0
         /\ withCall => CanSend(i, k)
         /\ sent' = [sent EXCEPT !.text = @ + n, !.finish = ends,
                       !.calls = IF withCall THEN [@ EXCEPT ![i] = Sent(i, k)] ELSE @]
         /\ ends => AllOf(sent')
         /\ Takes(SubSeq(raw.text, sent.text + 1, sent.text + n),
                  IF withCall THEN Added(slots, Delta(i, k)) ELSE slots,
                  IF ends THEN raw.finish ELSE Absent, FALSE)
  /\ UNCHANGED <<pc, target, raw, response, told, history>>

\* The reason alone, in a chunk with an empty delta; then empty ones; the usage is in
\* one of those, or in one that has no choices and ends the round of the loop there.
LastChunk ==
  /\ pc = "stream" /\ AllSent /\ ~sent.finish
  /\ sent' = [sent EXCEPT !.finish = TRUE] /\ Takes(<<>>, slots, raw.finish, FALSE)
  /\ UNCHANGED <<pc, target, raw, response, told, history>>

Trailing ==
  /\ pc = "stream" /\ sent.finish /\ sent.trailing < MaxTrailing
  /\ \E withUsage \in IF raw.usage # {} /\ ~sent.usage THEN BOOLEAN ELSE {FALSE} :
       /\ sent' = [sent EXCEPT !.trailing = @ + 1, !.usage = @ \/ withUsage]
       /\ Takes(<<>>, slots, Absent, withUsage)
  /\ UNCHANGED <<pc, target, raw, response, told, history>>

StreamEnd ==
  /\ pc = "stream" /\ sent.finish /\ sent.usage = (raw.usage # {}) /\ pc' = "record"
  /\ response' = {[message |-> Message("assistant", IF parts = <<>> THEN None ELSE parts,
                                       Calls, <<>>, <<>>),
                   stop |-> StopOf({}, finish), usage |-> usage]}
  /\ UNCHANGED <<target, raw, sent, slots, parts, finish, usage, told, history>>

-----------------------------------------------------------------------------
(* The loop: the step record, the results and their record. *)

Answer == CHOOSE r \in response : TRUE

Output == <<"e'">>   \* what a tool says, its accent spelled as a character of its own

\* A response that stops for its calls has them run.
Record ==
  /\ pc = "record" /\ pc' = "next"
  /\ LET calls == IF Answer.stop = "tool_use" THEN Answer.message.calls ELSE <<>>
     IN \E failed \in [DOMAIN calls -> BOOLEAN] :
          LET results == Message("tool_results", None, <<>>,
                           [i \in DOMAIN calls |-> Result(calls[i].id, Output, failed[i])], <<>>)
          IN /\ history' = history \o <<Answer.message>> \o
                             (IF calls = <<>> THEN <<>> ELSE <<results>>)
             /\ told' = {[step |-> EncodeResponse(Answer),
                          rest |-> IF calls = <<>> THEN <<>> ELSE <<EncodeMessage(results, calls)>>]}
  /\ UNCHANGED <<target, raw, sent, slots, parts, finish, usage, response>>

Next == \/ Test \/ Complete \/ OpenStream \/ Chunk \/ LastChunk \/ Trailing \/ StreamEnd
        \/ Record

Spec == Init /\ [][Next]_vars

-----------------------------------------------------------------------------
(* Properties *)

\* What the tape gives back: Recording.load's messages.
Read ==
  LET t == CHOOSE t \in told : TRUE
      task == [i \in DOMAIN Task |-> DecodeMessage(EncodeMessage(Task[i], <<>>))]
  IN  task \o <<DecodeResponse(t.step).message>> \o [i \in DOMAIN t.rest |-> DecodeMessage(t.rest[i])]

\* However a response is cut, the stream assembles what complete would have returned:
\* every call with its own arguments, the text in order, the same stop reason and usage;
\* but for vendor payloads, which a stream drops, and an empty text, which it turns into
\* none (openai.py:200-376, stream.py).
StreamSaysTheSame ==
  pc = "record" /\ sent.finish =>
    Answer = [Parsed({}, target.provider, raw) EXCEPT
                !.message.opaque = <<>>, !.message.text = IF @ = <<>> THEN None ELSE @]

\* A turn survives the tape up to canonical form: it decodes to the response that was
\* recorded, every text and every call's arguments in canonical form; a resumed run has
\* the very step key of the run it continues, but the request it makes is that run's
\* with all it says in canonical form (jsonl.py:65, canonical.py:23-66, codec.py,
\* recording.py:53-84, keys.py:24-48).
TapeCarriesTheTurn ==
  pc = "next" =>
    /\ \A t \in told :
         DecodeResponse(t.step) = [message |-> CanonicalMessage(Answer.message),
                                   stop |-> Answer.stop, usage |-> Answer.usage]
    /\ StepKey(target.provider, Read) = StepKey(target.provider, history)
    /\ RenderMessages({}, Read) =
         RenderMessages({}, [i \in DOMAIN history |-> CanonicalMessage(history[i])])

\* "Stored verbatim, tagged with the provider that produced it" (events.py): the tape
\* gives back the payloads of a vendor as they came.
PayloadsAreVerbatim ==
  pc = "next" => \A t \in told : DecodeResponse(t.step).message.opaque = Answer.message.opaque

Untidied == [i \in DOMAIN history |-> [history[i] EXCEPT !.results = Reverse(@)]]

\* An adapter the battery passes gets no listed divergence wrong: it parses and renders
\* as the shipped one does, on responses and histories the battery never tried, results
\* in another order included (conformance.py, docs/explanation/provider-differences.md).
BatteryTells ==
  /\ pc = "record" /\ ~sent.finish => response = {Parsed({}, target.provider, raw)}
  /\ pc = "next" => \A h \in {history, Untidied} :
                      RenderMessages(target.habits, h) = RenderMessages({}, h)
=============================================================================
