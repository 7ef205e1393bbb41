------------------------------ MODULE Normalize ------------------------------
(***************************************************************************)
(* normalize_response and its helpers in src/adapters/cheval.py: the       *)
(* provider's parsed JSON answer to the CanonicalResult the CLI prints and *)
(* the sidecar returns.  Pure operators, no state.                         *)
(*                                                                         *)
(* A JSON object is a record with every key the code asks for; a key the   *)
(* answer does not carry holds Absent, and dict.get(key, d) yields d for   *)
(* it.  JSON null is Null.  Strings are the few tokens the code tells      *)
(* apart: "" and " " (falsy, and blank after strip()) and other text.  An  *)
(* entry of a list that is not an object is NotObject.  The metadata       *)
(* block only copies model, id, latency and trace id and is left out.      *)
(*                                                                         *)
(* The reference definitions at the end are spec.md 4.7, written from its  *)
(* rules, to check the code's operators against.                           *)
(***************************************************************************)
EXTENDS Integers, Sequences

CONSTANTS Absent, Null, NotObject

UsageKeys == {"prompt_tokens", "completion_tokens", "reasoning_tokens"}

\* dict.get(key, default)
Get(obj, key, default) == IF obj[key] = Absent THEN default ELSE obj[key]

\* str.strip() on the string tokens: " " is whitespace only.
Strip(s) == IF s = " " THEN "" ELSE s

\* Python truthiness of a string-or-null value.
TruthyStr(v) == v \notin {Absent, Null, ""}

\* The id hashlib.md5(json.dumps(call)) synthesises: a function of the call.
SynthId(call) == <<"call_", call>>

\* _extract_usage: a missing or non-object usage is {}; each count is
\* usage.get(k, 0) or 0.
_extract_usage(raw) ==
    LET u == Get(raw, "usage", Absent)
    IN [k \in UsageKeys |->
          IF u \in {Absent, NotObject} THEN 0
          ELSE LET v == Get(u, k, 0) IN IF v \in {Null, 0} THEN 0 ELSE v]

\* _empty_result: the answer to a missing or empty choices list.
_empty_result(raw) ==
    [content |-> "", thinking |-> Null, tool_calls |-> Null, usage |-> _extract_usage(raw)]

\* choices[0].get("message", {}): a missing message reads as {}.
EmptyMessage == [content |-> Absent, reasoning_content |-> Absent, tool_calls |-> Absent]
MessageOf(choice) == Get(choice, "message", EmptyMessage)

\* extract_thinking: only for provider type "openai-compatible", a
\* reasoning_content that is a non-blank string.
extract_thinking(raw, provider_type) ==
    LET choices == Get(raw, "choices", << >>)
        r == IF choices = << >> THEN Absent ELSE MessageOf(choices[1]).reasoning_content
    IN IF choices # << >> /\ provider_type = "openai-compatible"
          /\ TruthyStr(r) /\ Strip(r) # ""
       THEN r ELSE Null

\* One emitted tool call: a missing id is synthesised, a missing
\* arguments string defaults to "{}".
ToolCall(call) ==
    [id |-> Get(call, "id", SynthId(call)), type |-> "function",
     function |-> [name |-> call.function.name,
                   arguments |-> Get(call.function, "arguments", "{}")]]

\* The loop of _extract_tool_calls: an entry that is not an object, or whose
\* function has no name, is skipped with a warning.
RECURSIVE ExtractCalls(_)
ExtractCalls(calls) ==
    IF calls = << >> THEN << >>
    ELSE LET call == Head(calls)
             func == IF call = NotObject THEN Absent ELSE Get(call, "function", Absent)
         IN IF call = NotObject \/ func = Absent \/ ~TruthyStr(Get(func, "name", Absent))
            THEN ExtractCalls(Tail(calls))
            ELSE <<ToolCall(call)>> \o ExtractCalls(Tail(calls))

\* A variant that returns the empty list instead of None.
_extract_tool_calls_emptyList(message) ==
    LET raw_calls == Get(message, "tool_calls", Absent)
    IN IF raw_calls \in {Absent, Null} THEN << >> ELSE ExtractCalls(raw_calls)

\* _extract_tool_calls: None for a missing, null or empty list, and None
\* again when no entry survives.
_extract_tool_calls(message) ==
    LET raw_calls == Get(message, "tool_calls", Absent)
        result == IF raw_calls \in {Absent, Null} THEN << >> ELSE ExtractCalls(raw_calls)
    IN IF result = << >> THEN Null ELSE result

\* normalize_response.  A raw answer that is not an object makes raw.get
\* raise; the caller handles that (see OneShot).
normalize_response(raw, provider_type) ==
    LET choices == Get(raw, "choices", << >>)
        message == MessageOf(choices[1])
        content == Get(message, "content", "")
    IN IF choices = << >>
       THEN _empty_result(raw)
       ELSE [content |-> IF TruthyStr(content) THEN content ELSE "",
             thinking |-> extract_thinking(raw, provider_type),
             tool_calls |-> _extract_tool_calls(message),
             usage |-> _extract_usage(raw)]

\* Reference: the rules of spec.md 4.7.

\* A tool-call entry the spec keeps: a record whose function has a name.
SpecValidCall(c) ==
    c # NotObject /\ c.function \notin {Absent, Null}
    /\ c.function.name \notin {Absent, Null, ""}

SpecToolCalls(m) ==
    LET valid == IF m.tool_calls \in {Absent, Null} THEN << >>
                 ELSE SelectSeq(m.tool_calls, SpecValidCall)
    IN IF valid = << >> THEN Null
       ELSE [i \in 1..Len(valid) |->
               [id |-> IF valid[i].id = Absent THEN SynthId(valid[i]) ELSE valid[i].id,
                type |-> "function",
                function |-> [name |-> valid[i].function.name,
                              arguments |-> IF valid[i].function.arguments = Absent
                                            THEN "{}" ELSE valid[i].function.arguments]]]

\* Usage counts: missing (or null) is 0.
SpecUsage(raw) ==
    [k \in UsageKeys |->
       IF raw.usage \in {Absent, NotObject} \/ raw.usage[k] \in {Absent, Null} THEN 0
       ELSE raw.usage[k]]

SpecNormalize(raw, provider_type) ==
    IF raw.choices \in {Absent, << >>}
    THEN [content |-> "", thinking |-> Null, tool_calls |-> Null, usage |-> SpecUsage(raw)]
    ELSE LET m == IF raw.choices[1].message = Absent THEN EmptyMessage
                  ELSE raw.choices[1].message
         IN [content |-> IF m.content \in {Absent, Null} THEN "" ELSE m.content,
             thinking |-> IF provider_type = "openai-compatible"
                             /\ m.reasoning_content \notin {Absent, Null}
                             /\ Strip(m.reasoning_content) # ""
                          THEN m.reasoning_content ELSE Null,
             tool_calls |-> SpecToolCalls(m),
             usage |-> SpecUsage(raw)]

=============================================================================
