------------------------------ MODULE MCOneShot ------------------------------
(* Inputs for OneShot: every well-typed kind the code tells apart (the     *)
(* kinds that raise an uncaught exception are left out); a retry loop with *)
(* max_retries from -1 (no attempt) to 2, a retryable list that does and   *)
(* one that does not name a status of NON_RETRYABLE_STATUS, and one status *)
(* of each class.                                                          *)
EXTENDS OneShot

MCMaxRetries == {-1, 0, 1, 2}
MCRetryableConfigs == {{429, 503}, {400, 429}}
MCStatuses == {200, 400, 418, 429, 503}
WellTypedSchemas == {"1", "2"}
WellTypedFiles == {"missing", "not_json", "object"}
MCHmacKinds == {"current", "previous", "bad"}
WellTypedProviders == {"ok", "incomplete"}

\* Provider answers: every choices shape, each
\* content and reasoning_content token, tool_calls lists of up to two
\* entries of each shape (one entry of every shape, two of the main ones),
\* and usage blocks in which every count is once present, null and missing.
MCProviderTypes == {"openai", "openai-compatible"}
MCFunctions == {Absent} \cup [name : {Absent, "", "n"}, arguments : {Absent, "a"}]
MCCalls == {NotObject} \cup [function : MCFunctions, id : {Absent, "i"}]
MainCalls == {NotObject, [function |-> Absent, id |-> Absent],
              [function |-> [name |-> "", arguments |-> Absent], id |-> Absent],
              [function |-> [name |-> "n", arguments |-> Absent], id |-> Absent],
              [function |-> [name |-> "n", arguments |-> "a"], id |-> "i"]}
MCCallLists == {<< >>} \cup {<<c>> : c \in MCCalls} \cup {<<c, d>> : c, d \in MainCalls}
MCMessages == [content : {Absent, None, "", "t"},
               reasoning_content : {Absent, None, "", " ", "r"},
               tool_calls : {Absent, None} \cup MCCallLists]
MCChoices == {Absent, << >>, <<[message |-> Absent]>>} \cup {<<[message |-> m]>> : m \in MCMessages}
MCUsages == {Absent, NotObject,
             [prompt_tokens |-> 5, completion_tokens |-> Absent, reasoning_tokens |-> None],
             [prompt_tokens |-> None, completion_tokens |-> 5, reasoning_tokens |-> Absent],
             [prompt_tokens |-> Absent, completion_tokens |-> None, reasoning_tokens |-> 5]}
MCResponses == [choices : MCChoices, usage : MCUsages]

\* The 200 bodies: not JSON, a JSON array, or a parsed answer.
MCBodies == {NotJson, NotObject} \cup MCResponses
=============================================================================
