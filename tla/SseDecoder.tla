----------------------------- MODULE SseDecoder -----------------------------
(***************************************************************************)
(* sse_decode (src/adapters/sse_decoder.py) fed one byte stream in chunks  *)
(* of arbitrary size.  Each step of the async for loop receives a chunk,   *)
(* decodes it to text on its own (errors="replace"), appends it to the     *)
(* buffer, normalises line endings of the whole buffer, and parses every   *)
(* complete line; the end of the stream parses the rest of the buffer and  *)
(* dispatches the last event.                                              *)
(*                                                                         *)
(* Bytes and characters are short strings: "CR", "LF", ":", " ", "0",    *)
(* "1", "x", "NUL", and letters "D", "E", "I", "R" that stand for the field names    *)
(* data, event, id and retry; "M1" "M2" are the two bytes of one UTF-8     *)
(* encoded character "U", and "?" is U+FFFD.  An event's data is kept as   *)
(* the list of its data lines ("\n".join of lines without "\n").           *)
(***************************************************************************)
EXTENDS Integers, Sequences, SequencesExt

CONSTANTS
    Bytes,      \* the bytes a stream may contain
    MaxLen      \* the longest stream considered

ASSUME Bytes \subseteq {"CR", "LF", ":", " ", "0", "1", "x", "NUL", "D", "E", "I", "R", "M1", "M2"}

\* Streams of well-formed UTF-8: "M1" is always followed by "M2" and vice versa.
WellFormed(s) ==
    \A i \in 1..Len(s) :
        /\ s[i] = "M1" => i < Len(s) /\ s[i + 1] = "M2"
        /\ s[i] = "M2" => i > 1 /\ s[i - 1] = "M1"
Streams == {s \in BoundedSeq(Bytes, MaxLen) : WellFormed(s)}

Message == <<"message">>      \* the default event_type
NoRetry == -1                 \* retry = None

\* chunk.decode("utf-8", errors="replace") of one chunk: a complete
\* two-byte sequence is one character, a lone lead or continuation byte is
\* U+FFFD.
RECURSIVE decode(_)
decode(b) ==
    IF b = << >> THEN << >>
    ELSE IF Head(b) = "M1" /\ Len(b) > 1 /\ b[2] = "M2" THEN <<"U">> \o decode(Tail(Tail(b)))
    ELSE IF Head(b) \in {"M1", "M2"} THEN <<"?">> \o decode(Tail(b))
    ELSE <<Head(b)>> \o decode(Tail(b))

\* buffer.replace("\r\n", "\n"): non-overlapping, left to right.
RECURSIVE ReplaceCRLF(_)
ReplaceCRLF(s) ==
    IF Len(s) < 2 THEN s
    ELSE IF s[1] = "CR" /\ s[2] = "LF" THEN <<"LF">> \o ReplaceCRLF(Tail(Tail(s)))
    ELSE <<Head(s)>> \o ReplaceCRLF(Tail(s))

\* buffer.replace("\r\n", "\n").replace("\r", "\n")
Normalize(s) == ReplaceAll(ReplaceCRLF(s), "CR", "LF")

\* int(value) over this alphabet: surrounding spaces are stripped and the
\* rest must be a non-empty run of the digits "0" and "1".
RECURSIVE LStrip(_)
LStrip(s) == IF s # << >> /\ Head(s) = " " THEN LStrip(Tail(s)) ELSE s
Strip(s) == Reverse(LStrip(Reverse(LStrip(s))))
IntParses(v) == Strip(v) # << >> /\ \A i \in 1..Len(Strip(v)) : Strip(v)[i] \in {"0", "1"}
RECURSIVE IntValue(_)
IntValue(s) == IF s = << >> THEN 0 ELSE 10 * IntValue(Front(s)) + (IF Last(s) = "1" THEN 1 ELSE 0)

\* A variant that takes every id field.
IdAccepted_any(v) == TRUE

\* if "\0" not in value: event_id = value
IdAccepted(v) == ~Contains(v, "NUL")

\* retry = int(value)
RetryValue(v) == IntValue(Strip(v))

\* line.partition(":") and the strip of one leading space; a line without
\* a colon is a field name with an empty value.
FieldOf(line) ==
    LET i == SelectInSeq(line, LAMBDA c : c = ":")
        v == SubSeq(line, i + 1, Len(line))
    IN IF i = 0 THEN [name |-> line, value |-> << >>]
       ELSE [name |-> SubSeq(line, 1, i - 1),
             value |-> IF v # << >> /\ Head(v) = " " THEN Tail(v) ELSE v]

\* The field handling shared by the loop and the end of stream.
ApplyField(p, f) ==
    CASE f.name = <<"E">> -> [p EXCEPT !.etype = f.value]
      [] f.name = <<"D">> -> [p EXCEPT !.data = Append(@, f.value)]
      [] f.name = <<"I">> /\ IdAccepted(f.value) -> [p EXCEPT !.eid = f.value]
      [] f.name = <<"R">> /\ IntParses(f.value) -> [p EXCEPT !.retry = RetryValue(f.value)]
      [] OTHER -> p

Event(p) == [etype |-> p.etype, data |-> p.data, eid |-> p.eid, retry |-> p.retry]

\* The body of the while loop for one line.
ApplyLine(p, line) ==
    CASE line = << >> ->
            [p EXCEPT !.out = IF p.data # << >> THEN Append(@, Event(p)) ELSE @,
                      !.etype = Message, !.data = << >>]
      [] Head(line) = ":" -> p
      [] OTHER -> ApplyField(p, FieldOf(line))

\* while "\n" in buffer: line, buffer = buffer.split("\n", 1) ...
RECURSIVE ProcessLines(_)
ProcessLines(p) ==
    LET i == SelectInSeq(p.buffer, LAMBDA c : c = "LF")
    IN IF i = 0 THEN p
       ELSE ProcessLines([ApplyLine(p, SubSeq(p.buffer, 1, i - 1))
                             EXCEPT !.buffer = SubSeq(p.buffer, i + 1, Len(p.buffer))])

\* A variant that starts the buffer afresh with every chunk.
Feed_noCarry(p, chunk) == ProcessLines([p EXCEPT !.buffer = Normalize(decode(chunk))])

\* One iteration of the async for loop.
Feed(p, chunk) == ProcessLines([p EXCEPT !.buffer = Normalize(@ \o decode(chunk))])

\* After the loop: the rest of the buffer as a last line (a comment is
\* skipped), then the final dispatch.
Finish(p) ==
    LET q == IF p.buffer # << >> /\ Head(p.buffer) # ":" THEN ApplyField(p, FieldOf(p.buffer)) ELSE p
    IN [q EXCEPT !.out = IF q.data # << >> THEN Append(@, Event(q)) ELSE @, !.buffer = << >>]

Fresh == [buffer |-> << >>, etype |-> Message, data |-> << >>, eid |-> << >>,
          retry |-> NoRetry, out |-> << >>]


VARIABLES
    input,      \* the whole byte stream
    rest,       \* the bytes the stream has not delivered yet
    dec,        \* the locals of sse_decode: buffer, event_type, data_lines, event_id, retry, and what it yielded
    done        \* the stream has ended and sse_decode has returned

vars == <<input, rest, dec, done>>

Init ==
    /\ input \in Streams
    /\ rest = input
    /\ dec = Fresh
    /\ done = FALSE

\* The stream yields its next chunk: any non-empty prefix of what is left.
Receive(k) ==
    /\ ~done
    /\ k \in 1..Len(rest)
    /\ dec' = Feed(dec, SubSeq(rest, 1, k))
    /\ rest' = SubSeq(rest, k + 1, Len(rest))
    /\ UNCHANGED <<input, done>>

\* The stream ends.
End ==
    /\ ~done /\ rest = << >>
    /\ dec' = Finish(dec)
    /\ done' = TRUE
    /\ UNCHANGED <<input, rest>>

Next == \/ \E k \in 1..MaxLen : Receive(k)
        \/ End

Spec == Init /\ [][Next]_vars

\* Properties

\* Characters after decoding.
Chars == (Bytes \ {"M1", "M2"}) \cup {"U", "?"}

\* The locals keep their types; an id containing NUL is never taken, so no
\* event carries one.
TypeOK ==
    /\ input \in Streams /\ rest \in Streams /\ done \in BOOLEAN
    /\ dec.buffer \in Seq(Chars \ {"CR", "LF"})
    /\ dec.data \in Seq(Seq(Chars))
    /\ dec.eid \in Seq(Chars \ {"NUL"})
    /\ dec.retry \in Int
    /\ \A i \in 1..Len(dec.out) : dec.out[i].eid \in Seq(Chars \ {"NUL"})

\* The events of the stream fed to sse_decode as one single chunk.
Whole(s) == IF s = << >> THEN Finish(Fresh) ELSE Finish(Feed(Fresh, s))

\* spec.md 8.11: feeding a well-formed byte sequence chunk by chunk, with
\* arbitrary chunk boundaries, yields the same events as feeding it at
\* once; sse_decode keeps its buffer, pending event and id/retry across
\* chunks.
ChunkInvariant == done => dec.out = Whole(input).out

=============================================================================
