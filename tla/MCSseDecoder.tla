---------------------------- MODULE MCSseDecoder ----------------------------
(* Alphabets for SseDecoder.  LineBytes: LF-only framing with data, id,  *)
(* retry fields, comments, spaces and NUL; SplitBytes adds CR and a     *)
(* two-byte character.                                                     *)
EXTENDS SseDecoder

LineBytes == {"LF", ":", " ", "1", "D", "I", "R", "NUL"}
SplitBytes == {"CR", "LF", ":", "D", "M1", "M2"}
=============================================================================
