------------------------------- MODULE RowStream -------------------------------
(***************************************************************************)
(* A bank export on the wire: the JSON array that the bank's generators    *)
(* (external_bank/bank/services/streaming.py) send, and JsonRowStream      *)
(* (adapter/src/stream.rs), which cuts it into rows byte by byte.          *)
(*                                                                         *)
(* A row is one text value; its key, always the same, is left out.  Bytes  *)
(* are strings: "{" "}" "[" "]" "," stand for themselves, "q" is a quote,  *)
(* "b" a backslash, "_" white space and "x" any other byte.                *)
(***************************************************************************)
EXTENDS Naturals, Sequences, SequencesExt

CONSTANTS Texts,       \* values of rows, sequences of bytes
          OtherBodies, \* answers without rows, of a server that is no such bank
          MaxRows,     \* bound: rows of a file
          Multiplier,  \* STREAM_MULTIPLIER
          SizeLimit    \* STREAM_SIZE_LIMIT_BYTES

Bytes == {"{", "}", "[", "]", ",", "q", "b", "_", "x"}

(* An answer of another server has no array, or one that holds no rows:    *)
(* the first thing in it is no object.                                     *)
NoRowsIn(answer) == \A i \in DOMAIN answer :
  answer[i] = "[" /\ (\A k \in 1..(i - 1) : answer[k] # "[") =>
    \E j \in DOMAIN answer : /\ j > i /\ answer[j] \notin {"_", ",", "]", "{"}
                             /\ \A k \in (i + 1)..(j - 1) : answer[k] \in {"_", ","}

ASSUME LimitAssumption == MaxRows \in Nat /\ Multiplier \in Nat /\ SizeLimit \in Nat \ {0, 1}
ASSUME BytesAssumption ==
  /\ \A text \in Texts : text \in Seq(Bytes)
  /\ \A answer \in OtherBodies : answer \in Seq(Bytes) /\ NoRowsIn(answer)

VARIABLES file,        \* the rows of the portfolio file
          multiply,    \* the request's multiply parameter
          body,        \* the bytes that arrive
          broken,      \* they end in a network error, not an end of file
          at,          \* bytes consumed
          mode,        \* where next_row is: "start", "between", "object", "ended"
          outcome,     \* "reading", "ok" (None was returned) or "error"
          depth, inString, escape, \* locals of read_json_object
          buffer,      \* its buffer
          rows         \* rows returned so far

wireVars == <<file, multiply, body, broken>>
scanVars == <<depth, inString, escape, buffer>>
vars == <<wireVars, at, mode, outcome, scanVars, rows>>

-----------------------------------------------------------------------------
(* The bank.                                                               *)

(* json.dumps escapes quotes and backslashes and leaves braces alone.      *)
Encode(row) ==
  LET Escaped(byte) == IF byte \in {"q", "b"} THEN <<"b", byte>> ELSE <<byte>>
  IN  <<"{", "q">> \o FlattenSeq([i \in DOMAIN row |-> Escaped(row[i])]) \o <<"q", "}">>

(* The generators' middle part: encoded rows with ",\n" before all but the *)
(* first.                                                                  *)
Joined(list) ==
  FlattenSeq([i \in DOMAIN list |->
                IF i = 1 THEN Encode(list[i]) ELSE <<",", "_">> \o Encode(list[i])])

Repeated(list) == FlattenSeq([n \in 1..Multiplier |-> list])

(* _multiplied_json_generator stops inside the row that would pass the     *)
(* size limit, the opening "[\n" counted, and closes the array after it.   *)
Limited(bytes) == SubSeq(bytes, 1, IF Len(bytes) < SizeLimit - 2 THEN Len(bytes) ELSE SizeLimit - 2)

Requested(list, mult) == IF mult THEN Repeated(list) ELSE list

Export(list, mult) ==
  IF mult /\ list = <<>> THEN <<"[", "]">>
  ELSE <<"[", "_">>
       \o (IF mult THEN Limited(Joined(Repeated(list))) ELSE Joined(list))
       \o <<"_", "]">>

(* The connection may end after any byte.  The bank's server closes it to  *)
(* mark the end of a body, so an early end is an end of file as well.  Or  *)
(* the address is that of another server, which answers something else.    *)
Init ==
  /\ file \in BoundedSeq(Texts, MaxRows)
  /\ multiply \in BOOLEAN
  /\ \/ \E n \in 0..Len(Export(file, multiply)) : body = SubSeq(Export(file, multiply), 1, n)
     \/ body \in OtherBodies
  /\ broken \in BOOLEAN
  /\ at = 0 /\ mode = "start" /\ outcome = "reading"
  /\ depth = 0 /\ inString = FALSE /\ escape = FALSE /\ buffer = <<>>
  /\ rows = <<>>

-----------------------------------------------------------------------------
(* The adapter.                                                            *)

More == at < Len(body)
Byte == body[at + 1]

End(how) ==
  /\ mode' = "ended" /\ outcome' = how
  /\ UNCHANGED <<wireVars, scanVars, rows>>

(* Mutant: the end of the body ends an object too.                        *)
EndOfBody_Lenient ==
  /\ mode # "ended" /\ ~More
  /\ End(IF broken \/ mode = "start" THEN "error" ELSE "ok")
  /\ UNCHANGED at

(* No byte left: an error of the network, or before "[" and inside an      *)
(* object; between rows it is taken for the end of the array.              *)
EndOfBody ==
  /\ mode # "ended" /\ ~More
  /\ End(IF broken \/ mode \in {"start", "object"} THEN "error" ELSE "ok")
  /\ UNCHANGED at

(* skip_until(b'[').                                                       *)
Start ==
  /\ mode = "start" /\ More
  /\ at' = at + 1
  /\ mode' = IF Byte = "[" THEN "between" ELSE "start"
  /\ UNCHANGED <<wireVars, outcome, scanVars, rows>>

(* skip_whitespace_and_commas.                                             *)
Skip ==
  /\ mode = "between" /\ More /\ Byte \in {"_", ","}
  /\ at' = at + 1
  /\ UNCHANGED <<wireVars, mode, outcome, scanVars, rows>>

CloseArray ==
  /\ mode = "between" /\ More /\ Byte = "]"
  /\ at' = at + 1
  /\ End("ok")

(* The "{" is peeked at, and read by read_json_object.                     *)
OpenObject ==
  /\ mode = "between" /\ More /\ Byte = "{"
  /\ mode' = "object"
  /\ depth' = 0 /\ inString' = FALSE /\ escape' = FALSE /\ buffer' = <<>>
  /\ UNCHANGED <<wireVars, at, outcome, rows>>

Unexpected ==
  /\ mode = "between" /\ More /\ Byte \notin {"_", ",", "]", "{"}
  /\ End("error")
  /\ UNCHANGED at

Take == /\ mode = "object" /\ More
        /\ at' = at + 1 /\ buffer' = Append(buffer, Byte)

(* Mutant: an escaped backslash escapes too.                               *)
EscapeNext_Always == Byte = "b"

(* A backslash escapes the byte after it, be that a backslash.             *)
EscapeNext == ~escape /\ Byte = "b"

(* Mutant: a brace in a text counts as structure.                          *)
InString_CountsBraces ==
  /\ Take /\ inString
  /\ escape' = EscapeNext
  /\ inString' = (escape \/ Byte # "q")
  /\ depth' = IF Byte = "{" THEN depth + 1 ELSE depth
  /\ UNCHANGED <<wireVars, mode, outcome, rows>>

InString ==
  /\ Take /\ inString
  /\ escape' = EscapeNext
  /\ inString' = (escape \/ Byte # "q")
  /\ UNCHANGED <<wireVars, mode, outcome, depth, rows>>

(* Outside strings: count the braces; the last one completes the row.      *)
Structure ==
  /\ Take /\ ~inString
  /\ ~(Byte = "}" /\ depth = 1)
  /\ inString' = (Byte = "q")
  /\ depth' = CASE Byte = "{" -> depth + 1 [] Byte = "}" -> depth - 1 [] OTHER -> depth
  /\ UNCHANGED <<wireVars, mode, outcome, escape, rows>>

(* serde_json: the text that the object encodes, if it is one.             *)
Decoded(bytes) ==
  IF \E text \in Texts : Encode(text) = bytes
  THEN <<CHOOSE text \in Texts : Encode(text) = bytes>> ELSE <<>>

CompleteRow ==
  /\ Take /\ ~inString /\ Byte = "}" /\ depth = 1
  /\ depth' = 0
  /\ rows' = rows \o Decoded(buffer')
  /\ IF Decoded(buffer') = <<>> THEN mode' = "ended" /\ outcome' = "error"
     ELSE mode' = "between" /\ UNCHANGED outcome
  /\ UNCHANGED <<wireVars, inString, escape>>

Next ==
  \/ EndOfBody \/ Start \/ Skip \/ CloseArray \/ OpenObject \/ Unexpected
  \/ InString \/ Structure \/ CompleteRow

Spec == Init /\ [][Next]_vars

-----------------------------------------------------------------------------
(* Properties.                                                             *)

(* Every variable has its type; a bank row, being flat, never nests.       *)
TypeOK ==
  /\ at \in 0..Len(body)
  /\ mode \in {"start", "between", "object", "ended"}
  /\ outcome \in {"reading", "ok", "error"}
  /\ (mode = "ended") <=> (outcome # "reading")
  /\ depth \in 0..1 /\ inString \in BOOLEAN /\ escape \in BOOLEAN
  /\ escape => inString
  /\ Len(buffer) <= at

(* An export that arrives whole, and fits the size limit, is read without  *)
(* an error, row for row, whatever quotes, backslashes and braces its      *)
(* texts contain.                                                          *)
ExportUnderstood ==
  body = Export(file, multiply) /\ ~broken
    /\ (multiply => Limited(Joined(Repeated(file))) = Joined(Repeated(file)))
  => outcome # "error" /\ (outcome = "ok" => rows = Requested(file, multiply))

(* However an export is cut short, by the bank's size limit or the         *)
(* network, next_row returns None only if the rows it gave are the first   *)
(* ones of the file and all that arrived: half an object, or an item that  *)
(* is no object, is never dropped in silence.                              *)
WholeRowsOnly ==
  /\ IsPrefix(rows, Requested(file, multiply))
  /\ outcome = "ok" =>
       \A i \in 1..Len(body) :
         i > Len(Joined(rows)) + 2 => body[i] \in {"_", ",", "]"}
=============================================================================
