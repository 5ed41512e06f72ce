----------------------------- MODULE RespReader -----------------------------
(***************************************************************************)
(* The client's end of a connection (read_response of hkv-client/src/resp.  *)
(* rs): values are read one after the other from a blocking reader, which   *)
(* ends early when the connection breaks.                                   *)
(***************************************************************************)
EXTENDS Codec

CONSTANT Streams  \* sequences of RespValue that a server sends on a connection

VARIABLES
    values,  \* the values that the server sends
    cut,     \* how many bytes of them arrive before the connection ends
    bytes,   \* what arrived and has not been read
    got,     \* the values read_response returned
    status   \* "open", or "failed" once it returned an error

vars == <<values, cut, bytes, got, status>>

Encoded(vs) == FlattenSeq([i \in 1 .. Len(vs) |-> EncodeResponse(vs[i])])

-----------------------------------------------------------------------------
(* Ways in which the code could be wrong. *)

\* read_line that does not look for CR before the end of the line.
NoCheck(line) == Len(line) >= 2

Failure == [ok |-> FALSE, value |-> Null, rest |-> <<>>]
Success(v, rest) == [ok |-> TRUE, value |-> v, rest |-> rest]

\* parse_bulk_len that leaves the CRLF after the data unread.
LeavesCrlf(n, in) ==
    IF n < 0 THEN Success(Null, in)
    ELSE IF Len(in) < n THEN Failure
    ELSE Success(Bulk(SubSeq(in, 1, n)), SubSeq(in, n + 1, Len(in)))

-----------------------------------------------------------------------------
(* read_response, on the bytes that are still to come. *)

\* read_until: the bytes up to the first line feed, or all of them.
ReadUntil(in) ==
    LET ends == {i \in 1 .. Len(in) : in[i] = LF}
    IN SubSeq(in, 1, Min(ends \union {Len(in)}))

\* read_line's test of what read_until returned.
IsLine(line) == Len(line) >= 2 /\ line[Len(line) - 1] = CR

\* parse_bulk_len: null, or n bytes and their CRLF.
ReadBulk(n, in) ==
    IF n < 0 THEN Success(Null, in)
    ELSE IF SubSeq(in, n + 1, Min({n + 2, Len(in)})) # CRLF THEN Failure
    ELSE Success(Bulk(SubSeq(in, 1, n)), SubSeq(in, n + 3, Len(in)))

RECURSIVE ReadResponse(_)

\* parse_array_len: n values, or the first failure.
ReadArray(n, in) ==
    LET step(r, i) ==
          IF ~r.ok THEN r
          ELSE LET item == ReadResponse(r.rest)
               IN IF item.ok
                  THEN Success(Array(Append(r.value.items, item.value)), item.rest)
                  ELSE Failure
    IN FoldLeft(step, Success(Array(<<>>), in), [i \in 1 .. n |-> i])

ReadResponse(in) ==
    LET raw == ReadUntil(in)
        line == SubSeq(raw, 1, Len(raw) - 2)
        body == Tail(line)
        rest == SubSeq(in, Len(raw) + 1, Len(in))
    IN CASE ~IsLine(raw) \/ line = <<>> -> Failure
         [] line[1] = Plus  -> Success(Simple(body), rest)
         [] line[1] = Minus -> Success(Error(body), rest)
         [] line[1] \notin {Plus, Minus, Colon, Dollar, Star} \/ ~IsInteger(body) -> Failure
         [] line[1] = Colon  -> Success(Integer(IntegerOf(body)), rest)
         [] line[1] = Dollar -> ReadBulk(IntegerOf(body), rest)
         [] line[1] = Star   -> ReadArray(IntegerOf(body), rest)

-----------------------------------------------------------------------------
Init ==
    /\ values \in Streams
    /\ cut \in 0 .. Len(Encoded(values))
    /\ bytes = SubSeq(Encoded(values), 1, cut)
    /\ got = <<>> /\ status = "open"

Read ==
    LET r == ReadResponse(bytes) IN
    /\ status = "open"
    /\ \/ /\ r.ok
          /\ got' = Append(got, r.value) /\ bytes' = r.rest
          /\ UNCHANGED status
       \/ ~r.ok /\ status' = "failed" /\ UNCHANGED <<got, bytes>>
    /\ UNCHANGED <<values, cut>>

Next == Read

Spec == Init /\ [][Next]_vars

-----------------------------------------------------------------------------
\* Responses on one connection are read one by one, each as the server sent it,
\* and each from its own bytes: after n of them the reader stands at the first
\* byte of the next (data that holds CRLF, null and arrays included).
ReadsInStep ==
    /\ IsPrefix(got, values)
    /\ status = "open" =>
         bytes = SubSeq(Encoded(values), Len(Encoded(SubSeq(values, 1, Len(got)))) + 1, cut)

\* A response cut short by the end of the connection is an error, never a value;
\* and no response that arrived whole is lost (read_line, parse_bulk_len).
CutIsNoValue ==
    LET upto(n) == Len(Encoded(SubSeq(values, 1, n))) IN
    /\ upto(Len(got)) <= cut
    /\ status = "failed" => Len(got) = Len(values) \/ upto(Len(got) + 1) > cut

=============================================================================
