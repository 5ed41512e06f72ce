-------------------------------- MODULE Codec --------------------------------
(***************************************************************************)
(* The bytes of RESP2 on both ends: commands as the client encodes them     *)
(* (hkv-client/src/resp.rs), responses as the server does (hkv-server/src/  *)
(* server.rs), and the numbers in both.  A byte is its ASCII code.          *)
(***************************************************************************)
EXTENDS Integers, Sequences, SequencesExt

CONSTANTS
    UMax,  \* u64::MAX and usize::MAX
    IMax   \* i64::MAX

CR == 13
LF == 10
CRLF == <<CR, LF>>
Star == 42
Dollar == 36
Colon == 58
Plus == 43
Minus == 45
Zero == 48

IsDigit(b) == b \in Zero .. Zero + 9

-----------------------------------------------------------------------------
(* Numbers. *)

\* The decimal digits of a number: push_usize, encode_u64 and to_string.
Digits(n) ==
    LET d[m \in 0 .. n] ==
          IF m < 10 THEN <<Zero + m>> ELSE Append(d[m \div 10], Zero + (m % 10))
    IN d[n]

\* to_string of an i64.
Signed(n) == IF n < 0 THEN <<Minus>> \o Digits(-n) ELSE Digits(n)

\* A digit more, saturating at max.
PushDigit(v, b, max) == Min({max, Min({max, v * 10}) + (b - Zero)})

AllDigits(data) == \A i \in 1 .. Len(data) : IsDigit(data[i])
Accumulate(data, max) == FoldLeft(LAMBDA v, b : PushDigit(v, b, max), 0, data)

\* parse_u64 of the server and parse_usize: what they accept, and its value.
IsUnsigned(data) == data # <<>> /\ AllDigits(data)
Unsigned(data) == Accumulate(data, UMax)

\* parse_i64: what it accepts (a lone sign too), and its value.
Magnitude(data) == IF Head(data) = Minus THEN Tail(data) ELSE data
IsInteger(data) == data # <<>> /\ AllDigits(Magnitude(data))
IntegerOf(data) ==
    LET n == Accumulate(Magnitude(data), IMax)
    IN IF Head(data) = Minus THEN -n ELSE n

-----------------------------------------------------------------------------
(* Commands: encode_command. *)

EncodeArg(arg) == <<Dollar>> \o Digits(Len(arg)) \o CRLF \o arg \o CRLF

EncodeCommand(args) ==
    FoldLeft(LAMBDA out, arg : out \o EncodeArg(arg),
             <<Star>> \o Digits(Len(args)) \o CRLF, args)

-----------------------------------------------------------------------------
(* Responses: RespValue. *)

Value(type, data, int, items) == [type |-> type, data |-> data, int |-> int, items |-> items]
Simple(text)  == Value("simple", text, 0, <<>>)
Error(text)   == Value("error", text, 0, <<>>)
Integer(n)    == Value("integer", <<>>, n, <<>>)
Bulk(data)    == Value("bulk", data, 0, <<>>)
Null          == Value("null", <<>>, 0, <<>>)
Array(items)  == Value("array", <<>>, 0, items)

\* resp_simple, resp_error (whose text begins with "ERR "), resp_integer,
\* resp_bulk and resp_null; the server sends no arrays, which are written here as
\* encode_command writes them.
EncodeResponse(v) ==
    CASE v.type = "simple"  -> <<Plus>> \o v.data \o CRLF
      [] v.type = "error"   -> <<Minus>> \o v.data \o CRLF
      [] v.type = "integer" -> <<Colon>> \o Signed(v.int) \o CRLF
      [] v.type = "bulk"    -> EncodeArg(v.data)
      [] v.type = "null"    -> <<Dollar>> \o Signed(-1) \o CRLF
      [] v.type = "array"   -> EncodeCommand([i \in 1 .. Len(v.items) |-> v.items[i].data])

=============================================================================
