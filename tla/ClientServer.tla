----------------------------- MODULE ClientServer -----------------------------
(***************************************************************************)
(* The methods of KVClient (hkv-client/src/client.rs) over the server: the  *)
(* command a method sends, and what it makes of the response.  The pool     *)
(* that carries them is ConnectionPool, the bytes are Codec.                *)
(***************************************************************************)
EXTENDS Server

CONSTANT Methods  \* the calls of methods that clients make

\* The token of a number of seconds: encode_u64.
NumeralOf(n) == CHOOSE x \in DOMAIN Numerals : Numerals[x] = n

\* Duration::as_secs; durations are in ticks.
AsSecs(d) == d \div TicksPerSec

\* The command that a method sends.
CommandOf(m) ==
    CASE m.method = "get"          -> <<"GET", m.key>>
      [] m.method = "set"          -> <<"SET", m.key, m.value>>
      [] m.method = "set_with_ttl" -> <<"SET", m.key, m.value, "EX", NumeralOf(AsSecs(m.ttl))>>
      [] m.method = "delete"       -> <<"DEL", m.key>>
      [] m.method = "expire"       -> <<"EXPIRE", m.key, NumeralOf(AsSecs(m.ttl))>>
      [] m.method = "ttl"          -> <<"TTL", m.key>>
      [] m.method = "ping"         -> <<"PING">> \o m.payload
      [] m.method = "info"         -> <<"INFO">>

\* The methods of KVClient: ping takes an optional payload, and encode_u64 has a
\* token for every number of seconds.
ASSUME MethodAssumption ==
    \A m \in Methods :
        /\ m.method \in {"get", "set", "set_with_ttl", "delete", "expire", "ttl", "ping", "info"}
        /\ m.method = "ping" => m.payload \in Seq(STRING) /\ Len(m.payload) <= 1
        /\ m.method \in {"set_with_ttl", "expire"} =>
             AsSecs(m.ttl) \in {Numerals[x] : x \in DOMAIN Numerals}

ClientCommands == {CommandOf(m) : m \in Methods}

\* Results: an Ok value, with the bytes or the number in it, or a ClientError.
Ok(kind, text, n) == <<kind, text, n>>
Err(e) == <<e, "", 0>>
Bool(b) == Ok(IF b THEN "true" ELSE "false", "", 0)

\* delete's test of the count.
Removed(n) == n > 0

\* What a method returns for a response; a is the command that it sent.
ResultOf(a, r) ==
    CASE r.type = "error" -> Err("Server")
      [] r.type = "null" /\ a[1] = "GET" -> Ok("None", "", 0)
      [] r.type = "bulk" /\ a[1] \in {"GET", "INFO", "PING"} -> Ok("Some", r.text, 0)
      [] r.type = "simple" /\ a[1] = "PING" -> Ok("Some", r.text, 0)
      [] r.type = "simple" /\ a[1] = "SET" -> Ok("unit", "", 0)
      [] r.type = "integer" /\ a[1] = "DEL" -> Bool(Removed(r.int))
      [] r.type = "integer" /\ a[1] = "EXPIRE" -> Bool(r.int = 1)
      [] r.type = "integer" /\ a[1] = "TTL" /\ r.int = -2 -> Ok("Missing", "", 0)
      [] r.type = "integer" /\ a[1] = "TTL" /\ r.int = -1 -> Ok("NoExpiry", "", 0)
      [] r.type = "integer" /\ a[1] = "TTL" /\ r.int >= 0 -> Ok("ExpiresIn", "", r.int)
      [] OTHER -> Err("UnexpectedResponse")

-----------------------------------------------------------------------------
\* What a client must learn when the engine's answer to its last call was e.
Meaning(a, e) ==
    IF e = <<>>
      THEN Ok("Some", IF a[1] = "INFO" THEN "info" ELSE IF Len(a) = 2 THEN a[2] ELSE "PONG", 0)
      ELSE CASE e[1] = "Value" -> Ok("Some", e[2], 0)
             [] e[1] \in {"None", "true", "false", "Missing", "NoExpiry"} -> Ok(e[1], "", 0)
             [] e[1] = "Ok" -> IF a[1] = "EXPIRE" THEN Bool(TRUE) ELSE Ok("unit", "", 0)
             [] e[1] = "NotFound" -> IF a[1] = "EXPIRE" THEN Bool(FALSE) ELSE Err("Server")
             [] e[1] = "ExpiresIn" -> Ok("ExpiresIn", "", AsSecs(e[2]))

\* The i-th response that reaches a client is the engine's answer to its i-th
\* command: neither the order of responses, nor the encoding of results by the
\* handlers, nor the client's reading of them (-2 and -1 of TTL, 0 and 1, null)
\* loses or confuses anything, and no method meets an unexpected response.
ClientAgrees ==
    \A c \in Conns : \A i \in Taken(c, Len(answers[c])) : sent[c][i] \in ClientCommands =>
        ResultOf(sent[c][i], answers[c][i].reply) = Meaning(sent[c][i], answers[c][i].engine)

\* A value that set stored without an expiration does not expire, as the
\* documentation of KVClient::set says, unless expire is called for it.
SetWithoutExpiration ==
    \A c \in Conns : \A i \in Taken(c, Len(answers[c])) :
        (Len(sent[c][i]) = 3 /\ sent[c][i][1] = "SET") =>
            LET e == store[sent[c][i][2]]
            IN e # Absent /\ e.value = sent[c][i][3] => e.expires_at = None

=============================================================================
