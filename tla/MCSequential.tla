---------------------------- MODULE MCSequential ----------------------------
(***************************************************************************)
(* The parts that one thread at a time works on, for TLC: the structure of  *)
(* a shard under its lock (ShardInner), the server's parser (RespParser)    *)
(* and the client's reader (RespReader) of a connection, a cache entry      *)
(* (CacheEntry), and the pure functions of the kernel's ABI (KernelAbi).    *)
(* They share no state, so each is explored while the others are at rest.   *)
(***************************************************************************)
EXTENDS ShardInner, EntryState

CONSTANTS
    WordMax, IMax,  \* u64::MAX and i64::MAX of the codec
    Commands, MaxStream, Garbage, Streams

VARIABLES
    active,                                                           \* the part explored
    cmds, bad, read, buf, pc, state, args, remaining, bulk_len, out,  \* of RespParser
    values, cut, bytes, got, status                                   \* of RespReader

parser == <<cmds, bad, read, buf, pc, state, args, remaining, bulk_len, out>>
reader == <<values, cut, bytes, got, status>>
entries == <<time, wall, ttl, entry, asked, raised, seen, writes>>

Wire == INSTANCE Codec WITH UMax <- WordMax
Server == INSTANCE RespParser WITH UMax <- WordMax
Client == INSTANCE RespReader WITH UMax <- WordMax
Cache == INSTANCE CacheEntry
Abi == INSTANCE KernelAbi

-----------------------------------------------------------------------------
CRLF == Wire!CRLF
Digit(n) == Wire!Zero + n
OK == <<79, 75>>
PONG == <<80, 79, 78, 71>>
GET == <<71, 69, 84>>

\* Commands with no argument, with an empty one, with arguments that hold CRLF or
\* look like a length, and with a length and a count of two digits.
MCCommands ==
    {<<>>, <<GET>>, <<GET, <<>>>>, <<CRLF, <<Wire!Dollar, Digit(0)>> \o CRLF>>,
     <<[i \in 1 .. 10 |-> Wire!CR]>>, [i \in 1 .. 10 |-> <<>>]}

\* An inline command, an empty line, a missing count, an argument without
\* length, and lengths that do not match their argument.
MCGarbage ==
    LET one == <<Wire!Star, Digit(1)>> \o CRLF
    IN {GET \o CRLF, CRLF, <<Wire!Star>> \o CRLF, one \o GET \o CRLF,
        one \o <<Wire!Dollar, Digit(1)>> \o CRLF \o GET \o CRLF,
        one \o <<Wire!Dollar, Digit(1)>> \o CRLF \o <<Digit(0), Wire!CR, Wire!CR>>}

\* What the handlers send, data with CRLF in it, with a length of two digits, or
\* that looks like another response; and an array.
Responses ==
    {Wire!Simple(OK), Wire!Error(<<69, 82, 82, 32, 120>>), Wire!Null, Wire!Bulk(<<>>),
     Wire!Bulk(CRLF), Wire!Bulk(<<Wire!Dollar, Digit(0)>> \o CRLF \o <<Wire!LF, Wire!CR>>),
     Wire!Bulk([i \in 1 .. 11 |-> Wire!LF]), Wire!Integer(-2), Wire!Integer(0),
     Wire!Integer(10), Wire!Integer(127), Wire!Array(<<>>),
     Wire!Array(<<Wire!Bulk(PONG), Wire!Bulk(CRLF)>>)}

\* One or two of them, or any one integer but i64::MIN, which the server does not
\* send.
MCStreams ==
    UNION {[1 .. n -> Responses] : n \in 0 .. 2}
      \union {<<Wire!Integer(n)>> : n \in -IMax .. IMax}

-----------------------------------------------------------------------------
NoCommands == cmds = <<>> /\ bad = <<>>
NoResponses == values = <<>>
NoBytes == asked.key = <<>> /\ asked.value = <<>>

MCInit ==
    /\ \/ active \in {"shard", "abi"} /\ NoCommands /\ NoResponses
       \/ active = "parser" /\ NoResponses
       \/ active = "reader" /\ NoCommands
       \/ active = "entry" /\ NoCommands /\ NoResponses
    /\ Init /\ Server!Init /\ Client!Init /\ Cache!Init
    /\ active # "entry" => NoBytes

\* An entry's bytes, versions and flags while no time has passed, or its flags and its
\* expiry while it has no bytes and is not written: none of these bear on the others
\* but for EntryIsValid, which is about flags and expiry.
Focus == (time = 0 /\ wall = 0) \/ (NoBytes /\ seen = 0 /\ writes = 0)

MCNext ==
    /\ \/ active = "shard" /\ Next /\ UNCHANGED <<parser, reader, entries>>
       \/ active = "parser" /\ Server!Next /\ UNCHANGED <<vars, reader, entries>>
       \/ active = "reader" /\ Client!Next /\ UNCHANGED <<vars, parser, entries>>
       \/ active = "entry" /\ Cache!Next /\ Focus' /\ UNCHANGED <<vars, parser, reader>>
    /\ UNCHANGED active

MCSpec == MCInit /\ [][MCNext]_<<active, vars, parser, reader, entries>>

-----------------------------------------------------------------------------
\* However the bytes of a stream are cut into reads, parse returns the commands that
\* were sent, in order (RespParser).
ChunkingInvisible == Server!ChunkingInvisible

\* A frame that is no array of bulk strings is refused, after all commands before it
\* (RespParser).
RefusesGarbage == Server!RefusesGarbage

\* The client reads responses one by one, each as the server sent it, and stays in
\* step with it (RespReader, read_response).
ReadsInStep == Client!ReadsInStep

\* A response cut short by the end of the connection is an error, and none that
\* arrived whole is lost (RespReader, read_line and parse_bulk_len).
CutIsNoValue == Client!CutIsNoValue

\* Types are laid out as their documentation draws them, and commands and errors
\* survive the boundary to the kernel (KernelAbi: repr(C), from_u8, from_code, category).
AbiAsDocumented == active = "abi" => Abi!AbiAsDocumented

=============================================================================
