----------------------------- MODULE RespParser -----------------------------
(***************************************************************************)
(* The server's streaming parser (hkv-server/src/protocol.rs), fed by the   *)
(* inner and outer loop of handle_connection_with_metrics: the socket       *)
(* delivers what the client encoded in pieces of any size.                  *)
(***************************************************************************)
EXTENDS Codec, FiniteSets, FiniteSetsExt

CONSTANTS
    Commands,   \* commands, as sequences of arguments
    MaxStream,  \* bound on the commands in a stream
    Garbage     \* frames that are not RESP2 arrays of bulk strings

VARIABLES
    cmds,       \* the commands the client sends
    bad,        \* what it sends after them: <<>> or a frame of Garbage
    read,       \* how many bytes the socket has delivered
    buf,        \* the connection's buffer
    pc,         \* "read", "parse", or "failed"
    state, args, remaining, bulk_len,  \* the fields of RespParser
    out         \* what parse has returned

parser == <<state, args, remaining, bulk_len>>
vars == <<cmds, bad, read, buf, pc, parser, out>>

Encode(cs) == FlattenSeq([i \in 1 .. Len(cs) |-> EncodeCommand(cs[i])])
Incoming == Encode(cmds) \o bad

-----------------------------------------------------------------------------
(* Ways in which the code could be wrong. *)

\* parse that waits for a byte past the argument.
WaitsForMore == Len(buf) <= bulk_len + 2

\* parse that does not check the two bytes after an argument.
Unchecked == TRUE

-----------------------------------------------------------------------------
Init ==
    /\ cmds \in SeqOf(Commands, MaxStream)
    /\ bad \in Garbage \union {<<>>}
    /\ read = 0 /\ buf = <<>> /\ pc = "read"
    /\ state = "ArrayLen" /\ args = <<>> /\ remaining = 0 /\ bulk_len = 0
    /\ out = <<>>

\* read_buf appends what has arrived.
Deliver ==
    /\ pc = "read"
    /\ \E n \in read + 1 .. Len(Incoming) :
         /\ buf' = buf \o SubSeq(Incoming, read + 1, n)
         /\ read' = n
    /\ pc' = "parse"
    /\ UNCHANGED <<cmds, bad, parser, out>>

\* The end of the first line: read_line.
EndsAt(i) == i > 1 /\ buf[i] = LF /\ buf[i - 1] = CR
Ends == {i \in 1 .. Len(buf) : EndsAt(i)}
Line == SubSeq(buf, 1, Min(Ends) - 2)
DropLine == buf' = SubSeq(buf, Min(Ends) + 1, Len(buf))

\* An argument and its CRLF are not all there.
Short == Len(buf) < bulk_len + 2

\* parse returns Ok(None).
NeedMore ==
    /\ pc = "parse"
    /\ IF state = "BulkData" THEN Short ELSE Ends = {}
    /\ pc' = "read"
    /\ UNCHANGED <<cmds, bad, read, buf, parser, out>>

\* The line is a count or length, announced by the byte b.
Announced(b) == Line # <<>> /\ Head(Line) = b /\ IsUnsigned(Tail(Line))

\* parse returns Err(Protocol), having taken the line, and the connection ends.
BadLine ==
    /\ pc = "parse" /\ state # "BulkData" /\ Ends # {}
    /\ ~Announced(IF state = "ArrayLen" THEN Star ELSE Dollar)
    /\ DropLine
    /\ pc' = "failed"
    /\ UNCHANGED <<cmds, bad, read, parser, out>>

\* Where parse goes on with n arguments to come.
StateFor(n) == IF n = 0 THEN "ArrayLen" ELSE "BulkLen"

ArrayLen ==
    /\ pc = "parse" /\ state = "ArrayLen" /\ Ends # {}
    /\ Announced(Star)
    /\ DropLine
    /\ args' = <<>>
    /\ remaining' = Unsigned(Tail(Line))
    /\ state' = StateFor(remaining')
    /\ \/ remaining' = 0 /\ out' = Append(out, <<>>)
       \/ remaining' > 0 /\ UNCHANGED out
    /\ UNCHANGED <<cmds, bad, read, pc, bulk_len>>

BulkLen ==
    /\ pc = "parse" /\ state = "BulkLen" /\ Ends # {}
    /\ Announced(Dollar)
    /\ DropLine
    /\ bulk_len' = Unsigned(Tail(Line))
    /\ state' = "BulkData"
    /\ UNCHANGED <<cmds, bad, read, pc, args, remaining, out>>

\* The two bytes after the argument.
Terminated == SubSeq(buf, bulk_len + 1, bulk_len + 2) = CRLF

DropArg == buf' = SubSeq(buf, bulk_len + 3, Len(buf))

\* The argument is not followed by CRLF: Err(Protocol).
BadData ==
    /\ pc = "parse" /\ state = "BulkData" /\ ~Short
    /\ ~Terminated
    /\ buf' = SubSeq(buf, bulk_len + (IF buf[bulk_len + 1] = CR THEN 3 ELSE 2), Len(buf))
    /\ pc' = "failed"
    /\ UNCHANGED <<cmds, bad, read, parser, out>>

BulkData ==
    /\ pc = "parse" /\ state = "BulkData" /\ ~Short
    /\ Terminated
    /\ DropArg
    /\ remaining' = remaining - 1
    /\ state' = StateFor(remaining')
    /\ LET more == Append(args, SubSeq(buf, 1, bulk_len)) IN
         \/ /\ remaining' > 0
            /\ args' = more /\ UNCHANGED out
         \/ /\ remaining' = 0
            /\ args' = <<>> /\ out' = Append(out, more)
    /\ UNCHANGED <<cmds, bad, read, pc, bulk_len>>

Next == Deliver \/ NeedMore \/ BadLine \/ ArrayLen \/ BulkLen \/ BadData \/ BulkData

Spec == Init /\ [][Next]_vars

-----------------------------------------------------------------------------
\* The commands whose last byte is among the first n.
Whole(n) == CHOOSE k \in 0 .. Len(cmds) :
              /\ Len(Encode(SubSeq(cmds, 1, k))) <= n
              /\ k = Len(cmds) \/ Len(Encode(SubSeq(cmds, 1, k + 1))) > n

\* However the socket cuts the stream, whenever the parser asks for more it has
\* returned exactly the commands that had arrived whole, each as the client gave
\* it to encode_command, arguments that hold CRLF included; and it has kept none
\* back (RespParser::parse).
ChunkingInvisible ==
    /\ pc = "read" => out = SubSeq(cmds, 1, Whole(read))
    /\ IsPrefix(out, cmds)

\* A connection fails only on a frame that no client encodes, after every command
\* before it was returned, and by the time that the frame has arrived.
RefusesGarbage ==
    /\ pc = "failed" => bad # <<>> /\ out = cmds
    /\ pc = "read" /\ read = Len(Incoming) => bad = <<>>

=============================================================================
