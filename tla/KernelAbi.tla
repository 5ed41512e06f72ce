------------------------------ MODULE KernelAbi ------------------------------
(***************************************************************************)
(* What user space and the kernel cache have to agree on: the memory layout *)
(* of entries and messages (hkv-common/src/types.rs, protocol.rs), the      *)
(* commands (ioctl.rs) and the error codes (error.rs).  Nothing in the      *)
(* repository sends a message yet; these are the pure functions and types   *)
(* that both sides are to use.                                              *)
(***************************************************************************)
EXTENDS Integers, Sequences, SequencesExt, FiniteSets, TLC

-----------------------------------------------------------------------------
(* Sizes, alignments and places of fields under repr(C). *)

Scalar(n) == [size |-> n, align |-> n]
ArrayOf(t, n) == [size |-> n * t.size, align |-> t.align]

Field(name, t) == [name |-> name, size |-> t.size, align |-> t.align]

RoundUp(n, a) == ((n + a - 1) \div a) * a
AlignOf(fs) == Max({f.align : f \in ToSet(fs)})

\* The fields one after the other, each at the first place that is aligned for it.
Placed(fs) ==
    LET Used(ps) == IF ps = <<>> THEN 0 ELSE Last(ps).at + Last(ps).size
        Place(ps, f) ==
            Append(ps, [name |-> f.name, at |-> RoundUp(Used(ps), f.align), size |-> f.size])
    IN FoldLeft(Place, <<>>, fs)

\* The size of a struct is a multiple of its alignment.
Struct(fs) ==
    LET last == Last(Placed(fs))
    IN [size |-> RoundUp(last.at + last.size, AlignOf(fs)), align |-> AlignOf(fs)]

U8 == Scalar(1)
U16 == Scalar(2)
U32 == Scalar(4)
U64 == Scalar(8)

-----------------------------------------------------------------------------
(* The types that messages are made of. *)

MAX_BATCH_SIZE == 1000
BATCH_RESULT_BYTES == (MAX_BATCH_SIZE + 7) \div 8

IoctlHeader ==
    <<Field("magic", U8), Field("version", U8), Field("command", U8), Field("reserved", U8)>>
Key == <<Field("len", U16), Field("data", ArrayOf(U8, 256))>>
Value == <<Field("len", U16), Field("data", ArrayOf(U8, 1024))>>
Version == U64
Ttl == U64
EntryFlags == U8
EntryMetadata ==
    <<Field("version", Version), Field("ttl", Ttl), Field("created_at", U64),
      Field("accessed_at", U64), Field("flags", EntryFlags), Field("key_len", U16),
      Field("value_len", U16)>>
Entry ==
    <<Field("key", Struct(Key)), Field("value", Struct(Value)),
      Field("metadata", Struct(EntryMetadata))>>
BatchPromoteEntry ==
    <<Field("key", Struct(Key)), Field("value", Struct(Value)), Field("version", Version),
      Field("ttl", Ttl)>>
CacheStats ==
    LET names == <<"lookups", "hits", "misses", "stale_hits", "promotions", "demotions",
                   "evictions", "invalidations", "used_bytes", "max_bytes", "entry_count",
                   "lock_contentions", "rcu_grace_periods">>
    IN [i \in DOMAIN names |-> Field(names[i], U64)]

-----------------------------------------------------------------------------
(* Messages: the command that new puts into the header, and the fields. *)

Message(c, payload) ==
    [command |-> c, fields |-> <<Field("header", Struct(IoctlHeader))>> \o payload]

ReadRequest == Message("Read", <<Field("key", Struct(Key))>>)
ReadResponse == Message("Read", <<Field("status", U16), Field("value", Struct(Value))>>)
PromoteRequest ==
    Message("Promote", <<Field("key", Struct(Key)), Field("value", Struct(Value)),
                         Field("version", Version), Field("ttl", Ttl)>>)
PromoteResponse == Message("Promote", <<Field("status", U16), Field("reserved", U16)>>)
BatchPromoteRequest ==
    Message("BatchPromote",
            <<Field("count", U16), Field("reserved", U16),
              Field("entries", ArrayOf(Struct(BatchPromoteEntry), MAX_BATCH_SIZE))>>)
BatchPromoteResponse ==
    Message("BatchPromote", <<Field("count", U16), Field("reserved", U16),
                              Field("results", ArrayOf(U8, BATCH_RESULT_BYTES))>>)
DemoteRequest == Message("Demote", <<Field("key", Struct(Key))>>)
InvalidateRequest ==
    Message("Invalidate", <<Field("key", Struct(Key)), Field("version", Version)>>)
StatsRequest == Message("Stats", <<>>)
StatsResponse ==
    Message("Stats", <<Field("status", U16), Field("reserved", U16),
                       Field("stats", Struct(CacheStats))>>)

\* ConfigRequest with the watermarks in the other order.
WatermarksSwapped ==
    Message("Config", <<Field("max_bytes", U64), Field("max_entries", U64),
                        Field("low_watermark", U32), Field("high_watermark", U32),
                        Field("reserved", U64)>>)

ConfigRequest ==
    Message("Config", <<Field("max_bytes", U64), Field("max_entries", U64),
                        Field("high_watermark", U32), Field("low_watermark", U32),
                        Field("reserved", U64)>>)
FlushRequest == Message("Flush", <<>>)

\* The messages of a command; the others have no response.
RequestOf ==
    [Read |-> ReadRequest, Promote |-> PromoteRequest, BatchPromote |-> BatchPromoteRequest,
     Demote |-> DemoteRequest, Invalidate |-> InvalidateRequest, Stats |-> StatsRequest,
     Config |-> ConfigRequest, Flush |-> FlushRequest]
ResponseOf ==
    [Read |-> ReadResponse, Promote |-> PromoteResponse,
     BatchPromote |-> BatchPromoteResponse, Stats |-> StatsResponse]

-----------------------------------------------------------------------------
(* Commands; "None" is None. *)

AsU8 == [Read |-> 0, Promote |-> 1, BatchPromote |-> 2, Demote |-> 3, Invalidate |-> 4,
         Stats |-> 5, Config |-> 6, Flush |-> 7]
IoctlCommands == DOMAIN AsU8
FromU8(n) ==
    LET names == <<"Read", "Promote", "BatchPromote", "Demote", "Invalidate", "Stats",
                   "Config", "Flush">>
    IN IF n + 1 \in DOMAIN names THEN names[n + 1] ELSE "None"

IsReadonly(c) == c \in {"Read", "Stats"}
IsWrite(c) == c \in {"Promote", "BatchPromote", "Demote", "Invalidate", "Flush"}
IsConfig(c) == c = "Config"

-----------------------------------------------------------------------------
(* Error codes. *)

STATUS_OK == 0
Code == [InvalidInput |-> 1, NotFound |-> 2, KeyTooLong |-> 3, ValueTooLong |-> 4,
         OutOfMemory |-> 10, CapacityExceeded |-> 11, InternalError |-> 12,
         Busy |-> 20, Timeout |-> 21, Interrupted |-> 22,
         VersionMismatch |-> 30, ProtocolViolation |-> 31, UnsupportedCommand |-> 32]
Errors == DOMAIN Code

FromCode(n) ==
    LET table == (1 :> "InvalidInput") @@ (2 :> "NotFound") @@ (3 :> "KeyTooLong")
              @@ (4 :> "ValueTooLong") @@ (10 :> "OutOfMemory") @@ (11 :> "CapacityExceeded")
              @@ (12 :> "InternalError") @@ (20 :> "Busy") @@ (21 :> "Timeout")
              @@ (22 :> "Interrupted") @@ (30 :> "VersionMismatch")
              @@ (31 :> "ProtocolViolation") @@ (32 :> "UnsupportedCommand")
    IN IF n \in DOMAIN table THEN table[n] ELSE "None"

Category(e) ==
    CASE e \in {"InvalidInput", "NotFound", "KeyTooLong", "ValueTooLong"} -> "Client"
      [] e \in {"OutOfMemory", "CapacityExceeded", "InternalError"} -> "Server"
      [] e \in {"Busy", "Timeout", "Interrupted"} -> "Transient"
      [] e \in {"VersionMismatch", "ProtocolViolation", "UnsupportedCommand"} -> "Protocol"

IsRetryable(e) == Category(e) = "Transient"

-----------------------------------------------------------------------------
(* The layouts as the documentation of types.rs and protocol.rs draws them:  *)
(* the boxes, from left to right, by the fields' names and with their bytes, *)
(* and the total.  The other side of the boundary is to be written by these. *)

Types == [IoctlHeader |-> IoctlHeader, Key |-> Key, Value |-> Value,
          EntryMetadata |-> EntryMetadata, Entry |-> Entry,
          ReadRequest |-> ReadRequest.fields, ReadResponse |-> ReadResponse.fields,
          PromoteRequest |-> PromoteRequest.fields, PromoteResponse |-> PromoteResponse.fields,
          BatchPromoteRequest |-> BatchPromoteRequest.fields,
          BatchPromoteResponse |-> BatchPromoteResponse.fields,
          DemoteRequest |-> DemoteRequest.fields,
          InvalidateRequest |-> InvalidateRequest.fields,
          StatsRequest |-> StatsRequest.fields, StatsResponse |-> StatsResponse.fields,
          ConfigRequest |-> ConfigRequest.fields, FlushRequest |-> FlushRequest.fields]

Drawing(boxes, total) == [boxes |-> boxes, total |-> total]
Drawn ==
    LET header == <<"header", 4>>
        key == <<"key", 258>>
        value == <<"value", 1026>>
        status == <<"status", 2>>
        count == <<"count", 2>>
        version == <<"version", 8>>
        ttl == <<"ttl", 8>>
        reserved == <<"reserved", 2>>
        Pad(n) == <<"pad", n>>
    IN [IoctlHeader |-> Drawing(<<<<"magic", 1>>, <<"version", 1>>, <<"command", 1>>,
                                  <<"reserved", 1>>>>, 4),
        Key |-> Drawing(<<<<"len", 2>>, <<"data", 256>>>>, 258),
        Value |-> Drawing(<<<<"len", 2>>, <<"data", 1024>>>>, 1026),
        EntryMetadata |-> Drawing(<<version, ttl, <<"created_at", 8>>, <<"accessed_at", 8>>,
                                    <<"flags", 1>>, Pad(1), <<"key_len", 2>>,
                                    <<"value_len", 2>>, Pad(2)>>, 40),
        Entry |-> Drawing(<<key, value, Pad(4), <<"metadata", 40>>>>, 1328),
        ReadRequest |-> Drawing(<<header, key>>, 262),
        ReadResponse |-> Drawing(<<header, status, value>>, 1032),
        PromoteRequest |-> Drawing(<<header, key, value, version, ttl>>, 1304),
        PromoteResponse |-> Drawing(<<header, status, reserved>>, 8),
        BatchPromoteRequest |-> Drawing(<<header, count, reserved, <<"entries", 1304000>>>>,
                                        1304008),
        BatchPromoteResponse |-> Drawing(<<header, count, reserved, <<"results", 125>>>>, 134),
        DemoteRequest |-> Drawing(<<header, key>>, 262),
        InvalidateRequest |-> Drawing(<<header, key, Pad(2), version>>, 272),
        StatsRequest |-> Drawing(<<header>>, 4),
        StatsResponse |-> Drawing(<<header, status, reserved, <<"stats", 104>>>>, 112),
        ConfigRequest |-> Drawing(<<header, Pad(4), <<"max_bytes", 8>>, <<"max_entries", 8>>,
                                    <<"high_watermark", 4>>, <<"low_watermark", 4>>,
                                    <<"reserved", 8>>>>, 40),
        FlushRequest |-> Drawing(<<header>>, 4)]

\* The boxes of a drawing that are fields, at the bytes where they begin.
FieldsDrawn(boxes) ==
    LET At(i) == FoldLeft(LAMBDA n, b : n + b[2], 0, SubSeq(boxes, 1, i - 1))
        places == [i \in DOMAIN boxes |->
                     [name |-> boxes[i][1], at |-> At(i), size |-> boxes[i][2]]]
    IN SelectSeq(places, LAMBDA p : p.name # "pad")

\* repr(C) puts the fields of each type, in the order of their declaration, at the
\* bytes where the documentation draws them, each as wide as drawn and with the padding
\* that is drawn, and the type is as large as it says: code on the other side of the
\* boundary that is written by the drawings reads what was written.
LayoutDocumented ==
    \A t \in DOMAIN Drawn :
        /\ Placed(Types[t]) = FieldsDrawn(Drawn[t].boxes)
        /\ Struct(Types[t]).size = Drawn[t].total

\* Commands and errors survive the boundary.  The header of a message decodes to the
\* message's command, a byte that is none to None, and a command reads, writes or
\* configures and does one of these only (as_u8, from_u8, is_readonly, is_write, is_config).  A
\* code decodes to the error that it was made of, STATUS_OK and any other to None
\* (code, from_code), and codes are grouped by intent, in tens, of which those from 20
\* are safe to retry and no others (category, is_retryable).
CodesDecode ==
    /\ \A n \in 0 .. 255 : {c \in IoctlCommands : AsU8[c] = n} = {FromU8(n)} \ {"None"}
    /\ \A c \in DOMAIN RequestOf : FromU8(AsU8[RequestOf[c].command]) = c
    /\ \A c \in DOMAIN ResponseOf : FromU8(AsU8[ResponseOf[c].command]) = c
    /\ \A c \in IoctlCommands :
         Cardinality({k \in {<<"reads", IsReadonly(c)>>, <<"writes", IsWrite(c)>>,
                             <<"configures", IsConfig(c)>>} : k[2]}) = 1
    /\ \A n \in 0 .. 65535 : {e \in Errors : Code[e] = n} = {FromCode(n)} \ {"None"}
    /\ FromCode(STATUS_OK) = "None"
    /\ \A e \in Errors :
         /\ Category(e) = <<"Client", "Server", "Transient", "Protocol">>[Code[e] \div 10 + 1]
         /\ IsRetryable(e) <=> Code[e] \in 20 .. 29

\* Both sides of the boundary can be written by the documentation: what one of them puts
\* into a message, the other finds (repr(C) of entries and messages), and what it
\* means by a command or an error, the other takes it for (from_u8, from_code, category).
AbiAsDocumented == LayoutDocumented /\ CodesDecode

=============================================================================
