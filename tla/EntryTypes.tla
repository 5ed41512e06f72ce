----------------------------- MODULE EntryTypes -----------------------------
(***************************************************************************)
(* The values that a cache entry is made of (hkv-common/src/types.rs):      *)
(* bounded keys and values, version, time to live, flags, metadata.         *)
(* CacheEntry has the calls that make and change an entry.                  *)
(***************************************************************************)
EXTENDS Integers, Sequences

CONSTANTS
    Bytes,         \* values of a byte, 0 among them
    MaxKeySize,    \* MAX_KEY_SIZE
    MaxValueSize,  \* MAX_VALUE_SIZE
    Durations,     \* times to live that are asked for
    UMax,          \* u64::MAX
    MaxNanos       \* bound on the time that passes and on the wall clock

ASSUME EntryAssumption ==
    /\ 0 \in Bytes
    /\ MaxKeySize \in Nat /\ MaxValueSize \in Nat
    /\ Durations \subseteq Nat
    /\ UMax \in Nat /\ MaxNanos \in 0 .. UMax - 1

VALID       == 1
EVICTING    == 2
INVALIDATED == 4
Flags == {VALID, EVICTING, INVALIDATED}

INFINITE == UMax

-----------------------------------------------------------------------------
(* Ways in which the code could be wrong. *)

\* clear that toggles the bits.
Toggles(flags, f) == IF (flags \div f) % 2 = 1 THEN flags - f ELSE flags + f

\* increment with saturating_add.
Saturates(v) == IF v = UMax THEN v ELSE v + 1

\* is_expired with > for >=.
StrictlyPast(ttl, now) == ttl # INFINITE /\ now > ttl

-----------------------------------------------------------------------------
(* Keys and values: a length and a zero-filled buffer. *)

FixedNew(d, size) ==
    [len |-> Len(d), data |-> [i \in 1 .. size |-> IF i <= Len(d) THEN d[i] ELSE 0]]

AsBytes(b) == SubSeq(b.data, 1, b.len)
Same(a, b) == a.len = b.len /\ AsBytes(a) = AsBytes(b)

Strings(size) == UNION {[1 .. n -> Bytes] : n \in 0 .. size}

-----------------------------------------------------------------------------
(* Version, Ttl, EntryFlags. *)

Increment(v) == (v + 1) % (UMax + 1)

TtlFromDuration(d, now) == (now + d) % (UMax + 1)
TtlIsExpired(ttl, now) == ttl # INFINITE /\ now >= ttl

\* The masks are of one bit: f is a power of two, and its bit is read, added or taken
\* away.
Has(flags, f) == (flags \div f) % 2 = 1
SetFlag(flags, f) == IF Has(flags, f) THEN flags ELSE flags + f
ClearFlag(flags, f) == IF Has(flags, f) THEN flags - f ELSE flags

-----------------------------------------------------------------------------
(* EntryMetadata, Entry. *)

MetadataNew(version, ttl, key_len, value_len, now) ==
    [version |-> version, ttl |-> ttl, created_at |-> now, accessed_at |-> now,
     flags |-> VALID, key_len |-> key_len, value_len |-> value_len]

AgeNanos(m, now) == IF now < m.created_at THEN 0 ELSE now - m.created_at

\* Key::new and Value::new of the bytes k and v, which are not too long, and an Entry.
EntryNew(k, v, version, ttl, now) ==
    LET key == FixedNew(k, MaxKeySize)
        value == FixedNew(v, MaxValueSize)
    IN [key |-> key, value |-> value,
        metadata |-> MetadataNew(version, ttl, key.len, value.len, now)]

EntryIsValid(e, now) ==
    /\ Has(e.metadata.flags, VALID)
    /\ ~TtlIsExpired(e.metadata.ttl, now)
    /\ ~Has(e.metadata.flags, INVALIDATED)

=============================================================================
