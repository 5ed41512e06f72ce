----------------------------- MODULE EntryState -----------------------------
(***************************************************************************)
(* A cache entry (hkv-common/src/types.rs) with the clock that it reads and *)
(* with what its caller has asked for, and what is to hold of them.         *)
(* CacheEntry has the calls.                                                *)
(***************************************************************************)
EXTENDS EntryTypes

VARIABLES
    time,      \* nanoseconds that have passed
    wall,      \* nanoseconds of SystemTime since UNIX_EPOCH
    ttl,       \* the Ttl that the caller holds, and when it is due
    entry,     \* the Entry
    asked,     \* what it was made of, and when
    raised,    \* flags that are set, by the calls made
    seen,      \* the version that a reader has taken
    writes     \* increments since then

\* By how much the clock is behind: it changes when the clock is set, and only then.
Skew == time - wall

\* due of a Ttl that is INFINITE.
Never == -1
Unlimited == [nanos |-> INFINITE, due |-> Never, skew |-> 0]

Asked(k, v) ==
    [key |-> k, value |-> v, due |-> ttl.due, skew |-> ttl.skew,
     born |-> time, bornSkew |-> Skew]

-----------------------------------------------------------------------------
\* An entry is what the calls made of it.  Its key and value equal others exactly if
\* those are of the same bytes: the fill of a short one is not mistaken for data, nor
\* a prefix for the whole (eq and as_bytes of Key and Value).  Each flag is as the
\* last call for it left it, whatever was done to the others, and the entry is valid
\* exactly if it is VALID, not INVALIDATED and not expired (EntryFlags, is_valid).
EntryAsAsked ==
    /\ \A d \in Strings(MaxKeySize) :
         Same(entry.key, FixedNew(d, MaxKeySize)) <=> d = asked.key
    /\ \A d \in Strings(MaxValueSize) :
         Same(entry.value, FixedNew(d, MaxValueSize)) <=> d = asked.value
    /\ entry.metadata.key_len = Len(asked.key)
    /\ entry.metadata.value_len = Len(asked.value)
    /\ {f \in Flags : Has(entry.metadata.flags, f)} = raised
    /\ EntryIsValid(entry, wall) <=>
         /\ VALID \in raised /\ INVALIDATED \notin raised
         /\ ~TtlIsExpired(entry.metadata.ttl, wall)

\* A reader that compares versions finds a difference exactly if the entry was
\* written since, also across the wrap at u64::MAX ("Detecting stale reads").
VersionTellsStale == entry.metadata.version = seen <=> writes = 0

\* Whether the entry has outlived what its Ttl was made of.
Due == asked.due # Never /\ time >= asked.due

\* The sum of clock and duration is less than u64::MAX, which stands for INFINITE.
DueFits == asked.due # Never => asked.due - asked.skew < UMax

\* An entry expires when its time to live has passed since from_duration, not before
\* and not later, and one that is INFINITE never does, wherever the clock has not been
\* moved in between, or has been moved back to where it would be; and so for its age
\* since Entry::new (from_duration, is_expired, age_nanos).
DeadlineKept ==
    LET expired == TtlIsExpired(entry.metadata.ttl, wall)
    IN /\ asked.due = Never => ~expired
       /\ Skew = asked.skew /\ DueFits => (expired <=> Due)
       /\ Skew = asked.bornSkew => AgeNanos(entry.metadata, wall) = time - asked.born

\* Ttl "uses nanoseconds since CLOCK_MONOTONIC (not wall clock) to avoid issues with
\* time adjustments" (types.rs:275): an entry expires when its time to live has passed,
\* also after the clock was set.
ExpiryIgnoresAdjustments ==
    DueFits => (TtlIsExpired(entry.metadata.ttl, wall) <=> Due)

=============================================================================
