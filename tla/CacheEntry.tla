----------------------------- MODULE CacheEntry -----------------------------
(***************************************************************************)
(* A cache entry (hkv-common/src/types.rs) in the hands of a caller that    *)
(* makes any sequence of the public calls.  The entry reads SystemTime, a   *)
(* wall clock: it advances with the time that passes, and it may be set.    *)
(***************************************************************************)
EXTENDS EntryState

vars == <<time, wall, ttl, entry, asked, raised, seen, writes>>

\* A caller with a first entry, of any bytes and of no limit.
Init ==
    /\ time = 0 /\ wall = 0
    /\ ttl = Unlimited
    /\ \E k \in Strings(MaxKeySize), v \in Strings(MaxValueSize) :
         /\ entry = EntryNew(k, v, 0, ttl.nanos, wall)
         /\ asked = Asked(k, v)
    /\ raised = {VALID} /\ seen = 0 /\ writes = 0

-----------------------------------------------------------------------------
\* Ttl::from_duration, and Ttl::INFINITE.
FromDuration(d) ==
    /\ ttl' = [nanos |-> TtlFromDuration(d, wall), due |-> time + d, skew |-> Skew]
    /\ UNCHANGED <<time, wall, entry, asked, raised, seen, writes>>

Infinite ==
    /\ ttl' = Unlimited
    /\ UNCHANGED <<time, wall, entry, asked, raised, seen, writes>>

\* An entry of the bytes k and v with the Ttl at hand, at Version::ZERO; it reads the
\* clock anew.  Key::new and Value::new refuse what is too long.  A reader takes the
\* version.
New(k, v) ==
    /\ Len(k) <= MaxKeySize /\ Len(v) <= MaxValueSize
    /\ entry' = EntryNew(k, v, 0, ttl.nanos, wall)
    /\ asked' = Asked(k, v)
    /\ raised' = {VALID}
    /\ seen' = 0 /\ writes' = 0
    /\ UNCHANGED <<time, wall, ttl>>

Touch ==
    /\ entry' = [entry EXCEPT !.metadata.accessed_at = wall]
    /\ UNCHANGED <<time, wall, ttl, asked, raised, seen, writes>>

Set(f) ==
    /\ entry' = [entry EXCEPT !.metadata.flags = SetFlag(@, f)]
    /\ raised' = raised \union {f}
    /\ UNCHANGED <<time, wall, ttl, asked, seen, writes>>

Clear(f) ==
    /\ entry' = [entry EXCEPT !.metadata.flags = ClearFlag(@, f)]
    /\ raised' = raised \ {f}
    /\ UNCHANGED <<time, wall, ttl, asked, seen, writes>>

\* A reader takes the version, to tell later whether the entry has changed.
Observe ==
    /\ seen' = entry.metadata.version /\ writes' = 0
    /\ UNCHANGED <<time, wall, ttl, entry, asked, raised>>

\* A writer increments the version; fewer than 2^64 times while a reader waits.
Write ==
    /\ writes < UMax
    /\ entry' = [entry EXCEPT !.metadata.version = Increment(@)]
    /\ writes' = writes + 1
    /\ UNCHANGED <<time, wall, ttl, asked, raised, seen>>

\* Time passes, and the clock with it.
Tick ==
    /\ time < MaxNanos /\ wall < MaxNanos
    /\ time' = time + 1 /\ wall' = wall + 1
    /\ UNCHANGED <<ttl, entry, asked, raised, seen, writes>>

\* The clock is set, by its owner or by NTP.
SetClock ==
    /\ \E n \in 0 .. MaxNanos : wall' = n
    /\ UNCHANGED <<time, ttl, entry, asked, raised, seen, writes>>

Next ==
    \/ \E d \in Durations : FromDuration(d)
    \/ Infinite
    \/ \E k \in Strings(MaxKeySize + 1), v \in Strings(MaxValueSize) : New(k, v)
    \/ \E f \in Flags : Set(f) \/ Clear(f)
    \/ Touch \/ Observe \/ Write \/ Tick \/ SetClock

Spec == Init /\ [][Next]_vars

=============================================================================
