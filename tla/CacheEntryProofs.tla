-------------------------- MODULE CacheEntryProofs --------------------------
(***************************************************************************)
(* Proofs about CacheEntry, for any bytes, sizes and durations and any      *)
(* width of the version and of the clock.                                   *)
(***************************************************************************)
EXTENDS CacheEntry, TLAPS

\* A leaf goes to Zenon unless it names another prover.
USE Zenon

-----------------------------------------------------------------------------
(* Words and buffers. *)

\* A number that fits the word is its own remainder, and the next one is 0.
LEMMA Remainder ==
  ASSUME NEW a \in 0 .. UMax
  PROVE  a % (UMax + 1) = a /\ (UMax + 1) % (UMax + 1) = 0
BY EntryAssumption, SMTT(30)

\* increment adds one, and wraps at u64::MAX.
LEMMA IncrementWraps ==
  ASSUME NEW v \in 0 .. UMax
  PROVE  Increment(v) = IF v = UMax THEN 0 ELSE v + 1
BY Remainder, EntryAssumption, SMTT(30) DEF Increment

\* Each flag can be set and cleared without the others.
LEMMA FlagsApart ==
  ASSUME NEW w \in 0 .. 7, NEW f \in Flags
  PROVE  /\ SetFlag(w, f) \in 0 .. 7 /\ ClearFlag(w, f) \in 0 .. 7
         /\ Has(SetFlag(w, f), f) /\ ~Has(ClearFlag(w, f), f)
         /\ \A g \in Flags \ {f} : /\ Has(SetFlag(w, f), g) <=> Has(w, g)
                                   /\ Has(ClearFlag(w, f), g) <=> Has(w, g)
BY SMTT(30) DEF Flags, VALID, EVICTING, INVALIDATED, SetFlag, ClearFlag, Has

\* Two buffers compare equal exactly if they were made of the same bytes.
LEMMA SameBytes ==
  ASSUME NEW size \in Nat, NEW a \in Strings(size), NEW b \in Strings(size)
  PROVE  Same(FixedNew(a, size), FixedNew(b, size)) <=> b = a
<1>1. PICK m \in 0 .. size : a \in [1 .. m -> Bytes]
  BY DEF Strings
<1>2. PICK n \in 0 .. size : b \in [1 .. n -> Bytes]
  BY DEF Strings
<1>3. Len(a) = m /\ Len(b) = n
  BY <1>1, <1>2, SMTT(30)
<1>4. /\ AsBytes(FixedNew(a, size)) = [i \in 1 .. m |-> a[i]]
      /\ AsBytes(FixedNew(b, size)) = [i \in 1 .. n |-> b[i]]
  BY <1>3, SMTT(30) DEF AsBytes, FixedNew
<1>5. AsBytes(FixedNew(a, size)) = a /\ AsBytes(FixedNew(b, size)) = b
  BY <1>1, <1>2, <1>4
<1> QED
  BY <1>3, <1>5 DEF Same, FixedNew

-----------------------------------------------------------------------------
(* An entry is what the calls made of it. *)

Metadata ==
    [version : 0 .. UMax, ttl : 0 .. UMax, created_at : Int, accessed_at : Int,
     flags : 0 .. 7, key_len : Nat, value_len : Nat]

Typed ==
    /\ time \in 0 .. MaxNanos /\ wall \in 0 .. MaxNanos
    /\ raised \subseteq Flags
    /\ seen \in 0 .. UMax
    /\ writes \in 0 .. UMax

\* The nanoseconds of a Ttl are those that the clock shows when it is due, if it is
\* not set until then and if they fit the word.
Stands(nanos, due, skew) ==
    /\ nanos \in 0 .. UMax /\ due \in Int /\ skew \in Int
    /\ due = Never => nanos = INFINITE
    /\ due # Never /\ due - skew < UMax => nanos = due - skew

\* The caller's Ttl is such a one.
Held == Stands(ttl.nanos, ttl.due, ttl.skew)

\* The entry was made of what was asked for, with the Ttl at hand.
Made ==
    /\ asked \in [key : Strings(MaxKeySize), value : Strings(MaxValueSize),
                  due : Int, skew : Int, born : Nat, bornSkew : Int]
    /\ entry.key = FixedNew(asked.key, MaxKeySize)
    /\ entry.value = FixedNew(asked.value, MaxValueSize)
    /\ entry.metadata \in Metadata
    /\ entry.metadata.key_len = Len(asked.key)
    /\ entry.metadata.value_len = Len(asked.value)
    /\ Stands(entry.metadata.ttl, asked.due, asked.skew)
    /\ entry.metadata.created_at = asked.born - asked.bornSkew

\* It was made at a time that has come.
Born == asked.born <= time

\* Each flag is as the last call for it left it.
Flagged == \A f \in Flags : Has(entry.metadata.flags, f) <=> f \in raised

\* The version is as many steps after the one that was seen as there were writes,
\* around the end of the word at most once.
Versioned ==
    entry.metadata.version = IF seen + writes <= UMax THEN seen + writes
                             ELSE seen + writes - (UMax + 1)

\* The record is of the fields of an Entry.
Whole == entry = [key |-> entry.key, value |-> entry.value, metadata |-> entry.metadata]

IInv == Typed /\ Held /\ Whole /\ Made /\ Born /\ Flagged /\ Versioned

\* A string that is no longer than a buffer.
LEMMA StringLength ==
  ASSUME NEW size \in Nat, NEW d \in Strings(size)
  PROVE  Len(d) <= size
<1>1. PICK m \in 0 .. size : d \in [1 .. m -> Bytes]
  BY DEF Strings
<1> QED
  BY <1>1, SMTT(30)

LEMMA Fits ==
  ASSUME NEW s \in Nat, NEW size \in Nat, NEW d \in Strings(s), Len(d) <= size
  PROVE  d \in Strings(size) /\ Len(d) \in Nat
<1>1. PICK m \in 0 .. s : d \in [1 .. m -> Bytes]
  BY DEF Strings
<1>2. Len(d) = m
  BY <1>1, SMTT(30)
<1> QED
  BY <1>1, <1>2, SMTT(30) DEF Strings

\* What a fresh entry e is, for what was asked for.
Whence(e, a) ==
    /\ e = [key |-> e.key, value |-> e.value, metadata |-> e.metadata]
    /\ a \in [key : Strings(MaxKeySize), value : Strings(MaxValueSize),
              due : Int, skew : Int, born : Nat, bornSkew : Int]
    /\ e.key = FixedNew(a.key, MaxKeySize) /\ e.value = FixedNew(a.value, MaxValueSize)
    /\ e.metadata \in Metadata
    /\ e.metadata.key_len = Len(a.key) /\ e.metadata.value_len = Len(a.value)
    /\ Stands(e.metadata.ttl, a.due, a.skew)
    /\ e.metadata.created_at = a.born - a.bornSkew
    /\ a.born = time /\ e.metadata.flags = VALID /\ e.metadata.version = 0

\* An entry that is made of the Ttl at hand.
LEMMA Fresh ==
  ASSUME time \in 0 .. MaxNanos, wall \in 0 .. MaxNanos, Held,
         NEW k \in Strings(MaxKeySize), NEW v \in Strings(MaxValueSize)
  PROVE  Whence(EntryNew(k, v, 0, ttl.nanos, wall), Asked(k, v))
<1>0. PICK e, a : e = EntryNew(k, v, 0, ttl.nanos, wall) /\ a = Asked(k, v)
  OBVIOUS
<1>1. Len(k) \in Nat /\ Len(v) \in Nat
  <2>1. Len(k) <= MaxKeySize /\ Len(v) <= MaxValueSize
    BY StringLength, EntryAssumption
  <2> QED
    BY <2>1, Fits, EntryAssumption
<1>2. PICK m : m = MetadataNew(0, ttl.nanos, Len(k), Len(v), wall)
  OBVIOUS
<1>3. /\ m.ttl = ttl.nanos /\ m.key_len = Len(k) /\ m.value_len = Len(v)
      /\ m.created_at = wall /\ m.flags = VALID /\ m.version = 0
  BY <1>2 DEF MetadataNew
<1>4. 0 \in 0 .. UMax /\ wall \in Int /\ VALID \in 0 .. 7 /\ ttl.nanos \in 0 .. UMax
  BY EntryAssumption, SMTT(30) DEF Held, Stands, VALID
<1>5. m \in Metadata
  BY <1>1, <1>2, <1>4 DEF MetadataNew, Metadata
<1>6. e = [key |-> FixedNew(k, MaxKeySize), value |-> FixedNew(v, MaxValueSize),
           metadata |-> m]
  BY <1>0, <1>2 DEF EntryNew, FixedNew
<1>7. /\ e.key = FixedNew(k, MaxKeySize) /\ e.value = FixedNew(v, MaxValueSize)
      /\ e.metadata = m
  BY ONLY <1>6
<1>8. /\ a.key = k /\ a.value = v /\ a.due = ttl.due /\ a.skew = ttl.skew
      /\ a.born = time /\ a.bornSkew = time - wall
  BY <1>0 DEF Asked, Skew
<1>9. time \in Nat /\ time - wall \in Int /\ wall = time - (time - wall)
  BY EntryAssumption, SMTT(30)
<1>10. a \in [key : Strings(MaxKeySize), value : Strings(MaxValueSize),
              due : Int, skew : Int, born : Nat, bornSkew : Int]
  BY <1>0, <1>9 DEF Asked, Skew, Held, Stands
<1>11. e = [key |-> e.key, value |-> e.value, metadata |-> e.metadata]
  BY ONLY <1>6, <1>7
<1>12. Whence(e, a)
  BY <1>3, <1>5, <1>7, <1>8, <1>9, <1>10, <1>11 DEF Held, Whence
<1> QED
  BY <1>0, <1>12

\* A fresh entry has one flag, VALID.
LEMMA FreshFlags == \A f \in Flags : Has(VALID, f) <=> f \in {VALID}
BY SMTT(30) DEF Has, Flags, VALID, EVICTING, INVALIDATED

\* A first entry.
LEMMA EntryInit == Init => IInv
<1> SUFFICES ASSUME Init PROVE IInv
  OBVIOUS
<1>1. Typed
  BY EntryAssumption, SMTT(30) DEF Init, Typed, Flags
<1>2. Held
  <2>1. ttl.nanos = INFINITE /\ ttl.due = Never /\ ttl.skew = 0
    BY DEF Init, Unlimited
  <2> QED
    BY <2>1, EntryAssumption, SMTT(30) DEF Held, Stands, INFINITE, Never
<1>3. PICK k \in Strings(MaxKeySize), v \in Strings(MaxValueSize) :
        entry = EntryNew(k, v, 0, ttl.nanos, wall) /\ asked = Asked(k, v)
  BY DEF Init
<1>4. /\ Whole /\ Made /\ asked.born = time
      /\ entry.metadata.flags = VALID /\ entry.metadata.version = 0
  BY <1>1, <1>2, <1>3, Fresh DEF Typed, Whence, Whole, Made
<1>5. Born
  BY <1>1, <1>4, SMTT(30) DEF Born, Typed
<1>6. Flagged
  BY <1>4, FreshFlags DEF Flagged, Init
<1>7. Versioned
  BY <1>4, EntryAssumption, SMTT(30) DEF Versioned, Init
<1> QED
  BY <1>1, <1>2, <1>4, <1>5, <1>6, <1>7 DEF IInv

LEMMA NewEntry ==
  ASSUME IInv, NEW k \in Strings(MaxKeySize + 1), NEW v \in Strings(MaxValueSize), New(k, v)
  PROVE  IInv'
<1>1. k \in Strings(MaxKeySize)
  BY Fits, EntryAssumption, SMTT(30) DEF New
<1>2. Typed' /\ Held'
  BY EntryAssumption, SMTT(30) DEF IInv, Typed, Held, New, Flags
<1>3. entry' = EntryNew(k, v, 0, ttl.nanos, wall) /\ asked' = Asked(k, v)
  BY DEF New
<1>4. /\ Whole' /\ Made' /\ asked'.born = time
      /\ entry'.metadata.flags = VALID /\ entry'.metadata.version = 0
  BY <1>1, <1>3, Fresh DEF IInv, Typed, Whence, Whole, Made
<1>5. Born'
  BY <1>2, <1>4, SMTT(30) DEF Born, Typed, New
<1>6. Flagged'
  BY <1>4, FreshFlags DEF Flagged, New
<1>7. Versioned'
  BY <1>4, EntryAssumption, SMTT(30) DEF Versioned, New
<1> QED
  BY <1>2, <1>4, <1>5, <1>6, <1>7 DEF IInv

\* A call that changes no more than one field of the metadata leaves the rest.
LEMMA Kept ==
  ASSUME IInv, UNCHANGED <<time, ttl, asked>>,
         NEW m \in Metadata, entry' = [entry EXCEPT !.metadata = m],
         m.ttl = entry.metadata.ttl, m.key_len = entry.metadata.key_len,
         m.value_len = entry.metadata.value_len,
         m.created_at = entry.metadata.created_at
  PROVE  Held' /\ Whole' /\ Made' /\ Born' /\ entry'.metadata = m
<1>1. Held /\ Whole /\ Made /\ Born
  BY DEF IInv
<1>2. /\ entry'.metadata = m /\ entry'.key = entry.key /\ entry'.value = entry.value
      /\ Whole'
  BY <1>1 DEF Whole
<1> QED
  BY <1>1, <1>2 DEF Made, Held, Born

\* Every call keeps the entry as asked.
LEMMA EntryNext == IInv /\ [Next]_vars => IInv'
<1> SUFFICES ASSUME IInv, [Next]_vars PROVE IInv'
  OBVIOUS
<1>0. Held /\ Whole /\ Made /\ Born /\ Flagged /\ Versioned /\ entry.metadata \in Metadata
  BY DEF IInv, Made
<1>1. ASSUME NEW k \in Strings(MaxKeySize + 1), NEW v \in Strings(MaxValueSize), New(k, v)
      PROVE  IInv'
  BY <1>1, NewEntry
<1>2. ASSUME NEW f \in Flags, Set(f)
      PROVE  IInv'
  <2>1. PICK w : w = SetFlag(entry.metadata.flags, f)
    OBVIOUS
  <2>2. /\ w \in 0 .. 7 /\ Has(w, f)
        /\ \A g \in Flags \ {f} : Has(w, g) <=> Has(entry.metadata.flags, g)
    BY <1>0, <1>2, <2>1, FlagsApart DEF Set, Metadata
  <2>3. PICK m : m = [entry.metadata EXCEPT !.flags = w]
    OBVIOUS
  <2>4. /\ m \in Metadata /\ m.flags = w /\ m.version = entry.metadata.version
        /\ m.ttl = entry.metadata.ttl /\ m.key_len = entry.metadata.key_len
        /\ m.value_len = entry.metadata.value_len
        /\ m.created_at = entry.metadata.created_at
    BY <1>0, <1>2, <2>2, <2>3 DEF Set, Metadata
  <2>5. entry' = [entry EXCEPT !.metadata = m]
    BY <1>0, <1>2, <2>1, <2>3 DEF Set
  <2>6. Typed'
    BY <1>2 DEF IInv, Typed, Set
  <2>7. Held' /\ Whole' /\ Made' /\ Born' /\ entry'.metadata = m
    BY <1>2, <2>4, <2>5, Kept DEF Set
  <2>8. Flagged'
    BY <1>0, <1>2, <2>2, <2>4, <2>7 DEF Flagged, Set
  <2>9. Versioned'
    BY <1>0, <1>2, <2>4, <2>7 DEF Versioned, Set
  <2> QED
    BY <2>6, <2>7, <2>8, <2>9 DEF IInv
<1>3. ASSUME NEW f \in Flags, Clear(f)
      PROVE  IInv'
  <2>1. PICK w : w = ClearFlag(entry.metadata.flags, f)
    OBVIOUS
  <2>2. /\ w \in 0 .. 7 /\ ~Has(w, f)
        /\ \A g \in Flags \ {f} : Has(w, g) <=> Has(entry.metadata.flags, g)
    BY <1>0, <1>3, <2>1, FlagsApart DEF Clear, Metadata
  <2>3. PICK m : m = [entry.metadata EXCEPT !.flags = w]
    OBVIOUS
  <2>4. /\ m \in Metadata /\ m.flags = w /\ m.version = entry.metadata.version
        /\ m.ttl = entry.metadata.ttl /\ m.key_len = entry.metadata.key_len
        /\ m.value_len = entry.metadata.value_len
        /\ m.created_at = entry.metadata.created_at
    BY <1>0, <1>3, <2>2, <2>3 DEF Clear, Metadata
  <2>5. entry' = [entry EXCEPT !.metadata = m]
    BY <1>0, <1>3, <2>1, <2>3 DEF Clear
  <2>6. Typed'
    BY <1>3 DEF IInv, Typed, Clear
  <2>7. Held' /\ Whole' /\ Made' /\ Born' /\ entry'.metadata = m
    BY <1>3, <2>4, <2>5, Kept DEF Clear
  <2>8. Flagged'
    BY <1>0, <1>3, <2>2, <2>4, <2>7 DEF Flagged, Clear
  <2>9. Versioned'
    BY <1>0, <1>3, <2>4, <2>7 DEF Versioned, Clear
  <2> QED
    BY <2>6, <2>7, <2>8, <2>9 DEF IInv
<1>4. CASE Touch
  <2>3. PICK m : m = [entry.metadata EXCEPT !.accessed_at = wall]
    OBVIOUS
  <2>4. /\ m \in Metadata /\ m.flags = entry.metadata.flags
        /\ m.version = entry.metadata.version
        /\ m.ttl = entry.metadata.ttl /\ m.key_len = entry.metadata.key_len
        /\ m.value_len = entry.metadata.value_len
        /\ m.created_at = entry.metadata.created_at
    BY <1>0, <1>4, <2>3, EntryAssumption, SMTT(30) DEF Touch, Metadata, IInv, Typed
  <2>5. entry' = [entry EXCEPT !.metadata = m]
    BY <1>0, <1>4, <2>3 DEF Touch
  <2>6. Typed'
    BY <1>4 DEF IInv, Typed, Touch
  <2>7. Held' /\ Whole' /\ Made' /\ Born' /\ entry'.metadata = m
    BY <1>4, <2>4, <2>5, Kept DEF Touch
  <2>8. Flagged' /\ Versioned'
    BY <1>0, <1>4, <2>4, <2>7 DEF Flagged, Versioned, Touch
  <2> QED
    BY <2>6, <2>7, <2>8 DEF IInv
<1>5. CASE Observe
  <2>1. entry.metadata.version \in 0 .. UMax
    BY <1>0, <1>5 DEF Observe, Metadata
  <2>2. Typed'
    BY <1>5, <2>1, EntryAssumption, SMTT(30) DEF IInv, Typed, Observe
  <2>3. Held' /\ Whole' /\ Made' /\ Born' /\ Flagged'
    BY <1>0, <1>5 DEF Observe, Held, Whole, Made, Born, Flagged
  <2>4. Versioned'
    BY <1>5, <2>1, EntryAssumption, SMTT(30) DEF Observe, Versioned
  <2> QED
    BY <2>2, <2>3, <2>4 DEF IInv
<1>6. CASE Write
  <2>1. PICK w : w = Increment(entry.metadata.version)
    OBVIOUS
  <2>2. /\ w \in 0 .. UMax /\ entry.metadata.version \in 0 .. UMax
        /\ w = IF entry.metadata.version = UMax THEN 0 ELSE entry.metadata.version + 1
    BY <1>0, <1>6, <2>1, IncrementWraps, EntryAssumption, SMTT(30) DEF Write, Metadata
  <2>3. PICK m : m = [entry.metadata EXCEPT !.version = w]
    OBVIOUS
  <2>4. /\ m \in Metadata /\ m.flags = entry.metadata.flags /\ m.version = w
        /\ m.ttl = entry.metadata.ttl /\ m.key_len = entry.metadata.key_len
        /\ m.value_len = entry.metadata.value_len
        /\ m.created_at = entry.metadata.created_at
    BY <1>0, <1>6, <2>2, <2>3 DEF Write, Metadata
  <2>5. entry' = [entry EXCEPT !.metadata = m]
    BY <1>0, <1>6, <2>1, <2>3 DEF Write
  <2>6. Typed'
    BY <1>6, EntryAssumption, SMTT(30) DEF IInv, Typed, Write
  <2>7. Held' /\ Whole' /\ Made' /\ Born' /\ entry'.metadata = m
    BY <1>6, <2>4, <2>5, Kept DEF Write
  <2>8. Flagged'
    BY <1>0, <1>6, <2>4, <2>7 DEF Flagged, Write
  <2>9. Versioned'
    <3>1. seen \in 0 .. UMax /\ writes \in 0 .. UMax - 1
      BY <1>6, EntryAssumption, SMTT(30) DEF IInv, Typed, Write
    <3>2. w = IF seen + (writes + 1) <= UMax THEN seen + (writes + 1)
              ELSE seen + (writes + 1) - (UMax + 1)
      BY <1>0, <2>2, <3>1, EntryAssumption, SMTT(30) DEF Versioned
    <3> QED
      BY <1>6, <2>4, <2>7, <3>2 DEF Versioned, Write
  <2> QED
    BY <2>6, <2>7, <2>8, <2>9 DEF IInv
<1>7. CASE Tick \/ SetClock
  <2>1. /\ Typed' /\ time' \in Nat /\ time <= time'
        /\ UNCHANGED <<ttl, entry, asked, raised, seen, writes>>
    BY <1>7, EntryAssumption, SMTT(30) DEF Tick, SetClock, IInv, Typed
  <2>2. Born'
    BY <1>0, <2>1, SMTT(30) DEF Born, Made, IInv, Typed
  <2> QED
    BY <2>1, <2>2, <1>0 DEF IInv, Held, Whole, Made, Flagged, Versioned
<1>8. CASE Infinite \/ \E d \in Durations : FromDuration(d)
  <2>1. UNCHANGED <<time, wall, entry, asked, raised, seen, writes>>
    BY <1>8 DEF Infinite, FromDuration
  <2>2. Held'
    <3>1. CASE Infinite
      <4>1. ttl'.nanos = INFINITE /\ ttl'.due = Never /\ ttl'.skew = 0
        BY <3>1 DEF Infinite, Unlimited
      <4> QED
        BY <4>1, EntryAssumption, SMTT(30) DEF Held, Stands, INFINITE, Never
    <3>2. ASSUME NEW d \in Durations, FromDuration(d) PROVE Held'
      <4>1. /\ ttl'.nanos = (wall + d) % (UMax + 1)
            /\ ttl'.due = time + d /\ ttl'.skew = time - wall
        BY <3>2 DEF FromDuration, TtlFromDuration, Skew
      <4>2. /\ d \in Nat /\ wall \in Nat /\ time \in Nat /\ wall + d \in Nat
            /\ (time + d) - (time - wall) = wall + d
        BY EntryAssumption, SMTT(30) DEF IInv, Typed
      <4>3. \A n \in Nat : n % (UMax + 1) \in 0 .. UMax
        BY EntryAssumption, SMTT(30)
      <4>4. wall + d < UMax => (wall + d) % (UMax + 1) = wall + d
        BY <4>2, Remainder, EntryAssumption, SMTT(30)
      <4>5. time + d \in Int /\ time - wall \in Int /\ time + d # Never
        BY <4>2, SMTT(30) DEF Never
      <4> QED
        BY <4>1, <4>2, <4>3, <4>4, <4>5 DEF Held, Stands
    <3> QED
      BY <1>8, <3>1, <3>2
  <2> QED
    BY <2>1, <2>2, <1>0 DEF IInv, Typed, Whole, Made, Born, Flagged, Versioned
<1>9. CASE UNCHANGED vars
  BY <1>9, <1>0 DEF vars, IInv, Typed, Held, Whole, Made, Born, Flagged, Versioned
<1> QED
  BY <1>1, <1>2, <1>3, <1>4, <1>5, <1>6, <1>7, <1>8, <1>9 DEF Next

LEMMA EntryInvariant == Spec => []IInv
BY EntryInit, EntryNext, PTL DEF Spec

\* For any width of the word, a reader that compares versions finds a difference
\* exactly if the entry was written since, also across the wrap, as long as it was
\* not written as often as there are versions (Version::increment).
THEOREM VersionsTell == Spec => []VersionTellsStale
<1>1. IInv => VersionTellsStale
  BY EntryAssumption, SMTT(30) DEF IInv, Typed, Versioned, VersionTellsStale
<1> QED
  BY <1>1, EntryInvariant, PTL

\* For any durations and width of the word, wherever the clock is not moved between
\* from_duration and is_expired, or is moved back to where it would be, an entry expires
\* when its time to live has passed, not before and not later, and one that is INFINITE
\* never does; so for its age since Entry::new.  Of a time to live whose end does not
\* fit the word, only that of INFINITE is said (from_duration, is_expired, age_nanos).
THEOREM DeadlinesKept == Spec => []DeadlineKept
<1>1. IInv => DeadlineKept
  <2> SUFFICES ASSUME IInv PROVE DeadlineKept
    OBVIOUS
  <2>1. /\ wall \in Nat /\ time \in Nat /\ Skew = time - wall
        /\ asked.due \in Int /\ asked.skew \in Int /\ asked.born \in Nat /\ asked.bornSkew \in Int
    BY EntryAssumption, SMTT(30) DEF IInv, Typed, Made, Skew
  <2>2. /\ Stands(entry.metadata.ttl, asked.due, asked.skew)
        /\ entry.metadata.created_at = asked.born - asked.bornSkew /\ asked.born <= time
    BY DEF IInv, Made, Born
  <2>3. asked.due = Never => ~TtlIsExpired(entry.metadata.ttl, wall)
    BY <2>2 DEF Stands, TtlIsExpired
  <2>4. Skew = asked.skew /\ DueFits => (TtlIsExpired(entry.metadata.ttl, wall) <=> Due)
    BY <2>1, <2>2, EntryAssumption, SMTT(30) DEF Stands, TtlIsExpired, DueFits, Due, INFINITE
  <2>5. Skew = asked.bornSkew => AgeNanos(entry.metadata, wall) = time - asked.born
    BY <2>1, <2>2, SMTT(30) DEF AgeNanos
  <2> QED
    BY <2>3, <2>4, <2>5 DEF DeadlineKept
<1> QED
  BY <1>1, EntryInvariant, PTL

\* For any bytes and sizes, an entry is what the calls made of it: its key and value
\* equal others exactly if those are of the same bytes, each flag is as the last call
\* for it left it, and it is valid exactly if it is VALID, not INVALIDATED and not
\* expired (eq of Key and Value, EntryFlags, is_valid).
THEOREM EntriesAsAsked == Spec => []EntryAsAsked
<1>1. IInv => EntryAsAsked
  <2> SUFFICES ASSUME IInv PROVE EntryAsAsked
    OBVIOUS
  <2>1. Made /\ Flagged /\ raised \subseteq Flags
    BY DEF IInv, Typed
  <2>2. /\ \A d \in Strings(MaxKeySize) :
             Same(entry.key, FixedNew(d, MaxKeySize)) <=> d = asked.key
        /\ \A d \in Strings(MaxValueSize) :
             Same(entry.value, FixedNew(d, MaxValueSize)) <=> d = asked.value
    BY <2>1, SameBytes, EntryAssumption, SMTT(30) DEF Made
  <2>3. /\ entry.metadata.key_len = Len(asked.key)
        /\ entry.metadata.value_len = Len(asked.value)
    BY <2>1 DEF Made
  <2>4. {f \in Flags : Has(entry.metadata.flags, f)} = raised
    BY <2>1 DEF Flagged
  <2>5. EntryIsValid(entry, wall) <=>
          /\ VALID \in raised /\ INVALIDATED \notin raised
          /\ ~TtlIsExpired(entry.metadata.ttl, wall)
    BY <2>1 DEF Flagged, EntryIsValid, Flags
  <2> QED
    BY <2>2, <2>3, <2>4, <2>5 DEF EntryAsAsked
<1> QED
  BY <1>1, EntryInvariant, PTL
=============================================================================
