------------------------------ MODULE KVEngine ------------------------------
(***************************************************************************)
(* What the KVEngine trait of hkv-engine/src/engine.rs promises its         *)
(* concurrent callers: one map from keys to values and deadlines, on which  *)
(* every call takes effect atomically at one moment between its invocation  *)
(* and its return, judging expiry by an instant within the call.            *)
(*                                                                         *)
(* Nothing else changes the map, with two exceptions: an entry past its     *)
(* deadline may lapse at any time, and an engine with a byte budget may     *)
(* forget entries, but only while a set has taken effect and not returned.  *)
(***************************************************************************)
EXTENDS Integers

CONSTANTS Threads, Keys, Values, Ttls, MaxTime, Absent, None,
          Evicts      \* whether the engine has a byte budget

VARIABLES
  store,  \* [Keys -> [value, expires_at] or Absent]
  phase,  \* of each thread's call: "idle", "called" or "done"
  call,   \* the call each thread makes
  since,  \* an instant not before the invocation of a call that judges expiry
  res,    \* the answer of a call that took effect
  clock

vars == <<store, phase, call, since, res, clock>>

Calls == [op : {"get", "delete", "ttl"}, key : Keys]
           \cup [op : {"set"}, key : Keys, value : Values]
           \cup [op : {"expire"}, key : Keys, ttl : Ttls]

NoCall   == [op |-> "none"]
NoResult == <<>>

Init ==
  /\ store = [k \in Keys |-> Absent]
  /\ phase = [t \in Threads |-> "idle"]
  /\ call  = [t \in Threads |-> NoCall]
  /\ since = [t \in Threads |-> 0]
  /\ res   = [t \in Threads |-> NoResult]
  /\ clock = 0

\* The entry under k has reached its deadline at the instant n.
Lapsed(k, n) == /\ store[k] # Absent
                /\ store[k].expires_at # None
                /\ store[k].expires_at <= n

\* An entry is under k, not expired at the instant n.
Present(k, n) == store[k] # Absent /\ ~Lapsed(k, n)

Begin(t, c) ==
  /\ phase[t] = "idle"
  /\ phase' = [phase EXCEPT ![t] = "called"]
  /\ call' = [call EXCEPT ![t] = c]
  /\ since' = IF c.op = "set" THEN since ELSE [since EXCEPT ![t] = clock]
  /\ UNCHANGED <<store, res, clock>>

\* A call takes effect on the map and settles its answer.
Effect(t, s, r) ==
  /\ phase[t] = "called"
  /\ phase' = [phase EXCEPT ![t] = "done"]
  /\ store' = s
  /\ res' = [res EXCEPT ![t] = r]
  /\ UNCHANGED <<call, since, clock>>

\* A key that is missing, or whose entry expired (and so is dropped).
Miss(t, n, r) ==
  LET k == call[t].key IN
  /\ ~Present(k, n)
  /\ Effect(t, [store EXCEPT ![k] = Absent], r)

Get(t, n) ==
  LET k == call[t].key IN
  /\ call[t].op = "get"
  /\ \/ Miss(t, n, <<"None">>)
     \/ Present(k, n) /\ Effect(t, store, <<"Value", store[k].value>>)

Delete(t, n) ==
  LET k == call[t].key IN
  /\ call[t].op = "delete"
  /\ \/ Miss(t, n, <<"false">>)
     \/ Present(k, n) /\ Effect(t, [store EXCEPT ![k] = Absent], <<"true">>)

Expire(t, n) ==
  LET k == call[t].key IN
  /\ call[t].op = "expire"
  /\ \/ Miss(t, n, <<"NotFound">>)
     \/ /\ Present(k, n)
        /\ Effect(t, [store EXCEPT ![k].expires_at = n + call[t].ttl], <<"Ok">>)

Ttl(t, n) ==
  LET k == call[t].key IN
  /\ call[t].op = "ttl"
  /\ \/ Miss(t, n, <<"Missing">>)
     \/ /\ Present(k, n)
        /\ Effect(t, store, IF store[k].expires_at = None
                            THEN <<"NoExpiry">>
                            ELSE <<"ExpiresIn", store[k].expires_at - n>>)

Set(t) ==
  /\ call[t].op = "set"
  /\ Effect(t, [store EXCEPT ![call[t].key] =
                  [value |-> call[t].value, expires_at |-> None]], <<"Ok">>)

Finish(t) ==
  /\ phase[t] = "done"
  /\ phase' = [phase EXCEPT ![t] = "idle"]
  /\ call'  = [call EXCEPT ![t] = NoCall]
  /\ since' = [since EXCEPT ![t] = 0]
  /\ res'   = [res EXCEPT ![t] = NoResult]
  /\ UNCHANGED <<store, clock>>

\* An expired entry is swept away.
Lapse(k) ==
  /\ Lapsed(k, clock)
  /\ store' = [store EXCEPT ![k] = Absent]
  /\ UNCHANGED <<phase, call, since, res, clock>>

\* A set under way evicts an entry.
Forget(k) ==
  /\ Evicts
  /\ \E t \in Threads : phase[t] = "done" /\ call[t].op = "set"
  /\ store[k] # Absent
  /\ store' = [store EXCEPT ![k] = Absent]
  /\ UNCHANGED <<phase, call, since, res, clock>>

Tick == /\ clock < MaxTime
        /\ clock' = clock + 1
        /\ UNCHANGED <<store, phase, call, since, res>>

Next ==
  \/ \E t \in Threads :
        \/ \E c \in Calls : Begin(t, c)
        \/ \E n \in since[t] .. clock :
              Get(t, n) \/ Delete(t, n) \/ Expire(t, n) \/ Ttl(t, n)
        \/ Set(t)
        \/ Finish(t)
  \/ \E k \in Keys : Lapse(k) \/ Forget(k)
  \/ Tick

Spec == Init /\ [][Next]_vars
=============================================================================
