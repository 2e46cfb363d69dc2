--------------------------- MODULE AttemptLimiter ---------------------------
(***************************************************************************)
(* The limiter of anonymous attempts (internal/identity/login_limiter.go)  *)
(* and the handlers that reserve with it: login, which counts the account  *)
(* and the source address, and setup and password reset, which count the   *)
(* address alone (internal/httpapi/handler.go).  There is a limiter for    *)
(* login and one for the other two; a behaviour is one of them.  A mutex   *)
(* makes Reserve and complete one step each; the work in between is not.   *)
(***************************************************************************)
EXTENDS Naturals, Sequences, FiniteSets

CONSTANTS
    Accounts, Addresses,  \* keys of the two dimensions
    Attempts,             \* requests that overlap
    Maximum,              \* failures and attempts in flight, per key
    Window, BlockFor,     \* how long a failure counts, how long a block lasts
    Capacity,             \* entries kept
    MaxTime               \* bound: instants

LimitKeys == Accounts \cup Addresses

ASSUME LimiterAssumption ==
    /\ Maximum \in Nat \ {0} /\ Window \in Nat \ {0} /\ BlockFor \in Nat
    /\ Window <= BlockFor  \* 5 and 15 minutes (handler.go, New)
    /\ Capacity \in Nat \ {0} /\ MaxTime \in Nat
    /\ IsFiniteSet(Attempts)
    /\ Accounts \cap Addresses = {}

VARIABLES
    limiter,   \* "login" or "sensitive": the instance this is
    time,      \* the clock
    entries,   \* attemptState of each key; Absent when there is none
    attempt,   \* keys each request holds a reservation of; {} when it has none
    recent     \* ghost: failures of each key, since it was last cleared, that
               \* are younger than Window

limiterVars == <<limiter, time, entries, attempt, recent>>

Absent == [failures |-> <<>>, blockedUntil |-> 0, inFlight |-> 0, lastActivity |-> 0]
Blank(s) == s.failures = <<>> /\ s.blockedUntil = 0 /\ s.inFlight = 0
\* storeOrDelete: an entry that says nothing is not kept.
storeOrDelete(s) == IF Blank(s) THEN Absent ELSE s

LimiterInit ==
    /\ limiter \in {"login", "sensitive"}
    /\ time = 1
    /\ entries = [k \in LimitKeys |-> Absent]
    /\ attempt = [a \in Attempts |-> {}]
    /\ recent = [k \in LimitKeys |-> <<>>]

\* What is left when the leading failures older than the window are cut, which
\* is where the loop over firstCurrent stops.
Current(failures, now) ==
    LET first == CHOOSE n \in 0 .. Len(failures) :
                    /\ \A i \in 1 .. n : failures[i] + Window < now
                    /\ n < Len(failures) => failures[n + 1] + Window >= now
    IN  SubSeq(failures, first + 1, Len(failures))

\* A block that is over forgets the failures; failures older than the window
\* are dropped.  (blockedUntil is 0 when there is no block.)
prune(s) ==
    IF time < s.blockedUntil THEN s
    ELSE [s EXCEPT !.failures = IF s.blockedUntil # 0 THEN <<>> ELSE Current(@, time),
                   !.blockedUntil = 0]

Blocked(s) == time < s.blockedUntil
\* retryAfter is zero.
Admits(s) == ~Blocked(s) /\ Len(s.failures) + s.inFlight < Maximum

Kept(E) == {k \in LimitKeys : E[k] # Absent}

\* ensureCapacity: the entries that may go to make room for the missing keys.
Evictable(E, keys) ==
    {k \in Kept(E) \ keys : E[k].inFlight = 0 /\ E[k].blockedUntil = 0}
Excess(E, keys) == Cardinality(Kept(E) \cup keys) - Capacity

\* Variant: entries with attempts in flight may go as well.
EvictsInFlight(E, keys) ==
    IF Cardinality(Kept(E) \cup keys) <= Capacity THEN {{}}
    ELSE {V \in SUBSET (Kept(E) \ keys) : Cardinality(V) = Excess(E, keys)}

\* The least recently active ones go, or the attempt is refused.
Evictions(E, keys) ==
    IF Cardinality(Kept(E) \cup keys) <= Capacity THEN {{}}
    ELSE {V \in SUBSET Evictable(E, keys) :
            /\ Cardinality(V) = Excess(E, keys)
            /\ \A k \in V, j \in Evictable(E, keys) \ V :
                  E[k].lastActivity <= E[j].lastActivity}

\* Refused: only what was pruned changes.
ReserveRefused(a, keys) ==
    LET pruned == [k \in LimitKeys |-> IF k \in keys THEN storeOrDelete(prune(entries[k])) ELSE entries[k]]
        all == [k \in LimitKeys |-> storeOrDelete(prune(entries[k]))]
        full == (\A k \in keys : Admits(pruned[k])) /\ Evictions(all, keys) = {}
    IN  /\ attempt[a] = {}
        /\ full \/ \E k \in keys : ~Admits(pruned[k])
        /\ entries' = (IF full THEN all ELSE pruned)
        /\ UNCHANGED <<limiter, time, attempt, recent>>

\* Every key admits the attempt, and all of them count it from now on.
Reserve(a, keys) ==
    LET E == [k \in LimitKeys |-> storeOrDelete(prune(entries[k]))] IN
    /\ attempt[a] = {} /\ \A k \in keys : Admits(E[k])
    /\ \E V \in Evictions(E, keys) :
          /\ entries' = [k \in LimitKeys |->
                IF k \in keys THEN [E[k] EXCEPT !.inFlight = @ + 1, !.lastActivity = time]
                ELSE IF k \in V THEN Absent ELSE E[k]]
          /\ recent' = [k \in LimitKeys |-> IF k \in V THEN <<>> ELSE recent[k]]
    /\ attempt' = [attempt EXCEPT ![a] = keys]
    /\ UNCHANGED <<limiter, time>>

\* An attempt in flight when the block began is not counted again.
Failed(s) ==
    IF Blocked(s) THEN s
    ELSE IF Len(s.failures) + 1 >= Maximum
    THEN [s EXCEPT !.failures = <<>>, !.blockedUntil = time + BlockFor]
    ELSE [s EXCEPT !.failures = Append(@, time)]

Completed(s, failure, reset) ==
    LET t == [prune(s) EXCEPT !.inFlight = IF @ > 0 THEN @ - 1 ELSE 0, !.lastActivity = time]
    IN  storeOrDelete(IF failure THEN Failed(t)
                      ELSE IF reset THEN [t EXCEPT !.failures = <<>>, !.blockedUntil = 0] ELSE t)

\* complete, once per reservation (sync.Once): failure in every key, or success,
\* which clears the keys it names.
complete(a, failure, cleared) ==
    /\ attempt[a] # {}
    /\ entries' = [k \in LimitKeys |->
          IF k \in attempt[a] /\ entries[k] # Absent
          THEN Completed(entries[k], failure, k \in cleared) ELSE entries[k]]
    /\ attempt' = [attempt EXCEPT ![a] = {}]
    /\ recent' = [k \in LimitKeys |->
          IF k \in attempt[a] /\ failure THEN Append(recent[k], time)
          ELSE IF k \in attempt[a] \cap cleared THEN <<>> ELSE recent[k]]
    /\ UNCHANGED <<limiter, time>>

\* The handlers: a failure is recorded on every path but success (defer).
login(a) ==
    /\ limiter = "login"
    /\ \E u \in Accounts, ip \in Addresses : Reserve(a, {u, ip}) \/ ReserveRefused(a, {u, ip})
loginFails(a) == limiter = "login" /\ complete(a, TRUE, {})
loginSucceeds(a) == limiter = "login" /\ complete(a, FALSE, attempt[a] \cap Accounts)

\* Setup and password reset.
allowSensitiveRequest(a) ==
    /\ limiter = "sensitive"
    /\ \E ip \in Addresses : Reserve(a, {ip}) \/ ReserveRefused(a, {ip})
passwordResetFails(a) == limiter = "sensitive" /\ complete(a, TRUE, {})
passwordReset(a) == limiter = "sensitive" /\ complete(a, FALSE, attempt[a])

\* A failure stops to be recent when it is Window old.
LimiterTick ==
    /\ time < MaxTime /\ time' = time + 1
    /\ recent' = [k \in LimitKeys |-> Current(recent[k], time + 2)]
    /\ UNCHANGED <<limiter, entries, attempt>>

LimiterNext ==
    \/ \E a \in Attempts :
          \/ login(a) \/ loginFails(a) \/ loginSucceeds(a)
          \/ allowSensitiveRequest(a) \/ passwordResetFails(a) \/ passwordReset(a)
    \/ LimiterTick

LimiterSpec == LimiterInit /\ [][LimiterNext]_limiterVars
-----------------------------------------------------------------------------
\* No key sees more than Maximum failures within one window, however many
\* requests overlap, and the entry of a key counts exactly the requests that
\* hold a reservation of it: blocks and attempts in flight survive the eviction
\* of entries ("In-flight reservations count toward Maximum and cannot be
\* evicted", login_limiter.go:94).  A key whose entry was evicted starts afresh.
AttemptsAreLimited ==
    \A k \in LimitKeys :
        /\ Len(recent[k]) <= Maximum
        /\ entries[k].inFlight = Cardinality({a \in Attempts : k \in attempt[a]})
        /\ Len(entries[k].failures) + entries[k].inFlight <= Maximum
=============================================================================
