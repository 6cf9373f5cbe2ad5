------------------------------ MODULE Limiter ------------------------------
(***************************************************************************)
(* The failed-attempt limiter of auth/ratelimit.go for one key, and the    *)
(* handlers that use it: each asks Allowed, checks what it was given while *)
(* others do the same, and ends in Fail or in Reset.                       *)
(***************************************************************************)
EXTENDS Integers, Sequences, FiniteSets

CONSTANTS
    Tries,      \* attempts that may be in flight for the key
    NoEntry,    \* the key is not in the map
    Max,        \* failures that lock the key (5)
    Window,     \* length of the counting window (15m)
    Lock,       \* length of a lock (5m)
    MaxClock    \* bound on the clock

Time == 0..MaxClock

ASSUME LimiterAssumption ==
    /\ Max \in Nat \ {0}
    /\ Window \in Nat
    /\ Lock \in Nat
    /\ Lock <= Window
    /\ MaxClock \in Nat
    /\ NoEntry \notin [count : Nat, start : Nat, until : Nat]

VARIABLES
    clock,
    entry,     \* m[key]: count, windowStart, lockedUntil
    trying,    \* attempts that were allowed and have not ended
    recent     \* history: times of the failures since the last lock or reset

limiterVars == <<clock, entry, trying, recent>>

Entry == [count : Nat, start : Time, until : 0..(MaxClock + Lock)]

LimiterInit ==
    /\ clock = 0
    /\ entry = NoEntry
    /\ trying = {}
    /\ recent = <<>>

Locked == entry # NoEntry /\ clock < entry.until

Allowed(r) ==
    /\ r \notin trying
    /\ ~Locked
    /\ trying' = trying \cup {r}
    /\ UNCHANGED <<clock, entry, recent>>

(* The entry a failure adds to: a new one when the window has passed. *)
CurrentEntry ==
    IF entry = NoEntry \/ clock - entry.start > Window
    THEN [count |-> 0, start |-> clock, until |-> 0]
    ELSE entry

(* The entry after one more failure. *)
\* Mutants: a lock does not restart the window, or is never set (Counted).
CountedSameWindow(e) ==
    IF e.count + 1 >= Max
    THEN [e EXCEPT !.count = 0, !.until = clock + Lock]
    ELSE [e EXCEPT !.count = @ + 1]
CountedLate(e) ==
    IF e.count + 1 > 2 * Max
    THEN [count |-> 0, start |-> clock, until |-> clock + Lock]
    ELSE [e EXCEPT !.count = @ + 1]
Counted(e) ==
    IF e.count + 1 >= Max
    THEN [count |-> 0, start |-> clock, until |-> clock + Lock]
    ELSE [e EXCEPT !.count = @ + 1]

Fail(r) ==
    /\ r \in trying
    /\ trying' = trying \ {r}
    /\ entry' = Counted(CurrentEntry)
    /\ recent' = IF entry'.count = 0 THEN <<>> ELSE Append(recent, clock)
    /\ UNCHANGED clock

Reset(r) ==
    /\ r \in trying
    /\ trying' = trying \ {r}
    /\ entry' = NoEntry
    /\ recent' = <<>>
    /\ UNCHANGED clock

Tick ==
    /\ clock < MaxClock
    /\ clock' = clock + 1
    /\ UNCHANGED <<entry, trying, recent>>

LimiterNext == Tick \/ \E r \in Tries : Allowed(r) \/ Fail(r) \/ Reset(r)

LimiterSpec == LimiterInit /\ [][LimiterNext]_limiterVars

-----------------------------------------------------------------------------
(* Properties *)

(* Types; the counter never reaches Max, and a lock never reaches further   *)
(* than Lock beyond the start of the window it belongs to.                  *)
EntryOK ==
    /\ clock \in Time
    /\ entry \in Entry \cup {NoEntry}
    /\ trying \subseteq Tries
    /\ entry # NoEntry => /\ entry.count < Max
                          /\ entry.start <= clock
                          /\ entry.until <= entry.start + Lock

(* A lock that has been set runs its time: an attempt that was allowed      *)
(* before, and fails late, neither lifts nor shortens it.  (An attempt that *)
(* was allowed before and succeeds deletes the entry, as Reset does.)       *)
LockHolds ==
    [][Locked /\ entry' # NoEntry => entry'.until >= entry.until]_limiterVars

(* How many failures of the last Window went by without a lock.             *)
Burst == Cardinality({i \in DOMAIN recent : clock - recent[i] <= Window})

(* The windows are fixed, not sliding, so a burst may straddle two of them, *)
(* but never three: fewer than twice Max failures of any Window go by       *)
(* without a lock or a success.                                             *)
BurstIsBounded == Burst <= 2 * (Max - 1)

(* "Fail records a failed attempt, locking the key after max failures in    *)
(* window", "5 failures within 15m -> 5m lockout".                          *)
MaxFailuresLock == Burst < Max
=============================================================================
