------------------------------- MODULE Login -------------------------------
(***************************************************************************)
(* Signing in (handlers/auth_handlers.go, auth/service.go,                 *)
(* auth_service.go, internal/server/security): the sliding window of each  *)
(* address, the row that counts an account's failures and locks it, and    *)
(* the scheduled tasks that unlock it.                                     *)
(*                                                                         *)
(* Every statement on the row is its own transaction, on a connection of   *)
(* the read-write pool: another request may come between any two.  There   *)
(* is one account; the passwords matter only as right or wrong.            *)
(***************************************************************************)
EXTENDS Naturals, Sequences, SequencesExt, FiniteSets

CONSTANTS
  Client,           \* requests at the login form
  Address,          \* RateLimitFromRequestKey: who shares a window
  AddressOf,        \* the address of each client
  RateMax,          \* values of login_rate_limit_per_ip; 0 is unlimited
  RateWindow,       \* DefaultRateLimitWindow
  GcInterval,       \* defaultGCInterval
  LockoutThreshold, LockoutDuration,
  LoginHorizon, MaxLogins, MaxLoginFaults      \* bounds of the model

ASSUME LoginAssumption ==
  /\ IsFiniteSet(Client) /\ AddressOf \in [Client -> Address] /\ RateMax \subseteq Nat
  /\ {RateWindow, GcInterval, LockoutThreshold, LockoutDuration} \subseteq Nat \ {0}

VARIABLES
  clock,            \* time.Now().Unix()
  limiter,          \* IPRateLimiter: max, attempts and allowCount
  syncing,          \* SyncLoginRateLimitMax between SetMax and Clear
  account,          \* the row of login_attempts, or NoAccountRow
  unlocks,          \* due times of the scheduled unlock tasks
  logins,           \* each request: where it is, and what it has read
  logged,           \* requests made, and faults
  \* History, no part of the code; the first two since the limiter was cleared:
  admitted,         \* what the limiter let through
  pruned,           \* the latest clock an address's attempts were pruned by
  failures          \* passwords that did not match
loginVars == <<clock, limiter, syncing, account, unlocks, logins,
               logged, admitted, pruned, failures>>

NoAccountRow == [failed |-> 0, until |-> 0]   \* a row holds failures, or was unlocked
NoLogin == [pc |-> "away", n |-> 0, at |-> 0]
At(c, pc) == logins' = [logins EXCEPT ![c].pc = pc]
----------------------------------------------------------------------------
LoginInit ==
  /\ clock = 0 /\ syncing = FALSE /\ unlocks = <<>>
  /\ \E m \in RateMax : limiter = [max |-> m, seen |-> [a \in Address |-> {}], calls |-> 0]
  /\ account = NoAccountRow
  /\ logins = [c \in Client |-> NoLogin]
  /\ logged = [asked |-> 0, faults |-> 0]
  /\ admitted = [a \in Address |-> {}] /\ pruned = [a \in Address |-> 0] /\ failures = 0

\* Faulty variant: attempts leave the window a second early.
PruneShort(attempts, now) == {x \in attempts : x.at + RateWindow > now + 1}
(* pruneAttempts, and the sweep of idle addresses at every GcInterval'th
   call, which drops what has left the window.  An attempt is its time and,
   for the properties only, the number of the call, which tells it from others
   of that second, and whether a call with a later clock was before it. *)
Prune(attempts, now) == {x \in attempts : x.at + RateWindow > now}
Sweeps(calls) == calls % GcInterval = 0
Swept(seen, calls, now) ==
  IF ~Sweeps(calls) THEN seen
  ELSE [a \in Address |-> IF Prune(seen[a], now) = {} THEN {} ELSE seen[a]]

(* Allow, at the head of Login.  It looks at the limit without the lock, a
   limit of zero admits without a trace, and takes the time before the lock. *)
AsksLimiter(c) ==
  /\ logins[c].pc = "away" /\ logged.asked < MaxLogins
  /\ logged' = [logged EXCEPT !.asked = @ + 1]
  /\ logins' = [logins EXCEPT ![c].pc = IF limiter.max = 0 THEN "checks" ELSE "times"]
  /\ UNCHANGED <<clock, limiter, syncing, account, unlocks, admitted, pruned, failures>>
\* Faulty variant: the time kept is the one at which the window ends.
TakesTimeAhead(c) ==
  /\ logins[c].pc = "times"
  /\ logins' = [logins EXCEPT ![c].pc = "waits", ![c].at = clock + RateWindow]
  /\ UNCHANGED <<clock, limiter, syncing, account, unlocks, logged, admitted, pruned, failures>>
TakesTime(c) ==
  /\ logins[c].pc = "times"
  /\ logins' = [logins EXCEPT ![c].pc = "waits", ![c].at = clock]
  /\ UNCHANGED <<clock, limiter, syncing, account, unlocks, logged, admitted, pruned, failures>>

(* The rest of Allow holds the lock; a limit of zero by then refuses. *)
Allows(c) ==
  LET a == AddressOf[c]
      now == logins[c].at
      valid == Prune(limiter.seen[a], now)
      attempt == [n |-> limiter.calls, at |-> now, late |-> now < pruned[a]]
      room == Cardinality(valid) < limiter.max
      kept == valid \cup {x \in {attempt} : room}
      calls == limiter.calls + 1
  IN
  /\ logins[c].pc = "waits"
  /\ limiter' = [limiter EXCEPT !.seen = Swept([limiter.seen EXCEPT ![a] = kept], calls, now),
                                !.calls = calls]
  /\ pruned' = [b \in Address |-> IF (b = a \/ Sweeps(calls)) /\ pruned[b] < now THEN now ELSE pruned[b]]
  /\ admitted' = IF room THEN [admitted EXCEPT ![a] = @ \cup {attempt}] ELSE admitted
  /\ logins' = [logins EXCEPT ![c] = IF room THEN [NoLogin EXCEPT !.pc = "checks"] ELSE NoLogin]
  /\ UNCHANGED <<clock, syncing, account, unlocks, logged, failures>>

LoginFails(c) ==    \* a statement fails: 500, and nothing more is done
  /\ logins[c].pc \notin {"away", "times", "waits", "clears expired"} /\ logged.faults < MaxLoginFaults
  /\ logged' = [logged EXCEPT !.faults = @ + 1]
  /\ logins' = [logins EXCEPT ![c] = NoLogin]
  /\ UNCHANGED <<clock, limiter, syncing, account, unlocks, admitted, pruned, failures>>

(* CheckAccountLockout: read the row; a lock that has passed is deleted with
   the count, in a second statement whose error is only logged. *)
ChecksLockout(c) ==
  /\ logins[c].pc = "checks"
  /\ IF account.until = 0 THEN At(c, "verifies")
     ELSE IF account.until <= clock THEN At(c, "clears expired")
     ELSE logins' = [logins EXCEPT ![c] = NoLogin]
  /\ UNCHANGED <<clock, limiter, syncing, account, unlocks, logged, admitted, pruned, failures>>
ClearsExpired(c) ==
  /\ logins[c].pc = "clears expired" /\ At(c, "verifies")
  /\ \/ account' = NoAccountRow /\ UNCHANGED logged
     \/ /\ logged.faults < MaxLoginFaults
        /\ logged' = [logged EXCEPT !.faults = @ + 1] /\ UNCHANGED account
  /\ UNCHANGED <<clock, limiter, syncing, unlocks, admitted, pruned, failures>>

(* GetUser and bcrypt: the right password, a wrong one, or another name,
   which counts nowhere. *)
Verifies(c) ==
  /\ logins[c].pc = "verifies"
  /\ \/ At(c, "succeeds") /\ UNCHANGED failures
     \/ At(c, "fails") /\ failures' = failures + 1
     \/ logins' = [logins EXCEPT ![c] = NoLogin] /\ UNCHANGED failures
  /\ UNCHANGED <<clock, limiter, syncing, account, unlocks, logged, admitted, pruned>>

\* Faulty variant: a failure counts twice.
FailureReadTwice(c) ==
  /\ logins[c].pc = "fails"
  /\ logins' = [logins EXCEPT ![c] = [pc |-> "records", n |-> account.failed + 2, at |-> clock]]
  /\ UNCHANGED <<clock, limiter, syncing, account, unlocks, logged, admitted, pruned, failures>>
(* RecordFailedLoginAttempt: the count is read, and written back one higher
   with the lock it earns; a lock schedules its own end. *)
FailureRead(c) ==
  /\ logins[c].pc = "fails"
  /\ logins' = [logins EXCEPT ![c] = [pc |-> "records", n |-> account.failed + 1, at |-> clock]]
  /\ UNCHANGED <<clock, limiter, syncing, account, unlocks, logged, admitted, pruned, failures>>
CalculateLockout(n, at) == IF n >= LockoutThreshold THEN at + LockoutDuration ELSE 0
FailureRecorded(c) ==
  LET until == CalculateLockout(logins[c].n, logins[c].at) IN
  /\ logins[c].pc = "records"
  /\ account' = [failed |-> logins[c].n, until |-> until]
  /\ unlocks' = IF until = 0 THEN unlocks ELSE Append(unlocks, until + 1)
  /\ logins' = [logins EXCEPT ![c] = NoLogin]
  /\ UNCHANGED <<clock, limiter, syncing, logged, admitted, pruned, failures>>

(* ClearLoginAttempts; then SetAuthenticated, whose cookie is the client's. *)
SuccessClears(c) ==
  /\ logins[c].pc = "succeeds" /\ At(c, "signs in")
  /\ account' = NoAccountRow
  /\ UNCHANGED <<clock, limiter, syncing, unlocks, logged, admitted, pruned, failures>>
SetAuthenticated(c) ==
  /\ logins[c].pc = "signs in" /\ logins' = [logins EXCEPT ![c] = NoLogin]
  /\ UNCHANGED <<clock, limiter, syncing, account, unlocks, logged, admitted, pruned, failures>>

(* UnlockAccountTask when it is due, and the command -unlock. *)
UnlockRuns ==
  /\ \E i \in DOMAIN unlocks : unlocks[i] <= clock /\ unlocks' = RemoveAt(unlocks, i)
  /\ account' = NoAccountRow
  /\ UNCHANGED <<clock, limiter, syncing, logins, logged, admitted, pruned, failures>>
UnlockAccount ==
  /\ account # NoAccountRow /\ account' = NoAccountRow
  /\ UNCHANGED <<clock, limiter, syncing, unlocks, logins, logged, admitted, pruned, failures>>

(* ApplyConfig: the limit is set, then under the lock once more every window
   forgotten. *)
SetsMax ==
  /\ ~syncing /\ syncing' = TRUE
  /\ \E m \in RateMax : limiter' = [limiter EXCEPT !.max = m]
  /\ UNCHANGED <<clock, account, unlocks, logins, logged, admitted, pruned, failures>>
ClearsLimiter ==
  /\ syncing /\ syncing' = FALSE
  /\ limiter' = [limiter EXCEPT !.seen = [a \in Address |-> {}], !.calls = 0]
  /\ admitted' = [a \in Address |-> {}] /\ pruned' = [a \in Address |-> 0]
  /\ UNCHANGED <<clock, account, unlocks, logins, logged, failures>>

(* A restart keeps the row and forgets the windows and the tasks. *)
LoginRestarts ==
  /\ logged.faults < MaxLoginFaults /\ logged' = [logged EXCEPT !.faults = @ + 1]
  /\ limiter' = [limiter EXCEPT !.seen = [a \in Address |-> {}], !.calls = 0]
  /\ admitted' = [a \in Address |-> {}] /\ pruned' = [a \in Address |-> 0]
  /\ syncing' = FALSE /\ unlocks' = <<>> /\ logins' = [c \in Client |-> NoLogin]
  /\ UNCHANGED <<clock, account, failures>>
LoginClockTicks ==
  /\ clock < LoginHorizon /\ clock' = clock + 1
  /\ UNCHANGED <<limiter, syncing, account, unlocks, logins, logged, admitted, pruned, failures>>

LoginNext ==
  \/ \E c \in Client : \/ AsksLimiter(c) \/ TakesTime(c) \/ Allows(c) \/ ChecksLockout(c) \/ ClearsExpired(c) \/ Verifies(c)
                       \/ FailureRead(c) \/ FailureRecorded(c) \/ SuccessClears(c)
                       \/ SetAuthenticated(c) \/ LoginFails(c)
  \/ UnlockRuns \/ UnlockAccount \/ SetsMax \/ ClearsLimiter
  \/ LoginRestarts \/ LoginClockTicks
LoginSpec == LoginInit /\ [][LoginNext]_loginVars
----------------------------------------------------------------------------
(* The times a request and the limiter keep are of the past. *)
LoginTypeOK ==
  /\ account \in [failed : Nat, until : Nat] /\ limiter.max \in RateMax /\ limiter.calls \in Nat
  /\ \A c \in Client : logins[c].at \in 0..clock
  /\ \A a \in Address : \A x \in limiter.seen[a] \cup admitted[a] : x.at \in 0..clock

(* However often a window is pruned and swept, no stretch of RateWindow
   seconds has seen more attempts from one address than the limit in force,
   counted from the last change of it (IPRateLimiter.Allow) - but for those
   that were overtaken: a call that took a later time had the lock first, and
   has pruned what the earlier one should have counted. *)
InWindow(attempts, t) == {x \in attempts : x.at <= t /\ t < x.at + RateWindow}
InForce == limiter.max # 0 /\ ~syncing
WindowHolds ==
  InForce => \A a \in Address : \A t \in 0..LoginHorizon :
     Cardinality({x \in InWindow(admitted[a], t) : ~x.late}) <= limiter.max

(* src/internal/server/security/ratelimit.go:16 "a per-IP sliding window rate
   limiter. It is safe for concurrent use": with no such exception. *)
WindowIsExact ==
  InForce => \A a \in Address : \A t \in 0..LoginHorizon :
     Cardinality(InWindow(admitted[a], t)) <= limiter.max

(* However failures, successes, unlocks and expiries interleave, a count
   never exceeds the passwords that did not match: nobody is locked out who
   was not LockoutThreshold times wrong (RecordFailedLoginAttempt). *)
LocksAreEarned ==
  account.failed <= failures /\ (account.until # 0 => failures >= LockoutThreshold)
LoginLimits == WindowHolds /\ LocksAreEarned

(* A lock lasts for LockoutDuration unless it is lifted: broken, since the
   task of an earlier lock lifts a later one, and a failure that was read
   before a success is written after it. *)
LockLasts ==
  [][account.until > clock /\ account' = NoAccountRow /\ failures' = failures
     => \E c \in Client : logins[c].pc = "succeeds"]_loginVars
=============================================================================
