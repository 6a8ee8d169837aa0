----------------------------- MODULE RunLimiter -----------------------------
(***************************************************************************)
(* The in-process admission control used when no shared coordinator is     *)
(* configured: shared/limiter (Counter, KeyedSemaphore) and the composite  *)
(* Limiter of module/agent/application/internal/runlimit built on them.    *)
(*                                                                         *)
(* Counter.Acquire is lock free: it adds one, compares and, above the      *)
(* maximum, subtracts one again.  The two atomic operations are two steps  *)
(* here, so every interleaving of the callers is explored.                 *)
(* KeyedSemaphore.Acquire and release run under a mutex and are one step.  *)
(* The composite takes the global place first and gives it back when the   *)
(* user dimension rejects; its release undoes the two in reverse order.    *)
(* A release function may be called more than once and concurrently (its   *)
(* contract says the extra calls have no effect): Callers are the          *)
(* goroutines that call the release function of one grant.                 *)
(***************************************************************************)
EXTENDS Integers, FiniteSets

CONSTANTS
  Procs,       \* the goroutines that ask for a place, one grant each at a time
  Users,       \* the subjects they ask for
  Callers,     \* who calls the release function of a grant
  MaxGlobal,   \* limit of the global dimension, 0 means unlimited
  MaxPerUser   \* limit of the per-user dimension, 0 means unlimited

ASSUME LimitsAssumption == MaxGlobal \in Nat /\ MaxPerUser \in Nat
ASSUME ProcsAssumption == IsFiniteSet(Procs)

VARIABLES
  used,       \* Counter.used
  counts,     \* KeyedSemaphore.counts, 0 for a key that is not in the map
  pc,         \* where each goroutine is in Limiter.Acquire and release
  subject,    \* the user each goroutine asked for
  step,       \* per grant and caller of its release function: how far it is
  freedUser,  \* per grant: the once of the user release has run
  freedGlobal \* per grant: the once of the global release has run

limiterVars == <<used, counts, pc, subject, step, freedUser, freedGlobal>>

\* "idle": no call; "undo": Counter.Acquire overshot and will subtract;
\* "global": holds the global place, asks for the user place; "giveback": the
\* user dimension rejected; "held": Acquire returned ok.
LimiterPhases == {"idle", "undo", "global", "giveback", "held"}

\* release: "wait", then "user" after userReleased(), "done" after globalReleased().
ReleaseSteps == {"wait", "user", "done"}

LimiterTypeOK ==
  /\ used \in Nat
  /\ counts \in [Users -> Nat]
  /\ pc \in [Procs -> LimiterPhases]
  /\ subject \in [Procs -> Users]
  /\ step \in [Procs -> [Callers -> ReleaseSteps]]
  /\ freedUser \in [Procs -> BOOLEAN]
  /\ freedGlobal \in [Procs -> BOOLEAN]

LimiterInit ==
  /\ used = 0
  /\ counts = [u \in Users |-> 0]
  /\ pc = [p \in Procs |-> "idle"]
  /\ \E u \in Users : subject = [p \in Procs |-> u]    \* never read before AddGlobal
  /\ step = [p \in Procs |-> [c \in Callers |-> "wait"]]
  /\ freedUser = [p \in Procs |-> FALSE]
  /\ freedGlobal = [p \in Procs |-> FALSE]

-----------------------------------------------------------------------------
GlobalOvershootsLate(n) == n > MaxGlobal + 1     \* mutant: off by one
GlobalOvershoots(n) == n > MaxGlobal

UserFull(n) == n >= MaxPerUser

OnceRuns(done) == ~done

GlobalReturned == IF MaxGlobal = 0 THEN used ELSE used - 1

\* Counter.Acquire, first atomic add, called by Limiter.Acquire(u).
AddGlobal(p, u) ==
  /\ pc[p] = "idle"
  /\ subject' = [subject EXCEPT ![p] = u]
  /\ step' = [step EXCEPT ![p] = [c \in Callers |-> "wait"]]
  /\ freedUser' = [freedUser EXCEPT ![p] = FALSE]
  /\ freedGlobal' = [freedGlobal EXCEPT ![p] = FALSE]
  /\ used' = IF MaxGlobal = 0 THEN used ELSE used + 1
  /\ pc' = [pc EXCEPT ![p] =
              IF MaxGlobal # 0 /\ GlobalOvershoots(used + 1) THEN "undo" ELSE "global"]
  /\ UNCHANGED counts

\* Counter.Acquire, the compensating add: the call returns (nil, false).
UndoGlobal(p) ==
  /\ pc[p] = "undo"
  /\ used' = used - 1
  /\ pc' = [pc EXCEPT ![p] = "idle"]
  /\ UNCHANGED <<counts, subject, step, freedUser, freedGlobal>>

\* KeyedSemaphore.Acquire.
TakeUser(p) ==
  /\ pc[p] = "global"
  /\ IF MaxPerUser = 0
     THEN /\ pc' = [pc EXCEPT ![p] = "held"]
          /\ UNCHANGED counts
     ELSE IF UserFull(counts[subject[p]])
     THEN /\ pc' = [pc EXCEPT ![p] = "giveback"]
          /\ UNCHANGED counts
     ELSE /\ pc' = [pc EXCEPT ![p] = "held"]
          /\ counts' = [counts EXCEPT ![subject[p]] = @ + 1]
  /\ UNCHANGED <<used, subject, step, freedUser, freedGlobal>>

\* Limiter.Acquire: the rejected call returns the global place.
GiveBackGlobal(p) ==
  /\ pc[p] = "giveback"
  /\ used' = GlobalReturned
  /\ pc' = [pc EXCEPT ![p] = "idle"]
  /\ UNCHANGED <<counts, subject, step, freedUser, freedGlobal>>

\* userReleased(): the body of once runs for the first caller only; a count
\* that falls to zero deletes the key, which reads as zero.
ReleaseUser(p, c) ==
  /\ pc[p] = "held"
  /\ step[p][c] = "wait"
  /\ step' = [step EXCEPT ![p][c] = "user"]
  /\ counts' = IF OnceRuns(freedUser[p]) /\ MaxPerUser # 0
               THEN [counts EXCEPT ![subject[p]] = IF @ <= 1 THEN 0 ELSE @ - 1]
               ELSE counts
  /\ freedUser' = [freedUser EXCEPT ![p] = TRUE]
  /\ UNCHANGED <<used, pc, subject, freedGlobal>>

\* globalReleased().
ReleaseGlobal(p, c) ==
  /\ pc[p] = "held"
  /\ step[p][c] = "user"
  /\ step' = [step EXCEPT ![p][c] = "done"]
  /\ used' = IF OnceRuns(freedGlobal[p]) THEN GlobalReturned ELSE used
  /\ freedGlobal' = [freedGlobal EXCEPT ![p] = TRUE]
  /\ UNCHANGED <<counts, pc, subject, freedUser>>

\* The holder is through with the grant: some caller has completed release
\* and none is in the middle of it.  Its next call is a new Acquire.
Forget(p) ==
  /\ pc[p] = "held"
  /\ freedGlobal[p]
  /\ \A c \in Callers : step[p][c] # "user"
  /\ pc' = [pc EXCEPT ![p] = "idle"]
  /\ UNCHANGED <<used, counts, subject, step, freedUser, freedGlobal>>

LimiterNext ==
  \E p \in Procs :
    \/ \E u \in Users : AddGlobal(p, u)
    \/ UndoGlobal(p)
    \/ TakeUser(p)
    \/ GiveBackGlobal(p)
    \/ \E c \in Callers : ReleaseUser(p, c) \/ ReleaseGlobal(p, c)
    \/ Forget(p)

LimiterSpec == LimiterInit /\ [][LimiterNext]_limiterVars

-----------------------------------------------------------------------------
\* Who really occupies the global dimension (asking for the user place, or
\* granted and not released), and who only overshot.
OccupiesGlobal(p) ==
  pc[p] \in {"global", "giveback"} \/ (pc[p] = "held" /\ ~freedGlobal[p])
GlobalHolders == {p \in Procs : OccupiesGlobal(p)}
Overshooting == {p \in Procs : pc[p] = "undo"}
UserHolders(u) == {p \in Procs : pc[p] = "held" /\ ~freedUser[p] /\ subject[p] = u}

\* The global limit: however the lock-free additions interleave, at most
\* MaxGlobal calls hold a place, because the counter never reads less than
\* the number of holders.
GlobalLimitHolds == MaxGlobal # 0 => Cardinality(GlobalHolders) <= MaxGlobal

\* The per-user limit: at most MaxPerUser grants of one user are unreleased.
UserLimitHolds ==
  MaxPerUser # 0 => \A u \in Users : Cardinality(UserHolders(u)) <= MaxPerUser

\* Nothing leaks and nothing is returned twice: the counters are exactly the
\* places taken, whatever rejected, rolled back or repeated its release.  In
\* particular both are zero once nobody is inside (limiter_test.go).
CountersExact ==
  /\ MaxGlobal # 0 => used = Cardinality(GlobalHolders) + Cardinality(Overshooting)
  /\ MaxPerUser # 0 => \A u \in Users : counts[u] = Cardinality(UserHolders(u))

\* The three together: what the composite Limiter promises its callers.
LimiterExact == GlobalLimitHolds /\ UserLimitHolds /\ CountersExact

\* The inductive invariant behind the limits (proved in AdmissionProofs).
ReleaseOrder ==
  \A p \in Procs :
    /\ freedGlobal[p] => freedUser[p]
    /\ \A c \in Callers : step[p][c] # "wait" => freedUser[p]

UndoOnlyLimited == \A p \in Procs : pc[p] = "undo" => MaxGlobal # 0

FreshGrant ==
  \A p \in Procs : pc[p] = "global" => ~freedUser[p] /\ ~freedGlobal[p]

LimiterIInv ==
  /\ LimiterTypeOK
  /\ ReleaseOrder
  /\ UndoOnlyLimited
  /\ FreshGrant
  /\ CountersExact
  /\ GlobalLimitHolds
  /\ UserLimitHolds

\* limiter.go:80 says Acquire returns (nil, false) when the limit is exceeded,
\* runlimit/limiter.go:24-25 that a rejected call occupies no place: a call is
\* rejected by the global dimension only while MaxGlobal other calls are
\* granted or may still be.  It is not so: a call on its way to being rejected
\* for its own user's limit, or an overshooting one, occupies a place for a
\* moment, and the call of another user is rejected for it.
RejectedOnlyWhenFull ==
  [][\A p \in Procs : (pc[p] = "idle" /\ pc'[p] = "undo") =>
        Cardinality({q \in GlobalHolders : pc[q] # "giveback"}) >= MaxGlobal]_limiterVars
=============================================================================
