------------------------------ MODULE Timespec ------------------------------
(***************************************************************************)
(* The deadline arithmetic of the RPC client (rpc/rpc.cc).  A timespec has *)
(* seconds and nanoseconds; a timeout is a number of milliseconds.  The    *)
(* two factors are constants, 1000 and 1000000 in the code.                *)
(***************************************************************************)
EXTENDS Integers

CONSTANTS MsPerSec,    \* milliseconds of a second
          NsPerMs      \* nanoseconds of a millisecond

ASSUME TimespecAssumption ==
  /\ MsPerSec \in Nat /\ MsPerSec > 0
  /\ NsPerMs \in Nat /\ NsPerMs > 0

NsPerSec == MsPerSec * NsPerMs

timespec(sec, nsec) == [tv_sec |-> sec, tv_nsec |-> nsec]

(* What pthread_cond_timedwait accepts; for any other deadline it returns  *)
(* EINVAL at once, with the mutex still held.                              *)
IsDeadline(a) == a.tv_nsec \in 0..(NsPerSec - 1)

(* The instant that a timespec stands for, and the timespec that           *)
(* clock_gettime gives at an instant.                                      *)
Instant(a) == a.tv_sec * NsPerSec + a.tv_nsec
clock_gettime(t) == timespec(t \div NsPerSec, t % NsPerSec)

cmp_timespec(a, b) ==
  CASE a.tv_sec > b.tv_sec -> 1
    [] a.tv_sec < b.tv_sec -> -1
    [] a.tv_sec = b.tv_sec /\ a.tv_nsec > b.tv_nsec -> 1
    [] a.tv_sec = b.tv_sec /\ a.tv_nsec < b.tv_nsec -> -1
    [] OTHER -> 0

(* The while of add_timespec runs at most once: the sum of two parts below *)
(* a second is below two seconds.  A sum of exactly one second is left as  *)
(* it is.                                                                  *)
add_timespec(a, b) ==
  LET sec == a.tv_sec + b \div MsPerSec
      nsec == a.tv_nsec + (b % MsPerSec) * NsPerMs
  IN IF nsec > NsPerSec THEN timespec(sec + 1, nsec - NsPerSec)
                        ELSE timespec(sec, nsec)
=============================================================================
