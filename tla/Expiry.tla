------------------------------- MODULE Expiry -------------------------------
(***************************************************************************)
(* When a stored entry is over.  StoreEntry and RankEntry carry the same   *)
(* three fields (policy, mapCounter, expireTime) and the same IsExpired;   *)
(* ApplyExpiration and ApplyRankExpiration are the same code twice.        *)
(*                                                                         *)
(* An entry here has a field policy and a field until: the one number its  *)
(* policy reads.  For "TTL" it is the tick of the steady clock at which    *)
(* the entry ends, for "MapCount" the map changes left, otherwise 0.  The  *)
(* field the policy does not read is left out: ApplyExpiration always      *)
(* rewrites the one the new policy reads, so a leftover is never seen.     *)
(***************************************************************************)
EXTENDS Integers

CONSTANTS
    MaxTtl,          \* MAX_TTL_SECONDS: the cap on a TTL, in seconds
    DefaultTtl,      \* the TTL of a call whose extra is not positive
    TicksPerSecond   \* resolution of the steady clock

ASSUME ExpiryAssumption ==
    /\ MaxTtl \in Nat \ {0}
    /\ DefaultTtl \in 1..MaxTtl
    /\ TicksPerSecond \in Nat \ {0}

ExpirePolicy == {"Persistent", "MapEnd", "MapCount", "TTL"}

\* What a caller passes: the policy and its extra argument.
Expiration == [policy : ExpirePolicy, extra : Int]

Lesser(a, b) == IF a <= b THEN a ELSE b

\* Mutant: a TTL is not capped.
UncappedSeconds(extra) == IF extra > 0 THEN extra ELSE DefaultTtl

\* The seconds a TTL call asks for, defaulted and capped.
TtlSeconds(extra) == IF extra > 0 THEN Lesser(extra, MaxTtl) ELSE DefaultTtl

\* ApplyExpiration at tick t.
Until(ex, t) ==
    CASE ex.policy = "TTL"      -> t + TtlSeconds(ex.extra) * TicksPerSecond
      [] ex.policy = "MapCount" -> IF ex.extra > 0 THEN ex.extra ELSE 1
      [] OTHER                  -> 0

WithExpiration(e, ex, t) ==
    [e EXCEPT !.policy = ex.policy, !.until = Until(ex, t)]

\* The map counter only ends an entry when it has run out; MapEnd entries
\* are ended by the sweep alone.
IsExpired(e, t) ==
    \/ e.policy = "TTL" /\ t >= e.until
    \/ e.policy = "MapCount" /\ e.until <= 0

-----------------------------------------------------------------------------
(* One map change at tick t: the sweep either removes an entry or, for     *)
(* MapCount, takes one map change off it.                                  *)

\* Mutant: an entry ends with one map change left.
EndsAtLast(e, t) ==
    \/ e.policy = "MapEnd"
    \/ e.policy = "MapCount" /\ e.until - 1 <= 1
    \/ e.policy = "TTL" /\ t >= e.until

\* Mutant: the counter reaches 0 and the entry stays.
EndsBelowZero(e, t) ==
    \/ e.policy = "MapEnd"
    \/ e.policy = "MapCount" /\ e.until - 1 < 0
    \/ e.policy = "TTL" /\ t >= e.until

EndsAtSweep(e, t) ==
    \/ e.policy = "MapEnd"
    \/ e.policy = "MapCount" /\ e.until - 1 <= 0
    \/ e.policy = "TTL" /\ t >= e.until

AfterSweep(e) ==
    IF e.policy = "MapCount" THEN [e EXCEPT !.until = @ - 1] ELSE e

\* An inc native renews the expiry of an existing entry unless it is called
\* with the default arguments.
RenewsExpiry(ex) == ex.policy # "Persistent" \/ ex.extra # 0
=============================================================================
