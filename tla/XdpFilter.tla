------------------------------ MODULE XdpFilter ------------------------------
(***************************************************************************)
(* agent/src/ebpf/xdp_block.c: the program that every CPU runs for every   *)
(* packet it receives, without a lock, on maps that all of them share and  *)
(* the agent writes.  One source address; a packet is one of its IPv4      *)
(* packets or another.  The token bucket is a data race: its loads and     *)
(* stores are steps of their own, in the order of the compiled program     *)
(* (xdp_block.o), which stores last_time_ns before tokens, and tokens once.*)
(***************************************************************************)
EXTENDS Integers, FiniteSets

CONSTANTS
  Cpus,
  rate,         \* rate_limit_pps of the address' bucket
  Second,       \* ticks of the clock in a second (10^9 in the code)
  Word,         \* numbers are below it (2^64)
  MaxTime,      \* bound on the clock
  MaxPackets    \* bound on the packets received

ASSUME XdpAssumption ==
  /\ {rate, Second, MaxTime, MaxPackets} \subseteq Nat \ {0}
  /\ Word \in Nat /\ (MaxTime + 1) * rate < Word
  /\ IsFiniteSet(Cpus)

VARIABLES
  now,      \* bpf_ktime_get_ns()
  blocked,  \* the address is a key of blocked_ips
  limited,  \* ... and of rate_limit_ips
  last,     \* last_time_ns of its bucket
  tokens,   \* tokens
  stats,    \* xdp_stats
  pc, at, reg,  \* of each CPU: its next step, its "now", and a register
  ideal,    \* ghost: what an exact bucket holds after the last packet it let
            \* through, in tokens / Second
  spentAt,  \* ghost: the time of that packet
  raced,    \* ghost: packets that came to the bucket while it was in use
  paced,    \* ghost: the source has kept a distance of a token
  previous  \* ghost: when its last packet came to the bucket, or -1

bucketVars == <<last, tokens>>
ghostVars == <<ideal, spentAt, raced, paced, previous>>
cpuVars == <<pc, at, reg>>
xdpVars == <<now, blocked, limited, bucketVars, stats, cpuVars, ghostVars>>

Total == "total"
Dropped == "dropped"
Passed == "passed"
Wrap(n) == n % Word \* __u64
Smaller(a, b) == IF a < b THEN a ELSE b

(* Whoever adds the bucket may give it any number of tokens up to rate.    *)
XdpInit ==
  /\ now = 0 /\ blocked = FALSE /\ limited \in BOOLEAN /\ last = 0
  /\ tokens \in 0 .. rate
  /\ stats = [s \in {Total, Dropped, Passed} |-> 0]
  /\ pc = [c \in Cpus |-> "idle"] /\ at = [c \in Cpus |-> 0]
  /\ reg = [c \in Cpus |-> 0]
  /\ ideal = tokens * Second /\ spentAt = 0 /\ raced = 0 /\ paced = TRUE /\ previous = -1

-----------------------------------------------------------------------------
update_stat(s) == stats' = [stats EXCEPT ![s] = @ + 1]

Goto(c, from, to) == pc[c] = from /\ pc' = [pc EXCEPT ![c] = to]

(* A packet: of the source, or one that passes (other, or cut short).      *)
Receive(c) ==
  /\ stats[Total] < MaxPackets /\ update_stat(Total)
  /\ Goto(c, "idle", "blocked") \/ Goto(c, "idle", "pass")
  /\ UNCHANGED <<now, blocked, limited, bucketVars, at, reg, ghostVars>>

LookupBlocked(c) ==
  /\ Goto(c, "blocked", IF blocked THEN "drop" ELSE "bucket")
  /\ UNCHANGED <<now, blocked, limited, bucketVars, stats, at, reg, ghostVars>>

InBucket == {c \in Cpus : pc[c] \in {"refill", "stamp", "load", "store", "take", "spend"}}

(* The bucket is found, and the clock read.                                *)
LookupBucket(c) ==
  /\ Goto(c, "bucket", IF limited THEN "refill" ELSE "pass")
  /\ IF limited
     THEN /\ at' = [at EXCEPT ![c] = now] /\ previous' = now
          /\ raced' = raced + (IF InBucket = {} THEN 0 ELSE 1)
          /\ paced' = (paced /\ (IF previous < 0 THEN tokens > 0 \/ now * rate >= Second
                                 ELSE (now - previous) * rate >= Second))
     ELSE UNCHANGED <<at, previous, raced, paced>>
  /\ UNCHANGED <<now, blocked, limited, bucketVars, stats, reg, ideal, spentAt>>

NewTokensRounded(c) == \* mutant: rounds up
  (Wrap(Wrap(at[c] - last) * rate) + Second - 1) \div Second
NewTokensWhole(c) == \* mutant: divides before it multiplies
  Wrap((Wrap(at[c] - last) \div Second) * rate)
(* A last_time_ns later than now, another CPU's, makes it enormous.        *)
NewTokens(c) == Wrap(Wrap(at[c] - last) * rate) \div Second

Refill(c) ==
  /\ Goto(c, "refill", IF NewTokens(c) > 0 THEN "stamp" ELSE "take")
  /\ reg' = [reg EXCEPT ![c] = NewTokens(c)]
  /\ UNCHANGED <<now, blocked, limited, bucketVars, stats, at, ghostVars>>

Stamp(c) ==
  /\ Goto(c, "stamp", "load") /\ last' = at[c]
  /\ UNCHANGED <<now, blocked, limited, tokens, stats, at, reg, ghostVars>>

Load(c) ==
  /\ Goto(c, "load", "store")
  /\ reg' = [reg EXCEPT ![c] = Smaller(Wrap(@ + tokens), rate)]
  /\ UNCHANGED <<now, blocked, limited, bucketVars, stats, at, ghostVars>>

Store(c) ==
  /\ Goto(c, "store", "take") /\ tokens' = reg[c]
  /\ UNCHANGED <<now, blocked, limited, last, stats, at, reg, ghostVars>>

(* The tokens that are compared with 1 are those that are then stored.     *)
Take(c) ==
  /\ Goto(c, "take", IF tokens >= 1 THEN "spend" ELSE "starved")
  /\ reg' = [reg EXCEPT ![c] = tokens]
  /\ UNCHANGED <<now, blocked, limited, bucketVars, stats, at, ghostVars>>

(* The fraction of a token that a full bucket has not yet been given stays *)
(* with last_time_ns: it comes on top of rate.                             *)
Capacity == rate * Second + (Second - 1)

SpentIdeal(c) ==
  /\ spentAt' = IF at[c] < spentAt THEN spentAt ELSE at[c]
  /\ ideal' = Smaller(ideal + (spentAt' - spentAt) * rate, Capacity) - Second

SpendReloaded(c) == \* mutant: tokens is loaded again for the decrement
  /\ Goto(c, "spend", "pass")
  /\ tokens' = Wrap(tokens - 1) /\ SpentIdeal(c)
  /\ UNCHANGED <<now, blocked, limited, last, stats, at, reg, raced, paced, previous>>
Spend(c) ==
  /\ Goto(c, "spend", "pass")
  /\ tokens' = Wrap(reg[c] - 1) /\ SpentIdeal(c)
  /\ UNCHANGED <<now, blocked, limited, last, stats, at, reg, raced, paced, previous>>

Drop(c) ==
  /\ Goto(c, "drop", "idle") \/ Goto(c, "starved", "idle")
  /\ update_stat(Dropped)
  /\ UNCHANGED <<now, blocked, limited, bucketVars, at, reg, ghostVars>>

Pass(c) ==
  /\ Goto(c, "pass", "idle") /\ update_stat(Passed)
  /\ UNCHANGED <<now, blocked, limited, bucketVars, at, reg, ghostVars>>

-----------------------------------------------------------------------------
(* bpftool on behalf of the agent (block_ip, unblock_ip).                  *)
Agent ==
  /\ blocked' = ~blocked
  /\ UNCHANGED <<now, limited, bucketVars, stats, cpuVars, ghostVars>>

Tick ==
  /\ now < MaxTime /\ now' = now + 1
  /\ UNCHANGED <<blocked, limited, bucketVars, stats, cpuVars, ghostVars>>

xdp_filter(c) ==
  \/ Receive(c) \/ LookupBlocked(c) \/ LookupBucket(c) \/ Refill(c) \/ Stamp(c)
  \/ Load(c) \/ Store(c) \/ Take(c) \/ Spend(c) \/ Drop(c) \/ Pass(c)

XdpNext == (\E c \in Cpus : xdp_filter(c)) \/ Agent \/ Tick

XdpSpec == XdpInit /\ [][XdpNext]_xdpVars

-----------------------------------------------------------------------------
(* Properties *)

Steps == {"idle", "blocked", "bucket", "drop", "starved", "pass", "refill",
          "stamp", "load", "store", "take", "spend"}

(* The CPUs with a packet that is in Total and in no other statistic yet.  *)
Busy == {c \in Cpus : pc[c] # "idle"}
Balance == stats[Total] = stats[Dropped] + stats[Passed] + Cardinality(Busy)

(* Every variable has its type, a bucket never holds more than rate        *)
(* tokens, whichever loads and stores of the CPUs come between each other, *)
(* and every packet received is dropped, passed or at one CPU.             *)
XdpTypeOK ==
  /\ now \in 0 .. MaxTime /\ blocked \in BOOLEAN /\ limited \in BOOLEAN
  /\ last \in 0 .. MaxTime /\ tokens \in 0 .. rate
  /\ stats \in [{Total, Dropped, Passed} -> 0 .. MaxPackets]
  /\ pc \in [Cpus -> Steps] /\ at \in [Cpus -> 0 .. MaxTime]
  /\ reg \in [Cpus -> 0 .. Word - 1]
  /\ ideal \in Int /\ spentAt \in 0 .. MaxTime /\ raced \in Nat /\ paced \in BOOLEAN
  /\ previous \in -1 .. MaxTime
  /\ Balance

(* The limit holds exactly while no two CPUs are at the bucket together,   *)
(* and each packet that came to it while it was in use lets at most rate   *)
(* packets more through, and one: a lost update, a last_time_ns set back   *)
(* or an elapsed time that wraps cannot do more (xdp_block.c:107-131).     *)
RateKept == ideal >= -((rate + 1) * Second * raced)

(* A source whose packets keep the distance of a token, on one CPU at a    *)
(* time, is never starved: dropping the fraction of a token when           *)
(* last_time_ns is set does not starve it (xdp_block.c:111-121).           *)
PacedNotStarved ==
  paced /\ raced = 0 => \A c \in Cpus : pc[c] # "starved"
=============================================================================
