------------------------------ MODULE XdpProofs ------------------------------
(* Theorems about XdpFilter, for any number of CPUs, any rate and clock,   *)
(* and every interleaving of the loads and stores of the token bucket.     *)
EXTENDS XdpFilter, FiniteSetTheorems, TLAPS

(* What is stored to the bucket is at most rate, and what is spent is      *)
(* there; the ghosts lie in the past.                                      *)
Registers ==
  /\ \A c \in Cpus :
       /\ at[c] <= now
       /\ pc[c] = "store" => reg[c] <= rate
       /\ pc[c] = "spend" => reg[c] \in 1 .. rate
  /\ spentAt <= now /\ last <= now
  /\ ideal <= Capacity

XdpTyped == XdpTypeOK /\ Registers

(* The elements of the bucket's program.                                   *)
Waiting == Cardinality(InBucket)

(* The content of the exact bucket at time t, and what the races allow.    *)
Slack == (rate + 1) * Second * raced
Content(t) == Smaller(ideal + (t - spentAt) * rate, Capacity) + Slack

(* Nobody is at the bucket: what it holds and what a Refill would add is   *)
(* covered by the exact bucket.                                            *)
Idle ==
  /\ InBucket = {}
  /\ Content(now) >= Smaller(tokens * Second + (now - last) * rate, Capacity)

(* One CPU is, and none was when it came: its own program keeps that.      *)
Alone(c) ==
  /\ InBucket = {c} /\ spentAt <= at[c] /\ last <= at[c]
  /\ pc[c] \in {"refill", "stamp"} =>
       Content(at[c]) >= Smaller(tokens * Second + (at[c] - last) * rate, Capacity)
  /\ pc[c] = "stamp" => reg[c] * Second <= (at[c] - last) * rate
  /\ pc[c] = "load" =>
       /\ last = at[c]
       /\ Content(at[c]) >= Smaller((tokens + reg[c]) * Second, Capacity)
  /\ pc[c] = "store" => last = at[c] /\ Content(at[c]) >= reg[c] * Second
  /\ pc[c] \in {"take", "spend"} =>
       /\ (at[c] - last) * rate < Second
       /\ Content(at[c]) >= tokens * Second + (at[c] - last) * rate
  /\ pc[c] = "spend" => reg[c] = tokens

(* The times that last_time_ns has or can still be given.                  *)
Stamps == {last} \cup {at[c] : c \in {d \in Cpus : pc[d] \in {"refill", "stamp"}}}

(* Several CPUs have met there: the exact bucket covers a packet for each  *)
(* that is still there, and then one that is full but for one token.       *)
Raced ==
  /\ InBucket # {} /\ raced >= 1
  /\ ideal + Slack >= Waiting * Second
  /\ \A t \in Stamps :
       Content(now) >= (rate - 1) * Second + Waiting * Second
                         + Smaller((now - t) * rate, 2 * Second - 1)

Covered ==
  /\ RateKept /\ Waiting <= raced + 1
  /\ Idle \/ (\E c \in Cpus : Alone(c)) \/ Raced

(* The source kept its distance: whoever is alone finds a token.           *)
Fed(c) ==
  /\ InBucket = {c} => previous = at[c]
  /\ pc[c] = "refill" => tokens >= 1 \/ (at[c] - last) * rate >= Second
  /\ pc[c] \in {"stamp", "load"} => reg[c] <= MaxTime * rate
  /\ pc[c] \in {"stamp", "load", "store"} => reg[c] >= 1
  /\ pc[c] = "take" => tokens >= 1
Nourished ==
  paced /\ raced = 0 =>
    /\ PacedNotStarved
    /\ \A c \in Cpus : Fed(c)
    /\ InBucket = {} => IF previous < 0 THEN last = 0 ELSE last <= previous

XdpInv == XdpTyped /\ Covered /\ Nourished

-----------------------------------------------------------------------------
(* Arithmetic *)

(* A product grows with its factor.                                        *)
LEMMA TimesMonotonic ==
  ASSUME NEW a \in Int, NEW b \in Int, NEW k \in Nat, a <= b
  PROVE  a * k <= b * k
OBVIOUS

LEMMA Difference ==
  ASSUME NEW a \in Int, NEW b \in Int, a <= b
  PROVE  b - a \in Nat
OBVIOUS

LEMMA TimesNat ==
  ASSUME NEW a \in Nat, NEW k \in Nat
  PROVE  a * k \in Nat
OBVIOUS

(* A quotient, and what is left of a number by it.                         *)
LEMMA Quotient ==
  ASSUME NEW a \in Nat, NEW k \in Nat \ {0}
  PROVE  /\ a \div k \in Nat /\ a \div k <= a
         /\ (a \div k) * k <= a /\ a < (a \div k) * k + k
OBVIOUS

(* The constants, and the products of them that occur.                     *)
LEMMA Constants ==
  /\ rate \in Nat /\ rate >= 1 /\ Second \in Nat /\ Second >= 1
  /\ MaxTime \in Nat /\ MaxTime >= 1 /\ MaxPackets \in Nat /\ Word \in Nat
  /\ rate * Second \in Nat /\ rate * Second >= Second
  /\ Capacity \in Nat /\ Capacity >= 2 * Second - 1
  /\ MaxTime * rate + rate < Word /\ MaxTime * rate < Word
  /\ MaxTime < Word /\ rate < Word /\ Word >= 1
<1>1. /\ rate \in Nat /\ rate >= 1 /\ Second \in Nat /\ Second >= 1
      /\ MaxTime \in Nat /\ MaxTime >= 1 /\ MaxPackets \in Nat /\ Word \in Nat
      /\ (MaxTime + 1) * rate < Word
  BY XdpAssumption DEF XdpAssumption
<1>2. rate * Second \in Nat /\ 1 * Second <= rate * Second
  BY <1>1, TimesMonotonic
<1>3. MaxTime * rate \in Nat /\ 1 * rate <= MaxTime * rate
      /\ MaxTime * 1 <= MaxTime * rate /\ (MaxTime + 1) * rate = MaxTime * rate + rate
  BY <1>1, TimesMonotonic
<1>. QED
  BY <1>1, <1>2, <1>3 DEF Capacity

(* Numbers below 2^64 are not cut off, and cutting off makes none larger.  *)
LEMMA WrapSmall ==
  ASSUME NEW n \in Nat
  PROVE  Wrap(n) \in 0 .. Word - 1 /\ Wrap(n) <= n /\ (n < Word => Wrap(n) = n)
BY Constants DEF Wrap

LEMMA WrapType ==
  ASSUME NEW n \in Int
  PROVE  Wrap(n) \in 0 .. Word - 1
BY Constants DEF Wrap

(* What a Refill of a CPU computes, whatever the others have stored.       *)
LEMMA NewTokensType ==
  ASSUME XdpTypeOK, NEW c \in Cpus
  PROVE  NewTokens(c) \in 0 .. Word - 1
<1>1. at[c] - last \in Int
  BY Constants DEF XdpTypeOK
<1>2. Wrap(at[c] - last) * rate \in Int
  BY <1>1, WrapType, Constants
<1>3. Wrap(Wrap(at[c] - last) * rate) \in 0 .. Word - 1
  BY <1>2, WrapType
<1>. QED
  BY <1>3, Quotient, Constants DEF NewTokens

(* With a last_time_ns in the past nothing is cut off.                     *)
LEMMA NewTokensExact ==
  ASSUME XdpTypeOK, NEW c \in Cpus, last <= at[c]
  PROVE  /\ (at[c] - last) * rate \in Nat /\ NewTokens(c) \in Nat
         /\ NewTokens(c) * Second <= (at[c] - last) * rate
         /\ (at[c] - last) * rate < NewTokens(c) * Second + Second
         /\ NewTokens(c) <= MaxTime * rate
<1>1. at[c] - last \in 0 .. MaxTime
  BY Constants DEF XdpTypeOK
<1>2. (at[c] - last) * rate \in Nat /\ (at[c] - last) * rate <= MaxTime * rate
  BY <1>1, TimesMonotonic, Constants
<1>3. Wrap(at[c] - last) = at[c] - last
  BY <1>1, WrapSmall, Constants
<1>4. Wrap((at[c] - last) * rate) = (at[c] - last) * rate
  BY <1>2, WrapSmall, Constants
<1>5. NewTokens(c) = ((at[c] - last) * rate) \div Second
  BY <1>3, <1>4 DEF NewTokens
<1>. DEFINE credit == (at[c] - last) * rate
<1>6. credit \in Nat /\ credit <= MaxTime * rate /\ NewTokens(c) = credit \div Second
  BY <1>2, <1>5
<1>7. Second \in Nat \ {0} /\ MaxTime * rate \in Nat
  BY Constants
<1>. HIDE DEF credit
<1>8. /\ credit \in Nat /\ NewTokens(c) \in Nat
      /\ NewTokens(c) * Second <= credit /\ credit < NewTokens(c) * Second + Second
      /\ NewTokens(c) <= MaxTime * rate
  BY <1>6, <1>7, Quotient
<1>. QED
  BY <1>8 DEF credit

-----------------------------------------------------------------------------
(* Types, the contents of the registers, and the balance of the statistics *)

LEMMA TypedInit == XdpInit => XdpTyped
<1> SUFFICES ASSUME XdpInit PROVE XdpTyped
  OBVIOUS
<1>1. Busy = {} /\ Cardinality(Busy) = 0
  BY FS_EmptySet DEF XdpInit, Busy
<1>2. tokens * Second \in Int /\ tokens * Second <= rate * Second
  BY TimesMonotonic, Constants DEF XdpInit
<1>. QED
  <2>1. XdpTypeOK
    <3>1. paced \in BOOLEAN /\ blocked \in BOOLEAN /\ limited \in BOOLEAN
      BY DEF XdpInit
    <3>2. pc \in [Cpus -> Steps]
      BY DEF XdpInit, Steps
    <3>3. Balance
      BY <1>1 DEF XdpInit, Balance, Total, Dropped, Passed
    <3>. QED
      BY <1>2, <3>1, <3>2, <3>3, Constants DEF XdpInit, XdpTypeOK
  <2>2. Registers
    BY <1>2, Constants DEF XdpInit, Registers, Capacity
  <2>. QED
    BY <2>1, <2>2 DEF XdpTyped

(* A CPU starts with a packet, or is done with it.                         *)
LEMMA BusyFinite == IsFiniteSet(Busy) /\ Cardinality(Busy) \in Nat
BY XdpAssumption, FS_Subset, FS_CardinalityType DEF XdpAssumption, Busy

LEMMA TypedReceive ==
  ASSUME XdpTyped, NEW c \in Cpus, Receive(c)
  PROVE  XdpTyped'
<1>1. Busy' = Busy \cup {c} /\ c \notin Busy
  BY DEF Receive, Goto, Busy, XdpTyped, XdpTypeOK
<1>2. Cardinality(Busy') = Cardinality(Busy) + 1
  BY <1>1, BusyFinite, FS_AddElement
<1>. QED
  BY <1>2, BusyFinite, Constants
     DEF XdpTyped, XdpTypeOK, Registers, Balance, Receive, Goto, update_stat, Steps,
         Total, Dropped, Passed, bucketVars, ghostVars, Capacity

LEMMA TypedLeave ==
  ASSUME XdpTyped, NEW c \in Cpus, Drop(c) \/ Pass(c)
  PROVE  XdpTyped'
<1>1. Busy' = Busy \ {c} /\ c \in Busy
  BY DEF Drop, Pass, Goto, Busy, XdpTyped, XdpTypeOK
<1>2. Cardinality(Busy') = Cardinality(Busy) - 1 /\ Cardinality(Busy) >= 1
  BY <1>1, BusyFinite, FS_RemoveElement, FS_EmptySet
<1>. QED
  BY <1>2, BusyFinite, Constants
     DEF XdpTyped, XdpTypeOK, Registers, Balance, Drop, Pass, Goto, update_stat, Steps,
         Total, Dropped, Passed, bucketVars, ghostVars, Capacity

(* A step from one point of the program to another leaves it busy.         *)
LEMMA BusyGoto ==
  ASSUME XdpTypeOK, NEW c \in Cpus, NEW from \in Steps \ {"idle"},
         NEW to \in Steps \ {"idle"}, Goto(c, from, to)
  PROVE  Busy' = Busy /\ pc' \in [Cpus -> Steps]
BY DEF Goto, Busy, XdpTypeOK

LEMMA TypedBucket ==
  ASSUME XdpTyped, NEW c \in Cpus,
         \/ LookupBlocked(c) \/ LookupBucket(c) \/ Refill(c) \/ Stamp(c)
         \/ Load(c) \/ Store(c) \/ Take(c)
  PROVE  XdpTyped'
<1>1. Busy' = Busy /\ pc' \in [Cpus -> Steps]
  BY BusyGoto
     DEF XdpTyped, LookupBlocked, LookupBucket, Refill, Stamp, Load, Store, Take, Steps
<1>2. CASE LookupBlocked(c)
  BY <1>1, <1>2, Constants
     DEF XdpTyped, XdpTypeOK, Registers, Balance, LookupBlocked, Goto, bucketVars,
         ghostVars, Capacity, Steps
<1>3. CASE LookupBucket(c)
  <2>1. at' \in [Cpus -> 0 .. MaxTime] /\ \A d \in Cpus : at'[d] <= now
    BY <1>3 DEF XdpTyped, XdpTypeOK, Registers, LookupBucket
  <2>2. previous' \in -1 .. MaxTime /\ raced' \in Nat
    BY <1>3, Constants DEF XdpTyped, XdpTypeOK, LookupBucket
  <2>3. paced' \in BOOLEAN
    BY <1>3, Zenon DEF XdpTyped, XdpTypeOK, LookupBucket
  <2>4. \A d \in Cpus : pc'[d] \in {"store", "spend"} => pc[d] = pc'[d]
    BY <1>3 DEF XdpTyped, XdpTypeOK, LookupBucket, Goto
  <2>5. UNCHANGED <<now, blocked, limited, last, tokens, stats, reg, ideal, spentAt>>
    BY <1>3 DEF LookupBucket, bucketVars
  <2>. QED
    BY <1>1, <2>1, <2>2, <2>3, <2>4, <2>5, Constants
       DEF XdpTyped, XdpTypeOK, Registers, Balance, Capacity
<1>4. CASE Refill(c)
  BY <1>1, <1>4, Constants, NewTokensType
     DEF XdpTyped, XdpTypeOK, Registers, Balance, Refill, Goto, bucketVars,
         ghostVars, Capacity, Steps
<1>5. CASE Stamp(c)
  BY <1>1, <1>5, Constants
     DEF XdpTyped, XdpTypeOK, Registers, Balance, Stamp, Goto, bucketVars,
         ghostVars, Capacity, Steps
<1>6. CASE Load(c)
  <2>1. reg[c] + tokens \in Nat
    BY Constants DEF XdpTyped, XdpTypeOK
  <2>2. Smaller(Wrap(reg[c] + tokens), rate) \in 0 .. rate
    BY <2>1, WrapSmall, Constants DEF Smaller
  <2>. QED
    BY <1>1, <1>6, <2>2, Constants
       DEF XdpTyped, XdpTypeOK, Registers, Balance, Load, Goto, bucketVars,
           ghostVars, Capacity, Steps
<1>7. CASE Store(c)
  BY <1>1, <1>7, Constants
     DEF XdpTyped, XdpTypeOK, Registers, Balance, Store, Goto, bucketVars,
         ghostVars, Capacity, Steps
<1>8. CASE Take(c)
  BY <1>1, <1>8, Constants
     DEF XdpTyped, XdpTypeOK, Registers, Balance, Take, Goto, bucketVars,
         ghostVars, Capacity, Steps
<1>. QED
  BY <1>2, <1>3, <1>4, <1>5, <1>6, <1>7, <1>8

(* The exact bucket when a packet of time at[c] is let through.            *)
LEMMA SpentType ==
  ASSUME XdpTyped, NEW c \in Cpus, SpentIdeal(c)
  PROVE  /\ spentAt' \in 0 .. MaxTime /\ spentAt' <= now /\ spentAt' >= spentAt
         /\ spentAt' >= at[c] /\ (spentAt <= at[c] => spentAt' = at[c])
         /\ (spentAt' - spentAt) * rate \in Nat
         /\ ideal' \in Int /\ ideal' <= Capacity - Second
<1>1. /\ spentAt' \in 0 .. MaxTime /\ spentAt' <= now /\ spentAt' >= spentAt
      /\ spentAt' >= at[c] /\ (spentAt <= at[c] => spentAt' = at[c])
  BY Constants DEF SpentIdeal, XdpTyped, XdpTypeOK, Registers
<1>2. (spentAt' - spentAt) * rate \in Nat
  <2>1. spentAt' - spentAt \in Nat
    <3>1. spentAt \in Int /\ spentAt' \in Int
      BY <1>1, Constants DEF XdpTyped, XdpTypeOK
    <3>. QED
      BY <1>1, <3>1, Difference
  <2>. QED
    BY <2>1, TimesNat, Constants
<1>3. ideal + (spentAt' - spentAt) * rate \in Int
  BY <1>2 DEF XdpTyped, XdpTypeOK
<1>. QED
  BY <1>1, <1>2, <1>3, Constants DEF SpentIdeal, Smaller

LEMMA TypedSpend ==
  ASSUME XdpTyped, NEW c \in Cpus, Spend(c)
  PROVE  XdpTyped' /\ tokens' = reg[c] - 1 /\ reg[c] \in 1 .. rate
<1>1. reg[c] \in 1 .. rate /\ SpentIdeal(c)
  BY DEF XdpTyped, Registers, Spend, Goto
<1>2. tokens' = reg[c] - 1
  BY <1>1, WrapSmall, Constants DEF Spend
<1>3. Busy' = Busy /\ pc' \in [Cpus -> Steps]
  BY BusyGoto DEF XdpTyped, Spend, Steps
<1>. QED
  BY <1>1, <1>2, <1>3, SpentType, Constants
     DEF XdpTyped, XdpTypeOK, Registers, Balance, Spend, Goto, Steps

LEMMA TypedTick ==
  ASSUME XdpTyped, Agent \/ Tick
  PROVE  XdpTyped'
<1>1. Busy' = Busy
  BY DEF Agent, Tick, cpuVars, Busy
<1>2. blocked' \in BOOLEAN
  BY DEF Agent, Tick, XdpTyped, XdpTypeOK
<1>3. /\ now' \in 0 .. MaxTime /\ now' >= now
      /\ UNCHANGED <<limited, last, tokens, stats, pc, at, reg, ideal, spentAt, raced,
                     paced, previous>>
  BY Constants
     DEF Agent, Tick, XdpTyped, XdpTypeOK, cpuVars, bucketVars, ghostVars
<1>. QED
  BY <1>1, <1>2, <1>3, Constants
     DEF XdpTyped, XdpTypeOK, Registers, Balance, Capacity

LEMMA TypedNext ==
  ASSUME XdpTyped, [XdpNext]_xdpVars
  PROVE  XdpTyped'
<1>1. CASE UNCHANGED xdpVars
  BY <1>1
     DEF xdpVars, bucketVars, cpuVars, ghostVars, XdpTyped, XdpTypeOK, Registers,
         Balance, Busy, Capacity
<1>. QED
  BY <1>1, TypedReceive, TypedBucket, TypedSpend, TypedLeave, TypedTick
     DEF XdpNext, xdp_filter

(* Every variable keeps its type, the bucket never holds more than rate    *)
(* tokens, and the statistics account for every packet: each is dropped,   *)
(* passed or at one CPU (xdp_block.c:67-151).                              *)
THEOREM XdpTypes == XdpSpec => []XdpTypeOK
<1>1. XdpTyped /\ [XdpNext]_xdpVars => XdpTyped'
  BY TypedNext
<1>2. XdpTyped => XdpTypeOK
  BY DEF XdpTyped
<1>. QED
  BY TypedInit, <1>1, <1>2, PTL DEF XdpSpec

-----------------------------------------------------------------------------
(* The limit *)

LEMMA SlackType ==
  ASSUME XdpTypeOK
  PROVE  Slack \in Nat /\ (raced >= 1 => Slack >= (raced + 1) * Second)
<1>1. raced \in Nat
  BY DEF XdpTypeOK
<1>2. (rate + 1) * Second \in Nat /\ 2 * Second <= (rate + 1) * Second
  BY Constants, TimesMonotonic, TimesNat
<1>3. Slack \in Nat
  BY <1>1, <1>2, TimesNat DEF Slack
<1>4. ASSUME raced >= 1 PROVE Slack >= (raced + 1) * Second
  <2>1. (2 * Second) * raced <= ((rate + 1) * Second) * raced
    BY <1>1, <1>2, TimesMonotonic, Constants
  <2>2. Second <= raced * Second
    BY <1>1, <1>4, TimesMonotonic, Constants
  <2>. QED
    BY <1>1, <2>1, <2>2, Constants DEF Slack
<1>. QED
  BY <1>3, <1>4

LEMMA BucketFinite ==
  IsFiniteSet(InBucket) /\ Waiting \in Nat /\ (Waiting = 0 <=> InBucket = {})
BY XdpAssumption, FS_Subset, FS_CardinalityType, FS_EmptySet
   DEF XdpAssumption, InBucket, Waiting

(* Time fills the exact bucket, up to its capacity.                        *)
LEMMA Filled ==
  ASSUME NEW i \in Int, NEW s \in Int, NEW t \in Int, NEW u \in Int, t <= u,
         NEW slack \in Nat, NEW x \in Int,
         Smaller(i + (t - s) * rate, Capacity) + slack >= x
  PROVE  Smaller(i + (u - s) * rate, Capacity) + slack
           >= Smaller(x + (u - t) * rate, Capacity)
<1>1. (u - t) * rate \in Nat
  BY Difference, TimesNat, Constants
<1>2. (u - s) * rate = (t - s) * rate + (u - t) * rate /\ (t - s) * rate \in Int
  BY Constants
<1>. QED
  BY <1>1, <1>2, Constants DEF Smaller

LEMMA ContentLater ==
  ASSUME XdpTypeOK, NEW t \in Int, NEW u \in Int, t <= u, NEW x \in Int,
         Content(t) >= x
  PROVE  Content(u) >= Smaller(x + (u - t) * rate, Capacity)
BY Filled, SlackType DEF Content, XdpTypeOK

LEMMA ContentType ==
  ASSUME XdpTypeOK, NEW t \in Int
  PROVE  Content(t) \in Int /\ Content(t) <= Capacity + Slack
<1>1. ideal \in Int /\ spentAt \in Int
  BY Constants DEF XdpTypeOK
<1>2. (t - spentAt) * rate \in Int
  BY <1>1, Constants
<1>. QED
  BY <1>1, <1>2, SlackType, Constants DEF Content, Smaller

(* Nothing of the bucket changes, and nobody enters or leaves.             *)
LEMMA CoveredFrame ==
  ASSUME Covered, InBucket' = InBucket, \A c \in InBucket : pc'[c] = pc[c],
         UNCHANGED <<now, last, tokens, at, reg, ideal, spentAt, raced>>
  PROVE  Covered'
<1>1. RateKept' /\ Waiting' <= raced' + 1
  BY DEF Covered, RateKept, Waiting
<1>2. \A t : Content(t)' = Content(t)
  BY DEF Content, Slack
<1>3. CASE Idle
  <2>1. Idle'
    BY <1>2, <1>3 DEF Idle
  <2>. QED
    BY <1>1, <2>1 DEF Covered
<1>4. ASSUME NEW c \in Cpus, Alone(c) PROVE Alone(c)'
  <2>1. c \in InBucket /\ pc'[c] = pc[c] /\ Content(at[c])' = Content(at[c])
    BY <1>2, <1>4 DEF Alone, Content, Slack
  <2>. QED
    BY <1>4, <2>1 DEF Alone
<1>5. CASE Raced
  <2>1. Stamps' = Stamps
    BY DEF Stamps, InBucket
  <2>2. Slack' = Slack /\ Content(now)' = Content(now)
    BY DEF Slack, Content
  <2>3. Raced'
    BY <1>5, <2>1, <2>2 DEF Raced, Waiting
  <2>. QED
    BY <1>1, <2>3 DEF Covered
<1>. QED
  BY <1>1, <1>3, <1>4, <1>5 DEF Covered

LEMMA CoveredOutside ==
  ASSUME XdpTyped, Covered,
         \/ \E c \in Cpus : Receive(c) \/ LookupBlocked(c) \/ Drop(c) \/ Pass(c)
         \/ \E c \in Cpus : LookupBucket(c) /\ ~limited
         \/ Agent \/ UNCHANGED xdpVars
  PROVE  Covered'
<1>1. /\ InBucket' = InBucket /\ \A c \in InBucket : pc'[c] = pc[c]
      /\ UNCHANGED <<now, last, tokens, at, reg, ideal, spentAt, raced>>
  BY DEF XdpTyped, XdpTypeOK, Receive, LookupBlocked, Drop, Pass, LookupBucket, Agent,
         Goto, InBucket, xdpVars, bucketVars, cpuVars, ghostVars
<1>. QED
  BY <1>1, CoveredFrame

(* A step of the program between two points of the bucket's part of it.    *)
LEMMA Inside ==
  ASSUME XdpTypeOK, NEW c \in Cpus, NEW from, NEW to, Goto(c, from, to),
         from \in {"refill", "stamp", "load", "store", "take", "spend"},
         to \in {"refill", "stamp", "load", "store", "take", "spend"}
  PROVE  InBucket' = InBucket /\ Waiting' = Waiting /\ c \in InBucket /\ pc'[c] = to
<1>1. InBucket' = InBucket /\ c \in InBucket /\ pc'[c] = to
  BY DEF XdpTypeOK, Goto, InBucket
<1>. QED
  BY <1>1 DEF Waiting

(* If several have met, such a step keeps what covers them.                *)
LEMMA RacedInside ==
  ASSUME Raced, InBucket' = InBucket, Stamps' \subseteq Stamps,
         UNCHANGED <<now, ideal, spentAt, raced>>
  PROVE  Raced'
<1>1. Slack' = Slack /\ Content(now)' = Content(now) /\ Waiting' = Waiting
  BY DEF Slack, Content, Waiting
<1>. QED
  BY <1>1 DEF Raced

(* Who is at the bucket is alone there, or several have met.               *)
LEMMA AloneOrRaced ==
  ASSUME Covered, NEW c \in InBucket
  PROVE  (c \in Cpus /\ Alone(c)) \/ Raced
BY DEF Covered, Idle, Alone, InBucket

LEMMA CoveredRefill ==
  ASSUME XdpTyped, Covered, NEW c \in Cpus, Refill(c)
  PROVE  Covered'
<1>1. /\ XdpTypeOK /\ pc[c] = "refill"
      /\ UNCHANGED <<now, last, tokens, at, ideal, spentAt, raced>>
      /\ reg'[c] = NewTokens(c)
  BY DEF XdpTyped, XdpTypeOK, Refill, Goto, bucketVars, ghostVars
<1>2. /\ InBucket' = InBucket /\ Waiting' = Waiting /\ c \in InBucket
      /\ pc'[c] = IF NewTokens(c) > 0 THEN "stamp" ELSE "take"
  BY <1>1, Inside DEF Refill
<1>3. RateKept' /\ Waiting' <= raced' + 1
  BY <1>1, <1>2 DEF Covered, RateKept
<1>4. CASE Alone(c)
  <2>1. /\ InBucket' = {c} /\ spentAt <= at[c] /\ last <= at[c]
        /\ Content(at[c]) >= Smaller(tokens * Second + (at[c] - last) * rate, Capacity)
    BY <1>1, <1>2, <1>4 DEF Alone
  <2>2. Content(at[c])' = Content(at[c])
    BY <1>1 DEF Content, Slack
  <2>3. /\ (at[c] - last) * rate \in Nat /\ NewTokens(c) \in Nat
        /\ NewTokens(c) * Second <= (at[c] - last) * rate
        /\ (at[c] - last) * rate < NewTokens(c) * Second + Second
    BY <1>1, <2>1, NewTokensExact
  <2>4. ASSUME NewTokens(c) > 0 PROVE Alone(c)'
    BY <1>1, <1>2, <2>1, <2>2, <2>3, <2>4 DEF Alone
  <2>5. ASSUME NewTokens(c) = 0 PROVE Alone(c)'
    <3>1. tokens * Second <= rate * Second /\ tokens * Second \in Nat
      BY <1>1, TimesMonotonic, TimesNat, Constants DEF XdpTypeOK
    <3>2. (at[c] - last) * rate < Second
      BY <2>3, <2>5, Constants
    <3>3. Content(at[c]) >= tokens * Second + (at[c] - last) * rate
      <4>1. Content(at[c]) \in Int
        BY <1>1, ContentType DEF XdpTypeOK
      <4>. QED
        BY <2>1, <2>3, <3>1, <3>2, <4>1, Constants DEF Smaller, Capacity
    <3>. QED
      BY <1>1, <1>2, <2>1, <2>2, <2>5, <3>2, <3>3 DEF Alone
  <2>6. Alone(c)'
    BY <2>3, <2>4, <2>5
  <2>. QED
    BY <1>3, <2>6 DEF Covered
<1>5. CASE Raced
  <2>1. Stamps' \subseteq Stamps
    BY <1>1, <1>2 DEF Stamps, Refill, Goto, XdpTypeOK
  <2>. QED
    BY <1>1, <1>2, <1>3, <1>5, <2>1, RacedInside DEF Covered
<1>. QED
  BY <1>2, <1>4, <1>5, AloneOrRaced

LEMMA CoveredStamp ==
  ASSUME XdpTyped, Covered, NEW c \in Cpus, Stamp(c)
  PROVE  Covered'
<1>1. /\ XdpTypeOK /\ pc[c] = "stamp" /\ last' = at[c]
      /\ UNCHANGED <<now, tokens, at, reg, ideal, spentAt, raced>>
  BY DEF XdpTyped, XdpTypeOK, Stamp, Goto, ghostVars
<1>2. InBucket' = InBucket /\ Waiting' = Waiting /\ c \in InBucket /\ pc'[c] = "load"
  BY <1>1, Inside DEF Stamp
<1>3. RateKept' /\ Waiting' <= raced' + 1
  BY <1>1, <1>2 DEF Covered, RateKept
<1>4. CASE Alone(c)
  <2>1. /\ InBucket' = {c} /\ spentAt <= at[c] /\ last <= at[c]
        /\ Content(at[c]) >= Smaller(tokens * Second + (at[c] - last) * rate, Capacity)
        /\ reg[c] * Second <= (at[c] - last) * rate
    BY <1>1, <1>2, <1>4 DEF Alone
  <2>2. Content(at[c])' = Content(at[c])
    BY <1>1 DEF Content, Slack
  <2>3. /\ (tokens + reg[c]) * Second = tokens * Second + reg[c] * Second
        /\ tokens * Second \in Int /\ reg[c] * Second \in Int
        /\ (at[c] - last) * rate \in Int
    BY <1>1, Constants DEF XdpTypeOK
  <2>4. Content(at[c]) >= Smaller((tokens + reg[c]) * Second, Capacity)
    BY <1>1, <2>1, <2>3, ContentType, Constants DEF Smaller, XdpTypeOK
  <2>5. Alone(c)'
    BY <1>1, <1>2, <2>1, <2>2, <2>4, Constants DEF Alone, XdpTypeOK
  <2>. QED
    BY <1>3, <2>5 DEF Covered
<1>5. CASE Raced
  <2>1. Stamps' \subseteq Stamps
    BY <1>1, <1>2 DEF Stamps, Stamp, Goto, XdpTypeOK
  <2>. QED
    BY <1>1, <1>2, <1>3, <1>5, <2>1, RacedInside DEF Covered
<1>. QED
  BY <1>2, <1>4, <1>5, AloneOrRaced

LEMMA CoveredLoad ==
  ASSUME XdpTyped, Covered, NEW c \in Cpus, Load(c)
  PROVE  Covered'
<1>1. /\ XdpTypeOK /\ pc[c] = "load"
      /\ UNCHANGED <<now, last, tokens, at, ideal, spentAt, raced>>
      /\ reg'[c] = Smaller(Wrap(reg[c] + tokens), rate)
  BY DEF XdpTyped, XdpTypeOK, Load, Goto, bucketVars, ghostVars
<1>2. InBucket' = InBucket /\ Waiting' = Waiting /\ c \in InBucket /\ pc'[c] = "store"
  BY <1>1, Inside DEF Load
<1>3. RateKept' /\ Waiting' <= raced' + 1
  BY <1>1, <1>2 DEF Covered, RateKept
<1>4. CASE Alone(c)
  <2>1. /\ InBucket' = {c} /\ spentAt <= at[c] /\ last = at[c] /\ last <= at[c]
        /\ Content(at[c]) >= Smaller((tokens + reg[c]) * Second, Capacity)
    BY <1>1, <1>2, <1>4 DEF Alone
  <2>2. Content(at[c])' = Content(at[c])
    BY <1>1 DEF Content, Slack
  <2>3. /\ reg[c] + tokens \in Nat /\ tokens + reg[c] \in Int
        /\ reg[c] + tokens = tokens + reg[c]
    BY <1>1, Constants DEF XdpTypeOK
  <2>4. PICK r \in Nat : r = reg'[c] /\ r <= tokens + reg[c] /\ r <= rate
    BY <1>1, <2>3, WrapSmall, Constants DEF Smaller, XdpTypeOK
  <2>5. r * Second <= (tokens + reg[c]) * Second /\ r * Second <= rate * Second
    BY <2>3, <2>4, TimesMonotonic, Constants
  <2>6. Content(at[c]) >= r * Second
    <3>1. /\ r * Second \in Int /\ (tokens + reg[c]) * Second \in Int
          /\ Content(at[c]) \in Int
      BY <1>1, <2>3, <2>4, ContentType, Constants DEF XdpTypeOK
    <3>. QED
      BY <2>1, <2>5, <3>1, Constants DEF Smaller, Capacity
  <2>7. Alone(c)'
    BY <1>1, <1>2, <2>1, <2>2, <2>4, <2>6 DEF Alone
  <2>. QED
    BY <1>3, <2>7 DEF Covered
<1>5. CASE Raced
  <2>1. Stamps' \subseteq Stamps
    BY <1>1, <1>2 DEF Stamps, Load, Goto, XdpTypeOK
  <2>. QED
    BY <1>1, <1>2, <1>3, <1>5, <2>1, RacedInside DEF Covered
<1>. QED
  BY <1>2, <1>4, <1>5, AloneOrRaced

LEMMA CoveredStore ==
  ASSUME XdpTyped, Covered, NEW c \in Cpus, Store(c)
  PROVE  Covered'
<1>1. /\ XdpTypeOK /\ pc[c] = "store" /\ tokens' = reg[c]
      /\ UNCHANGED <<now, last, at, reg, ideal, spentAt, raced>>
  BY DEF XdpTyped, XdpTypeOK, Store, Goto, ghostVars
<1>2. InBucket' = InBucket /\ Waiting' = Waiting /\ c \in InBucket /\ pc'[c] = "take"
  BY <1>1, Inside DEF Store
<1>3. RateKept' /\ Waiting' <= raced' + 1
  BY <1>1, <1>2 DEF Covered, RateKept
<1>4. CASE Alone(c)
  <2>1. /\ InBucket' = {c} /\ spentAt <= at[c] /\ last = at[c]
        /\ Content(at[c]) >= reg[c] * Second
    BY <1>1, <1>2, <1>4 DEF Alone
  <2>2. Content(at[c])' = Content(at[c])
    BY <1>1 DEF Content, Slack
  <2>3. (at[c] - last) * rate = 0 /\ reg[c] * Second \in Int /\ last <= at[c]
    BY <1>1, <2>1, Constants DEF XdpTypeOK
  <2>4. Alone(c)'
    BY <1>1, <1>2, <2>1, <2>2, <2>3, Constants DEF Alone
  <2>. QED
    BY <1>3, <2>4 DEF Covered
<1>5. CASE Raced
  <2>1. Stamps' \subseteq Stamps
    BY <1>1, <1>2 DEF Stamps, Store, Goto, XdpTypeOK
  <2>. QED
    BY <1>1, <1>2, <1>3, <1>5, <2>1, RacedInside DEF Covered
<1>. QED
  BY <1>2, <1>4, <1>5, AloneOrRaced

(* A CPU leaves the bucket to the next step of its program.                *)
LEMMA Leaving ==
  ASSUME XdpTypeOK, NEW c \in Cpus, NEW from, NEW to, Goto(c, from, to),
         from \in {"take", "spend"}, to \in {"starved", "pass"}
  PROVE  /\ c \in InBucket /\ InBucket' = InBucket \ {c}
         /\ Waiting \in Nat /\ Waiting >= 1 /\ Waiting' = Waiting - 1
         /\ \A d \in Cpus : pc'[d] \in {"refill", "stamp"} => pc[d] = pc'[d]
<1>1. /\ c \in InBucket /\ InBucket' = InBucket \ {c}
      /\ \A d \in Cpus : pc'[d] \in {"refill", "stamp"} => pc[d] = pc'[d]
  BY DEF XdpTypeOK, Goto, InBucket
<1>2. Cardinality(InBucket \ {c}) = Cardinality(InBucket) - 1
  BY <1>1, BucketFinite, FS_RemoveElement
<1>3. Waiting \in Nat /\ Waiting >= 1
  BY <1>1, BucketFinite
<1>4. Waiting' = Cardinality(InBucket \ {c})
  BY <1>1 DEF Waiting
<1>. QED
  BY <1>1, <1>2, <1>3, <1>4 DEF Waiting

(* When several have met, one may leave with a packet, or with none.       *)
LEMMA RacedLeave ==
  ASSUME XdpTyped, Raced, NEW c \in InBucket, InBucket' = InBucket \ {c},
         Waiting \in Nat, Waiting >= 1, Waiting' = Waiting - 1,
         \A d \in Cpus : pc'[d] \in {"refill", "stamp"} => pc[d] = pc'[d],
         UNCHANGED <<now, last, at, raced>>,
         NEW k \in 0 .. rate - 1, tokens' = k,
         NEW i \in Int, ideal' = i, i >= ideal - Second,
         NEW content \in Int, Content(now)' = content, content >= Content(now) - Second
  PROVE  Idle' \/ Raced'
<1>. DEFINE w == Waiting
<1>1. /\ XdpTypeOK /\ Slack' = Slack /\ Slack \in Nat /\ Content(now) \in Int
      /\ raced \in Nat /\ raced >= 1 /\ ideal + Slack >= w * Second /\ ideal \in Int
      /\ now \in Int /\ last \in Int /\ last <= now
  BY SlackType, ContentType, Constants DEF XdpTyped, XdpTypeOK, Registers, Slack, Raced
<1>2. (w - 1) * Second = w * Second - Second /\ w * Second \in Int
      /\ (rate - 1) * Second = rate * Second - Second
  BY Constants
<1>3. CASE InBucket' = {}
  <2>1. w = 1
    <3>1. Waiting' = 0
      BY <1>3, FS_EmptySet DEF Waiting
    <3>. QED
      BY <3>1
  <2>2. /\ last \in Stamps /\ (now - last) * rate \in Nat
        /\ content >= (rate - 1) * Second + Smaller((now - last) * rate, 2 * Second - 1)
    <3>1. last \in Stamps /\ (now - last) * rate \in Nat
      BY <1>1, Difference, TimesNat, Constants DEF Stamps
    <3>2. Content(now) >= (rate - 1) * Second + w * Second
                            + Smaller((now - last) * rate, 2 * Second - 1)
      BY <3>1 DEF Raced
    <3>. QED
      BY <1>1, <1>2, <2>1, <3>1, <3>2, Constants DEF Smaller
  <2>3. k * Second <= (rate - 1) * Second /\ k * Second \in Nat
    BY TimesMonotonic, TimesNat, Constants
  <2>4. content >= Smaller(k * Second + (now - last) * rate, Capacity)
    BY <1>2, <2>2, <2>3, Constants DEF Smaller, Capacity
  <2>5. Idle'
    BY <1>3, <2>4 DEF Idle
  <2>. QED
    BY <2>5
<1>4. CASE InBucket' # {}
  <2>1. Stamps' \subseteq Stamps
    BY DEF Stamps
  <2>2. i + Slack >= (w - 1) * Second
    BY <1>1, <1>2, Constants
  <2>3. ASSUME NEW t \in Stamps
        PROVE  content >= (rate - 1) * Second + (w - 1) * Second
                            + Smaller((now - t) * rate, 2 * Second - 1)
    <3>1. t \in Int
      BY <1>1, Constants DEF Stamps, XdpTypeOK
    <3>2. Smaller((now - t) * rate, 2 * Second - 1) \in Int
      BY <1>1, <3>1, Constants DEF Smaller
    <3>3. Content(now) >= (rate - 1) * Second + w * Second
                            + Smaller((now - t) * rate, 2 * Second - 1)
      BY DEF Raced
    <3>. QED
      BY <1>1, <1>2, <3>2, <3>3, Constants
  <2>4. Raced'
    BY <1>1, <1>4, <2>1, <2>2, <2>3 DEF Raced
  <2>. QED
    BY <2>4
<1>. QED
  BY <1>3, <1>4

LEMMA CoveredTake ==
  ASSUME XdpTyped, Covered, NEW c \in Cpus, Take(c)
  PROVE  Covered'
<1>1. /\ XdpTypeOK /\ pc[c] = "take" /\ reg'[c] = tokens /\ tokens \in 0 .. rate
      /\ UNCHANGED <<now, last, tokens, at, ideal, spentAt, raced>>
  BY DEF XdpTyped, XdpTypeOK, Take, Goto, bucketVars, ghostVars
<1>2. /\ \A t : Content(t)' = Content(t)
      /\ now \in Int /\ at[c] \in Int /\ last \in Int /\ at[c] <= now
      /\ tokens * Second \in Nat /\ (at[c] - last) * rate \in Int
  BY <1>1, TimesNat, Constants DEF Content, Slack, XdpTyped, Registers, XdpTypeOK
<1>3. CASE tokens >= 1
  <2>1. InBucket' = InBucket /\ Waiting' = Waiting /\ c \in InBucket /\ pc'[c] = "spend"
    BY <1>1, <1>3, Inside DEF Take
  <2>2. RateKept' /\ Waiting' <= raced' + 1
    BY <1>1, <2>1 DEF Covered, RateKept
  <2>3. ASSUME Alone(c) PROVE Alone(c)'
    BY <1>1, <1>2, <2>1, <2>3 DEF Alone
  <2>4. ASSUME Raced PROVE Raced'
    <3>1. Stamps' \subseteq Stamps
      BY <1>1, <2>1 DEF Stamps, Take, Goto, XdpTypeOK
    <3>. QED
      BY <1>1, <2>1, <2>4, <3>1, RacedInside
  <2>. QED
    BY <2>1, <2>2, <2>3, <2>4, AloneOrRaced DEF Covered
<1>4. CASE tokens = 0
  <2>1. /\ c \in InBucket /\ InBucket' = InBucket \ {c}
        /\ Waiting \in Nat /\ Waiting >= 1 /\ Waiting' = Waiting - 1
        /\ \A d \in Cpus : pc'[d] \in {"refill", "stamp"} => pc[d] = pc'[d]
    <3>1. Goto(c, "take", "starved")
      BY <1>4 DEF Take
    <3>. QED
      BY <1>1, <3>1, Leaving
  <2>2. RateKept' /\ Waiting' <= raced' + 1
    BY <1>1, <2>1 DEF Covered, RateKept, XdpTypeOK
  <2>3. ASSUME Alone(c) PROVE Idle'
    <3>1. Content(at[c]) >= tokens * Second + (at[c] - last) * rate /\ InBucket = {c}
      BY <1>1, <2>3 DEF Alone
    <3>2. Content(now)
            >= Smaller(tokens * Second + (at[c] - last) * rate + (now - at[c]) * rate,
                       Capacity)
      BY <1>1, <1>2, <3>1, ContentLater
    <3>3. tokens * Second + (at[c] - last) * rate + (now - at[c]) * rate
            = tokens * Second + (now - last) * rate
      BY <1>1, <1>2, Constants
    <3>. QED
      BY <1>1, <1>2, <2>1, <3>1, <3>2, <3>3 DEF Idle
  <2>4. ASSUME Raced PROVE Idle' \/ Raced'
    <3>1. /\ ideal \in Int /\ ideal >= ideal - Second /\ 0 \in 0 .. rate - 1
          /\ Content(now) \in Int /\ Content(now) >= Content(now) - Second
      BY <1>1, <1>2, ContentType, Constants DEF XdpTypeOK
    <3>. QED
      BY <1>1, <1>2, <1>4, <2>1, <2>4, <3>1, RacedLeave
  <2>. QED
    BY <2>1, <2>2, <2>3, <2>4, AloneOrRaced DEF Covered
<1>. QED
  BY <1>1, <1>3, <1>4, Constants

(* The exact bucket pays a token for a packet, and goes on filling.        *)
LEMMA Paid ==
  ASSUME NEW i \in Int, NEW s \in Int, NEW t \in Int, NEW u \in Int, s <= t, t <= u,
         i <= Capacity, NEW j \in Int,
         j = Smaller(i + (t - s) * rate, Capacity) - Second
  PROVE  /\ j >= i - Second
         /\ Smaller(j + (u - t) * rate, Capacity)
              >= Smaller(i + (u - s) * rate, Capacity) - Second
<1>1. (t - s) * rate \in Nat /\ (u - t) * rate \in Nat
  BY Difference, TimesNat, Constants
<1>2. (u - s) * rate = (t - s) * rate + (u - t) * rate
  BY Constants
<1>. QED
  BY <1>1, <1>2, Constants DEF Smaller

LEMMA CoveredSpend ==
  ASSUME XdpTyped, Covered, NEW c \in Cpus, Spend(c)
  PROVE  Covered'
<1>1. /\ XdpTypeOK /\ pc[c] = "spend" /\ SpentIdeal(c)
      /\ UNCHANGED <<now, last, at, reg, raced>>
      /\ tokens' = reg[c] - 1 /\ reg[c] \in 1 .. rate /\ reg[c] - 1 \in 0 .. rate - 1
  <2>1. tokens' = reg[c] - 1 /\ reg[c] \in 1 .. rate
    BY TypedSpend
  <2>2. reg[c] - 1 \in 0 .. rate - 1
    BY <2>1, Constants
  <2>3. UNCHANGED <<now, last, at, reg, raced>> /\ pc[c] = "spend" /\ SpentIdeal(c)
    BY DEF Spend, Goto
  <2>. QED
    BY <2>1, <2>2, <2>3 DEF XdpTyped
<1>2. /\ c \in InBucket /\ InBucket' = InBucket \ {c}
      /\ Waiting \in Nat /\ Waiting >= 1 /\ Waiting' = Waiting - 1
      /\ \A d \in Cpus : pc'[d] \in {"refill", "stamp"} => pc[d] = pc'[d]
  BY <1>1, Leaving DEF Spend
<1>3. PICK i \in Int, s \in Int : i = ideal' /\ s = spentAt' /\ spentAt <= s /\ s <= now
                                  /\ (spentAt <= at[c] => s = at[c])
  BY <1>1, SpentType, Constants
<1>4. /\ now \in Int /\ at[c] \in Int /\ last \in Int /\ at[c] <= now /\ raced \in Nat
      /\ ideal \in Int /\ spentAt \in Int /\ ideal <= Capacity
      /\ Slack' = Slack /\ Slack \in Nat
  BY <1>1, SlackType, Constants DEF XdpTyped, XdpTypeOK, Registers, Slack
<1>5. i = Smaller(ideal + (s - spentAt) * rate, Capacity) - Second
  BY <1>1, <1>3 DEF SpentIdeal
<1>6. /\ i >= ideal - Second
      /\ Smaller(i + (now - s) * rate, Capacity)
           >= Smaller(ideal + (now - spentAt) * rate, Capacity) - Second
  BY <1>3, <1>4, <1>5, Paid
<1>7. Waiting' <= raced' + 1
  BY <1>1, <1>2, <1>4 DEF Covered
<1>8. ASSUME i + Slack >= 0 PROVE RateKept'
  BY <1>1, <1>3, <1>4, <1>8, Constants DEF RateKept, Slack
<1>9. CASE Alone(c)
  <2>1. /\ InBucket = {c} /\ spentAt <= at[c] /\ last <= at[c] /\ reg[c] = tokens
        /\ Content(at[c]) >= tokens * Second + (at[c] - last) * rate
    BY <1>1, <1>9 DEF Alone
  <2>2. /\ (at[c] - last) * rate \in Nat /\ (reg[c] - 1) * Second \in Nat
        /\ tokens * Second = (reg[c] - 1) * Second + Second
    BY <1>1, <1>4, <2>1, Difference, TimesNat, Constants
  <2>. DEFINE x == (reg[c] - 1) * Second + (at[c] - last) * rate
  <2>3. s = at[c] /\ Content(at[c]) = i + Second + Slack
    <3>1. s = at[c] /\ (s - spentAt) * rate \in Int
      BY <1>3, <1>4, <2>1, Constants
    <3>. QED
      BY <1>4, <1>5, <3>1, Constants DEF Content, Smaller
  <2>4. x \in Nat /\ i + Slack >= x
    BY <1>4, <2>1, <2>2, <2>3, Constants
  <2>6. (now - at[c]) * rate \in Nat
    BY <1>4, Difference, TimesNat, Constants
  <2>7. Smaller(i + (now - at[c]) * rate, Capacity) + Slack
          >= Smaller(x + (now - at[c]) * rate, Capacity)
    <3>. HIDE DEF x
    <3>. QED
      BY <1>4, <2>4, <2>6, Constants DEF Smaller
  <2>8. x + (now - at[c]) * rate = (reg[c] - 1) * Second + (now - last) * rate
    BY <1>1, <1>4, Constants
  <2>9. Content(now)' = Smaller(i + (now - at[c]) * rate, Capacity) + Slack
    BY <1>1, <1>3, <1>4, <2>3 DEF Content, Spend
  <2>10. Idle'
    BY <1>1, <1>2, <2>1, <2>7, <2>8, <2>9 DEF Idle, Spend
  <2>. QED
    BY <1>7, <1>8, <2>4, <2>10, <1>4 DEF Covered
<1>10. CASE Raced
  <2>1. PICK content \in Int :
          /\ content = Smaller(i + (now - s) * rate, Capacity) + Slack
          /\ content >= Content(now) - Second
    <3>1. (now - s) * rate \in Int /\ (now - spentAt) * rate \in Int
      BY <1>3, <1>4, Constants
    <3>. DEFINE value == Smaller(i + (now - s) * rate, Capacity) + Slack
    <3>2. value \in Int
      BY <1>4, <3>1, Constants DEF Smaller
    <3>3. Smaller(ideal + (now - spentAt) * rate, Capacity) \in Int
      BY <1>4, <3>1, Constants DEF Smaller
    <3>4. value >= Content(now) - Second
      <4>1. Smaller(i + (now - s) * rate, Capacity) \in Int
        BY <3>1, Constants DEF Smaller
      <4>. QED
        BY <1>4, <1>6, <3>3, <4>1, Constants DEF Content
    <3>. QED
      BY <3>2, <3>4
  <2>2. Content(now)' = content
    BY <1>1, <1>3, <1>4, <2>1 DEF Content, Spend
  <2>3. Idle' \/ Raced'
    BY <1>1, <1>2, <1>3, <1>6, <1>10, <2>1, <2>2, RacedLeave
  <2>4. i + Slack >= 0
    <3>1. ideal + Slack >= Waiting * Second
      BY <1>10 DEF Raced
    <3>2. PICK w \in Int : w = Waiting * Second /\ 1 * Second <= w
      BY <1>2, TimesMonotonic, Constants
    <3>3. Second <= w /\ ideal + Slack >= w
      BY <3>1, <3>2, Constants
    <3>. QED
      BY <1>4, <1>6, <3>3, Constants
  <2>. QED
    BY <1>7, <1>8, <2>3, <2>4 DEF Covered
<1>. QED
  BY <1>2, <1>9, <1>10, AloneOrRaced

(* The exact bucket is never below what the races allow.                   *)
LEMMA ContentNat ==
  ASSUME XdpTypeOK, RateKept, NEW t \in Int, spentAt <= t
  PROVE  Content(t) \in Nat
<1>1. /\ ideal \in Int /\ spentAt \in Int /\ raced \in Nat /\ Slack \in Nat
      /\ ideal + Slack >= 0
  BY SlackType, Constants DEF XdpTypeOK, RateKept, Slack
<1>2. (t - spentAt) * rate \in Nat
  BY <1>1, Difference, TimesNat, Constants
<1>. QED
  BY <1>1, <1>2, Constants DEF Content, Smaller

(* Of a CPU alone: each last_time_ns that can be stored is still covered.  *)
LEMMA AloneStamps ==
  ASSUME XdpTyped, RateKept, NEW d \in Cpus, Alone(d), NEW t \in Stamps
  PROVE  Content(now) >= Smaller((now - t) * rate, 2 * Second - 1)
<1>1. /\ XdpTypeOK /\ now \in Int /\ last \in Int /\ at[d] \in Int /\ at[d] <= now
      /\ last <= at[d] /\ spentAt <= at[d] /\ spentAt <= now /\ last <= now
      /\ tokens \in Nat /\ reg[d] \in Nat
  BY Constants DEF XdpTyped, XdpTypeOK, Registers, Alone
<1>2. /\ Content(at[d]) \in Nat /\ Content(now) \in Nat
      /\ tokens * Second \in Nat /\ (at[d] - last) * rate \in Nat
      /\ (now - at[d]) * rate \in Nat
      /\ (now - last) * rate = (at[d] - last) * rate + (now - at[d]) * rate
  BY <1>1, ContentNat, TimesNat, Difference, Constants
<1>3. t = last \/ t = at[d]
  BY DEF Stamps, Alone, InBucket
<1>4. Content(at[d]) >= Smaller((at[d] - last) * rate, 2 * Second - 1)
  <2>1. CASE pc[d] \in {"refill", "stamp"}
    BY <1>2, <2>1, Constants DEF Alone, Smaller
  <2>2. CASE pc[d] \in {"load", "store"}
    <3>1. (at[d] - last) * rate = 0
      BY <1>1, <2>2, Constants DEF Alone
    <3>. QED
      BY <1>2, <3>1, Constants DEF Smaller
  <2>3. CASE pc[d] \in {"take", "spend"}
    BY <1>2, <2>3, Constants DEF Alone, Smaller
  <2>. QED
    BY <2>1, <2>2, <2>3 DEF Alone, InBucket
<1>5. CASE t = last
  <2>. DEFINE x == Smaller((at[d] - last) * rate, 2 * Second - 1)
  <2>1. x \in Int
    BY <1>2, Constants DEF Smaller
  <2>2. Content(now) >= Smaller(x + (now - at[d]) * rate, Capacity)
    <3>. HIDE DEF x
    <3>1. Content(at[d]) >= x
      BY <1>4 DEF x
    <3>. QED
      BY <1>1, <2>1, <3>1, ContentLater
  <2>. QED
    BY <1>2, <1>5, <2>2, Constants DEF Smaller
<1>6. CASE t = at[d]
  <2>1. Content(now) >= Smaller(0 + (now - at[d]) * rate, Capacity)
    BY <1>1, <1>2, ContentLater
  <2>. QED
    BY <1>2, <1>6, <2>1, Constants DEF Smaller
<1>. QED
  BY <1>3, <1>5, <1>6

LEMMA CoveredEnter ==
  ASSUME XdpTyped, Covered, NEW c \in Cpus, LookupBucket(c), limited
  PROVE  Covered'
<1>1. /\ XdpTypeOK /\ pc[c] = "bucket" /\ pc' = [pc EXCEPT ![c] = "refill"]
      /\ at' = [at EXCEPT ![c] = now]
      /\ raced' = raced + (IF InBucket = {} THEN 0 ELSE 1)
      /\ UNCHANGED <<now, last, tokens, reg, ideal, spentAt>>
  BY DEF XdpTyped, LookupBucket, Goto, bucketVars
<1>2. /\ now \in Int /\ last \in Int /\ last <= now /\ spentAt <= now /\ raced \in Nat
      /\ ideal \in Int /\ spentAt \in Int /\ Slack \in Nat /\ ideal + Slack >= 0
  BY <1>1, SlackType, Constants
     DEF XdpTyped, XdpTypeOK, Registers, Covered, RateKept, Slack
<1>3. c \notin InBucket /\ InBucket' = InBucket \cup {c}
  BY <1>1 DEF InBucket, XdpTypeOK
<1>4. Waiting \in Nat /\ Waiting' = Waiting + 1
  <2>1. Cardinality(InBucket \cup {c}) = Cardinality(InBucket) + 1
    BY <1>3, BucketFinite, FS_AddElement
  <2>. QED
    BY <1>3, <2>1, BucketFinite DEF Waiting
<1>5. pc'[c] = "refill" /\ at'[c] = now
  BY <1>1 DEF XdpTypeOK
<1>6. CASE InBucket = {}
  <2>1. raced' = raced /\ Slack' = Slack /\ \A t : Content(t)' = Content(t)
    BY <1>1, <1>2, <1>6 DEF Slack, Content
  <2>2. Idle
    BY <1>6 DEF Covered, Alone, Raced
  <2>3. Alone(c)'
    <3>1. InBucket' = {c}
      BY <1>3, <1>6
    <3>2. Content(now) >= Smaller(tokens * Second + (now - last) * rate, Capacity)
      BY <2>2 DEF Idle
    <3>. QED
      BY <1>1, <1>2, <1>5, <2>1, <3>1, <3>2 DEF Alone
  <2>4. RateKept' /\ Waiting' <= raced' + 1
    <3>1. Waiting = 0
      BY <1>6, BucketFinite
    <3>. QED
      BY <1>1, <1>2, <1>4, <2>1, <3>1 DEF Covered, RateKept
  <2>. QED
    BY <2>3, <2>4 DEF Covered
<1>7. CASE InBucket # {}
  <2>. DEFINE w == Waiting
              more == (rate + 1) * Second
  <2>1. /\ raced' = raced + 1 /\ more \in Nat /\ more = (rate - 1) * Second + 2 * Second
        /\ (rate - 1) * Second \in Nat
        /\ (w + 1) * Second = w * Second + Second /\ w * Second \in Nat
    <3>1. raced' = raced + 1
      BY <1>1, <1>7
    <3>2. (rate - 1) * Second \in Nat
      BY TimesNat, Constants
    <3>. QED
      BY <1>4, <3>1, <3>2, TimesNat, Constants
  <2>2. PICK slack \in Nat : slack = Slack' /\ slack = Slack + more
    BY <1>2, <2>1, Constants DEF Slack
  <2>3. PICK content \in Int : content = Content(now)' /\ content = Content(now) + more
    <3>1. Content(now)' = Smaller(ideal + (now - spentAt) * rate, Capacity) + slack
      BY <1>1, <2>2 DEF Content
    <3>2. Content(now) = Smaller(ideal + (now - spentAt) * rate, Capacity) + Slack
          /\ Content(now) \in Int
      BY <1>1, <1>2, ContentType DEF Content
    <3>3. Smaller(ideal + (now - spentAt) * rate, Capacity) \in Int
      BY <1>2, Constants DEF Smaller
    <3>. DEFINE base == Smaller(ideal + (now - spentAt) * rate, Capacity)
    <3>4. /\ base \in Int /\ Content(now) = base + Slack /\ Content(now)' = base + slack
          /\ slack = Slack + more
      BY <2>2, <3>1, <3>2, <3>3
    <3>. HIDE DEF base, more
    <3>. QED
      BY <1>2, <2>1, <3>4
  <2>4. RateKept' /\ Waiting' <= raced' + 1
    <3>1. ideal + slack >= 0
      BY <1>2, <2>1, <2>2
    <3>2. slack = (rate + 1) * Second * raced'
      BY <2>2 DEF Slack
    <3>. QED
      BY <1>1, <1>2, <1>4, <2>1, <3>1, <3>2, Constants DEF Covered, RateKept
  <2>5. Stamps' \subseteq Stamps \cup {now}
    BY <1>1, <1>5 DEF Stamps, XdpTypeOK
  <2>6. (\E d \in Cpus : Alone(d)) \/ Raced
    BY <1>7 DEF Covered, Idle
  <2>7. now \in Int /\ (now - now) * rate = 0 /\ last \in Stamps
    BY <1>2, Constants DEF Stamps
  <2>8. \A t \in Stamps : t \in Int /\ Smaller((now - t) * rate, 2 * Second - 1) \in Int
    <3>1. \A t \in Stamps : t \in Int
      BY <1>1, <1>2, Constants DEF Stamps, XdpTypeOK
    <3>. QED
      BY <1>2, <3>1, Constants DEF Smaller
  <2>9. Content(now) \in Int
    BY <1>1, <1>2, ContentType
  <2>10. /\ ideal + slack >= (w + 1) * Second
         /\ \A t \in Stamps \cup {now} :
              content >= (rate - 1) * Second + (w + 1) * Second
                           + Smaller((now - t) * rate, 2 * Second - 1)
    <3>1. ASSUME NEW d \in Cpus, Alone(d)
          PROVE  /\ w = 1
                 /\ \A t \in Stamps \cup {now} :
                      Content(now) >= Smaller((now - t) * rate, 2 * Second - 1)
      <4>1. w = 1
        BY <3>1, FS_Singleton DEF Alone, Waiting
      <4>2. Content(now) \in Nat
        BY <1>1, <1>2, ContentNat DEF Covered
      <4>3. Content(now) >= Smaller((now - now) * rate, 2 * Second - 1)
        BY <2>7, <4>2, Constants DEF Smaller
      <4>. QED
        BY <3>1, <4>1, <4>3, AloneStamps DEF Covered
    <3>2. CASE \E d \in Cpus : Alone(d)
      BY <1>2, <2>1, <2>2, <2>3, <2>7, <2>8, <2>9, <3>1, <3>2, Constants DEF Smaller
    <3>3. CASE Raced
      <4>1. ideal + Slack >= w * Second
        BY <3>3 DEF Raced
      <4>2. \A t \in Stamps :
              Content(now) >= (rate - 1) * Second + w * Second
                                + Smaller((now - t) * rate, 2 * Second - 1)
        BY <3>3 DEF Raced
      <4>3. Content(now) >= (rate - 1) * Second + w * Second
        <5>1. (now - last) * rate \in Nat
          BY <1>2, Difference, TimesNat, Constants
        <5>2. Smaller((now - last) * rate, 2 * Second - 1) \in Nat
          BY <5>1, Constants DEF Smaller
        <5>. QED
          BY <2>1, <2>7, <2>9, <4>2, <5>2
      <4>. QED
        BY <1>2, <2>1, <2>2, <2>3, <2>7, <2>8, <2>9, <4>1, <4>2, <4>3, Constants
           DEF Smaller
    <3>. QED
      BY <2>6, <3>2, <3>3
  <2>11. Raced'
    <3>1. InBucket' # {} /\ raced' >= 1 /\ Waiting' = w + 1
      BY <1>2, <1>3, <1>4, <2>1
    <3>. QED
      BY <1>1, <2>2, <2>3, <2>5, <2>10, <3>1 DEF Raced
  <2>. QED
    BY <2>4, <2>11 DEF Covered
<1>. QED
  BY <1>6, <1>7

(* The clock advances: the exact bucket fills as fast as the other may.    *)
LEMMA CoveredTick ==
  ASSUME XdpTyped, Covered, Tick
  PROVE  Covered'
<1>1. PICK n \in Int : n = now' /\ n = now + 1
  BY Constants DEF XdpTyped, XdpTypeOK, Tick
<1>2. UNCHANGED <<last, tokens, stats, pc, at, reg, ideal, spentAt, raced>>
  BY DEF Tick, bucketVars, cpuVars, ghostVars
<1>3. /\ InBucket' = InBucket /\ Waiting' = Waiting /\ Stamps' = Stamps
      /\ Slack' = Slack /\ \A t : Content(t)' = Content(t)
  BY <1>2 DEF InBucket, Waiting, Stamps, Slack, Content
<1>4. RateKept' /\ Waiting' <= raced' + 1
  BY <1>2, <1>3 DEF Covered, RateKept
<1>5. /\ XdpTypeOK /\ now \in Int /\ last \in Int /\ raced \in Nat /\ ideal \in Int
      /\ spentAt \in Int /\ tokens \in Int /\ Slack \in Nat /\ Waiting \in Nat
      /\ now <= n /\ (n - now) * rate = rate
  <2>1. now \in Int /\ n = now + 1
    BY <1>1, Constants DEF XdpTyped, XdpTypeOK
  <2>. QED
    BY <2>1, SlackType, BucketFinite, Constants DEF XdpTyped, XdpTypeOK
<1>6. CASE Idle
  <2>. DEFINE credit == tokens * Second + (now - last) * rate
              x == Smaller(credit, Capacity)
  <2>1. credit \in Int /\ x \in Int /\ credit + rate = tokens * Second + (n - last) * rate
    <3>1. credit \in Int
      BY <1>5, Constants
    <3>2. (n - last) * rate = (now - last) * rate + rate
      BY <1>1, <1>5, Constants
    <3>. QED
      BY <1>5, <3>1, <3>2, Constants DEF Smaller
  <2>2. Content(n) >= Smaller(x + (n - now) * rate, Capacity)
    <3>1. Content(now) >= x
      BY <1>6 DEF Idle
    <3>. HIDE DEF x
    <3>. QED
      BY <1>5, <2>1, <3>1, ContentLater
  <2>3. Content(n) >= Smaller(credit + rate, Capacity)
    <3>. HIDE DEF credit
    <3>. QED
      BY <1>5, <2>1, <2>2, Constants DEF Smaller
  <2>4. Idle'
    BY <1>1, <1>2, <1>3, <1>6, <2>1, <2>3 DEF Idle
  <2>. QED
    BY <1>4, <2>4 DEF Covered
<1>7. ASSUME NEW c \in Cpus, Alone(c) PROVE Alone(c)'
  BY <1>2, <1>3, <1>7 DEF Alone
<1>8. CASE Raced
  <2>1. Slack >= Waiting * Second
    <3>1. Slack >= (raced + 1) * Second
      BY <1>5, <1>8, SlackType DEF Raced
    <3>2. PICK a \in Int : a = Waiting * Second /\ a <= (raced + 1) * Second
      BY <1>5, TimesMonotonic, Constants DEF Covered
    <3>3. (raced + 1) * Second \in Int
      BY <1>5, Constants
    <3>. QED
      BY <1>5, <3>1, <3>2, <3>3
  <2>2. ASSUME NEW t \in Stamps
        PROVE  Content(n) >= (rate - 1) * Second + Waiting * Second
                               + Smaller((n - t) * rate, 2 * Second - 1)
    <3>1. t \in Int
      BY <1>5, Constants DEF Stamps, XdpTypeOK
    <3>2. /\ (n - t) * rate = (now - t) * rate + rate /\ (now - t) * rate \in Int
          /\ (n - spentAt) * rate = (now - spentAt) * rate + rate
          /\ (now - spentAt) * rate \in Int
      BY <1>1, <1>5, <3>1, Constants
    <3>3. Content(now) >= (rate - 1) * Second + Waiting * Second
                            + Smaller((now - t) * rate, 2 * Second - 1)
      BY <1>8 DEF Raced
    <3>4. /\ (rate - 1) * Second = rate * Second - Second
          /\ Waiting * Second \in Int
      BY <1>5, Constants
    <3>. QED
      BY <1>5, <2>1, <3>2, <3>3, <3>4, Constants DEF Content, Smaller, Capacity
  <2>3. Raced'
    BY <1>1, <1>2, <1>3, <1>8, <2>2 DEF Raced
  <2>. QED
    BY <1>4, <2>3 DEF Covered
<1>. QED
  BY <1>4, <1>6, <1>7, <1>8 DEF Covered

LEMMA CoveredInit == XdpInit => XdpTyped /\ Covered
<1> SUFFICES ASSUME XdpInit PROVE Covered
  BY TypedInit
<1>1. /\ InBucket = {} /\ Waiting = 0 /\ Slack = 0
      /\ now = 0 /\ last = 0 /\ spentAt = 0 /\ raced = 0
      /\ tokens \in 0 .. rate /\ ideal = tokens * Second /\ tokens * Second \in Nat
  <2>1. InBucket = {}
    BY DEF XdpInit, InBucket
  <2>. QED
    BY <2>1, BucketFinite, TimesNat, Constants DEF XdpInit, Slack
<1>2. RateKept
  BY <1>1, Constants DEF RateKept
<1>3. Idle
  BY <1>1, Constants DEF Idle, Content, Smaller
<1>. QED
  BY <1>1, <1>2, <1>3 DEF Covered

LEMMA CoveredNext ==
  ASSUME XdpTyped, Covered, [XdpNext]_xdpVars
  PROVE  Covered'
<1>1. ASSUME NEW c \in Cpus, LookupBucket(c) PROVE Covered'
  BY <1>1, CoveredEnter, CoveredOutside
<1>. QED
  BY <1>1, CoveredOutside, CoveredRefill, CoveredStamp, CoveredLoad, CoveredStore,
     CoveredTake, CoveredSpend, CoveredTick
     DEF XdpNext, xdp_filter

(* The limit holds exactly until two CPUs meet at the bucket, and each     *)
(* packet that comes to it while it is in use lets at most rate + 1        *)
(* packets more through, for every interleaving of their loads and stores, *)
(* a last_time_ns set back and a wrapped elapsed time included             *)
(* (xdp_block.c:107-131).                                                  *)
THEOREM RateIsKept == XdpSpec => []RateKept
<1>1. XdpTyped /\ Covered /\ [XdpNext]_xdpVars => (XdpTyped /\ Covered)'
  BY TypedNext, CoveredNext
<1>2. XdpTyped /\ Covered => RateKept
  BY DEF Covered
<1>. QED
  BY CoveredInit, <1>1, <1>2, PTL DEF XdpSpec

-----------------------------------------------------------------------------
(* A source that keeps its distance *)

(* Before any race, who is at the bucket is alone there.                   *)
LEMMA OneAtATime ==
  ASSUME XdpTyped, Covered, raced = 0, NEW c \in InBucket
  PROVE  c \in Cpus /\ Alone(c) /\ InBucket = {c} /\ last <= at[c]
BY AloneOrRaced, Constants DEF Alone, Raced

(* What is known of the source when one packet after the other is paced.   *)
LEMMA Known ==
  ASSUME Nourished, paced, raced = 0
  PROVE  /\ \A c \in Cpus : pc[c] # "starved" /\ Fed(c)
         /\ InBucket = {} => IF previous < 0 THEN last = 0 ELSE last <= previous
BY DEF Nourished, PacedNotStarved

LEMMA NourishedFrame ==
  ASSUME Nourished, InBucket' = InBucket, \A c \in InBucket : pc'[c] = pc[c],
         \A c \in Cpus : pc'[c] = "starved" => pc[c] = "starved",
         UNCHANGED <<last, tokens, at, reg, raced, paced, previous>>
  PROVE  Nourished'
<1>. SUFFICES ASSUME (paced /\ raced = 0)'
              PROVE  /\ \A c \in Cpus : pc'[c] # "starved" /\ Fed(c)'
                     /\ InBucket' = {} => (IF previous < 0 THEN last = 0
                                           ELSE last <= previous)'
  BY DEF Nourished, PacedNotStarved
<1>1. paced /\ raced = 0
  OBVIOUS
<1>2. /\ \A c \in Cpus : pc[c] # "starved" /\ Fed(c)
      /\ InBucket = {} => IF previous < 0 THEN last = 0 ELSE last <= previous
  BY <1>1, Known
<1>3. \A c \in Cpus : pc'[c] = pc[c] \/ (c \notin InBucket /\ c \notin InBucket')
  OBVIOUS
<1>4. ASSUME NEW c \in Cpus PROVE Fed(c)'
  BY <1>2, <1>3 DEF Fed, InBucket
<1>. QED
  BY <1>2, <1>4

LEMMA NourishedOutside ==
  ASSUME XdpTyped, Nourished,
         \/ \E c \in Cpus : Receive(c) \/ LookupBlocked(c) \/ Drop(c) \/ Pass(c)
         \/ \E c \in Cpus : LookupBucket(c) /\ ~limited
         \/ Agent \/ Tick \/ UNCHANGED xdpVars
  PROVE  Nourished'
<1>1. /\ InBucket' = InBucket /\ \A c \in InBucket : pc'[c] = pc[c]
      /\ \A c \in Cpus : pc'[c] = "starved" => pc[c] = "starved"
      /\ UNCHANGED <<last, tokens, at, reg, raced, paced, previous>>
  BY DEF XdpTyped, XdpTypeOK, Receive, LookupBlocked, Drop, Pass, LookupBucket, Agent,
         Tick, Goto, InBucket, xdpVars, bucketVars, cpuVars, ghostVars
<1>. QED
  BY <1>1, NourishedFrame

(* A CPU alone at the bucket goes on there: the others are elsewhere.      *)
LEMMA NourishedInside ==
  ASSUME XdpTyped, Covered, Nourished, NEW c \in Cpus, NEW from, NEW to,
         from \in {"refill", "stamp", "load", "store", "take"},
         to \in {"refill", "stamp", "load", "store", "take", "spend"},
         Goto(c, from, to), UNCHANGED <<at, raced, paced, previous>>,
         Fed(c) /\ Alone(c) => Fed(c)'
  PROVE  Nourished'
<1>. SUFFICES ASSUME paced', raced' = 0
              PROVE  /\ \A d \in Cpus : pc'[d] # "starved" /\ Fed(d)'
                     /\ InBucket' # {}
  BY DEF Nourished, PacedNotStarved
<1>1. /\ \A d \in Cpus : pc[d] # "starved" /\ Fed(d)
      /\ InBucket' = InBucket /\ c \in InBucket /\ pc'[c] = to
  BY Known, Inside DEF XdpTyped
<1>2. InBucket = {c} /\ Alone(c)
  BY <1>1, OneAtATime
<1>3. \A d \in Cpus : d # c => pc'[d] = pc[d] /\ d \notin InBucket'
  BY <1>1, <1>2 DEF Goto, XdpTyped, XdpTypeOK
<1>4. ASSUME NEW d \in Cpus, d # c PROVE Fed(d)'
  BY <1>1, <1>2, <1>3, <1>4 DEF Fed, InBucket
<1>5. Fed(c)'
  BY <1>1, <1>2
<1>. QED
  BY <1>1, <1>3, <1>4, <1>5

LEMMA NourishedRefill ==
  ASSUME XdpTyped, Covered, Nourished, NEW c \in Cpus, Refill(c)
  PROVE  Nourished'
<1>1. /\ XdpTypeOK /\ pc[c] = "refill"
      /\ UNCHANGED <<last, tokens, at, raced, paced, previous>>
      /\ reg'[c] = NewTokens(c)
      /\ pc'[c] = IF NewTokens(c) > 0 THEN "stamp" ELSE "take"
  BY DEF XdpTyped, XdpTypeOK, Refill, Goto, bucketVars, ghostVars
<1>2. ASSUME Fed(c), Alone(c) PROVE Fed(c)'
  <2>1. InBucket' = InBucket
    BY <1>1, Inside DEF Refill
  <2>2. /\ tokens >= 1 \/ (at[c] - last) * rate >= Second
        /\ InBucket = {c} => previous = at[c]
    BY <1>1, <1>2 DEF Fed
  <2>3. /\ (at[c] - last) * rate \in Nat /\ NewTokens(c) \in Nat
        /\ (at[c] - last) * rate < NewTokens(c) * Second + Second
        /\ NewTokens(c) <= MaxTime * rate
    BY <1>1, <1>2, NewTokensExact DEF Alone
  <2>4. CASE NewTokens(c) > 0
    BY <1>1, <2>1, <2>2, <2>3, <2>4 DEF Fed
  <2>5. CASE NewTokens(c) = 0
    <3>1. tokens >= 1
      BY <2>2, <2>3, <2>5, Constants
    <3>. QED
      BY <1>1, <2>1, <2>2, <2>5, <3>1 DEF Fed
  <2>. QED
    BY <2>3, <2>4, <2>5
<1>. QED
  BY <1>1, <1>2, NourishedInside DEF Refill

LEMMA NourishedStamp ==
  ASSUME XdpTyped, Covered, Nourished, NEW c \in Cpus, Stamp(c)
  PROVE  Nourished'
<1>1. /\ XdpTypeOK /\ pc[c] = "stamp" /\ pc'[c] = "load"
      /\ UNCHANGED <<tokens, at, reg, raced, paced, previous>>
  BY DEF XdpTyped, XdpTypeOK, Stamp, Goto, ghostVars
<1>2. ASSUME Fed(c) PROVE Fed(c)'
  <2>1. InBucket' = InBucket
    BY <1>1, Inside DEF Stamp
  <2>. QED
    BY <1>1, <1>2, <2>1 DEF Fed
<1>. QED
  BY <1>1, <1>2, NourishedInside DEF Stamp

LEMMA NourishedLoad ==
  ASSUME XdpTyped, Covered, Nourished, NEW c \in Cpus, Load(c)
  PROVE  Nourished'
<1>1. /\ XdpTypeOK /\ pc[c] = "load" /\ pc'[c] = "store"
      /\ UNCHANGED <<tokens, at, raced, paced, previous>>
      /\ reg'[c] = Smaller(Wrap(reg[c] + tokens), rate)
  BY DEF XdpTyped, XdpTypeOK, Load, Goto, bucketVars, ghostVars
<1>2. ASSUME Fed(c) PROVE Fed(c)'
  <2>1. InBucket' = InBucket
    BY <1>1, Inside DEF Load
  <2>2. /\ reg[c] \in Nat /\ reg[c] >= 1 /\ reg[c] <= MaxTime * rate
        /\ tokens \in Nat /\ tokens <= rate
    BY <1>1, <1>2, Constants DEF Fed, XdpTypeOK
  <2>3. reg[c] + tokens \in Nat /\ reg[c] + tokens < Word /\ reg[c] + tokens >= 1
    BY <2>2, Constants
  <2>4. Smaller(Wrap(reg[c] + tokens), rate) >= 1
    BY <2>3, WrapSmall, Constants DEF Smaller
  <2>. QED
    BY <1>1, <1>2, <2>1, <2>4 DEF Fed
<1>. QED
  BY <1>1, <1>2, NourishedInside DEF Load

LEMMA NourishedStore ==
  ASSUME XdpTyped, Covered, Nourished, NEW c \in Cpus, Store(c)
  PROVE  Nourished'
<1>1. /\ XdpTypeOK /\ pc[c] = "store" /\ pc'[c] = "take" /\ tokens' = reg[c]
      /\ UNCHANGED <<at, reg, raced, paced, previous>>
  BY DEF XdpTyped, XdpTypeOK, Store, Goto, ghostVars
<1>2. ASSUME Fed(c) PROVE Fed(c)'
  <2>1. InBucket' = InBucket
    BY <1>1, Inside DEF Store
  <2>. QED
    BY <1>1, <1>2, <2>1 DEF Fed
<1>. QED
  BY <1>1, <1>2, NourishedInside DEF Store

(* The packet finds a token, so the CPU does not leave without one.        *)
LEMMA NourishedTake ==
  ASSUME XdpTyped, Covered, Nourished, NEW c \in Cpus, Take(c)
  PROVE  Nourished'
<1>1. /\ XdpTypeOK /\ pc[c] = "take"
      /\ UNCHANGED <<tokens, at, raced, paced, previous>>
  BY DEF XdpTyped, XdpTypeOK, Take, Goto, bucketVars, ghostVars
<1>2. CASE tokens >= 1
  <2>1. Goto(c, "take", "spend") /\ pc'[c] = "spend"
    BY <1>1, <1>2 DEF Take, Goto, XdpTypeOK
  <2>2. ASSUME Fed(c) PROVE Fed(c)'
    <3>1. InBucket' = InBucket
      BY <1>1, <2>1, Inside
    <3>. QED
      BY <1>1, <2>1, <2>2, <3>1 DEF Fed
  <2>. QED
    BY <1>1, <2>1, <2>2, NourishedInside
<1>3. CASE ~(tokens >= 1)
  <2>1. ~(paced /\ raced = 0)
    BY <1>1, <1>3, Known DEF Fed
  <2>2. ~(paced' /\ raced' = 0)
    BY <1>1, <2>1
  <2>. QED
    BY <2>2 DEF Nourished
<1>. QED
  BY <1>2, <1>3

LEMMA NourishedSpend ==
  ASSUME XdpTyped, Covered, Nourished, NEW c \in Cpus, Spend(c)
  PROVE  Nourished'
<1>. SUFFICES ASSUME paced', raced' = 0
              PROVE  /\ \A d \in Cpus : pc'[d] # "starved" /\ Fed(d)'
                     /\ (IF previous < 0 THEN last = 0 ELSE last <= previous)'
  BY DEF Nourished, PacedNotStarved
<1>1. /\ XdpTypeOK /\ pc[c] = "spend" /\ pc' = [pc EXCEPT ![c] = "pass"]
      /\ UNCHANGED <<last, at, paced, raced, previous>>
  BY DEF XdpTyped, Spend, Goto
<1>2. /\ \A d \in Cpus : pc[d] # "starved" /\ Fed(d)
      /\ c \in InBucket /\ InBucket' = InBucket \ {c}
  BY <1>1, Known, Leaving DEF Spend
<1>3. InBucket = {c} /\ last <= at[c] /\ previous = at[c]
  BY <1>1, <1>2, OneAtATime DEF Fed
<1>4. \A d \in Cpus : d \notin InBucket' /\ pc'[d] # "starved"
  BY <1>1, <1>2, <1>3 DEF XdpTypeOK
<1>5. ASSUME NEW d \in Cpus PROVE Fed(d)'
  BY <1>4 DEF Fed, InBucket
<1>6. (IF previous < 0 THEN last = 0 ELSE last <= previous)'
  BY <1>1, <1>3, Constants DEF XdpTypeOK
<1>. QED
  BY <1>4, <1>5, <1>6

(* A packet of a source that kept the distance comes to a free bucket.     *)
LEMMA NourishedEnter ==
  ASSUME XdpTyped, Covered, Nourished, NEW c \in Cpus, LookupBucket(c), limited
  PROVE  Nourished'
<1>. SUFFICES ASSUME paced', raced' = 0
              PROVE  /\ \A d \in Cpus : pc'[d] # "starved" /\ Fed(d)'
                     /\ InBucket' # {}
  BY DEF Nourished, PacedNotStarved
<1>1. /\ XdpTypeOK /\ pc[c] = "bucket" /\ pc' = [pc EXCEPT ![c] = "refill"]
      /\ at' = [at EXCEPT ![c] = now] /\ previous' = now
      /\ raced' = raced + (IF InBucket = {} THEN 0 ELSE 1)
      /\ UNCHANGED <<now, last, tokens, reg>>
  BY DEF XdpTyped, LookupBucket, Goto, bucketVars
<1>2. /\ paced
      /\ IF previous < 0 THEN tokens > 0 \/ now * rate >= Second
         ELSE (now - previous) * rate >= Second
  BY DEF LookupBucket
<1>3. raced = 0 /\ InBucket = {}
  <2>1. raced \in Nat
    BY <1>1 DEF XdpTypeOK
  <2>. QED
    BY <1>1, <2>1
<1>4. /\ \A d \in Cpus : pc[d] # "starved" /\ Fed(d)
      /\ IF previous < 0 THEN last = 0 ELSE last <= previous
  BY <1>2, <1>3, Known
<1>5. /\ InBucket' = {c} /\ pc'[c] = "refill" /\ at'[c] = now
      /\ \A d \in Cpus : d # c => pc'[d] = pc[d] /\ d \notin InBucket'
  BY <1>1, <1>3 DEF InBucket, XdpTypeOK
<1>6. tokens >= 1 \/ (now - last) * rate >= Second
  <2>1. /\ now \in Int /\ previous \in Int /\ last \in Int /\ tokens \in Int
        /\ (now - last) * rate \in Int /\ (now - previous) * rate \in Int
    BY <1>1, Constants DEF XdpTypeOK
  <2>2. CASE previous < 0
    <3>1. (now - last) * rate = now * rate
      BY <1>4, <2>1, <2>2
    <3>. QED
      BY <1>2, <2>1, <2>2, <3>1
  <2>3. CASE ~(previous < 0)
    <3>1. now - previous <= now - last
      BY <1>4, <2>1, <2>3
    <3>2. (now - previous) * rate <= (now - last) * rate
      BY <2>1, <3>1, TimesMonotonic, Constants
    <3>. QED
      BY <1>2, <2>1, <2>3, <3>2, Constants
  <2>. QED
    BY <2>2, <2>3
<1>7. Fed(c)'
  BY <1>1, <1>5, <1>6 DEF Fed
<1>8. ASSUME NEW d \in Cpus, d # c PROVE Fed(d)'
  BY <1>5, <1>8 DEF Fed, InBucket
<1>. QED
  BY <1>4, <1>5, <1>7, <1>8

LEMMA NourishedInit == XdpInit => Nourished
<1> SUFFICES ASSUME XdpInit PROVE Nourished
  OBVIOUS
<1>1. \A c \in Cpus : pc[c] = "idle" /\ c \notin InBucket
  BY DEF XdpInit, InBucket
<1>2. \A c \in Cpus : Fed(c)
  BY <1>1 DEF Fed
<1>3. previous < 0 /\ last = 0
  BY DEF XdpInit
<1>. QED
  BY <1>1, <1>2, <1>3 DEF Nourished, PacedNotStarved

LEMMA NourishedNext ==
  ASSUME XdpTyped, Covered, Nourished, [XdpNext]_xdpVars
  PROVE  Nourished'
<1>1. ASSUME NEW c \in Cpus, LookupBucket(c) PROVE Nourished'
  BY <1>1, NourishedEnter, NourishedOutside
<1>. QED
  BY <1>1, NourishedOutside, NourishedRefill, NourishedStamp, NourishedLoad,
     NourishedStore, NourishedTake, NourishedSpend
     DEF XdpNext, xdp_filter

(* A source whose packets keep the distance of a token, and meet no other  *)
(* at the bucket, always finds one, although the fraction of a token is    *)
(* dropped with each refill (xdp_block.c:111-121).                         *)
THEOREM PacedIsFed == XdpSpec => []PacedNotStarved
<1>1. XdpInit => XdpInv
  BY CoveredInit, NourishedInit DEF XdpInv
<1>2. XdpInv /\ [XdpNext]_xdpVars => XdpInv'
  BY TypedNext, CoveredNext, NourishedNext DEF XdpInv
<1>3. XdpInv => PacedNotStarved
  BY DEF XdpInv, Nourished, PacedNotStarved
<1>. QED
  BY <1>1, <1>2, <1>3, PTL DEF XdpSpec
==============================================================================
