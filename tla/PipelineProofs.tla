--------------------------- MODULE PipelineProofs ---------------------------
(* Theorems about AgentPipeline: for any capacity of the queue and of the  *)
(* stream's windows, the pipeline implements ReportStream.                 *)
EXTENDS AgentPipeline, SequenceTheorems, TLAPS

(* s continues a numbering after m.                                        *)
From(s, m) == \A i \in 1 .. Len(s) : s[i] = m + i

(* Of the packets of r, those that parse are the ones after m up to n.     *)
Remaining(r, m, n) ==
  /\ m <= n
  /\ \A i \in 1 .. Len(r) : Parses(r[i]) => r[i] \in m + 1 .. n
  /\ \A p \in m + 1 .. n : \E i \in 1 .. Len(r) : r[i] = p
  /\ \A i, j \in 1 .. Len(r) : i < j /\ Parses(r[i]) /\ Parses(r[j]) => r[i] < r[j]

(* The reports that have left the agent, the queue, and the capture queue. *)
Uploaded == Len(delivered) + Len(up)
Queued == Uploaded + Len(queue)
Taken == Queued + Len(held)

(* Each thread, task and handler agrees with what it holds.                *)
Threads ==
  /\ Len(held) = IF parser = "sending" THEN 1 ELSE 0
  /\ parser = "ended" => capture = "ended" /\ raw = <<>>
  /\ handler = "sending" => owed >= 1
  /\ link = "none" => handler = "none" /\ ~fin

(* Until the stream breaks nothing is lost between capture and stream, and *)
(* an end of the stream has come through all the queues.                   *)
Whole ==
  /\ From(queue, Uploaded) /\ From(held, Queued)
  /\ Remaining(raw, Taken, captured)
  /\ fin => parser = "ended" /\ queue = <<>>
  /\ handler = "returned" => fin /\ up = <<>>
  /\ ~receiver => handler = "returned"

PipeInv ==
  /\ PipeTypeOK /\ Threads
  /\ From(up, Len(delivered))
  /\ link # "broken" => Whole

-----------------------------------------------------------------------------
(* Sequences that number their elements *)

(* A sequence over a set is one over a larger set.                         *)
LEMMA SeqWider ==
  ASSUME NEW S, NEW T, S \subseteq T, NEW s \in Seq(S)
  PROVE  s \in Seq(T)
<1>1. Len(s) \in Nat /\ DOMAIN s = 1 .. Len(s) /\ s \in [1 .. Len(s) -> S]
  BY LenProperties
<1>2. s \in [1 .. Len(s) -> T]
  BY <1>1
<1>. QED
  BY <1>1, <1>2

LEMMA FromEmpty == \A m : From(<<>>, m)
BY DEF From

LEMMA FromAppend ==
  ASSUME NEW s \in Seq(Int), NEW m \in Nat, From(s, m), NEW x \in Int,
         x = m + Len(s) + 1
  PROVE  From(Append(s, x), m)
<1>1. /\ Len(s) \in Nat /\ Len(Append(s, x)) = Len(s) + 1
      /\ \A i \in 1 .. Len(s) : Append(s, x)[i] = s[i]
      /\ Append(s, x)[Len(s) + 1] = x
  OBVIOUS
<1>2. ASSUME NEW i \in 1 .. Len(s) + 1 PROVE Append(s, x)[i] = m + i
  <2>1. CASE i \in 1 .. Len(s)
    BY <1>1, <2>1 DEF From
  <2>2. CASE i = Len(s) + 1
    BY <1>1, <2>2
  <2>. QED
    BY <1>1, <2>1, <2>2
<1>. QED
  BY <1>1, <1>2 DEF From

LEMMA FromTail ==
  ASSUME NEW s \in Seq(Int), NEW m \in Nat, From(s, m), s # <<>>
  PROVE  /\ Head(s) = m + 1 /\ From(Tail(s), m + 1)
         /\ Len(Tail(s)) = Len(s) - 1 /\ Len(s) >= 1
BY DEF From

LEMMA FromPrefix ==
  ASSUME NEW s \in Seq(Int), NEW m \in Nat, From(s, m), NEW k \in 0 .. Len(s)
  PROVE  From(SubSeq(s, 1, k), m) /\ Len(SubSeq(s, 1, k)) = k
BY DEF From

LEMMA FromConcat ==
  ASSUME NEW s \in Seq(Int), NEW h \in Seq(Int), NEW m \in Nat, From(s, m),
         Len(h) = 1, From(h, m + Len(s))
  PROVE  From(s \o h, m) /\ Len(s \o h) = Len(s) + 1
<1>1. /\ s \o h \in Seq(Int) /\ Len(s \o h) = Len(s) + 1
      /\ \A i \in 1 .. Len(s) : (s \o h)[i] = s[i]
      /\ (s \o h)[Len(s) + 1] = h[1]
  <2>1. /\ s \o h \in Seq(Int) /\ Len(s \o h) = Len(s) + Len(h)
        /\ \A i \in 1 .. Len(s) + Len(h) :
             (s \o h)[i] = IF i <= Len(s) THEN s[i] ELSE h[i - Len(s)]
    BY ConcatProperties
  <2>2. Len(s) \in Nat
    OBVIOUS
  <2>3. (s \o h)[Len(s) + 1] = h[Len(s) + 1 - Len(s)]
    BY <2>1, <2>2
  <2>4. Len(s) + 1 - Len(s) = 1
    BY <2>2
  <2>. QED
    BY <2>1, <2>2, <2>3, <2>4
<1>2. ASSUME NEW i \in 1 .. Len(s) + 1 PROVE (s \o h)[i] = m + i
  <2>1. CASE i \in 1 .. Len(s)
    BY <1>1, <2>1 DEF From
  <2>2. CASE i = Len(s) + 1
    <3>1. h[1] = m + Len(s) + 1
      BY DEF From
    <3>. QED
      BY <1>1, <2>2, <3>1
  <2>. QED
    BY <1>1, <2>1, <2>2
<1>. QED
  BY <1>1, <1>2 DEF From

(* The capture queue: a packet that parses is the next one.                *)
LEMMA RemainingTail ==
  ASSUME NEW r \in Seq(Nat), NEW m \in Nat, NEW n \in Nat, Remaining(r, m, n), r # <<>>
  PROVE  /\ ~Parses(Head(r)) => Remaining(Tail(r), m, n)
         /\ Parses(Head(r)) => Head(r) = m + 1 /\ Remaining(Tail(r), m + 1, n)
<1>1. /\ Len(r) \in Nat /\ Len(r) >= 1 /\ Tail(r) \in Seq(Nat) /\ Len(Tail(r)) = Len(r) - 1
      /\ Head(r) = r[1] /\ r[1] \in Nat
      /\ \A i \in 1 .. Len(r) - 1 : Tail(r)[i] = r[i + 1]
      /\ \A i \in 1 .. Len(r) : r[i] \in Nat
  OBVIOUS
<1>. DEFINE t == Tail(r)
<1>2. ASSUME ~Parses(Head(r)) PROVE Remaining(t, m, n)
  <2>1. \A p \in m + 1 .. n : \E i \in 1 .. Len(t) : t[i] = p
    <3>. SUFFICES ASSUME NEW p \in m + 1 .. n PROVE \E i \in 1 .. Len(t) : t[i] = p
      OBVIOUS
    <3>1. PICK i \in 1 .. Len(r) : r[i] = p
      BY DEF Remaining
    <3>2. i # 1
      BY <1>1, <1>2, <3>1 DEF Parses
    <3>3. i - 1 \in 1 .. Len(t) /\ t[i - 1] = p
      BY <1>1, <3>1, <3>2
    <3>. QED
      BY <3>3
  <2>2. /\ \A i \in 1 .. Len(t) : Parses(t[i]) => t[i] \in m + 1 .. n
        /\ \A i, j \in 1 .. Len(t) : i < j /\ Parses(t[i]) /\ Parses(t[j]) => t[i] < t[j]
    BY <1>1 DEF Remaining
  <2>. QED
    BY <2>1, <2>2 DEF Remaining
<1>3. ASSUME Parses(Head(r)) PROVE Head(r) = m + 1 /\ Remaining(t, m + 1, n)
  <2>1. r[1] \in m + 1 .. n
    BY <1>1, <1>3 DEF Remaining
  <2>2. PICK k \in 1 .. Len(r) : r[k] = m + 1
    BY <2>1 DEF Remaining
  <2>3. r[1] = m + 1
    <3>1. CASE k = 1
      BY <2>2, <3>1
    <3>2. CASE k # 1
      <4>1. 1 \in 1 .. Len(r) /\ 1 < k /\ Parses(r[1]) /\ Parses(r[k])
        BY <1>1, <1>3, <2>2, <3>2 DEF Parses
      <4>2. r[1] < r[k]
        BY <4>1, <2>2 DEF Remaining
      <4>. QED
        BY <1>1, <2>1, <2>2, <4>2
    <3>. QED
      BY <3>1, <3>2
  <2>4. \A i \in 1 .. Len(t) : Parses(t[i]) => t[i] \in m + 2 .. n
    <3>. SUFFICES ASSUME NEW i \in 1 .. Len(t), Parses(t[i]) PROVE t[i] \in m + 2 .. n
      OBVIOUS
    <3>1. i + 1 \in 1 .. Len(r) /\ 1 \in 1 .. Len(r) /\ 1 < i + 1 /\ t[i] = r[i + 1]
          /\ Parses(r[1]) /\ Parses(r[i + 1])
      BY <1>1, <1>3
    <3>2. r[1] < r[i + 1] /\ r[i + 1] \in m + 1 .. n
      BY <3>1 DEF Remaining
    <3>. QED
      BY <1>1, <2>3, <3>1, <3>2
  <2>5. \A p \in m + 2 .. n : \E i \in 1 .. Len(t) : t[i] = p
    <3>. SUFFICES ASSUME NEW p \in m + 2 .. n PROVE \E i \in 1 .. Len(t) : t[i] = p
      OBVIOUS
    <3>1. PICK i \in 1 .. Len(r) : r[i] = p
      BY DEF Remaining
    <3>2. i # 1
      BY <2>3, <3>1
    <3>3. i - 1 \in 1 .. Len(t) /\ t[i - 1] = p
      BY <1>1, <3>1, <3>2
    <3>. QED
      BY <3>3
  <2>6. \A i, j \in 1 .. Len(t) : i < j /\ Parses(t[i]) /\ Parses(t[j]) => t[i] < t[j]
    BY <1>1 DEF Remaining
  <2>. QED
    BY <1>1, <2>1, <2>3, <2>4, <2>5, <2>6 DEF Remaining
<1>. QED
  BY <1>2, <1>3

LEMMA RemainingAppend ==
  ASSUME NEW r \in Seq(Nat), NEW m \in Nat, NEW n \in Nat, Remaining(r, m, n)
  PROVE  Remaining(Append(r, 0), m, n) /\ Remaining(Append(r, n + 1), m, n + 1)
<1>. SUFFICES ASSUME NEW x \in {0, n + 1}, NEW k \in Nat,
                     x = 0 => k = n, x = n + 1 => k = n + 1
              PROVE  Remaining(Append(r, x), m, k)
  OBVIOUS
<1>. DEFINE a == Append(r, x)
<1>1. /\ Len(a) = Len(r) + 1 /\ Len(r) \in Nat /\ a[Len(r) + 1] = x
      /\ \A i \in 1 .. Len(r) : a[i] = r[i] /\ r[i] \in Nat
  OBVIOUS
<1>. HIDE DEF a
<1>2. m <= k /\ \A i \in 1 .. Len(a) : Parses(a[i]) => a[i] \in m + 1 .. k
  <2>1. m <= n /\ n <= k
    BY DEF Remaining
  <2>2. ASSUME NEW i \in 1 .. Len(r), Parses(r[i]) PROVE r[i] \in m + 1 .. k
    BY <2>1, <2>2 DEF Remaining
  <2>3. Parses(x) => x \in m + 1 .. k
    BY <2>1 DEF Parses
  <2>4. \A i \in 1 .. Len(a) : i \in 1 .. Len(r) \/ i = Len(r) + 1
    BY <1>1
  <2>5. ASSUME NEW i \in 1 .. Len(a), Parses(a[i]) PROVE a[i] \in m + 1 .. k
    BY <1>1, <2>2, <2>3, <2>4, <2>5, Zenon
  <2>. QED
    BY <2>1, <2>5
<1>3. ASSUME NEW p \in m + 1 .. k PROVE \E i \in 1 .. Len(a) : a[i] = p
  <2>1. CASE p \in m + 1 .. n
    <3>1. PICK i \in 1 .. Len(r) : r[i] = p
      BY <2>1 DEF Remaining
    <3>. QED
      BY <1>1, <3>1
  <2>2. CASE p = n + 1
    <3>1. x = p /\ Len(r) + 1 \in 1 .. Len(a)
      BY <1>1, <2>2
    <3>. QED
      BY <1>1, <3>1
  <2>. QED
    BY <2>1, <2>2
<1>4. \A i, j \in 1 .. Len(a) : i < j /\ Parses(a[i]) /\ Parses(a[j]) => a[i] < a[j]
  <2>. SUFFICES ASSUME NEW i \in 1 .. Len(a), NEW j \in 1 .. Len(a), i < j,
                       Parses(a[i]), Parses(a[j])
                PROVE  a[i] < a[j]
    OBVIOUS
  <2>1. i \in 1 .. Len(r) /\ a[i] = r[i]
    BY <1>1
  <2>2. CASE j \in 1 .. Len(r)
    BY <1>1, <2>1, <2>2 DEF Remaining
  <2>3. CASE j = Len(r) + 1
    BY <1>1, <2>1, <2>3 DEF Remaining, Parses
  <2>. QED
    BY <1>1, <2>2, <2>3
<1>. QED
  BY <1>2, <1>3, <1>4 DEF Remaining, a

LEMMA RemainingEmpty ==
  ASSUME NEW m \in Nat, NEW n \in Nat
  PROVE  Remaining(<<>>, m, n) <=> m = n
<1>1. m < n => m + 1 \in m + 1 .. n
  OBVIOUS
<1>. QED
  BY <1>1 DEF Remaining

(* The sequence of the packets captured and not yet delivered.             *)
LEMMA OutstandingType ==
  ASSUME NEW m \in Nat, NEW n \in Nat, m <= n
  PROVE  /\ Outstanding(m, n) \in Seq(Int) /\ Len(Outstanding(m, n)) = n - m
         /\ \A i \in 1 .. n - m : Outstanding(m, n)[i] = m + i
<1>1. n - m \in Nat
  OBVIOUS
<1>. DEFINE s == [i \in 1 .. n - m |-> m + i]
<1>2. s \in [1 .. n - m -> Int] /\ \A i \in 1 .. n - m : s[i] = m + i
  OBVIOUS
<1>3. s \in Seq(Int) /\ Len(s) = n - m
  <2>. HIDE DEF s
  <2>1. DOMAIN s = 1 .. n - m /\ s \in Seq(Int)
    BY <1>1, <1>2
  <2>. QED
    BY <1>1, <2>1, LenProperties
<1>. QED
  BY <1>2, <1>3 DEF Outstanding

LEMMA OutstandingNone ==
  ASSUME NEW m \in Nat
  PROVE  Outstanding(m, m) = <<>>
<1>1. Outstanding(m, m) \in Seq(Int) /\ Len(Outstanding(m, m)) = m - m
  BY OutstandingType
<1>2. m - m = 0
  OBVIOUS
<1>. QED
  BY <1>1, <1>2, EmptySeq

LEMMA OutstandingNext ==
  ASSUME NEW m \in Nat, NEW n \in Nat, m <= n
  PROVE  Outstanding(m, n + 1)
           = Append(Outstanding(m, n), m + Len(Outstanding(m, n)) + 1)
<1>. DEFINE s == Outstanding(m, n)
            t == Outstanding(m, n + 1)
            a == Append(s, m + Len(s) + 1)
<1>1. /\ s \in Seq(Int) /\ Len(s) = n - m /\ n - m \in Nat
      /\ \A i \in 1 .. n - m : s[i] = m + i
  BY OutstandingType
<1>2. /\ t \in Seq(Int) /\ Len(t) = n + 1 - m
      /\ \A i \in 1 .. n + 1 - m : t[i] = m + i
  BY OutstandingType
<1>. HIDE DEF s, t
<1>3. /\ a \in Seq(Int) /\ Len(a) = n - m + 1 /\ a[n - m + 1] = n + 1
      /\ \A i \in 1 .. n - m : a[i] = s[i]
  BY <1>1, AppendProperties
<1>4. ASSUME NEW i \in 1 .. Len(t) PROVE t[i] = a[i]
  <2>1. CASE i \in 1 .. n - m
    BY <1>1, <1>2, <1>3, <2>1
  <2>2. CASE i = n - m + 1
    BY <1>1, <1>2, <1>3, <2>2
  <2>. QED
    BY <1>1, <1>2, <2>1, <2>2
<1>5. Len(t) = Len(a)
  BY <1>1, <1>2, <1>3
<1>6. t = a
  <2>. HIDE DEF a
  <2>. QED
    BY <1>2, <1>3, <1>4, <1>5, SeqEqual
<1>. QED
  BY <1>6 DEF s, t

LEMMA OutstandingTail ==
  ASSUME NEW m \in Nat, NEW n \in Nat, m < n
  PROVE  /\ Outstanding(m, n) # <<>> /\ Head(Outstanding(m, n)) = m + 1
         /\ Outstanding(m + 1, n) = Tail(Outstanding(m, n))
<1>. DEFINE s == Outstanding(m, n)
            t == Outstanding(m + 1, n)
<1>1. /\ s \in Seq(Int) /\ Len(s) = n - m /\ n - m \in Nat /\ n - m >= 1
      /\ \A i \in 1 .. n - m : s[i] = m + i
  BY OutstandingType
<1>2. /\ t \in Seq(Int) /\ Len(t) = n - m - 1
      /\ \A i \in 1 .. n - m - 1 : t[i] = m + 1 + i
  BY OutstandingType
<1>. HIDE DEF s, t
<1>3. /\ s # <<>> /\ Head(s) = m + 1 /\ Tail(s) \in Seq(Int) /\ Len(Tail(s)) = n - m - 1
      /\ \A i \in 1 .. n - m - 1 : Tail(s)[i] = s[i + 1]
  BY <1>1
<1>4. ASSUME NEW i \in 1 .. Len(t) PROVE t[i] = Tail(s)[i]
  BY <1>1, <1>2, <1>3
<1>5. t = Tail(s)
  <2>1. Len(t) = Len(Tail(s))
    BY <1>2, <1>3
  <2>. QED
    BY <1>2, <1>3, <1>4, <2>1, SeqEqual
<1>. QED
  BY <1>3, <1>5 DEF s, t

LEMMA OutstandingPrefix ==
  ASSUME NEW m \in Nat, NEW n \in Nat, NEW s \in Seq(Int), From(s, m), m + Len(s) <= n
  PROVE  /\ Len(s) \in 0 .. Len(Outstanding(m, n))
         /\ s = SubSeq(Outstanding(m, n), 1, Len(s))
<1>. DEFINE t == Outstanding(m, n)
            p == SubSeq(t, 1, Len(s))
<1>1. /\ t \in Seq(Int) /\ Len(t) = n - m /\ n - m \in Nat /\ Len(s) \in Nat
      /\ \A i \in 1 .. n - m : t[i] = m + i
  <2>1. Len(s) \in Nat /\ m <= n /\ n - m \in Nat
    OBVIOUS
  <2>. HIDE DEF t
  <2>2. t \in Seq(Int) /\ Len(t) = n - m /\ \A i \in 1 .. n - m : t[i] = m + i
    BY <2>1, OutstandingType DEF t
  <2>. QED
    BY <2>1, <2>2
<1>. HIDE DEF t
<1>2. /\ p \in Seq(Int) /\ Len(p) = Len(s)
      /\ \A i \in 1 .. Len(s) : p[i] = t[i]
  BY <1>1
<1>3. \A i \in 1 .. Len(s) : s[i] = p[i]
  BY <1>1, <1>2 DEF From
<1>4. s = p
  <2>. HIDE DEF p
  <2>. QED
    BY <1>2, <1>3, SeqEqual
<1>. QED
  BY <1>1, <1>4 DEF t

-----------------------------------------------------------------------------
(* The invariant *)

(* The constants are natural numbers.                                      *)
LEMMA PipeConstants ==
  /\ queueCap \in Nat /\ queueCap >= 1 /\ upWindow \in Nat /\ upWindow >= 1
  /\ downWindow \in Nat /\ downWindow >= 1 /\ MaxPackets \in Nat /\ MaxDrained \in Nat
BY PipelineAssumption DEF PipelineAssumption

(* The numbers of the reports at each place.                               *)
LEMMA Counts ==
  ASSUME PipeTypeOK
  PROVE  /\ Len(delivered) \in Nat /\ Len(up) \in Nat /\ Len(queue) \in Nat
         /\ Len(held) \in Nat /\ Len(raw) \in Nat
         /\ Uploaded \in Nat /\ Queued \in Nat /\ Taken \in Nat /\ captured \in Nat
         /\ {raw} \subseteq Seq(Nat) /\ {up, queue, held, delivered} \subseteq Seq(Int)
<1>1. /\ Len(delivered) \in Nat /\ Len(up) \in Nat /\ Len(queue) \in Nat
      /\ Len(held) \in Nat /\ Len(raw) \in Nat /\ captured \in Nat
  BY PipeConstants DEF PipeTypeOK
<1>2. Number \subseteq Int /\ {0} \cup Number \subseteq Nat
  BY PipeConstants DEF Number
<1>3. raw \in Seq(Nat) /\ up \in Seq(Int) /\ queue \in Seq(Int) /\ held \in Seq(Int)
      /\ delivered \in Seq(Int)
  BY <1>2, SeqWider DEF PipeTypeOK
<1>. QED
  BY <1>1, <1>3 DEF Uploaded, Queued, Taken

(* Steps that leave every report where it is.                              *)
LEMMA ReportsStay ==
  ASSUME PipeInv, UNCHANGED <<captured, raw, held, queue, up, delivered>>,
         PipeTypeOK', Threads', link' # "broken" => link # "broken",
         (link' # "broken") =>
            /\ fin' => parser' = "ended" /\ queue = <<>>
            /\ handler' = "returned" => fin' /\ up = <<>>
            /\ ~receiver' => handler' = "returned"
  PROVE  PipeInv'
BY DEF PipeInv, Whole, Uploaded, Queued, Taken

LEMMA CaptureStartKeeps ==
  ASSUME PipeInv, CaptureStart
  PROVE  PipeInv'
<1>1. PipeTypeOK' /\ Threads'
  BY DEF PipeInv, PipeTypeOK, Threads, CaptureStart, streamVars, serverVars
<1>. QED
  BY <1>1, ReportsStay DEF PipeInv, Whole, CaptureStart, streamVars, serverVars

LEMMA CaptureKeeps ==
  ASSUME PipeInv, Capture
  PROVE  PipeInv'
<1>1. /\ UNCHANGED <<capture, parser, held, queue, receiver, task, link, fin, up, down,
                     handler, owed, headers, drained, delivered>>
      /\ capture = "running" /\ PipeTypeOK /\ Threads
  BY DEF PipeInv, Capture, streamVars, serverVars
<1>2. \/ captured < MaxPackets /\ captured' = captured + 1
           /\ raw' = Append(raw, captured + 1)
      \/ captured' = captured /\ raw' = Append(raw, 0)
  BY DEF Capture
<1>3. captured' \in 0 .. MaxPackets /\ raw' \in Seq({0} \cup Number)
  <2>1. captured \in 0 .. MaxPackets /\ raw \in Seq({0} \cup Number)
    BY <1>1 DEF PipeTypeOK
  <2>2. captured < MaxPackets => captured + 1 \in 0 .. MaxPackets /\ captured + 1 \in Number
    BY <2>1, PipeConstants DEF Number
  <2>3. \A x \in {0} \cup Number : Append(raw, x) \in Seq({0} \cup Number)
    BY <2>1
  <2>. QED
    BY <1>2, <2>1, <2>2, <2>3
<1>4. PipeTypeOK'
  BY <1>1, <1>3 DEF PipeTypeOK
<1>5. Threads'
  BY <1>1 DEF Threads
<1>6. ASSUME link # "broken" PROVE Whole'
  <2>1. Remaining(raw, Taken, captured)
    BY <1>6 DEF PipeInv, Whole
  <2>2. Remaining(raw', Taken, captured')
    BY <1>1, <1>2, <2>1, Counts, RemainingAppend
  <2>3. Taken' = Taken /\ Queued' = Queued /\ Uploaded' = Uploaded
    BY <1>1 DEF Taken, Queued, Uploaded
  <2>. QED
    BY <1>1, <1>6, <2>2, <2>3 DEF PipeInv, Whole
<1>. QED
  BY <1>1, <1>4, <1>5, <1>6 DEF PipeInv

LEMMA ParserRecvKeeps ==
  ASSUME PipeInv, ParserRecv
  PROVE  PipeInv'
<1>1. /\ UNCHANGED <<capture, captured, queue, receiver, task, link, fin, up, down,
                     handler, owed, headers, drained, delivered>>
      /\ parser = "recv" /\ PipeTypeOK /\ Threads /\ raw # <<>> /\ raw' = Tail(raw)
      /\ IF Parses(Head(raw)) THEN parser' = "sending" /\ held' = <<Head(raw)>>
         ELSE parser' = parser /\ held' = held
  BY DEF PipeInv, ParserRecv, streamVars, serverVars
<1>2. raw' \in Seq({0} \cup Number) /\ (Parses(Head(raw)) => Head(raw) \in Number)
  <2>1. raw \in Seq({0} \cup Number)
    BY <1>1 DEF PipeTypeOK
  <2>. QED
    BY <1>1, <2>1 DEF Parses
<1>3. held' \in Seq(Number) /\ Len(held') = IF parser' = "sending" THEN 1 ELSE 0
  <2>1. CASE Parses(Head(raw))
    <3>1. \A x \in Number : <<x>> \in Seq(Number) /\ Len(<<x>>) = 1
      OBVIOUS
    <3>2. held' = <<Head(raw)>> /\ parser' = "sending" /\ Head(raw) \in Number
      BY <1>1, <1>2, <2>1
    <3>. QED
      BY <3>1, <3>2
  <2>2. CASE ~Parses(Head(raw))
    <3>1. held' = held /\ parser' = parser
      BY <1>1, <2>2
    <3>2. held \in Seq(Number) /\ Len(held) = IF parser = "sending" THEN 1 ELSE 0
      BY <1>1 DEF PipeTypeOK, Threads
    <3>. QED
      BY <3>1, <3>2
  <2>. QED
    BY <2>1, <2>2
<1>4. PipeTypeOK'
  BY <1>1, <1>2, <1>3 DEF PipeTypeOK
<1>5. Threads'
  BY <1>1, <1>3 DEF Threads
<1>6. ASSUME link # "broken" PROVE Whole'
  <2>1. /\ Remaining(raw, Taken, captured) /\ From(queue, Uploaded) /\ ~fin
        /\ From(held, Queued)
        /\ handler = "returned" => fin /\ up = <<>>
        /\ ~receiver => handler = "returned"
    BY <1>1, <1>6 DEF PipeInv, Whole
  <2>2. /\ ~Parses(Head(raw)) => Remaining(raw', Taken, captured)
        /\ Parses(Head(raw)) => Head(raw) = Taken + 1
                                /\ Remaining(raw', Taken + 1, captured)
    BY <1>1, <2>1, Counts, RemainingTail
  <2>3. Queued' = Queued /\ Uploaded' = Uploaded
    BY <1>1 DEF Queued, Uploaded
  <2>4. Taken = Queued
    BY <1>1, Counts DEF Threads, Taken
  <2>5. CASE Parses(Head(raw))
    <3>1. held' = <<Queued + 1>>
      BY <1>1, <2>2, <2>4, <2>5
    <3>2. From(held', Queued)
      BY <3>1, Counts, <1>1 DEF From
    <3>3. Taken' = Taken + 1
      BY <2>3, <2>4, <3>1, Counts, <1>1 DEF Taken
    <3>. QED
      BY <1>1, <2>1, <2>2, <2>3, <2>5, <3>2, <3>3 DEF Whole
  <2>6. CASE ~Parses(Head(raw))
    <3>1. Taken' = Taken
      BY <1>1, <2>3, <2>6 DEF Taken
    <3>. QED
      BY <1>1, <2>1, <2>2, <2>3, <2>6, <3>1 DEF Whole
  <2>. QED
    BY <2>5, <2>6
<1>. QED
  BY <1>1, <1>4, <1>5, <1>6 DEF PipeInv

LEMMA ParserSendKeeps ==
  ASSUME PipeInv, ParserSend
  PROVE  PipeInv'
<1>1. /\ UNCHANGED <<capture, captured, raw, receiver, task, link, fin, up, down,
                     handler, owed, headers, drained, delivered>>
      /\ parser = "sending" /\ PipeTypeOK /\ Threads /\ Len(queue) < queueCap
      /\ parser' = "recv" /\ held' = <<>> /\ queue' = queue \o held
  BY DEF PipeInv, ParserSend, Sent, streamVars, serverVars
<1>2. /\ queue' \in Seq(Number) /\ Len(queue') = Len(queue) + Len(held)
      /\ Len(held) = 1
  BY <1>1, ConcatProperties DEF PipeTypeOK, Threads
<1>3. PipeTypeOK'
  <2>1. held' \in Seq(Number) /\ Len(queue') <= queueCap
    BY <1>1, <1>2, Counts, PipeConstants
  <2>. QED
    BY <1>1, <1>2, <2>1 DEF PipeTypeOK
<1>4. Threads'
  BY <1>1 DEF Threads
<1>5. ASSUME link # "broken" PROVE Whole'
  <2>1. /\ Remaining(raw, Taken, captured) /\ From(queue, Uploaded) /\ From(held, Queued)
        /\ ~fin /\ (handler = "returned" => fin /\ up = <<>>)
        /\ ~receiver => handler = "returned"
    BY <1>1, <1>5 DEF PipeInv, Whole
  <2>2. From(queue', Uploaded)
    BY <1>1, <1>2, <2>1, Counts, FromConcat DEF Queued
  <2>3. Uploaded' = Uploaded /\ Queued' = Queued + 1 /\ Taken' = Taken
    <3>1. Uploaded' = Uploaded
      BY <1>1 DEF Uploaded
    <3>2. Queued' = Queued + 1
      BY <1>1, <1>2, <3>1, Counts DEF Queued
    <3>3. Taken = Queued + 1 /\ Taken' = Queued + 1
      BY <1>1, <1>2, <3>2, Counts DEF Taken
    <3>. QED
      BY <3>1, <3>2, <3>3
  <2>. QED
    BY <1>1, <2>1, <2>2, <2>3, FromEmpty DEF Whole
<1>. QED
  BY <1>1, <1>3, <1>4, <1>5 DEF PipeInv

(* A parser that cannot send has lost its stream.                          *)
LEMMA ParserSendFailsKeeps ==
  ASSUME PipeInv, ParserSendFails
  PROVE  PipeInv'
<1>1. /\ UNCHANGED <<capture, captured, raw, queue, receiver, task, link, fin, up, down,
                     handler, owed, headers, drained, delivered>>
      /\ parser = "sending" /\ ~receiver /\ parser' = "recv" /\ held' = <<>>
      /\ PipeTypeOK /\ Threads
  BY DEF PipeInv, ParserSendFails, Sent, streamVars, serverVars
<1>2. PipeTypeOK' /\ Threads'
  <2>1. held' \in Seq(Number)
    BY <1>1
  <2>. QED
    BY <1>1, <2>1 DEF PipeTypeOK, Threads
<1>3. link = "broken"
  BY <1>1 DEF PipeInv, Whole
<1>. QED
  BY <1>1, <1>2, <1>3 DEF PipeInv

LEMMA ParserEndKeeps ==
  ASSUME PipeInv, ParserEnd
  PROVE  PipeInv'
<1>1. PipeTypeOK' /\ Threads'
  BY DEF PipeInv, PipeTypeOK, Threads, ParserEnd, streamVars, serverVars
<1>. QED
  BY <1>1, ReportsStay DEF PipeInv, Whole, ParserEnd, streamVars, serverVars

LEMMA ConnectKeeps ==
  ASSUME PipeInv, Connect
  PROVE  PipeInv'
<1>1. PipeTypeOK' /\ Threads'
  BY DEF PipeInv, PipeTypeOK, Threads, Connect
<1>. QED
  BY <1>1, ReportsStay DEF PipeInv, Whole, Threads, Connect

LEMMA UploadKeeps ==
  ASSUME PipeInv, Upload
  PROVE  PipeInv'
<1>1. /\ UNCHANGED <<capture, captured, raw, parser, held, receiver, task, link, fin,
                     down, handler, owed, headers, drained, delivered>>
      /\ link = "open" /\ queue # <<>> /\ Len(up) < upWindow
      /\ up' = Append(up, Head(queue)) /\ queue' = Tail(queue)
      /\ PipeTypeOK /\ Threads /\ Whole /\ From(up, Len(delivered))
  BY DEF PipeInv, Upload, serverVars
<1>2. From(queue, Uploaded) /\ ~fin /\ handler # "returned" /\ receiver
  BY <1>1 DEF Whole
<1>3. /\ Head(queue) = Uploaded + 1 /\ From(Tail(queue), Uploaded + 1)
      /\ Len(Tail(queue)) = Len(queue) - 1
  BY <1>1, <1>2, Counts, FromTail
<1>4. From(up', Len(delivered))
  <2>1. Head(queue) \in Int /\ Head(queue) = Len(delivered) + Len(up) + 1
    BY <1>1, <1>3, Counts DEF Uploaded
  <2>. QED
    BY <1>1, <2>1, Counts, FromAppend
<1>5. /\ up' \in Seq(Number) /\ Len(up') = Len(up) + 1
      /\ queue' \in Seq(Number) /\ Len(queue') = Len(queue) - 1
  BY <1>1, <1>3 DEF PipeTypeOK
<1>6. PipeTypeOK'
  <2>1. Len(queue) <= queueCap
    BY <1>1 DEF PipeTypeOK
  <2>2. Len(up) + 1 <= upWindow /\ Len(queue) - 1 <= queueCap
    <3>1. PICK u \in Nat, q \in Nat : u = Len(up) /\ q = Len(queue)
      BY <1>1, Counts
    <3>2. u + 1 <= upWindow /\ q - 1 <= queueCap
      BY <1>1, <2>1, <3>1, PipeConstants
    <3>. QED
      BY <3>1, <3>2
  <2>3. Len(up') <= upWindow /\ Len(queue') <= queueCap
    BY <1>5, <2>2
  <2>. QED
    BY <1>1, <1>5, <2>3 DEF PipeTypeOK
<1>7. Uploaded' = Uploaded + 1 /\ Queued' = Queued /\ Taken' = Taken
  <2>1. Uploaded' = Uploaded + 1
    BY <1>1, <1>5, Counts DEF Uploaded
  <2>2. Queued' = Queued
    <3>1. Queued' = (Uploaded + 1) + (Len(queue) - 1)
      BY <1>5, <2>1 DEF Queued
    <3>2. (Uploaded + 1) + (Len(queue) - 1) = Uploaded + Len(queue)
      <4>1. Uploaded \in Nat /\ Len(queue) \in Nat
        BY <1>1, Counts
      <4>. QED
        BY <4>1
    <3>. QED
      BY <3>1, <3>2 DEF Queued
  <2>. QED
    BY <1>1, <2>1, <2>2 DEF Taken
<1>. QED
  BY <1>1, <1>2, <1>3, <1>4, <1>6, <1>7 DEF PipeInv, Threads, Whole

LEMMA UploadEndKeeps ==
  ASSUME PipeInv, UploadEnd
  PROVE  PipeInv'
<1>1. PipeTypeOK' /\ Threads'
  BY DEF PipeInv, PipeTypeOK, Threads, UploadEnd, agentVars, serverVars
<1>. QED
  BY <1>1, ReportsStay
     DEF PipeInv, Whole, UploadEnd, SendersGone, agentVars, serverVars

(* The task reads and handles commands: no report moves.                   *)
LEMMA TaskKeeps ==
  ASSUME PipeInv, Response \/ ReadCommand \/ CommandHandled \/ TaskEnd
  PROVE  PipeInv'
<1>1. /\ UNCHANGED <<capture, captured, raw, parser, held, queue, receiver, link, fin, up,
                     handler, owed, headers, drained, delivered>>
      /\ PipeTypeOK /\ Threads
      /\ task' \in {"connecting", "calling", "reading", "handling", "done"}
      /\ down' \in 0 .. downWindow
  BY PipeConstants
     DEF PipeInv, PipeTypeOK, Response, ReadCommand, CommandHandled, TaskEnd,
         streamVars, serverVars
<1>2. PipeTypeOK' /\ Threads'
  BY <1>1 DEF PipeTypeOK, Threads
<1>. QED
  BY <1>1, <1>2, ReportsStay DEF PipeInv, Whole

LEMMA DropReceiverKeeps ==
  ASSUME PipeInv, DropReceiver
  PROVE  PipeInv'
<1>1. /\ UNCHANGED <<capture, captured, raw, parser, held, task, link, fin, up, down,
                     handler, owed, headers, drained, delivered>>
      /\ link = "broken" /\ receiver' = FALSE /\ queue' = <<>> /\ PipeTypeOK /\ Threads
  BY DEF PipeInv, DropReceiver, streamVars, serverVars
<1>2. PipeTypeOK'
  <2>1. queue' \in Seq(Number) /\ Len(queue') <= queueCap
    BY <1>1, PipeConstants
  <2>. QED
    BY <1>1, <2>1 DEF PipeTypeOK
<1>3. Threads'
  BY <1>1 DEF Threads
<1>. QED
  BY <1>1, <1>2, <1>3 DEF PipeInv

LEMMA BreakKeeps ==
  ASSUME PipeInv, Break
  PROVE  PipeInv'
<1>1. /\ UNCHANGED <<capture, captured, raw, parser, held, queue, receiver, task, fin,
                     down, handler, owed, headers, drained, delivered>>
      /\ link' = "broken" /\ PipeTypeOK /\ Threads /\ From(up, Len(delivered))
  BY DEF PipeInv, Break, agentVars, serverVars
<1>2. PICK k \in 0 .. Len(up) : up' = SubSeq(up, 1, k)
  BY DEF Break
<1>3. From(up', Len(delivered)) /\ Len(up') = k
  BY <1>1, <1>2, Counts, FromPrefix
<1>4. up' \in Seq(Number) /\ Len(up') <= upWindow
  <2>1. up \in Seq(Number) /\ Len(up) <= upWindow /\ Len(up) \in Nat
    BY <1>1, Counts DEF PipeTypeOK
  <2>2. up' \in Seq(Number)
    BY <1>2, <2>1, SubSeqProperties
  <2>3. k <= upWindow
    BY <2>1, PipeConstants
  <2>. QED
    BY <1>3, <2>2, <2>3
<1>5. PipeTypeOK' /\ Threads'
  BY <1>1, <1>4 DEF PipeTypeOK, Threads
<1>. QED
  BY <1>1, <1>3, <1>5 DEF PipeInv

(* exit(0) breaks the stream, unless the handler has returned.             *)
LEMMA ExitKeeps ==
  ASSUME PipeInv, Exit
  PROVE  PipeInv'
<1>1. /\ UNCHANGED <<captured, fin, up, handler, owed, headers, drained, delivered>>
      /\ link' = IF handler = "returned" THEN link ELSE "broken"
      /\ capture' = "ended" /\ raw' = <<>> /\ parser' = "ended" /\ held' = <<>>
      /\ queue' = <<>> /\ receiver' = FALSE /\ task' = "done" /\ down' = 0
      /\ PipeTypeOK /\ Threads /\ From(up, Len(delivered))
  BY DEF PipeInv, Exit, serverVars
<1>2. PipeTypeOK'
  <2>1. /\ raw' \in Seq({0} \cup Number) /\ held' \in Seq(Number)
        /\ queue' \in Seq(Number) /\ Len(queue') <= queueCap /\ down' \in 0 .. downWindow
    BY <1>1, PipeConstants
  <2>. QED
    BY <1>1, <2>1 DEF PipeTypeOK
<1>3. Threads'
  BY <1>1 DEF Threads
<1>4. ASSUME link' # "broken" PROVE Whole'
  <2>1. handler = "returned" /\ link # "broken"
    BY <1>1, <1>4
  <2>2. /\ fin /\ up = <<>> /\ parser = "ended" /\ queue = <<>> /\ held = <<>> /\ raw = <<>>
        /\ Remaining(raw, Taken, captured)
    BY <1>1, <2>1, Counts DEF PipeInv, Whole, Threads
  <2>3. Taken' = Taken
    BY <1>1, <2>2 DEF Taken, Queued, Uploaded
  <2>. QED
    BY <1>1, <2>1, <2>2, <2>3, FromEmpty DEF Whole
<1>. QED
  BY <1>1, <1>2, <1>3, <1>4 DEF PipeInv

LEMMA MonitorRecvKeeps ==
  ASSUME PipeInv, MonitorRecv
  PROVE  PipeInv'
<1>1. /\ UNCHANGED <<capture, captured, raw, parser, held, queue, receiver, task, link,
                     fin, down, headers, drained>>
      /\ handler = "recv" /\ up # <<>>
      /\ delivered' = Append(delivered, Head(up)) /\ up' = Tail(up)
      /\ owed' \in 0 .. 2 /\ handler' = IF owed' > 0 THEN "sending" ELSE "recv"
      /\ PipeTypeOK /\ Threads /\ From(up, Len(delivered))
  BY DEF PipeInv, MonitorRecv, agentVars
<1>2. /\ From(up', Len(delivered) + 1) /\ Len(up') = Len(up) - 1
      /\ Len(delivered') = Len(delivered) + 1
      /\ up' \in Seq(Number) /\ delivered' \in Seq(Number)
  <2>1. From(up', Len(delivered) + 1) /\ Len(up') = Len(up) - 1
    BY <1>1, Counts, FromTail
  <2>2. up' \in Seq(Number) /\ Head(up) \in Number
    BY <1>1 DEF PipeTypeOK
  <2>3. delivered' \in Seq(Number) /\ Len(delivered') = Len(delivered) + 1
    BY <1>1, <2>2, AppendProperties DEF PipeTypeOK
  <2>. QED
    BY <2>1, <2>2, <2>3
<1>3. PipeTypeOK'
  <2>1. Len(up') <= upWindow
    BY <1>1, <1>2, Counts, PipeConstants DEF PipeTypeOK
  <2>. QED
    BY <1>1, <1>2, <2>1 DEF PipeTypeOK
<1>4. Threads'
  BY <1>1 DEF Threads
<1>5. Uploaded' = Uploaded /\ Queued' = Queued /\ Taken' = Taken
  <2>1. Uploaded' = Uploaded
    BY <1>1, <1>2, Counts DEF Uploaded
  <2>. QED
    BY <1>1, <2>1 DEF Queued, Taken
<1>6. ASSUME link # "broken" PROVE Whole'
  BY <1>1, <1>5, <1>6 DEF PipeInv, Whole
<1>. QED
  BY <1>1, <1>2, <1>3, <1>4, <1>6 DEF PipeInv

LEMMA MonitorSendKeeps ==
  ASSUME PipeInv, MonitorSend \/ DrainSend
  PROVE  PipeInv'
<1>1. /\ UNCHANGED <<capture, captured, raw, parser, held, queue, receiver, task, link,
                     fin, up, delivered>>
      /\ PipeTypeOK /\ Threads /\ handler # "returned" /\ handler' # "returned"
      /\ link # "none"
  BY DEF PipeInv, MonitorSend, DrainSend, Threads, agentVars
<1>2. /\ down' \in 0 .. downWindow /\ headers' \in BOOLEAN /\ owed' \in 0 .. 2
      /\ drained' \in 0 .. MaxDrained /\ handler' \in {"recv", "sending"}
      /\ handler' = "sending" => owed' >= 1
  <2>1. CASE MonitorSend
    <3>1. /\ handler = "sending" /\ drained' = drained /\ owed' = owed - 1
          /\ handler' = IF owed' > 0 THEN "sending" ELSE "recv"
          /\ \/ down < downWindow /\ down' = down + 1 /\ headers' = TRUE
             \/ down' = down /\ headers' = headers
      BY <2>1 DEF MonitorSend
    <3>2. owed \in 1 .. 2 /\ down \in 0 .. downWindow /\ headers \in BOOLEAN
          /\ drained \in 0 .. MaxDrained
      BY <1>1, <3>1 DEF PipeTypeOK, Threads
    <3>3. owed' \in 0 .. 1
      BY <3>1, <3>2
    <3>4. down' \in 0 .. downWindow
      BY <3>1, <3>2, PipeConstants
    <3>5. headers' \in BOOLEAN
      BY <3>1, <3>2
    <3>. QED
      BY <3>1, <3>2, <3>3, <3>4, <3>5
  <2>2. CASE DrainSend
    BY <1>1, <2>2, PipeConstants DEF DrainSend, PipeTypeOK, Threads
  <2>. QED
    BY <2>1, <2>2
<1>3. PipeTypeOK' /\ Threads'
  BY <1>1, <1>2 DEF PipeTypeOK, Threads
<1>. QED
  BY <1>1, <1>3, ReportsStay DEF PipeInv, Whole

LEMMA MonitorEndKeeps ==
  ASSUME PipeInv, MonitorEnd
  PROVE  PipeInv'
<1>1. PipeTypeOK' /\ Threads'
  BY DEF PipeInv, PipeTypeOK, Threads, MonitorEnd, agentVars, streamVars
<1>. QED
  BY <1>1, ReportsStay DEF PipeInv, Whole, MonitorEnd, agentVars, streamVars

LEMMA PipeInitHolds == PipeInit => PipeInv
<1> SUFFICES ASSUME PipeInit PROVE PipeInv
  OBVIOUS
<1>1. PipeTypeOK
  <2>1. /\ raw \in Seq({0} \cup Number) /\ held \in Seq(Number) /\ queue \in Seq(Number)
        /\ up \in Seq(Number) /\ delivered \in Seq(Number)
        /\ Len(queue) <= queueCap /\ Len(up) <= upWindow
    BY PipeConstants DEF PipeInit
  <2>2. captured \in 0 .. MaxPackets /\ down \in 0 .. downWindow /\ owed \in 0 .. 2
        /\ drained \in 0 .. MaxDrained
    BY PipeConstants DEF PipeInit
  <2>. QED
    BY <2>1, <2>2 DEF PipeInit, PipeTypeOK
<1>2. Threads
  BY DEF PipeInit, Threads
<1>3. Taken = 0 /\ captured = 0
  BY DEF PipeInit, Taken, Queued, Uploaded
<1>4. Whole
  BY <1>3, FromEmpty, RemainingEmpty DEF PipeInit, Whole
<1>. QED
  BY <1>1, <1>2, <1>4, FromEmpty DEF PipeInit, PipeInv

LEMMA PipeKeeps ==
  ASSUME PipeInv, [PipeNext]_pipeVars
  PROVE  PipeInv'
<1>1. CASE UNCHANGED pipeVars
  <2>1. PipeTypeOK'
    BY <1>1
       DEF pipeVars, agentVars, streamVars, serverVars, PipeInv, PipeTypeOK
  <2>2. Threads'
    BY <1>1
       DEF pipeVars, agentVars, streamVars, serverVars, PipeInv, Threads
  <2>. QED
    BY <1>1, <2>1, <2>2, ReportsStay
       DEF pipeVars, agentVars, streamVars, serverVars, PipeInv, Whole
<1>. QED
  BY <1>1, CaptureStartKeeps, CaptureKeeps, ParserRecvKeeps, ParserSendKeeps,
     ParserSendFailsKeeps, ParserEndKeeps, ConnectKeeps, UploadKeeps, UploadEndKeeps,
     TaskKeeps, DropReceiverKeeps, BreakKeeps, ExitKeeps, MonitorRecvKeeps,
     MonitorSendKeeps, MonitorEndKeeps
     DEF PipeNext, Parser, Stream, Task, Monitor

LEMMA PipeInductive == PipeSpec => []PipeInv
<1>1. PipeInv /\ [PipeNext]_pipeVars => PipeInv'
  BY PipeKeeps
<1>. QED
  BY PipeInitHolds, <1>1, PTL DEF PipeSpec

(* Every variable keeps its type, the report queue and both windows their  *)
(* capacity, for any capacity (main.rs:62, 98).                            *)
THEOREM PipeTypes == PipeSpec => []PipeTypeOK
<1>1. PipeInv => PipeTypeOK
  BY DEF PipeInv
<1>. QED
  BY <1>1, PipeInductive, PTL

-----------------------------------------------------------------------------
(* The refinement of ReportStream *)

(* What the stream of reports is, in terms of the pipeline.                *)
Status == IF link = "broken" THEN "broken"
          ELSE IF handler = "returned" THEN "closed" ELSE "open"
Waiting == IF link = "broken" THEN up ELSE Outstanding(Len(delivered), captured)

LEMMA MappedStutter ==
  ASSUME Status' = Status, Waiting' = Waiting, delivered' = delivered
  PROVE  UNCHANGED Reports!streamVars
BY DEF Status, Waiting, Reports!streamVars

LEMMA MappedCapture ==
  ASSUME Status = "open", Status' = Status, delivered' = delivered,
         Waiting' = Append(Waiting, Len(delivered) + Len(Waiting) + 1)
  PROVE  Reports!StreamNext
BY DEF Status, Waiting, Reports!StreamNext, Reports!Capture

LEMMA MappedDeliver ==
  ASSUME Waiting # <<>>, Status' = Status, Waiting' = Tail(Waiting),
         delivered' = Append(delivered, Head(Waiting))
  PROVE  Reports!StreamNext
BY DEF Status, Waiting, Reports!StreamNext, Reports!Deliver

LEMMA MappedBreak ==
  ASSUME Status = "open", Status' = "broken", delivered' = delivered,
         NEW k \in 0 .. Len(Waiting), Waiting' = SubSeq(Waiting, 1, k)
  PROVE  Reports!StreamNext
BY DEF Status, Waiting, Reports!StreamNext, Reports!Break

LEMMA MappedClose ==
  ASSUME Status = "open", Waiting = <<>>, Status' = "closed", Waiting' = Waiting,
         delivered' = delivered
  PROVE  Reports!StreamNext
BY DEF Status, Waiting, Reports!StreamNext, Reports!Close

(* Before the stream breaks no report is ahead of its packet.              *)
LEMMA Captured ==
  ASSUME PipeInv, link # "broken"
  PROVE  /\ Len(delivered) \in Nat /\ captured \in Nat /\ Len(up) \in Nat
         /\ Len(delivered) + Len(up) <= captured /\ Len(delivered) <= captured
         /\ handler = "returned" => Len(delivered) = captured /\ capture = "ended"
<1>1. PipeTypeOK /\ Remaining(raw, Taken, captured)
  BY DEF PipeInv, Whole
<1>2. /\ Len(delivered) \in Nat /\ captured \in Nat /\ Len(up) \in Nat
      /\ Len(queue) \in Nat /\ Len(held) \in Nat
      /\ Taken <= captured /\ Taken = Len(delivered) + Len(up) + Len(queue) + Len(held)
  BY <1>1, Counts DEF Remaining, Taken, Queued, Uploaded
<1>3. ASSUME handler = "returned"
      PROVE  Len(delivered) = captured /\ capture = "ended"
  <2>1. /\ up = <<>> /\ queue = <<>> /\ raw = <<>> /\ capture = "ended"
        /\ Len(held) = 0
    BY <1>3 DEF PipeInv, Whole, Threads
  <2>2. Taken = Len(delivered)
    BY <1>2, <2>1
  <2>3. Taken = captured
    BY <1>1, <1>2, <2>1, <2>2, RemainingEmpty
  <2>. QED
    BY <2>1, <2>2, <2>3
<1>. QED
  BY <1>2, <1>3

(* Steps of which the stream shows nothing.                                *)
LEMMA Silent ==
  ASSUME UNCHANGED <<captured, delivered>>, link' = "broken" <=> link = "broken",
         handler' = "returned" <=> handler = "returned",
         link = "broken" => up' = up
  PROVE  UNCHANGED Reports!streamVars
<1>1. Status' = Status /\ Waiting' = Waiting
  BY DEF Status, Waiting
<1>. QED
  BY <1>1, MappedStutter

LEMMA SilentSteps ==
  ASSUME PipeInv,
         \/ CaptureStart \/ Parser \/ Stream \/ Response \/ ReadCommand
         \/ CommandHandled \/ TaskEnd \/ DropReceiver \/ MonitorSend \/ DrainSend
         \/ (Connect /\ link' # "broken") \/ UNCHANGED pipeVars
  PROVE  UNCHANGED Reports!streamVars
<1>1. UNCHANGED <<captured, delivered>>
  BY DEF CaptureStart, Parser, ParserRecv, ParserSend, ParserSendFails, ParserEnd, Sent,
         Stream, Upload, UploadEnd, Response, ReadCommand, CommandHandled, TaskEnd,
         DropReceiver, MonitorSend, DrainSend, Connect, pipeVars, agentVars, streamVars,
         serverVars
<1>2. link' = "broken" <=> link = "broken"
  BY DEF CaptureStart, Parser, ParserRecv, ParserSend, ParserSendFails, ParserEnd, Sent,
         Stream, Upload, UploadEnd, Response, ReadCommand, CommandHandled, TaskEnd,
         DropReceiver, MonitorSend, DrainSend, Connect, pipeVars, agentVars, streamVars,
         serverVars
<1>3. handler' = "returned" <=> handler = "returned"
  BY DEF CaptureStart, Parser, ParserRecv, ParserSend, ParserSendFails, ParserEnd, Sent,
         Stream, Upload, UploadEnd, Response, ReadCommand, CommandHandled, TaskEnd,
         DropReceiver, MonitorSend, DrainSend, Connect, pipeVars, agentVars, streamVars,
         serverVars, PipeInv, Threads
<1>4. link = "broken" => up' = up
  BY DEF CaptureStart, Parser, ParserRecv, ParserSend, ParserSendFails, ParserEnd, Sent,
         Stream, Upload, UploadEnd, Response, ReadCommand, CommandHandled, TaskEnd,
         DropReceiver, MonitorSend, DrainSend, Connect, pipeVars, agentVars, streamVars,
         serverVars
<1>. QED
  BY <1>1, <1>2, <1>3, <1>4, Silent

LEMMA CaptureRefines ==
  ASSUME PipeInv, Capture
  PROVE  [Reports!StreamNext]_(Reports!streamVars)
<1>1. UNCHANGED <<link, up, handler, delivered>> /\ capture = "running"
  BY DEF Capture, streamVars, serverVars
<1>2. CASE captured' = captured \/ link = "broken"
  <2>1. Status' = Status /\ Waiting' = Waiting
    BY <1>1, <1>2 DEF Status, Waiting
  <2>. QED
    BY <1>1, <2>1, MappedStutter
<1>3. CASE captured' = captured + 1 /\ link # "broken"
  <2>1. Waiting' = Append(Waiting, Len(delivered) + Len(Waiting) + 1)
    <3>1. Waiting' = Outstanding(Len(delivered), captured + 1)
      BY <1>1, <1>3 DEF Waiting
    <3>2. Waiting = Outstanding(Len(delivered), captured)
      BY <1>3 DEF Waiting
    <3>. QED
      BY <1>3, <3>1, <3>2, Captured, OutstandingNext
  <2>2. Status = "open" /\ Status' = Status
    BY <1>1, <1>3, Captured DEF Status
  <2>. QED
    BY <1>1, <2>1, <2>2, MappedCapture
<1>. QED
  BY <1>2, <1>3 DEF Capture

(* When the stream breaks, a prefix of what is on its way may still come.  *)
LEMMA BreakRefines ==
  ASSUME PipeInv, link # "broken", handler # "returned", link' = "broken",
         delivered' = delivered,
         NEW k \in 0 .. Len(up), up' = SubSeq(up, 1, k)
  PROVE  Reports!StreamNext
<1>. DEFINE s == SubSeq(up, 1, k)
<1>1. Len(delivered) \in Nat /\ captured \in Nat /\ Len(delivered) + Len(up) <= captured
      /\ Len(up) \in Nat
  BY Captured
<1>2. up \in Seq(Int) /\ From(up, Len(delivered))
  BY Counts DEF PipeInv
<1>3. s \in Seq(Int) /\ From(s, Len(delivered)) /\ Len(s) = k
  BY <1>1, <1>2, FromPrefix, SubSeqProperties
<1>4. /\ k \in 0 .. Len(Waiting) /\ Waiting' = SubSeq(Waiting, 1, k)
  <2>1. Len(delivered) + Len(s) <= captured
    BY <1>1, <1>3
  <2>. HIDE DEF s
  <2>2. /\ Len(s) \in 0 .. Len(Outstanding(Len(delivered), captured))
        /\ s = SubSeq(Outstanding(Len(delivered), captured), 1, Len(s))
    BY <1>1, <1>3, <2>1, OutstandingPrefix
  <2>. QED
    BY <1>3, <2>2 DEF Waiting, s
<1>5. Status = "open" /\ Status' = "broken"
  BY DEF Status
<1>. QED
  BY <1>4, <1>5, MappedBreak

(* The whole of a sequence is a prefix of it.                              *)
LEMMA SubSeqWhole ==
  ASSUME NEW s \in Seq(Int)
  PROVE  s = SubSeq(s, 1, Len(s)) /\ Len(s) \in 0 .. Len(s)
OBVIOUS

LEMMA BreakingRefines ==
  ASSUME PipeInv, Break \/ Exit \/ (Connect /\ link' = "broken")
  PROVE  [Reports!StreamNext]_(Reports!streamVars)
<1>1. UNCHANGED <<captured, handler, delivered>> \/ Connect
  BY DEF Break, Exit, agentVars, serverVars
<1>2. CASE Break
  <2>1. link # "broken" /\ handler # "returned" /\ link' = "broken"
    BY <1>2 DEF Break
  <2>2. PICK k \in 0 .. Len(up) : up' = SubSeq(up, 1, k)
    BY <1>2 DEF Break
  <2>3. delivered' = delivered
    BY <1>2 DEF Break, serverVars
  <2>. QED
    BY <2>1, <2>2, <2>3, BreakRefines
<1>3. CASE (Exit \/ Connect) /\ link # "broken" /\ link' = "broken"
  <2>1. up' = up /\ delivered' = delivered /\ handler # "returned"
    BY <1>3 DEF Exit, Connect, serverVars, PipeInv, Threads
  <2>2. up \in Seq(Int)
    BY Counts DEF PipeInv
  <2>3. Len(up) \in 0 .. Len(up) /\ up' = SubSeq(up, 1, Len(up))
    BY <2>1, <2>2, SubSeqWhole
  <2>. QED
    BY <1>3, <2>1, <2>3, BreakRefines
<1>4. CASE Exit /\ (link = "broken" \/ link' # "broken")
  <2>1. UNCHANGED <<captured, delivered, handler, up>>
    BY <1>4 DEF Exit, serverVars
  <2>2. link' = "broken" <=> link = "broken"
    BY <1>4 DEF Exit
  <2>. QED
    BY <2>1, <2>2, Silent
<1>5. Connect => link # "broken"
  BY DEF Connect
<1>. QED
  BY <1>2, <1>3, <1>4, <1>5

LEMMA DeliverRefines ==
  ASSUME PipeInv, MonitorRecv
  PROVE  Reports!StreamNext
<1>1. /\ UNCHANGED <<captured, link>> /\ handler = "recv" /\ handler' # "returned"
      /\ up # <<>> /\ delivered' = Append(delivered, Head(up)) /\ up' = Tail(up)
      /\ PipeTypeOK /\ From(up, Len(delivered))
  BY DEF MonitorRecv, PipeInv, agentVars
<1>2. Status' = Status
  BY <1>1 DEF Status
<1>3. CASE link = "broken"
  <2>1. Waiting = up /\ Waiting' = Tail(up)
    BY <1>1, <1>3 DEF Waiting
  <2>. QED
    BY <1>1, <1>2, <2>1, MappedDeliver
<1>4. CASE link # "broken"
  <2>. DEFINE d == Len(delivered)
  <2>1. Head(up) = d + 1 /\ Len(up) >= 1
    BY <1>1, Counts, FromTail
  <2>2. d \in Nat /\ captured \in Nat /\ d < captured
    BY <1>4, <2>1, Captured
  <2>3. Len(delivered') = d + 1
    <3>1. Head(up) \in Number
      BY <1>1 DEF PipeTypeOK
    <3>. QED
      BY <1>1, <3>1, AppendProperties DEF PipeTypeOK
  <2>4. Waiting = Outstanding(d, captured) /\ Waiting' = Outstanding(d + 1, captured)
    BY <1>1, <1>4, <2>3 DEF Waiting
  <2>5. Waiting # <<>> /\ Head(Waiting) = Head(up) /\ Waiting' = Tail(Waiting)
    <3>. HIDE DEF d
    <3>. QED
      BY <2>1, <2>2, <2>4, OutstandingTail
  <2>. QED
    BY <1>1, <1>2, <2>5, MappedDeliver
<1>. QED
  BY <1>3, <1>4

LEMMA CloseRefines ==
  ASSUME PipeInv, PipeInv', MonitorEnd
  PROVE  [Reports!StreamNext]_(Reports!streamVars)
<1>1. /\ UNCHANGED <<captured, link, up, delivered>> /\ handler = "recv"
      /\ handler' = "returned" /\ Waiting' = Waiting
  BY DEF MonitorEnd, agentVars, streamVars, Waiting
<1>2. CASE link = "broken"
  <2>1. Status' = Status
    BY <1>1, <1>2 DEF Status
  <2>. QED
    BY <1>1, <2>1, MappedStutter
<1>3. CASE link # "broken"
  <2>1. Len(delivered) \in Nat /\ Len(delivered) = captured
    <3>1. PipeTypeOK /\ Remaining(raw, Taken, captured) /\ Taken' = Taken
          /\ UNCHANGED <<raw, queue, held>>
      BY <1>1, <1>3
         DEF PipeInv, Whole, MonitorEnd, agentVars, streamVars, Taken, Queued, Uploaded
    <3>2. /\ fin /\ queue = <<>> /\ up = <<>> /\ raw = <<>> /\ Len(held) = 0
      BY <1>1, <1>3 DEF PipeInv, Whole, Threads, MonitorEnd
    <3>3. Taken = Len(delivered) /\ Len(delivered) \in Nat /\ captured \in Nat
      BY <3>1, <3>2, Counts DEF Taken, Queued, Uploaded
    <3>. QED
      BY <3>1, <3>2, <3>3, RemainingEmpty
  <2>2. Outstanding(captured, captured) = <<>>
    BY <2>1, OutstandingNone
  <2>3. Waiting = <<>> /\ Status = "open" /\ Status' = "closed"
    BY <1>1, <1>3, <2>1, <2>2 DEF Waiting, Status
  <2>. QED
    BY <1>1, <2>3, MappedClose
<1>. QED
  BY <1>2, <1>3

LEMMA PipeNextRefines ==
  ASSUME PipeInv, [PipeNext]_pipeVars
  PROVE  [Reports!StreamNext]_(Reports!streamVars)
<1>1. PipeInv'
  BY PipeKeeps
<1>2. CASE Monitor
  BY <1>1, <1>2, SilentSteps, DeliverRefines, CloseRefines DEF Monitor
<1>3. CASE Task
  BY <1>3, SilentSteps, BreakingRefines DEF Task
<1>4. CASE Capture
  BY <1>4, CaptureRefines
<1>5. CASE Break \/ Exit
  BY <1>5, BreakingRefines
<1>. QED
  BY <1>2, <1>3, <1>4, <1>5, SilentSteps DEF PipeNext

LEMMA PipeInitRefines == PipeInit => Reports!StreamInit
<1> SUFFICES ASSUME PipeInit PROVE Reports!StreamInit
  OBVIOUS
<1>1. Outstanding(Len(delivered), captured) = <<>>
  BY OutstandingNone DEF PipeInit
<1>. QED
  BY <1>1 DEF PipeInit, Reports!StreamInit

(* The pipeline is a stream of reports in the order of capture: none is    *)
(* missing or repeated before it breaks, what then still comes was under   *)
(* way, and it is closed only when all have been delivered, for any        *)
(* capacity of the queue and of the windows (main.rs:61-84, 98,            *)
(* server.go:104-131).                                                     *)
THEOREM PipelineIsStream == PipeSpec => ImplementsStream
<1>1. PipeInv /\ [PipeNext]_pipeVars => [Reports!StreamNext]_(Reports!streamVars)
  BY PipeNextRefines
<1>. QED
  BY PipeInitRefines, <1>1, PipeInductive, PTL
     DEF PipeSpec, ImplementsStream, Reports!StreamSpec
==============================================================================
