---------------------------- MODULE CaptureProofs ----------------------------
(***************************************************************************)
(* Proofs about Capture and the server of Brain it sends to, for any       *)
(* number of captures, calls and drains, and any limits of the history and *)
(* of the cache; and about the ImagePipeline, for images of every size.    *)
(***************************************************************************)
EXTENDS Capture, SequenceTheorems, FiniteSetTheorems, TLAPS

-----------------------------------------------------------------------------
(* The inductive invariant                                                 *)

\* An idle slot holds nothing; a call has a frame, and once past append_frame
\* its capture time has been stored.
CallHolds(c) ==
  /\ call[c].pc = "idle" => call[c] = NoCall
  /\ call[c].pc # "idle" => call[c].at \in Times /\ call[c].shot \in Times
  /\ call[c].pc \in {"stored", "trimmed", "judged"} => call[c].at \in stored

HistSorted == \A i, j \in 1 .. Len(hist) : i <= j => hist[i].at <= hist[j].at

\* HistoryIsLatest, by rank.
Mirrors ==
  /\ Len(newest) = IF Len(hist) > MaxFrames THEN MaxFrames ELSE Len(hist)
  /\ \A i \in 1 .. Len(newest) : newest[i] = hist[Len(hist) - Len(newest) + i].at

\* A clean call is alone: its frame is later than all kept ones until it is
\* stored, then it is the last, and its trim is not undone.
CleanHolds(c) ==
  call[c].clean =>
    /\ \A d \in Calls \ {c} : call[d].pc = "idle"
    /\ call[c].pc = "arrived" => \A i \in 1 .. Len(newest) : newest[i] < call[c].at
    /\ call[c].pc \in {"stored", "trimmed"} =>
         /\ hist # << >>
         /\ hist[Len(hist)] = [at |-> call[c].at, shot |-> call[c].shot]
    /\ call[c].pc = "trimmed" => Len(hist) <= MaxFrames

BrainInv ==
  /\ BrainTypeOK /\ HistSorted /\ Mirrors
  /\ \A c \in Calls : CallHolds(c) /\ CleanHolds(c)

\* A coroutine that sends has a file; a capture sends its own; one that was
\* answered has its capture time stored.
SenderHolds(s) ==
  /\ sender[s].pc \in {"send", "wait", "sent", "unsent", "room"} =>
       sender[s].at \in Times /\ (Live(s) => sender[s].at = s)
  /\ sender[s].pc = "sent" => sender[s].at \in stored

\* Whose answer a call will be: of a coroutine that waits for it, and for no other.
Awaited(c) ==
  call[c].from # None =>
    /\ sender[call[c].from].pc = "wait"
    /\ sender[call[c].from].at = call[c].at
    /\ \A d \in Calls \ {c} : call[d].from # call[c].from

PhoneInv ==
  /\ CaptureTypeOK /\ IsFiniteSet(cache)
  /\ \A s \in Senders : SenderHolds(s)
  /\ \A c \in Calls : Awaited(c)
  /\ NoCaptureLost

CaptureInv == BrainInv /\ PhoneInv

-----------------------------------------------------------------------------
(* The operators on histories                                              *)

\* The length and the elements of the last n of h.
LEMMA LatestAt ==
  ASSUME NEW S, NEW h \in Seq(S), NEW n \in Nat
  PROVE  /\ Latest(n, h) \in Seq(S)
         /\ Len(Latest(n, h)) = IF Len(h) > n THEN n ELSE Len(h)
         /\ \A i \in 1 .. Len(Latest(n, h)) :
              Latest(n, h)[i] = h[Len(h) - Len(Latest(n, h)) + i]
<1> DEFINE m == IF Len(h) > n THEN Len(h) - n + 1 ELSE 1
<1>1. Len(h) \in Nat /\ \A i \in 1 .. Len(h) : h[i] \in S
  BY LenProperties, ElementOfSeq
<1>2. m \in Int /\ m >= 1 /\ Len(h) \in Int
  BY <1>1
<1>3. \A i \in m .. Len(h) : h[i] \in S
  BY <1>1, <1>2
<1>4. Latest(n, h) = SubSeq(h, m, Len(h))
  BY DEF Latest
<1>5. /\ SubSeq(h, m, Len(h)) \in Seq(S)
      /\ Len(SubSeq(h, m, Len(h))) = IF m <= Len(h) THEN Len(h) - m + 1 ELSE 0
      /\ \A i \in 1 .. Len(h) - m + 1 : SubSeq(h, m, Len(h))[i] = h[m + i - 1]
  <2> HIDE DEF m
  <2> QED
    BY <1>2, <1>3, SubSeqProperties
<1>6. Len(Latest(n, h)) = IF Len(h) > n THEN n ELSE Len(h)
  <2>1. Len(Latest(n, h)) = IF m <= Len(h) THEN Len(h) - m + 1 ELSE 0
    BY <1>4, <1>5
  <2>2. CASE Len(h) > n
    <3>1. m = Len(h) - n + 1
      BY <2>2
    <3> HIDE DEF m
    <3>2. (m <= Len(h) <=> n > 0) /\ Len(h) - m + 1 = n
      BY <3>1, <1>1
    <3> QED
      BY <2>1, <2>2, <3>2
  <2>3. CASE ~(Len(h) > n)
    <3>1. m = 1
      BY <2>3
    <3> HIDE DEF m
    <3> QED
      BY <2>1, <2>3, <3>1, <1>1
  <2> QED
    BY <2>2, <2>3
<1>7. /\ Len(h) - Len(Latest(n, h)) = m - 1
      /\ Len(Latest(n, h)) = Len(h) - m + 1
  BY <1>1, <1>6
<1>8. ASSUME NEW i \in 1 .. Len(Latest(n, h))
      PROVE  Latest(n, h)[i] = h[Len(h) - Len(Latest(n, h)) + i]
  <2>1. SubSeq(h, m, Len(h))[i] = h[m + i - 1]
    BY <1>5, <1>7
  <2>2. m + i - 1 = Len(h) - Len(Latest(n, h)) + i
    BY <1>1, <1>2, <1>7
  <2> QED
    BY <2>1, <2>2, <1>4
<1> QED
  BY <1>4, <1>5, <1>6, <1>8

\* What ZADD makes of a history: its entries, those after some rank k moved up
\* by one, with the new one in between.
PlacedAtRank(s, e, p, k) ==
  /\ \A i \in 1 .. k : s[i].at <= e.at
  /\ \A i \in k + 1 .. Len(s) : s[i].at >= e.at
  /\ \A i \in 1 .. Len(s) + 1 :
       p[i] = IF i <= k THEN s[i] ELSE IF i = k + 1 THEN e ELSE s[i - 1]

\* ZADD adds one entry, at a rank its capture time allows.
LEMMA PlacedAt ==
  ASSUME NEW s \in Seq(Entry), NEW e \in Entry, NEW p \in Placed(s, e)
  PROVE  /\ p \in Seq(Entry) /\ Len(p) = Len(s) + 1
         /\ \E k \in 0 .. Len(s) : PlacedAtRank(s, e, p, k)
<1>1. PICK k \in 0 .. Len(s) :
        /\ \A i \in 1 .. k : s[i].at <= e.at
        /\ \A i \in k + 1 .. Len(s) : s[i].at >= e.at
        /\ p = SubSeq(s, 1, k) \o <<e>> \o SubSeq(s, k + 1, Len(s))
  BY DEF Placed
<1>2. Len(s) \in Nat /\ \A i \in 1 .. Len(s) : s[i] \in Entry
  BY LenProperties, ElementOfSeq
<1>3. PICK a : a = SubSeq(s, 1, k)
  OBVIOUS
<1>4. PICK b : b = SubSeq(s, k + 1, Len(s))
  OBVIOUS
<1>5. a \in Seq(Entry) /\ Len(a) = k /\ \A i \in 1 .. k : a[i] = s[i]
  <2>1. \A i \in 1 .. k : s[i] \in Entry
    BY <1>2
  <2>2. /\ a \in Seq(Entry)
        /\ Len(a) = IF 1 <= k THEN k - 1 + 1 ELSE 0
        /\ \A i \in 1 .. k - 1 + 1 : a[i] = s[1 + i - 1]
    BY <1>3, <2>1, SubSeqProperties
  <2> QED
    BY <2>2
<1>6. /\ b \in Seq(Entry) /\ Len(b) = Len(s) - k
      /\ \A i \in 1 .. Len(s) - k : b[i] = s[k + i]
  <2>1. \A i \in k + 1 .. Len(s) : s[i] \in Entry
    BY <1>2
  <2>2. /\ b \in Seq(Entry)
        /\ Len(b) = IF k + 1 <= Len(s) THEN Len(s) - (k + 1) + 1 ELSE 0
        /\ \A i \in 1 .. Len(s) - (k + 1) + 1 : b[i] = s[k + 1 + i - 1]
    BY <1>2, <1>4, <2>1, SubSeqProperties
  <2>3. PICK n \in Nat : n = Len(s)
    BY <1>2
  <2>4. n - (k + 1) + 1 = n - k /\ (k + 1 <= n \/ n - k = 0)
    BY <2>3
  <2>5. Len(b) = n - k
    BY <2>2, <2>3, <2>4
  <2>6. ASSUME NEW i \in 1 .. n - k
        PROVE  b[i] = s[k + i]
    <3>1. i \in 1 .. n - (k + 1) + 1 /\ k + 1 + i - 1 = k + i
      BY <2>4
    <3> QED
      BY <2>2, <2>3, <3>1
  <2> QED
    BY <2>2, <2>3, <2>5, <2>6
<1>7. <<e>> \in Seq(Entry) /\ Len(<<e>>) = 1 /\ <<e>>[1] = e
  OBVIOUS
<1>8. PICK ae : ae = a \o <<e>>
  OBVIOUS
<1>9. /\ ae \in Seq(Entry) /\ Len(ae) = k + 1
      /\ \A i \in 1 .. k + 1 : ae[i] = IF i <= k THEN s[i] ELSE e
  <2>1. /\ a \o <<e>> \in Seq(Entry) /\ Len(a \o <<e>>) = Len(a) + Len(<<e>>)
        /\ \A i \in 1 .. Len(a) + Len(<<e>>) :
             (a \o <<e>>)[i] = IF i <= Len(a) THEN a[i] ELSE <<e>>[i - Len(a)]
    BY <1>5, <1>7, ConcatProperties
  <2>2. ASSUME NEW i \in 1 .. k + 1
        PROVE  ae[i] = IF i <= k THEN s[i] ELSE e
    <3>1. CASE i <= k
      BY <3>1, <2>1, <1>5, <1>7, <1>8
    <3>2. CASE i = k + 1
      <4>1. i - Len(a) = 1 /\ ~(i <= Len(a)) /\ i \in 1 .. Len(a) + Len(<<e>>)
        BY <3>2, <1>5, <1>7
      <4>2. ae[i] = <<e>>[1]
        BY <4>1, <2>1, <1>8
      <4> QED
        BY <4>1, <4>2, <1>5, <1>7
    <3> QED
      BY <3>1, <3>2
  <2> QED
    BY <2>1, <2>2, <1>5, <1>7, <1>8
<1>10. p = ae \o b
  BY <1>1, <1>3, <1>4, <1>8
<1>11. /\ ae \o b \in Seq(Entry) /\ Len(ae \o b) = Len(ae) + Len(b)
       /\ \A i \in 1 .. Len(ae) + Len(b) :
            (ae \o b)[i] = IF i <= Len(ae) THEN ae[i] ELSE b[i - Len(ae)]
  BY <1>6, <1>9, ConcatProperties
<1>12. p \in Seq(Entry) /\ Len(p) = Len(s) + 1
  BY <1>2, <1>6, <1>9, <1>10, <1>11
<1>13. ASSUME NEW i \in 1 .. Len(s) + 1
       PROVE  p[i] = IF i <= k THEN s[i] ELSE IF i = k + 1 THEN e ELSE s[i - 1]
  <2>1. i \in 1 .. Len(ae) + Len(b)
    BY <1>2, <1>6, <1>9
  <2>2. CASE i <= k + 1
    BY <2>1, <2>2, <1>9, <1>10, <1>11
  <2>3. CASE i > k + 1
    <3>1. p[i] = b[i - (k + 1)]
      BY <2>1, <2>3, <1>9, <1>10, <1>11
    <3>2. i - (k + 1) \in 1 .. Len(s) - k /\ k + (i - (k + 1)) = i - 1
      BY <2>3, <1>2
    <3>3. b[i - (k + 1)] = s[k + (i - (k + 1))]
      BY <3>2, <1>6
    <3>4. p[i] = s[i - 1]
      BY <3>1, <3>2, <3>3
    <3> QED
      BY <3>4, <2>3
  <2> QED
    BY <2>2, <2>3, <1>2
<1>14. PlacedAtRank(s, e, p, k)
  BY <1>1, <1>13 DEF PlacedAtRank
<1> QED
  BY <1>12, <1>14

\* One capture time more; its elements are the definition's.
LEMMA PlacedTimeAt ==
  ASSUME NEW s \in Seq(Times), NEW t \in Times
  PROVE  PlacedTime(s, t) \in Seq(Times) /\ Len(PlacedTime(s, t)) = Len(s) + 1
<1>1. Len(s) \in Nat /\ \A i \in 1 .. Len(s) : s[i] \in Times
  BY LenProperties, ElementOfSeq
<1>2. PICK n \in Nat : n = Len(s) + 1
  BY <1>1
<1>3. ASSUME NEW i \in 1 .. n, ~(i <= Len(s) /\ s[i] <= t), ~(i = 1 \/ s[i - 1] <= t)
      PROVE  s[i - 1] \in Times
  BY <1>1, <1>2, <1>3
<1>4. PlacedTime(s, t) \in [1 .. n -> Times]
  BY <1>1, <1>2, <1>3 DEF PlacedTime
<1>5. PlacedTime(s, t) \in Seq(Times)
  BY <1>4, <1>2
<1>6. DOMAIN PlacedTime(s, t) = 1 .. n
  BY <1>4
<1>7. Len(PlacedTime(s, t)) = n
  BY <1>5, <1>6, <1>2
<1> QED
  BY <1>2, <1>5, <1>7

-----------------------------------------------------------------------------
(* The history of the server                                               *)

\* The shape of a call.
CallShape ==
  [pc : {"idle", "arrived", "stored", "trimmed", "judged"},
   from : Senders \cup {None}, at : Times \cup {None}, shot : Times \cup {None},
   verdict : Signals \cup {None}, clean : BOOLEAN]

\* What a rule gives is a signal or an error.
LEMMA EvaluateGives == \A h : Evaluate(h) \in Signals \cup {"raises"}
<1>1. \A p, c, d : Signal(p, c, d) \in Signals
  BY DEF Signal, Signals
<1> QED
  BY <1>1 DEF Evaluate, Signals

\* The capture times of a history are numbers.
LEMMA HistTimes ==
  ASSUME NEW h \in Seq(Entry)
  PROVE  /\ Len(h) \in Nat
         /\ \A i \in 1 .. Len(h) : h[i] \in Entry /\ h[i].at \in Times /\ h[i].at \in Nat
<1>1. Len(h) \in Nat
  BY LenProperties
<1>2. ASSUME NEW i \in 1 .. Len(h)
      PROVE  h[i] \in Entry /\ h[i].at \in Times /\ h[i].at \in Nat
  <2>1. h[i] \in Entry
    BY ElementOfSeq
  <2>2. h[i].at \in Times
    BY <2>1 DEF Entry
  <2> QED
    BY <2>1, <2>2, BrainAssumption
<1> QED
  BY <1>1, <1>2

\* ZADD keeps a sorted history sorted.
LEMMA PlacedSorted ==
  ASSUME HistSorted, hist \in Seq(Entry), NEW e \in Entry,
         hist' \in Placed(hist, e)
  PROVE  HistSorted'
<1>1. Len(hist) \in Nat /\ \A i \in 1 .. Len(hist) : hist[i].at \in Nat
  BY HistTimes
<1>2. e.at \in Nat
  BY BrainAssumption DEF Entry
<1>3. hist' \in Seq(Entry) /\ Len(hist') = Len(hist) + 1
  BY PlacedAt
<1>4. PICK k \in 0 .. Len(hist) : PlacedAtRank(hist, e, hist', k)
  BY PlacedAt
<1>5. ASSUME NEW i \in 1 .. Len(hist) + 1, NEW j \in 1 .. Len(hist) + 1, i <= j
      PROVE  hist'[i].at <= hist'[j].at
  <2>1. \A x, y \in 1 .. Len(hist) : x <= y => hist[x].at <= hist[y].at
    BY DEF HistSorted
  <2>2. /\ hist'[i] = IF i <= k THEN hist[i] ELSE IF i = k + 1 THEN e ELSE hist[i - 1]
        /\ hist'[j] = IF j <= k THEN hist[j] ELSE IF j = k + 1 THEN e ELSE hist[j - 1]
    BY <1>4 DEF PlacedAtRank
  <2>3. /\ \A x \in 1 .. k : hist[x].at <= e.at
        /\ \A x \in k + 1 .. Len(hist) : hist[x].at >= e.at
    BY <1>4 DEF PlacedAtRank
  <2>4. CASE j <= k
    BY <2>1, <2>2, <2>4, <1>1, <1>5
  <2>5. CASE j = k + 1
    BY <2>2, <2>3, <2>5, <1>1, <1>2, <1>5
  <2>6. CASE j > k + 1
    <3>1. j - 1 \in k + 1 .. Len(hist) /\ hist'[j].at = hist[j - 1].at
      BY <2>2, <2>6, <1>1
    <3>2. CASE i <= k
      <4>1. i \in 1 .. Len(hist) /\ j - 1 \in 1 .. Len(hist) /\ i <= j - 1
        BY <3>1, <3>2
      <4> QED
        BY <4>1, <3>1, <3>2, <2>1, <2>2
    <3>3. CASE i = k + 1
      BY <3>1, <3>3, <2>2, <2>3, <1>1, <1>2
    <3>4. CASE i > k + 1
      <4>1. i - 1 \in 1 .. Len(hist) /\ j - 1 \in 1 .. Len(hist) /\ i - 1 <= j - 1
        BY <3>4, <1>1, <1>5
      <4> QED
        BY <4>1, <3>1, <3>4, <2>1, <2>2
    <3> QED
      BY <3>2, <3>3, <3>4
  <2> QED
    BY <2>4, <2>5, <2>6
<1> QED
  BY <1>3, <1>5 DEF HistSorted

\* The capture time finds the place in newest that its frame finds in the
\* history, up to the order of equals; the only rank where this could fail is
\* the one the cut to MaxFrames drops.
LEMMA PlacedMirrors ==
  ASSUME HistSorted, Mirrors, BrainTypeOK, NEW e \in Entry,
         hist' \in Placed(hist, e),
         newest' = Latest(MaxFrames, PlacedTime(newest, e.at))
  PROVE  Mirrors' /\ newest' \in Seq(Times)
<1>1. Times \subseteq Nat /\ MaxFrames \in Nat /\ MaxFrames >= 1
  BY BrainAssumption
<1>2. PICK L \in Nat : L = Len(hist)
  BY LenProperties DEF BrainTypeOK
<1>3. PICK l \in Nat : l = Len(newest)
  BY LenProperties DEF BrainTypeOK
<1>4. PICK d \in Nat : d = L - l
  <2>1. l = IF L > MaxFrames THEN MaxFrames ELSE L
    BY <1>2, <1>3 DEF Mirrors
  <2>2. L - l \in Nat
    BY <2>1, <1>1
  <2> QED
    BY <2>2
<1>5. \A i \in 1 .. L : hist[i].at \in Nat
  BY <1>2, HistTimes DEF BrainTypeOK
<1>6. \A i \in 1 .. l : newest[i] = hist[d + i].at
  BY <1>2, <1>3, <1>4 DEF Mirrors
<1>7. \A x, y \in 1 .. L : x <= y => hist[x].at <= hist[y].at
  BY <1>2 DEF HistSorted
<1>8. e.at \in Times /\ e.at \in Nat
  BY <1>1 DEF Entry
<1>9. hist' \in Seq(Entry) /\ Len(hist') = L + 1
  BY <1>2, PlacedAt DEF BrainTypeOK
<1>10. PICK k \in 0 .. L : PlacedAtRank(hist, e, hist', k)
  BY <1>2, PlacedAt DEF BrainTypeOK
<1>11. /\ \A i \in 1 .. k : hist[i].at <= e.at
       /\ \A i \in k + 1 .. L : hist[i].at >= e.at
       /\ \A i \in 1 .. L + 1 :
            hist'[i] = IF i <= k THEN hist[i] ELSE IF i = k + 1 THEN e ELSE hist[i - 1]
  BY <1>2, <1>10 DEF PlacedAtRank
<1>12. PICK q : q = PlacedTime(newest, e.at)
  OBVIOUS
<1>13. q \in Seq(Times) /\ Len(q) = l + 1
  BY <1>3, <1>8, <1>12, PlacedTimeAt DEF BrainTypeOK
<1>14. \A j \in 1 .. l + 1 :
         q[j] = IF j <= l /\ newest[j] <= e.at THEN newest[j]
                ELSE IF j = 1 \/ newest[j - 1] <= e.at THEN e.at
                ELSE newest[j - 1]
  BY <1>3, <1>12 DEF PlacedTime
<1>15. ASSUME NEW j \in 1 .. l + 1, j >= 2 \/ d = 0
       PROVE  q[j] = hist'[d + j].at
  <2>1. d + j \in 1 .. L + 1 /\ d + l = L
    BY <1>4
  <2>2. j <= l => newest[j] = hist[d + j].at /\ d + j \in 1 .. L
    BY <1>6, <2>1
  <2>3. j > 1 => newest[j - 1] = hist[d + j - 1].at /\ d + j - 1 \in 1 .. L
    <3>1. j > 1 => j - 1 \in 1 .. l /\ d + (j - 1) = d + j - 1
      OBVIOUS
    <3> QED
      BY <3>1, <1>6, <2>1
  <2>4. CASE d + j <= k
    <3>1. j <= l /\ d + j \in 1 .. k
      BY <2>1, <2>4
    <3>2. newest[j] = hist[d + j].at /\ hist[d + j].at <= e.at
      BY <3>1, <2>2, <1>11
    <3>3. hist'[d + j] = hist[d + j]
      BY <2>1, <2>4, <1>11
    <3> QED
      BY <3>1, <3>2, <3>3, <1>14
  <2>5. CASE d + j = k + 1
    <3>1. hist'[d + j].at = e.at
      BY <2>1, <2>5, <1>11
    <3>2. CASE j <= l /\ newest[j] <= e.at
      <4>1. d + j \in k + 1 .. L /\ newest[j] = hist[d + j].at
        BY <2>2, <2>5, <3>2
      <4>2. newest[j] = e.at
        BY <4>1, <3>2, <1>5, <1>8, <1>11
      <4> QED
        BY <4>2, <3>1, <3>2, <1>14
    <3>3. CASE ~(j <= l /\ newest[j] <= e.at)
      <4>1. j = 1 \/ newest[j - 1] <= e.at
        <5>1. j > 1 => d + j - 1 \in 1 .. k
          BY <2>3, <2>5
        <5> QED
          BY <5>1, <2>3, <1>11
      <4> QED
        BY <4>1, <3>1, <3>3, <1>14
    <3> QED
      BY <3>2, <3>3
  <2>6. CASE d + j > k + 1
    <3>1. j > 1
      BY <1>15, <2>6
    <3>2. d + j - 1 \in k + 1 .. L /\ newest[j - 1] = hist[d + j - 1].at
      BY <3>1, <2>3, <2>6
    <3>3. newest[j - 1] >= e.at /\ newest[j - 1] \in Nat
      BY <3>2, <1>5, <1>11
    <3>4. hist'[d + j].at = newest[j - 1]
      BY <3>2, <2>1, <2>6, <1>11
    <3>5. CASE j <= l /\ newest[j] <= e.at
      <4>1. d + j - 1 \in 1 .. L /\ d + j \in 1 .. L /\ newest[j] = hist[d + j].at
        BY <3>1, <3>5, <2>2, <2>3
      <4>2. newest[j - 1] <= newest[j] /\ newest[j] \in Nat
        BY <4>1, <3>2, <1>5, <1>7
      <4>3. newest[j] = newest[j - 1]
        BY <4>2, <3>3, <3>5, <1>8
      <4> QED
        BY <4>3, <3>4, <3>5, <1>14
    <3>6. CASE ~(j <= l /\ newest[j] <= e.at)
      BY <3>1, <3>3, <3>4, <3>6, <1>8, <1>14
    <3> QED
      BY <3>5, <3>6
  <2> QED
    BY <2>4, <2>5, <2>6
<1>16. /\ newest' \in Seq(Times)
       /\ Len(newest') = IF l + 1 > MaxFrames THEN MaxFrames ELSE l + 1
       /\ \A i \in 1 .. Len(newest') : newest'[i] = q[l + 1 - Len(newest') + i]
  <2>1. newest' = Latest(MaxFrames, q)
    BY <1>12
  <2> QED
    BY <2>1, <1>1, <1>13, LatestAt
<1>17. l = IF L > MaxFrames THEN MaxFrames ELSE L
  BY <1>2, <1>3 DEF Mirrors
<1>18. Len(newest') = IF L + 1 > MaxFrames THEN MaxFrames ELSE L + 1
  BY <1>16, <1>17, <1>1
<1>19. ASSUME NEW i \in 1 .. Len(newest')
       PROVE  newest'[i] = hist'[L + 1 - Len(newest') + i].at
  <2>1. PICK j : j = l + 1 - Len(newest') + i
    OBVIOUS
  <2>2. j \in 1 .. l + 1 /\ (j >= 2 \/ d = 0) /\ d + j = L + 1 - Len(newest') + i
    <3>1. CASE l + 1 > MaxFrames
      <4>1. l = MaxFrames /\ Len(newest') = l
        BY <3>1, <1>1, <1>16, <1>17
      <4> QED
        BY <4>1, <2>1, <1>4
    <3>2. CASE ~(l + 1 > MaxFrames)
      <4>1. l = L /\ Len(newest') = l + 1
        BY <3>2, <1>1, <1>16, <1>17
      <4> QED
        BY <4>1, <2>1, <1>4
    <3> QED
      BY <3>1, <3>2
  <2>3. newest'[i] = q[j]
    BY <2>1, <1>16
  <2> QED
    BY <2>2, <2>3, <1>15
<1>20. Len(newest') = IF Len(hist') > MaxFrames THEN MaxFrames ELSE Len(hist')
  BY <1>9, <1>18
<1>21. \A i \in 1 .. Len(newest') : newest'[i] = hist'[Len(hist') - Len(newest') + i].at
  BY <1>9, <1>19
<1> QED
  BY <1>16, <1>20, <1>21 DEF Mirrors

-----------------------------------------------------------------------------
(* The steps of a call keep the invariant of the server.  A step that      *)
(* leaves the two histories alone only has its calls to account for.       *)

LEMMA FrameStep ==
  ASSUME BrainInv, UNCHANGED <<hist, newest>>, stored' \subseteq Times,
         call' \in [Calls -> CallShape], \A c \in Calls : CallHolds(c)' /\ CleanHolds(c)'
  PROVE  BrainInv'
<1>1. HistSorted' /\ Mirrors'
  BY DEF BrainInv, HistSorted, Mirrors
<1>2. BrainTypeOK'
  BY DEF BrainInv, BrainTypeOK, CallShape
<1> QED
  BY <1>1, <1>2 DEF BrainInv

LEMMA BrainStarts == BrainInit => BrainInv
<1> SUFFICES ASSUME BrainInit PROVE BrainInv
  OBVIOUS
<1>1. hist = << >> /\ newest = << >> /\ Len(hist) = 0 /\ Len(newest) = 0
  BY EmptySeq DEF BrainInit
<1>2. NoCall \in CallShape /\ NoCall.pc = "idle" /\ NoCall.clean = FALSE
  BY DEF NoCall, CallShape
<1>3. BrainTypeOK
  BY <1>1, <1>2 DEF BrainInit, BrainTypeOK, CallShape
<1>4. HistSorted /\ Mirrors
  BY <1>1, BrainAssumption DEF HistSorted, Mirrors
<1>5. ASSUME NEW c \in Calls
      PROVE  CallHolds(c) /\ CleanHolds(c)
  BY <1>2 DEF BrainInit, CallHolds, CleanHolds
<1> QED
  BY <1>3, <1>4, <1>5 DEF BrainInv

\* A slot that holds nothing is not clean.
LEMMA NoCallSoiled == [NoCall EXCEPT !.clean = FALSE] = NoCall /\ NoCall.pc = "idle"
<1>1. NoCall \in CallShape /\ NoCall.clean = FALSE /\ NoCall.pc = "idle"
  BY DEF NoCall, CallShape
<1>2. \A r \in CallShape : r.clean = FALSE => [r EXCEPT !.clean = FALSE] = r
  BY DEF CallShape
<1> QED
  BY <1>1, <1>2

LEMMA ArrivesKeeps ==
  ASSUME BrainInv, NEW c \in Calls, NEW s \in Senders, NEW at \in Times, NEW shot \in Times,
         Arrives(c, s, at, shot)
  PROVE  BrainInv'
<1>1. /\ UNCHANGED <<hist, newest, stored>> /\ stored \subseteq Times
      /\ newest \in Seq(Times) /\ call \in [Calls -> CallShape]
  BY DEF BrainInv, BrainTypeOK, CallShape, Arrives
<1>2. PICK alone \in BOOLEAN :
        alone = (/\ \A o \in Calls : ~Flying(o)
                 /\ \A i \in DOMAIN newest : newest[i] < at)
  OBVIOUS
<1>3. call' = [d \in Calls |->
                IF d = c
                THEN [NoCall EXCEPT !.pc = "arrived", !.from = s, !.at = at, !.shot = shot,
                        !.clean = alone]
                ELSE [call[d] EXCEPT !.clean = FALSE]]
  BY <1>2 DEF Arrives
<1>4. call'[c] = [pc |-> "arrived", from |-> s, at |-> at, shot |-> shot,
                  verdict |-> None, clean |-> alone]
  BY <1>3 DEF NoCall
<1>5. \A d \in Calls \ {c} : call'[d] = [call[d] EXCEPT !.clean = FALSE]
  BY <1>3
<1>6. call' \in [Calls -> CallShape]
  <2>1. call'[c] \in CallShape
    BY <1>4 DEF CallShape
  <2>2. ASSUME NEW d \in Calls \ {c}
        PROVE  call'[d] \in CallShape
    <3>1. call[d] \in CallShape /\ call'[d] = [call[d] EXCEPT !.clean = FALSE]
      BY <1>1, <1>5
    <3> QED
      BY <3>1 DEF CallShape
  <2>3. call' = [d \in Calls |-> call'[d]]
    BY <1>3
  <2> QED
    BY <2>1, <2>2, <2>3
<1>7. ASSUME NEW d \in Calls
      PROVE  CallHolds(d)'
  <2>1. CASE d = c
    BY <2>1, <1>4 DEF CallHolds
  <2>2. CASE d # c
    <3>1. call[d] \in CallShape /\ call'[d] = [call[d] EXCEPT !.clean = FALSE]
      BY <2>2, <1>1, <1>5
    <3>2. CallHolds(d)
      BY DEF BrainInv
    <3>3. CASE call[d].pc = "idle"
      <4>1. call[d] = NoCall
        BY <3>2, <3>3 DEF CallHolds
      <4>2. call'[d] = NoCall /\ call'[d].pc = "idle"
        BY <3>1, <4>1, NoCallSoiled
      <4> QED
        BY <4>2 DEF CallHolds
    <3>4. CASE call[d].pc # "idle"
      <4>1. call'[d].pc = call[d].pc /\ call'[d].at = call[d].at /\ call'[d].shot = call[d].shot
        BY <3>1 DEF CallShape
      <4> QED
        BY <3>2, <3>4, <4>1, <1>1 DEF CallHolds
    <3> QED
      BY <3>3, <3>4
  <2> QED
    BY <2>1, <2>2
<1>8. ASSUME NEW d \in Calls
      PROVE  CleanHolds(d)'
  <2>1. CASE d = c
    <3>1. SUFFICES ASSUME alone PROVE CleanHolds(c)'
      BY <2>1, <1>4 DEF CleanHolds
    <3>2. \A o \in Calls \ {c} : call'[o].pc = "idle"
      BY <3>1, <1>1, <1>2, <1>5 DEF Flying, CallShape
    <3>3. \A i \in 1 .. Len(newest) : newest[i] < at
      BY <3>1, <1>1, <1>2, LenProperties
    <3> QED
      BY <3>2, <3>3, <1>1, <1>4 DEF CleanHolds
  <2>2. CASE d # c
    <3>1. call[d] \in CallShape /\ call'[d] = [call[d] EXCEPT !.clean = FALSE]
      BY <2>2, <1>1, <1>5
    <3>2. call'[d].clean = FALSE
      BY <3>1 DEF CallShape
    <3> QED
      BY <3>2 DEF CleanHolds
  <2> QED
    BY <2>1, <2>2
<1> QED
  BY <1>1, <1>6, <1>7, <1>8, FrameStep

\* A stored frame that is the newest by capture time ends up last.
LEMMA NewestIsLast ==
  ASSUME BrainInv, NEW e \in Entry, hist' \in Placed(hist, e),
         \A i \in 1 .. Len(newest) : newest[i] < e.at
  PROVE  hist' # << >> /\ hist'[Len(hist')] = e
<1>1. PICK L \in Nat : L = Len(hist)
  BY HistTimes DEF BrainInv, BrainTypeOK
<1>2. hist' \in Seq(Entry) /\ Len(hist') = L + 1
  BY <1>1, PlacedAt DEF BrainInv, BrainTypeOK
<1>3. PICK k \in 0 .. L : PlacedAtRank(hist, e, hist', k)
  BY <1>1, PlacedAt DEF BrainInv, BrainTypeOK
<1>4. e.at \in Nat
  BY BrainAssumption DEF Entry
<1>5. k = L
  <2>1. SUFFICES ASSUME k < L PROVE FALSE
    OBVIOUS
  <2>2. hist[L].at >= e.at /\ hist[L].at \in Nat
    BY <2>1, <1>1, <1>3, HistTimes DEF PlacedAtRank, BrainInv, BrainTypeOK
  <2>3. PICK l \in Nat : l = Len(newest)
    BY LenProperties DEF BrainInv, BrainTypeOK
  <2>4. l = IF L > MaxFrames THEN MaxFrames ELSE L
    BY <1>1, <2>3 DEF BrainInv, Mirrors
  <2>5. l >= 1 /\ L - l + l = L
    BY <2>1, <2>4, BrainAssumption
  <2>6. newest[l] = hist[L].at
    <3>1. \A i \in 1 .. l : newest[i] = hist[L - l + i].at
      BY <1>1, <2>3 DEF BrainInv, Mirrors
    <3>2. newest[l] = hist[L - l + l].at
      BY <2>5, <3>1
    <3> QED
      BY <2>5, <3>2
  <2> QED
    BY <2>2, <2>3, <2>5, <2>6, <1>4
<1>6. hist'[L + 1] = e
  BY <1>1, <1>3, <1>5 DEF PlacedAtRank
<1> QED
  BY <1>2, <1>6, EmptySeq

LEMMA StoresKeeps ==
  ASSUME BrainInv, NEW c \in Calls, Stores(c)
  PROVE  BrainInv'
<1>1. /\ call \in [Calls -> CallShape] /\ hist \in Seq(Entry) /\ newest \in Seq(Times)
      /\ stored \subseteq Times /\ call[c].pc = "arrived" /\ CallHolds(c)
      /\ HistSorted /\ Mirrors /\ BrainTypeOK
  BY DEF BrainInv, BrainTypeOK, CallShape, Stores
<1>2. PICK e : e = [at |-> call[c].at, shot |-> call[c].shot]
  OBVIOUS
<1>3. e \in Entry /\ e.at = call[c].at /\ call[c].at \in Times
  BY <1>1, <1>2 DEF CallHolds, Entry
<1>4. /\ hist' \in Placed(hist, e) /\ newest' = Latest(MaxFrames, PlacedTime(newest, e.at))
      /\ stored' = stored \cup {call[c].at} /\ call' = [call EXCEPT ![c].pc = "stored"]
  BY <1>2, <1>3 DEF Stores
<1>5. HistSorted'
  BY <1>1, <1>3, <1>4, PlacedSorted
<1>6. Mirrors' /\ newest' \in Seq(Times)
  BY <1>1, <1>3, <1>4, PlacedMirrors
<1>7. hist' \in Seq(Entry)
  BY <1>1, <1>3, <1>4, PlacedAt
<1>8. call'[c] = [call[c] EXCEPT !.pc = "stored"] /\ \A d \in Calls \ {c} : call'[d] = call[d]
  BY <1>1, <1>4
<1>9. call' \in [Calls -> CallShape]
  BY <1>1, <1>4 DEF CallShape
<1>10. BrainTypeOK'
  BY <1>1, <1>3, <1>4, <1>6, <1>7, <1>9 DEF BrainTypeOK, CallShape
<1>11. ASSUME NEW d \in Calls
       PROVE  CallHolds(d)'
  <2>1. CallHolds(d)
    BY DEF BrainInv
  <2>2. CASE d = c
    BY <2>2, <1>1, <1>3, <1>4, <1>8 DEF CallHolds, CallShape
  <2>3. CASE d # c
    BY <2>1, <2>3, <1>4, <1>8 DEF CallHolds
  <2> QED
    BY <2>2, <2>3
<1>12. ASSUME NEW d \in Calls
       PROVE  CleanHolds(d)'
  <2>1. CleanHolds(d)
    BY DEF BrainInv
  <2>2. CASE d = c
    <3>1. SUFFICES ASSUME call[c].clean PROVE CleanHolds(c)'
      BY <2>2, <1>1, <1>8 DEF CleanHolds, CallShape
    <3>2. \A i \in 1 .. Len(newest) : newest[i] < e.at
      BY <2>1, <2>2, <3>1, <1>1, <1>3 DEF CleanHolds
    <3>3. hist' # << >> /\ hist'[Len(hist')] = e
      BY <3>2, <1>3, <1>4, NewestIsLast
    <3>4. \A o \in Calls \ {c} : call'[o].pc = "idle"
      BY <2>1, <2>2, <3>1, <1>8 DEF CleanHolds
    <3>5. /\ call'[c].pc = "stored" /\ call'[c].at = call[c].at
          /\ call'[c].shot = call[c].shot
      BY <1>1, <1>8 DEF CallShape
    <3> QED
      BY <3>3, <3>4, <3>5, <1>2 DEF CleanHolds
  <2>3. CASE d # c
    <3>1. ~call[d].clean
      BY <2>1, <2>3, <1>1 DEF CleanHolds
    <3> QED
      BY <2>3, <3>1, <1>8 DEF CleanHolds
  <2> QED
    BY <2>2, <2>3
<1> QED
  BY <1>5, <1>6, <1>10, <1>11, <1>12 DEF BrainInv

\* The last entry of a history is the last of its cut.
LEMMA LatestLast ==
  ASSUME NEW S, NEW h \in Seq(S), NEW n \in Nat \ {0}, h # << >>
  PROVE  Latest(n, h) # << >> /\ Latest(n, h)[Len(Latest(n, h))] = h[Len(h)]
<1>1. PICK q : q = Latest(n, h)
  OBVIOUS
<1>2. Len(h) \in Nat /\ Len(h) >= 1
  BY EmptySeq
<1>3. /\ q \in Seq(S) /\ Len(q) = IF Len(h) > n THEN n ELSE Len(h)
      /\ \A i \in 1 .. Len(q) : q[i] = h[Len(h) - Len(q) + i]
  BY <1>1, LatestAt
<1>4. Len(q) \in Nat /\ Len(q) >= 1 /\ Len(h) - Len(q) + Len(q) = Len(h)
  BY <1>2, <1>3
<1>5. q[Len(q)] = h[Len(h) - Len(q) + Len(q)]
  <2>1. Len(q) \in 1 .. Len(q)
    BY <1>4
  <2> QED
    BY <2>1, <1>3
<1> QED
  BY <1>1, <1>4, <1>5, EmptySeq

LEMMA TrimsKeeps ==
  ASSUME BrainInv, NEW c \in Calls, Trims(c)
  PROVE  BrainInv'
<1>1. /\ call \in [Calls -> CallShape] /\ hist \in Seq(Entry) /\ newest \in Seq(Times)
      /\ call[c].pc = "stored" /\ HistSorted /\ Mirrors /\ BrainTypeOK
      /\ call' = [call EXCEPT ![c].pc = "trimmed"] /\ UNCHANGED <<newest, stored>>
  BY DEF BrainInv, BrainTypeOK, CallShape, Trims
<1>2. PICK L \in Nat : L = Len(hist)
  BY <1>1, HistTimes
<1>3. /\ hist' \in Seq(Entry)
      /\ Len(hist') = IF Len(hist) > MaxFrames THEN MaxFrames ELSE Len(hist)
      /\ \A i \in 1 .. Len(hist') : hist'[i] = hist[Len(hist) - Len(hist') + i]
  <2>1. hist' = Latest(MaxFrames, hist) /\ MaxFrames \in Nat
    BY BrainAssumption DEF Trims, Trimmed
  <2> QED
    BY <2>1, <1>1, LatestAt
<1>4. PICK m \in Nat : m = Len(hist') /\ m = IF L > MaxFrames THEN MaxFrames ELSE L
  BY <1>2, <1>3, BrainAssumption
<1>5. hist' \in Seq(Entry) /\ \A i \in 1 .. m : hist'[i] = hist[L - m + i]
  BY <1>2, <1>4, <1>3
<1>6. HistSorted'
  <2>1. ASSUME NEW i \in 1 .. m, NEW j \in 1 .. m, i <= j
        PROVE  hist'[i].at <= hist'[j].at
    <3>1. L - m + i \in 1 .. L /\ L - m + j \in 1 .. L /\ L - m + i <= L - m + j
      BY <2>1, <1>4
    <3> QED
      BY <3>1, <1>1, <1>2, <1>5 DEF HistSorted
  <2> QED
    BY <2>1, <1>4 DEF HistSorted
<1>7. Mirrors'
  <2>1. Len(newest) = m
    BY <1>1, <1>2, <1>4 DEF Mirrors
  <2>2. Len(newest) = IF m > MaxFrames THEN MaxFrames ELSE m
    BY <2>1, <1>4, BrainAssumption
  <2>3. ASSUME NEW i \in 1 .. m
        PROVE  newest[i] = hist'[m - m + i].at
    <3>1. newest[i] = hist[L - m + i].at
      BY <2>1, <1>1, <1>2 DEF Mirrors
    <3>2. m - m + i = i
      OBVIOUS
    <3> QED
      BY <3>1, <3>2, <1>5
  <2> QED
    BY <2>1, <2>2, <2>3, <1>1, <1>4 DEF Mirrors
<1>8. call'[c] = [call[c] EXCEPT !.pc = "trimmed"] /\ \A d \in Calls \ {c} : call'[d] = call[d]
  BY <1>1
<1>9. BrainTypeOK'
  <2>1. call' \in [Calls -> CallShape]
    BY <1>1 DEF CallShape
  <2> QED
    BY <2>1, <1>1, <1>5 DEF BrainTypeOK, CallShape
<1>10. ASSUME NEW d \in Calls
      PROVE  CallHolds(d)' /\ CleanHolds(d)'
  <2>1. CallHolds(d) /\ CleanHolds(d)
    BY DEF BrainInv
  <2>2. CASE d = c
    <3>1. /\ call'[c].pc = "trimmed" /\ call'[c].at = call[c].at
          /\ call'[c].shot = call[c].shot /\ call'[c].clean = call[c].clean
      BY <1>1, <1>8 DEF CallShape
    <3>2. CallHolds(c)'
      BY <2>1, <2>2, <3>1, <1>1 DEF CallHolds
    <3>3. CleanHolds(c)'
      <4>1. SUFFICES ASSUME call[c].clean PROVE CleanHolds(c)'
        BY <3>1 DEF CleanHolds
      <4>2. \A o \in Calls \ {c} : call'[o].pc = "idle"
        BY <2>1, <2>2, <4>1, <1>8 DEF CleanHolds
      <4>3. hist # << >> /\ hist[Len(hist)] = [at |-> call[c].at, shot |-> call[c].shot]
        BY <2>1, <2>2, <4>1, <1>1 DEF CleanHolds
      <4>4. hist' # << >> /\ hist'[Len(hist')] = hist[Len(hist)]
        BY <4>3, <1>1, LatestLast, BrainAssumption DEF Trims, Trimmed
      <4>5. Len(hist') <= MaxFrames
        BY <1>4, BrainAssumption
      <4> QED
        BY <3>1, <4>2, <4>3, <4>4, <4>5 DEF CleanHolds
    <3> QED
      BY <2>2, <3>2, <3>3
  <2>3. CASE d # c
    <3>1. ~call[d].clean
      BY <2>1, <2>3, <1>1 DEF CleanHolds
    <3>2. CleanHolds(d)'
      BY <2>3, <3>1, <1>8 DEF CleanHolds
    <3>3. CallHolds(d)'
      BY <2>1, <2>3, <1>1, <1>8 DEF CallHolds
    <3> QED
      BY <3>2, <3>3
  <2> QED
    BY <2>2, <2>3
<1> QED
  BY <1>6, <1>7, <1>9, <1>10 DEF BrainInv

\* A call may change without the histories: what it holds may only shrink.
LEMMA CallStep ==
  ASSUME BrainInv, NEW c \in Calls, NEW r \in CallShape, call' = [call EXCEPT ![c] = r],
         UNCHANGED <<hist, newest, stored>>, call[c].pc # "idle",
         \/ r = NoCall
         \/ /\ r.at = call[c].at /\ r.shot = call[c].shot /\ r.clean = call[c].clean
            /\ r.pc = call[c].pc \/ (r.pc = "judged" /\ call[c].pc = "trimmed")
  PROVE  BrainInv'
<1>1. call \in [Calls -> CallShape] /\ stored \subseteq Times
  BY DEF BrainInv, BrainTypeOK, CallShape
<1>2. call' \in [Calls -> CallShape]
  BY <1>1
<1>3. call'[c] = r /\ \A d \in Calls \ {c} : call'[d] = call[d]
  BY <1>1
<1>4. ASSUME NEW d \in Calls
      PROVE  CallHolds(d)'
  <2>1. CallHolds(d)
    BY DEF BrainInv
  <2>2. CASE d = c
    <3>1. CASE r = NoCall
      BY <2>2, <3>1, <1>3 DEF CallHolds, NoCall
    <3>2. CASE r # NoCall
      BY <2>1, <2>2, <3>2, <1>3 DEF CallHolds
    <3> QED
      BY <3>1, <3>2
  <2>3. CASE d # c
    BY <2>1, <2>3, <1>3 DEF CallHolds
  <2> QED
    BY <2>2, <2>3
<1>5. ASSUME NEW d \in Calls
      PROVE  CleanHolds(d)'
  <2>1. CleanHolds(d)
    BY DEF BrainInv
  <2>2. CASE d = c
    <3>1. CASE r = NoCall
      BY <2>2, <3>1, <1>3 DEF CleanHolds, NoCall
    <3>2. CASE r # NoCall
      BY <2>1, <2>2, <3>2, <1>3 DEF CleanHolds
    <3> QED
      BY <3>1, <3>2
  <2>3. CASE d # c
    <3>1. ~call[d].clean
      BY <2>1, <2>3 DEF CleanHolds
    <3> QED
      BY <2>3, <3>1, <1>3 DEF CleanHolds
  <2> QED
    BY <2>2, <2>3
<1> QED
  BY <1>1, <1>2, <1>4, <1>5, FrameStep

LEMMA JudgesKeeps ==
  ASSUME BrainInv, NEW c \in Calls, Judges(c)
  PROVE  BrainInv'
<1>1. call \in [Calls -> CallShape] /\ call[c] \in CallShape /\ call[c].pc = "trimmed"
  BY DEF BrainInv, BrainTypeOK, CallShape, Judges
<1>2. PICK v : v = Verdict
  OBVIOUS
<1>3. v \in Signals
  BY <1>2, EvaluateGives DEF Judges, Verdict
<1>4. PICK r : r = [call[c] EXCEPT !.pc = "judged", !.verdict = v]
  OBVIOUS
<1>5. /\ r \in CallShape /\ r.pc = "judged" /\ r.at = call[c].at
      /\ r.shot = call[c].shot /\ r.clean = call[c].clean
  BY <1>1, <1>3, <1>4 DEF CallShape
<1>6. call' = [call EXCEPT ![c] = r] /\ UNCHANGED <<hist, newest, stored>>
  BY <1>1, <1>2, <1>4 DEF Judges
<1> QED
  BY <1>1, <1>5, <1>6, CallStep

LEMMA EndsKeeps ==
  ASSUME BrainInv, NEW c \in Calls, Answers(c) \/ Breaks(c)
  PROVE  BrainInv'
<1>1. NoCall \in CallShape
  BY DEF NoCall, CallShape
<1>2. /\ call' = [call EXCEPT ![c] = NoCall] /\ UNCHANGED <<hist, newest, stored>>
      /\ call[c].pc # "idle"
  BY DEF Answers, Breaks, Flying
<1> QED
  BY <1>1, <1>2, CallStep

LEMMA AbandonsKeeps ==
  ASSUME BrainInv, NEW c \in Calls, Abandons(c)
  PROVE  BrainInv'
<1>1. call \in [Calls -> CallShape] /\ call[c] \in CallShape /\ call[c].pc # "idle"
  BY DEF BrainInv, BrainTypeOK, CallShape, Abandons, Flying
<1>2. PICK r : r = [call[c] EXCEPT !.from = None]
  OBVIOUS
<1>3. /\ r \in CallShape /\ r.pc = call[c].pc /\ r.at = call[c].at
      /\ r.shot = call[c].shot /\ r.clean = call[c].clean
  BY <1>1, <1>2 DEF CallShape
<1>4. call' = [call EXCEPT ![c] = r] /\ UNCHANGED <<hist, newest, stored>>
  BY <1>1, <1>2 DEF Abandons
<1>5. r.pc = call[c].pc \/ (r.pc = "judged" /\ call[c].pc = "trimmed")
  BY <1>3
<1> QED
  BY <1>1, <1>3, <1>4, <1>5, CallStep

LEMMA ExpiresKeeps ==
  ASSUME BrainInv, KeyExpires
  PROVE  BrainInv'
<1>1. /\ call \in [Calls -> CallShape] /\ stored \subseteq Times /\ stored' = stored
      /\ hist' = << >> /\ newest' = << >> /\ Len(hist') = 0 /\ Len(newest') = 0
  BY EmptySeq DEF BrainInv, BrainTypeOK, CallShape, KeyExpires
<1>2. call' = [c \in Calls |-> [call[c] EXCEPT !.clean = FALSE]]
  BY DEF KeyExpires
<1>3. ASSUME NEW c \in Calls
      PROVE  /\ call'[c] \in CallShape /\ ~call'[c].clean /\ call'[c].pc = call[c].pc
             /\ call'[c].at = call[c].at /\ call'[c].shot = call[c].shot
             /\ call[c] = NoCall => call'[c] = NoCall
  <2>1. call'[c] = [call[c] EXCEPT !.clean = FALSE] /\ call[c] \in CallShape
    BY <1>1, <1>2
  <2>2. call[c] = NoCall => call'[c] = NoCall
    BY <2>1, NoCallSoiled
  <2> QED
    BY <2>1, <2>2 DEF CallShape
<1>4. call' \in [Calls -> CallShape]
  BY <1>2, <1>3
<1>5. BrainTypeOK'
  BY <1>1, <1>4, EmptySeq DEF BrainTypeOK, CallShape
<1>6. HistSorted' /\ Mirrors'
  BY <1>1, BrainAssumption DEF HistSorted, Mirrors
<1>7. ASSUME NEW c \in Calls
      PROVE  CallHolds(c)' /\ CleanHolds(c)'
  BY <1>1, <1>3 DEF CallHolds, CleanHolds, BrainInv
<1> QED
  BY <1>5, <1>6, <1>7 DEF BrainInv

LEMMA StutterKeeps ==
  ASSUME BrainInv, UNCHANGED brainVars
  PROVE  BrainInv'
<1>1. /\ UNCHANGED <<hist, newest, stored>> /\ stored \subseteq Times
      /\ call' \in [Calls -> CallShape]
  BY DEF BrainInv, BrainTypeOK, CallShape, brainVars
<1>2. ASSUME NEW c \in Calls
      PROVE  CallHolds(c)' /\ CleanHolds(c)'
  BY DEF BrainInv, CallHolds, CleanHolds, brainVars
<1> QED
  BY <1>1, <1>2, FrameStep

-----------------------------------------------------------------------------
(* The steps of the phone                                                  *)

\* The shape of a coroutine.
SenderShape ==
  [pc : {"none", "new", "send", "wait", "sent", "unsent", "room", "gone"},
   at : Times \cup {None}, try : 0 .. 2, rest : Seq(Times)]

\* What a coroutine may become.
Fits(s, r) ==
  /\ r \in SenderShape
  /\ r.pc \in {"send", "wait", "sent", "unsent", "room"} =>
       r.at \in Times /\ (Live(s) => r.at = s)
  /\ r.pc = "sent" => r.at \in stored

\* Where a capture is safe.
Kept == stored \cup cache \cup dropped \cup cut

LEMMA SendersFit ==
  ASSUME PhoneInv
  PROVE  /\ \A s \in Senders : Fits(s, sender[s])
         /\ sender \in [Senders -> SenderShape]
         /\ tmp \in Times \cup {None} /\ cache \subseteq Times /\ dropped \subseteq Times
         /\ cut \subseteq Times /\ IsFiniteSet(cache)
<1>1. sender \in [Senders -> SenderShape]
  BY DEF PhoneInv, CaptureTypeOK, SenderShape
<1>2. ASSUME NEW s \in Senders
      PROVE  Fits(s, sender[s])
  BY <1>1 DEF PhoneInv, SenderHolds, Fits
<1> QED
  BY <1>1, <1>2 DEF PhoneInv, CaptureTypeOK

\* Two attempts: a failed one leaves the file with its coroutine.
LEMMA MissedFits ==
  ASSUME NEW r \in SenderShape
  PROVE  Missed(r) \in SenderShape /\ Missed(r).pc \in {"send", "unsent"} /\ Missed(r).at = r.at
<1>1. CASE r.try = 1
  <2>1. Missed(r) = [r EXCEPT !.pc = "send", !.try = 2]
    BY <1>1 DEF Missed
  <2>2. PICK q : q = [r EXCEPT !.pc = "send"]
    OBVIOUS
  <2>3. q \in SenderShape /\ q.pc = "send" /\ q.at = r.at
    BY <2>2 DEF SenderShape
  <2>4. Missed(r) = [q EXCEPT !.try = 2]
    BY <2>1, <2>2
  <2> QED
    BY <2>3, <2>4 DEF SenderShape
<1>2. CASE r.try # 1
  BY <1>2 DEF Missed, SenderShape
<1> QED
  BY <1>1, <1>2

LEMMA AsleepFits ==
  Asleep \in SenderShape /\ Asleep.pc = "none" /\ Gone \in SenderShape /\ Gone.pc = "gone"
<1>1. Asleep \in SenderShape
  <2>1. << >> \in Seq(Times)
    BY EmptySeq
  <2> QED
    BY <2>1 DEF Asleep, SenderShape
<1>2. \A r \in SenderShape : [r EXCEPT !.pc = "gone"] \in SenderShape
  BY DEF SenderShape
<1>3. Asleep.pc = "none"
  BY DEF Asleep
<1>4. PICK r \in SenderShape : r = Asleep
  BY <1>1
<1>5. Gone = [r EXCEPT !.pc = "gone"]
  BY <1>4 DEF Gone
<1>6. Gone.pc = "gone"
  BY <1>5 DEF SenderShape
<1> QED
  BY <1>1, <1>2, <1>3, <1>4, <1>5, <1>6

\* A coroutine that does not wait for an answer takes a step of its own.
LEMMA OwnStep ==
  ASSUME CaptureInv, UNCHANGED brainVars, NEW s \in Senders, NEW r, Fits(s, r),
         sender' = [sender EXCEPT ![s] = r], sender[s].pc # "wait",
         tmp' \in Times \cup {None}, cache' \subseteq Times, IsFiniteSet(cache'),
         dropped' \subseteq Times, cut' \subseteq Times, Kept \subseteq Kept',
         Live(s) /\ r.pc = "gone" => s \in Kept'
  PROVE  CaptureInv'
<1>1. BrainInv'
  BY StutterKeeps DEF CaptureInv
<1>2. /\ \A x \in Senders : Fits(x, sender[x])
      /\ sender \in [Senders -> SenderShape]
  BY SendersFit DEF CaptureInv
<1>3. call' = call /\ stored' = stored
  BY DEF brainVars
<1>4. sender'[s] = r /\ \A x \in Senders \ {s} : sender'[x] = sender[x]
  BY <1>2
<1>5. sender' \in [Senders -> SenderShape]
  BY <1>2 DEF Fits
<1>6. CaptureTypeOK'
  BY <1>1, <1>5 DEF CaptureTypeOK, SenderShape, BrainInv
<1>7. ASSUME NEW x \in Senders
      PROVE  SenderHolds(x)'
  <2>1. CASE x = s
    BY <2>1, <1>3, <1>4 DEF SenderHolds, Fits, Live
  <2>2. CASE x # s
    BY <2>2, <1>2, <1>3, <1>4 DEF SenderHolds, Fits, Live
  <2> QED
    BY <2>1, <2>2
<1>8. ASSUME NEW c \in Calls
      PROVE  Awaited(c)'
  <2>1. SUFFICES ASSUME call[c].from # None PROVE Awaited(c)'
    BY <1>3 DEF Awaited
  <2>2. Awaited(c) /\ call[c].from \in Senders
    BY <2>1 DEF CaptureInv, PhoneInv, BrainInv, BrainTypeOK
  <2>3. call[c].from # s
    BY <2>1, <2>2 DEF Awaited
  <2> QED
    BY <2>2, <2>3, <1>3, <1>4 DEF Awaited
<1>9. NoCaptureLost'
  <2>1. ASSUME NEW t \in Times, sender'[t].pc = "gone"
        PROVE  t \in Kept'
    <3>1. CASE t = s
      BY <2>1, <3>1, <1>4 DEF Live
    <3>2. CASE t # s
      <4>1. t \in Senders
        BY CaptureAssumption
      <4>2. sender[t].pc = "gone"
        BY <2>1, <3>2, <4>1, <1>4
      <4>3. t \in Kept
        BY <4>2 DEF CaptureInv, PhoneInv, NoCaptureLost, Kept
      <4> QED
        BY <4>3
    <3> QED
      BY <3>1, <3>2
  <2> QED
    BY <2>1 DEF NoCaptureLost, Kept
<1> QED
  BY <1>1, <1>6, <1>7, <1>8, <1>9 DEF CaptureInv, PhoneInv

LEMMA SendFailsKeeps ==
  ASSUME CaptureInv, NEW s \in Senders, SendFails(s)
  PROVE  CaptureInv'
<1>1. /\ Fits(s, sender[s]) /\ sender \in [Senders -> SenderShape]
      /\ tmp \in Times \cup {None} /\ cache \subseteq Times /\ dropped \subseteq Times
      /\ cut \subseteq Times /\ IsFiniteSet(cache)
  BY SendersFit DEF CaptureInv
<1>2. PICK r : r = Missed(sender[s])
  OBVIOUS
<1>3. r \in SenderShape /\ r.pc \in {"send", "unsent"} /\ r.at = sender[s].at
  BY <1>1, <1>2, MissedFits DEF Fits
<1>4. /\ sender[s].pc = "send" /\ sender' = [sender EXCEPT ![s] = r]
      /\ UNCHANGED brainVars /\ UNCHANGED <<tmp, cache, dropped, cut>>
  BY <1>2 DEF SendFails
<1>5. Fits(s, r)
  BY <1>1, <1>3, <1>4 DEF Fits
<1>6. Kept \subseteq Kept'
  BY <1>4 DEF Kept, brainVars
<1> QED
  BY <1>1, <1>3, <1>4, <1>5, <1>6, OwnStep

LEMMA CapturesKeeps ==
  ASSUME CaptureInv, NEW t \in Times, Captures(t)
  PROVE  CaptureInv'
<1>1. /\ t \in Senders /\ Fits(t, sender[t]) /\ sender \in [Senders -> SenderShape]
      /\ tmp \in Times \cup {None} /\ cache \subseteq Times /\ dropped \subseteq Times
      /\ cut \subseteq Times /\ IsFiniteSet(cache)
  BY SendersFit, CaptureAssumption DEF CaptureInv
<1>2. PICK r : r = [sender[t] EXCEPT !.pc = "new"]
  OBVIOUS
<1>3. r \in SenderShape /\ r.pc = "new"
  BY <1>1, <1>2 DEF SenderShape
<1>4. /\ sender[t].pc = "none" /\ sender' = [sender EXCEPT ![t] = r]
      /\ UNCHANGED brainVars /\ UNCHANGED <<tmp, cache, dropped, cut>>
  BY <1>1, <1>2 DEF Captures
<1>5. Fits(t, r)
  BY <1>3 DEF Fits
<1>6. Kept \subseteq Kept'
  BY <1>4 DEF Kept, brainVars
<1> QED
  BY <1>1, <1>3, <1>4, <1>5, <1>6, OwnStep

\* A coroutine that begins to send a file.
LEMMA SendingFits ==
  ASSUME NEW s, NEW t \in Times, NEW rest \in Seq(Times), Live(s) => t = s
  PROVE  Fits(s, Sending(t, rest)) /\ Sending(t, rest).pc = "send"
  BY DEF Fits, Sending, SenderShape

LEMMA LiveWritesKeeps ==
  ASSUME CaptureInv, NEW t \in Times, LiveWrites(t)
  PROVE  CaptureInv'
<1>1. /\ t \in Senders /\ cache \subseteq Times /\ dropped \subseteq Times
      /\ cut \subseteq Times /\ IsFiniteSet(cache)
  BY SendersFit, CaptureAssumption DEF CaptureInv
<1>2. PICK r : r = Sending(t, << >>)
  OBVIOUS
<1>3. Fits(t, r) /\ r.pc = "send"
  BY <1>2, SendingFits, EmptySeq
<1>4. /\ sender[t].pc = "new" /\ sender' = [sender EXCEPT ![t] = r]
      /\ UNCHANGED brainVars /\ UNCHANGED <<cache, dropped, cut>> /\ tmp' = t
  BY <1>2 DEF LiveWrites
<1>5. Kept \subseteq Kept'
  BY <1>4 DEF Kept, brainVars
<1> QED
  BY <1>1, <1>3, <1>4, <1>5, OwnStep

\* 200: the server has stored this very capture time.
LEMMA LiveSentKeeps ==
  ASSUME CaptureInv, NEW t \in Times, LiveSent(t)
  PROVE  CaptureInv'
<1>1. /\ t \in Senders /\ Fits(t, sender[t]) /\ cache \subseteq Times
      /\ dropped \subseteq Times /\ cut \subseteq Times /\ IsFiniteSet(cache)
  BY SendersFit, CaptureAssumption DEF CaptureInv
<1>2. PICK r : r = Gone
  OBVIOUS
<1>3. r \in SenderShape /\ r.pc = "gone"
  BY <1>2, AsleepFits
<1>4. /\ sender[t].pc = "sent" /\ sender' = [sender EXCEPT ![t] = r]
      /\ UNCHANGED brainVars /\ UNCHANGED <<cache, dropped, cut>> /\ tmp' = None
  BY <1>2 DEF LiveSent
<1>5. Fits(t, r)
  BY <1>3 DEF Fits
<1>6. Kept \subseteq Kept' /\ stored \subseteq Kept'
  BY <1>4 DEF Kept, brainVars
<1>7. t \in stored
  BY <1>1, <1>4 DEF Fits, Live
<1> QED
  BY <1>1, <1>3, <1>4, <1>5, <1>6, <1>7, OwnStep

LEMMA LiveMakesRoomKeeps ==
  ASSUME CaptureInv, NEW t \in Times, LiveMakesRoom(t)
  PROVE  CaptureInv'
<1>1. /\ t \in Senders /\ Fits(t, sender[t]) /\ sender \in [Senders -> SenderShape]
      /\ tmp \in Times \cup {None} /\ cache \subseteq Times /\ dropped \subseteq Times
      /\ cut \subseteq Times /\ IsFiniteSet(cache)
  BY SendersFit, CaptureAssumption DEF CaptureInv
<1>2. PICK r : r = [sender[t] EXCEPT !.pc = "room"]
  OBVIOUS
<1>3. r \in SenderShape /\ r.pc = "room" /\ r.at = sender[t].at
  BY <1>1, <1>2 DEF SenderShape
<1>4. /\ sender[t].pc = "unsent" /\ sender' = [sender EXCEPT ![t] = r]
      /\ UNCHANGED brainVars /\ UNCHANGED <<tmp, cut>>
      /\ cache' = cache \ OverCap(cache) /\ dropped' = dropped \cup OverCap(cache)
  BY <1>1, <1>2 DEF LiveMakesRoom
<1>5. Fits(t, r)
  BY <1>1, <1>3, <1>4 DEF Fits
<1>6. OverCap(cache) \subseteq cache
  BY DEF OverCap, Oldest
<1>7. cache' \subseteq Times /\ dropped' \subseteq Times /\ IsFiniteSet(cache')
  BY <1>1, <1>4, <1>6, FS_Subset
<1>8. Kept \subseteq Kept'
  BY <1>4 DEF Kept, brainVars
<1> QED
  BY <1>1, <1>3, <1>4, <1>5, <1>7, <1>8, OwnStep

LEMMA LiveCachesKeeps ==
  ASSUME CaptureInv, NEW t \in Times, LiveCaches(t)
  PROVE  CaptureInv'
<1>1. /\ t \in Senders /\ cache \subseteq Times /\ dropped \subseteq Times
      /\ cut \subseteq Times /\ IsFiniteSet(cache)
  BY SendersFit, CaptureAssumption DEF CaptureInv
<1>2. PICK r : r = Gone
  OBVIOUS
<1>3. r \in SenderShape /\ r.pc = "gone"
  BY <1>2, AsleepFits
<1>4. /\ sender[t].pc = "room" /\ sender' = [sender EXCEPT ![t] = r]
      /\ UNCHANGED brainVars /\ UNCHANGED <<dropped, cut>> /\ tmp' = None
      /\ cache' = cache \cup {t}
  BY <1>2 DEF LiveCaches
<1>5. Fits(t, r)
  BY <1>3 DEF Fits
<1>6. cache' \subseteq Times /\ IsFiniteSet(cache')
  BY <1>1, <1>4, FS_AddElement
<1>7. Kept \subseteq Kept' /\ t \in Kept'
  BY <1>4 DEF Kept, brainVars
<1> QED
  BY <1>1, <1>3, <1>4, <1>5, <1>6, <1>7, OwnStep

\* The capture may be nowhere: it is among those cut.
LEMMA LiveCacheFailsKeeps ==
  ASSUME CaptureInv, NEW t \in Times, LiveCacheFails(t)
  PROVE  CaptureInv'
<1>1. /\ t \in Senders /\ cache \subseteq Times /\ dropped \subseteq Times
      /\ cut \subseteq Times /\ IsFiniteSet(cache)
  BY SendersFit, CaptureAssumption DEF CaptureInv
<1>2. PICK r : r = Gone
  OBVIOUS
<1>3. r \in SenderShape /\ r.pc = "gone"
  BY <1>2, AsleepFits
<1>4. /\ sender[t].pc = "room" /\ sender' = [sender EXCEPT ![t] = r]
      /\ UNCHANGED brainVars /\ dropped' = dropped /\ tmp' = None
      /\ cut' = cut \cup {t} /\ cache' \in {cache, cache \cup {t}}
  BY <1>2 DEF LiveCacheFails
<1>5. Fits(t, r)
  BY <1>3 DEF Fits
<1>6. cache' \subseteq Times /\ cut' \subseteq Times /\ IsFiniteSet(cache')
  BY <1>1, <1>4, FS_AddElement
<1>7. Kept \subseteq Kept' /\ t \in Kept'
  BY <1>4 DEF Kept, brainVars
<1> QED
  BY <1>1, <1>3, <1>4, <1>5, <1>6, <1>7, OwnStep

-----------------------------------------------------------------------------
(* The drains                                                              *)

\* The list of the cache is a list of captures, and what a cycle takes of it too.
LEMMA ListedFiles ==
  ASSUME NEW files, files \subseteq Times, IsFiniteSet(files),
         NEW list \in Listed(files), list # << >>, NEW n \in Nat
  PROVE  Head(list) \in Times /\ Rest(list, n) \in Seq(Times)
<1>1. Cardinality(files) \in Nat
  BY FS_CardinalityType
<1>2. list \in [1 .. Cardinality(files) -> files]
  BY DEF Listed
<1>3. list \in [1 .. Cardinality(files) -> Times]
  BY <1>2
<1>4. list \in Seq(Times)
  BY <1>1, <1>3
<1>5. Head(list) \in Times
  BY <1>4, HeadTailProperties
<1>6. PICK m \in Nat : m = IF n < Len(list) THEN n ELSE Len(list)
  BY <1>4, LenProperties
<1>7. \A i \in 2 .. m : list[i] \in Times
  <2>1. m <= Len(list) /\ Len(list) \in Nat
    BY <1>4, <1>6, LenProperties
  <2> QED
    BY <2>1, <1>4, ElementOfSeq
<1>8. SubSeq(list, 2, m) \in Seq(Times)
  BY <1>6, <1>7, SubSeqProperties
<1> QED
  BY <1>5, <1>6, <1>8 DEF Rest

LEMMA DrainStartsKeeps ==
  ASSUME CaptureInv, NEW d \in Drains, DrainStarts(d)
  PROVE  CaptureInv'
<1>1. /\ d \in Senders /\ ~Live(d) /\ tmp \in Times \cup {None} /\ cache \subseteq Times
      /\ dropped \subseteq Times /\ cut \subseteq Times /\ IsFiniteSet(cache)
  BY SendersFit, CaptureAssumption DEF CaptureInv, Live
<1>2. PICK pending \in Listed(cache) :
        /\ pending # << >>
        /\ sender' = [sender EXCEPT ![d] = Sending(Head(pending), Rest(pending, MaxDrained))]
  BY DEF DrainStarts
<1>3. Head(pending) \in Times /\ Rest(pending, MaxDrained) \in Seq(Times)
  BY <1>1, <1>2, ListedFiles, CaptureAssumption
<1>4. PICK r : r = Sending(Head(pending), Rest(pending, MaxDrained))
  OBVIOUS
<1>5. Fits(d, r) /\ r.pc = "send"
  BY <1>1, <1>3, <1>4, SendingFits
<1>6. /\ sender[d].pc = "none" /\ sender' = [sender EXCEPT ![d] = r]
      /\ UNCHANGED brainVars /\ UNCHANGED <<tmp, cache, dropped, cut>>
  BY <1>2, <1>4 DEF DrainStarts
<1>7. Kept \subseteq Kept'
  BY <1>6 DEF Kept, brainVars
<1> QED
  BY <1>1, <1>5, <1>6, <1>7, OwnStep

\* A file leaves the cache only once its capture time is stored.
LEMMA DrainSentKeeps ==
  ASSUME CaptureInv, NEW d \in Drains, DrainSent(d)
  PROVE  CaptureInv'
<1>1. /\ d \in Senders /\ ~Live(d) /\ Fits(d, sender[d])
      /\ tmp \in Times \cup {None} /\ cache \subseteq Times
      /\ dropped \subseteq Times /\ cut \subseteq Times /\ IsFiniteSet(cache)
  BY SendersFit, CaptureAssumption DEF CaptureInv, Live
<1>2. PICK r : r = IF sender[d].rest = << >> THEN Asleep
                   ELSE Sending(Head(sender[d].rest), Tail(sender[d].rest))
  OBVIOUS
<1>3. Fits(d, r)
  <2>1. CASE sender[d].rest = << >>
    <3>1. r = Asleep /\ r.pc = "none"
      BY <1>2, <2>1 DEF Asleep
    <3> QED
      BY <3>1, AsleepFits DEF Fits
  <2>2. CASE sender[d].rest # << >>
    <3>1. sender[d].rest \in Seq(Times)
      BY <1>1 DEF Fits, SenderShape
    <3>2. Head(sender[d].rest) \in Times /\ Tail(sender[d].rest) \in Seq(Times)
      BY <2>2, <3>1, HeadTailProperties
    <3>3. r = Sending(Head(sender[d].rest), Tail(sender[d].rest))
      BY <1>2, <2>2
    <3> QED
      BY <1>1, <3>2, <3>3, SendingFits
  <2> QED
    BY <2>1, <2>2
<1>4. /\ sender[d].pc = "sent" /\ sender' = [sender EXCEPT ![d] = r]
      /\ UNCHANGED brainVars /\ UNCHANGED <<tmp, dropped, cut>>
      /\ cache' = cache \ {sender[d].at}
  BY <1>2 DEF DrainSent
<1>5. cache' \subseteq Times /\ IsFiniteSet(cache')
  BY <1>1, <1>4, FS_Subset
<1>6. sender[d].at \in stored
  BY <1>1, <1>4 DEF Fits
<1>7. Kept \subseteq Kept'
  BY <1>4, <1>6 DEF Kept, brainVars
<1> QED
  BY <1>1, <1>3, <1>4, <1>5, <1>7, OwnStep

LEMMA DrainBreaksKeeps ==
  ASSUME CaptureInv, NEW d \in Drains, DrainBreaks(d)
  PROVE  CaptureInv'
<1>1. /\ d \in Senders /\ ~Live(d) /\ tmp \in Times \cup {None} /\ cache \subseteq Times
      /\ dropped \subseteq Times /\ cut \subseteq Times /\ IsFiniteSet(cache)
  BY SendersFit, CaptureAssumption DEF CaptureInv, Live
<1>2. PICK r : r = Asleep
  OBVIOUS
<1>3. r.pc = "none"
  BY <1>2 DEF Asleep
<1>4. Fits(d, r)
  BY <1>2, <1>3, AsleepFits DEF Fits
<1>5. /\ sender[d].pc = "unsent" /\ sender' = [sender EXCEPT ![d] = r]
      /\ UNCHANGED brainVars /\ UNCHANGED <<tmp, cache, dropped, cut>>
  BY <1>2 DEF DrainBreaks
<1>6. Kept \subseteq Kept'
  BY <1>5 DEF Kept, brainVars
<1> QED
  BY <1>1, <1>4, <1>5, <1>6, OwnStep

-----------------------------------------------------------------------------
(* The phone and the server together                                       *)

\* The server takes a step of its own on a call: no coroutine notices.
LEMMA ServerStep ==
  ASSUME CaptureInv, BrainInv', UNCHANGED phoneVars, stored \subseteq stored',
         \A c \in Calls : call'[c].from = call[c].from /\ call'[c].at = call[c].at
  PROVE  CaptureInv'
<1>1. UNCHANGED <<tmp, cache, sender, dropped, cut>>
  BY DEF phoneVars
<1>2. CaptureTypeOK' /\ IsFiniteSet(cache)'
  BY <1>1 DEF CaptureInv, PhoneInv, CaptureTypeOK, BrainInv
<1>3. ASSUME NEW s \in Senders
      PROVE  SenderHolds(s)'
  <2>1. SenderHolds(s)
    BY DEF CaptureInv, PhoneInv
  <2> QED
    BY <2>1, <1>1 DEF SenderHolds
<1>4. ASSUME NEW c \in Calls
      PROVE  Awaited(c)'
  <2>1. Awaited(c)
    BY DEF CaptureInv, PhoneInv
  <2> QED
    BY <2>1, <1>1 DEF Awaited
<1>5. NoCaptureLost'
  BY <1>1 DEF CaptureInv, PhoneInv, NoCaptureLost
<1> QED
  BY <1>2, <1>3, <1>4, <1>5 DEF CaptureInv, PhoneInv

\* Call c is heard no more, and the coroutine that waited for it goes on.
LEMMA HeardStep ==
  ASSUME CaptureInv, BrainInv', NEW c \in Calls, stored' = stored,
         UNCHANGED <<tmp, cache, dropped>>, cut' \subseteq Times, cut \subseteq cut',
         call'[c].from = None,
         \A d \in Calls \ {c} : call'[d] = call[d],
         \/ call[c].from = None /\ sender' = sender
         \/ /\ call[c].from # None
            /\ \E r \in SenderShape :
                 /\ sender' = [sender EXCEPT ![call[c].from] = r]
                 /\ \/ r.pc \in {"none", "gone"}
                    \/ /\ r.pc \in {"send", "sent", "unsent"}
                       /\ r.at = sender[call[c].from].at
                 /\ r.pc = "sent" => r.at \in stored
                 /\ r.pc = "gone" => call[c].from \in cut'
  PROVE  CaptureInv'
<1>1. /\ \A x \in Senders : Fits(x, sender[x])
      /\ sender \in [Senders -> SenderShape]
      /\ tmp \in Times \cup {None} /\ cache \subseteq Times /\ dropped \subseteq Times
      /\ cut \subseteq Times /\ IsFiniteSet(cache)
  BY SendersFit DEF CaptureInv
<1>2. \A d \in Calls : call[d].from \in Senders \cup {None} /\ Awaited(d)
  BY DEF CaptureInv, PhoneInv, BrainInv, BrainTypeOK
<1>3. CASE call[c].from = None
  <2>1. sender' = sender
    BY <1>3
  <2>2. CaptureTypeOK'
    BY <1>1, <2>1 DEF CaptureTypeOK, SenderShape, BrainInv
  <2>3. ASSUME NEW d \in Calls
        PROVE  Awaited(d)'
    <3>1. CASE d = c
      BY <3>1 DEF Awaited
    <3>2. CASE d # c
      <4>1. SUFFICES ASSUME call[d].from # None PROVE Awaited(d)'
        BY <3>2 DEF Awaited
      <4>2. \A o \in Calls \ {d} : call'[o].from # call[d].from
        BY <4>1, <1>2 DEF Awaited
      <4> QED
        BY <3>2, <4>1, <4>2, <2>1, <1>2 DEF Awaited
    <3> QED
      BY <3>1, <3>2
  <2>4. ASSUME NEW x \in Senders
        PROVE  SenderHolds(x)'
    BY <2>1 DEF CaptureInv, PhoneInv, SenderHolds
  <2>5. NoCaptureLost'
    BY <2>1 DEF CaptureInv, PhoneInv, NoCaptureLost
  <2> QED
    BY <1>1, <2>2, <2>3, <2>4, <2>5 DEF CaptureInv, PhoneInv
<1>4. CASE call[c].from # None
  <2>1. PICK s \in Senders : s = call[c].from
    BY <1>2, <1>4
  <2>2. PICK r \in SenderShape :
          /\ sender' = [sender EXCEPT ![s] = r]
          /\ \/ r.pc \in {"none", "gone"}
             \/ r.pc \in {"send", "sent", "unsent"} /\ r.at = sender[s].at
          /\ (r.pc = "sent" => r.at \in stored) /\ (r.pc = "gone" => s \in cut')
    BY <1>4, <2>1
  <2>3. sender[s].pc = "wait" /\ \A d \in Calls \ {c} : call[d].from # s
    BY <1>2, <1>4, <2>1 DEF Awaited
  <2>4. sender'[s] = r /\ \A x \in Senders \ {s} : sender'[x] = sender[x]
    BY <1>1, <2>2
  <2>5. sender' \in [Senders -> SenderShape]
    BY <1>1, <2>2
  <2>6. CaptureTypeOK'
    BY <1>1, <2>5 DEF CaptureTypeOK, SenderShape, BrainInv
  <2>7. Fits(s, r)
    BY <1>1, <2>2, <2>3 DEF Fits
  <2>8. ASSUME NEW x \in Senders
        PROVE  SenderHolds(x)'
    <3>1. CASE x = s
      BY <3>1, <2>4, <2>7 DEF SenderHolds, Fits, Live
    <3>2. CASE x # s
      BY <3>2, <2>4, <1>1 DEF SenderHolds, Fits, Live
    <3> QED
      BY <3>1, <3>2
  <2>9. ASSUME NEW d \in Calls
        PROVE  Awaited(d)'
    <3>1. CASE d = c
      BY <3>1 DEF Awaited
    <3>2. CASE d # c
      <4>1. SUFFICES ASSUME call[d].from # None PROVE Awaited(d)'
        BY <3>2 DEF Awaited
      <4>2. call[d].from \in Senders \ {s} /\ call'[d] = call[d]
        BY <3>2, <4>1, <1>2, <2>3
      <4>3. \A o \in Calls \ {d} : call'[o].from # call[d].from
        BY <4>1, <1>2 DEF Awaited
      <4> QED
        BY <4>1, <4>2, <4>3, <1>2, <2>4 DEF Awaited
    <3> QED
      BY <3>1, <3>2
  <2>10. NoCaptureLost'
    <3>1. ASSUME NEW t \in Times, sender'[t].pc = "gone"
          PROVE  t \in Kept'
      <4>1. CASE t = s
        BY <3>1, <4>1, <2>2, <2>4 DEF Kept
      <4>2. CASE t # s
        <5>1. sender[t].pc = "gone"
          BY <3>1, <4>2, <2>4, CaptureAssumption
        <5> QED
          BY <5>1 DEF CaptureInv, PhoneInv, NoCaptureLost, Kept
      <4> QED
        BY <4>1, <4>2
    <3> QED
      BY <3>1 DEF NoCaptureLost, Kept
  <2> QED
    BY <1>1, <2>6, <2>8, <2>9, <2>10 DEF CaptureInv, PhoneInv
<1> QED
  BY <1>3, <1>4

\* The answer to a coroutine that waits is that of its own frame.
LEMMA ServerKeeps ==
  ASSUME CaptureInv, NEW c \in Calls, Server(c)
  PROVE  CaptureInv'
<1>1. /\ \A x \in Senders : Fits(x, sender[x])
      /\ call \in [Calls -> CallShape] /\ BrainInv /\ Awaited(c) /\ CallHolds(c)
  BY SendersFit DEF CaptureInv, PhoneInv, BrainInv, BrainTypeOK, CallShape
<1>2. CASE Stores(c) /\ UNCHANGED phoneVars
  <2>1. BrainInv'
    BY <1>1, <1>2, StoresKeeps
  <2>2. call' = [call EXCEPT ![c].pc = "stored"] /\ stored \subseteq stored'
    BY <1>2 DEF Stores
  <2>3. \A d \in Calls : call'[d].from = call[d].from /\ call'[d].at = call[d].at
    BY <1>1, <2>2 DEF CallShape
  <2> QED
    BY <1>2, <2>1, <2>2, <2>3, ServerStep
<1>3. CASE Trims(c) /\ UNCHANGED phoneVars
  <2>1. BrainInv'
    BY <1>1, <1>3, TrimsKeeps
  <2>2. call' = [call EXCEPT ![c].pc = "trimmed"] /\ stored \subseteq stored'
    BY <1>3 DEF Trims
  <2>3. \A d \in Calls : call'[d].from = call[d].from /\ call'[d].at = call[d].at
    BY <1>1, <2>2 DEF CallShape
  <2> QED
    BY <1>3, <2>1, <2>2, <2>3, ServerStep
<1>4. CASE Judges(c) /\ UNCHANGED phoneVars
  <2>1. BrainInv'
    BY <1>1, <1>4, JudgesKeeps
  <2>2. PICK v : v = Verdict
    OBVIOUS
  <2>3. /\ call' = [call EXCEPT ![c] = [@ EXCEPT !.pc = "judged", !.verdict = v]]
        /\ stored \subseteq stored'
    BY <1>4, <2>2 DEF Judges
  <2>4. \A d \in Calls : call'[d].from = call[d].from /\ call'[d].at = call[d].at
    BY <1>1, <2>3 DEF CallShape
  <2> QED
    BY <1>4, <2>1, <2>3, <2>4, ServerStep
<1>5. ASSUME NEW ok \in BOOLEAN, Answers(c) \/ Breaks(c), Hears(c, ok),
             ok => call[c].at \in stored
      PROVE  CaptureInv'
  <2>1. BrainInv'
    BY <1>1, <1>5, EndsKeeps
  <2>2. call' = [call EXCEPT ![c] = NoCall] /\ stored' = stored
    BY <1>5 DEF Answers, Breaks
  <2>3. call'[c].from = None /\ \A d \in Calls \ {c} : call'[d] = call[d]
    BY <1>1, <2>2 DEF NoCall
  <2>4. UNCHANGED <<tmp, cache, dropped>> /\ cut' \subseteq Times /\ cut \subseteq cut'
    BY <1>5, SendersFit DEF Hears, CaptureInv
  <2>5. CASE call[c].from = None
    <3>1. sender' = sender
      BY <1>5, <2>5 DEF Hears
    <3> QED
      BY <3>1, <2>1, <2>2, <2>3, <2>4, <2>5, HeardStep
  <2>6. CASE call[c].from # None
    <3>1. PICK s \in Senders : s = call[c].from
      BY <1>1, <2>6 DEF CallShape
    <3>2. Fits(s, sender[s]) /\ sender[s] \in SenderShape /\ sender[s].at = call[c].at
      BY <1>1, <2>6, <3>1 DEF Fits, Awaited
    <3>3. PICK r : r = IF ok THEN [sender[s] EXCEPT !.pc = "sent"] ELSE Missed(sender[s])
      OBVIOUS
    <3>4. sender' = [sender EXCEPT ![s] = r]
      BY <1>5, <2>6, <3>1, <3>3 DEF Hears
    <3>5. /\ r \in SenderShape /\ r.at = sender[s].at /\ r.pc \in {"send", "sent", "unsent"}
          /\ r.pc = "sent" => r.at \in stored
      <4>1. CASE ok
        <5>1. r = [sender[s] EXCEPT !.pc = "sent"]
          BY <3>3, <4>1
        <5>2. r \in SenderShape /\ r.at = sender[s].at /\ r.pc = "sent"
          BY <3>2, <5>1 DEF SenderShape
        <5> QED
          BY <5>2, <1>5, <3>2, <4>1
      <4>2. CASE ~ok
        BY <3>2, <3>3, <4>2, MissedFits
      <4> QED
        BY <4>1, <4>2
    <3>6. \E q \in SenderShape :
            /\ sender' = [sender EXCEPT ![call[c].from] = q]
            /\ \/ q.pc \in {"none", "gone"}
               \/ /\ q.pc \in {"send", "sent", "unsent"}
                  /\ q.at = sender[call[c].from].at
            /\ q.pc = "sent" => q.at \in stored
            /\ q.pc = "gone" => call[c].from \in cut'
      BY <3>1, <3>4, <3>5
    <3> QED
      BY <3>6, <2>1, <2>2, <2>3, <2>4, <2>6, HeardStep
  <2> QED
    BY <2>5, <2>6
<1>6. CASE Answers(c) /\ Hears(c, TRUE)
  <2>1. call[c].at \in stored
    BY <1>1, <1>6 DEF Answers, CallHolds
  <2> QED
    BY <1>5, <1>6, <2>1
<1>7. CASE Breaks(c) /\ Hears(c, FALSE)
  BY <1>5, <1>7
<1> QED
  BY <1>2, <1>3, <1>4, <1>6, <1>7 DEF Server

LEMMA GivesUpKeeps ==
  ASSUME CaptureInv, NEW s \in Senders, GivesUp(s)
  PROVE  CaptureInv'
<1>1. /\ Fits(s, sender[s]) /\ sender[s] \in SenderShape
      /\ call \in [Calls -> CallShape] /\ BrainInv
  BY SendersFit DEF CaptureInv, BrainInv, BrainTypeOK, CallShape
<1>2. PICK c \in Calls : call[c].from = s /\ Abandons(c)
  BY DEF GivesUp
<1>3. BrainInv'
  BY <1>1, <1>2, AbandonsKeeps
<1>4. call' = [call EXCEPT ![c].from = None] /\ stored' = stored
  BY <1>2 DEF Abandons
<1>5. call'[c].from = None /\ \A d \in Calls \ {c} : call'[d] = call[d]
  BY <1>1, <1>4 DEF CallShape
<1>6. /\ call[c].from # None /\ UNCHANGED <<tmp, cache, dropped>>
      /\ cut' \subseteq Times /\ cut \subseteq cut'
  BY <1>2, SendersFit, CaptureAssumption DEF GivesUp, CaptureInv
<1>7. PICK r : r = Missed(sender[s])
  OBVIOUS
<1>8. r \in SenderShape /\ r.at = sender[s].at /\ r.pc \in {"send", "unsent"}
  BY <1>1, <1>7, MissedFits
<1>9. sender' = [sender EXCEPT ![s] = r]
  BY <1>7 DEF GivesUp
<1>10. \E q \in SenderShape :
         /\ sender' = [sender EXCEPT ![call[c].from] = q]
         /\ \/ q.pc \in {"none", "gone"}
            \/ /\ q.pc \in {"send", "sent", "unsent"}
               /\ q.at = sender[call[c].from].at
         /\ q.pc = "sent" => q.at \in stored
         /\ q.pc = "gone" => call[c].from \in cut'
  BY <1>2, <1>8, <1>9
<1> QED
  BY <1>3, <1>4, <1>5, <1>6, <1>10, HeardStep

\* A coroutine that sends waits for no other call, so its new one is its only one.
LEMMA SendReachesKeeps ==
  ASSUME CaptureInv, NEW s \in Senders, SendReaches(s)
  PROVE  CaptureInv'
<1>1. /\ \A x \in Senders : Fits(x, sender[x])
      /\ sender \in [Senders -> SenderShape] /\ sender[s].pc = "send"
      /\ tmp \in Times \cup {None} /\ cache \subseteq Times /\ dropped \subseteq Times
      /\ cut \subseteq Times /\ IsFiniteSet(cache) /\ BrainInv
  BY SendersFit DEF CaptureInv, SendReaches
<1>2. \A d \in Calls : call[d] \in CallShape /\ Awaited(d)
  BY DEF CaptureInv, PhoneInv, BrainInv, BrainTypeOK, CallShape
<1>3. sender[s].at \in Times /\ Content(s) \in Times
  <2>1. sender[s].at \in Times
    BY <1>1 DEF Fits
  <2> QED
    BY <2>1, <1>1 DEF SendReaches, Content
<1>4. PICK c \in Calls : Arrives(c, s, sender[s].at, Content(s))
  BY DEF SendReaches
<1>5. BrainInv'
  BY <1>1, <1>3, <1>4, ArrivesKeeps
<1>6. /\ stored' = stored
      /\ call'[c].from = s /\ call'[c].at = sender[s].at
      /\ \A d \in Calls \ {c} : call'[d] = [call[d] EXCEPT !.clean = FALSE]
  BY <1>4 DEF Arrives, NoCall
<1>7. \A d \in Calls \ {c} : call'[d].from = call[d].from /\ call'[d].at = call[d].at
  BY <1>2, <1>6 DEF CallShape
<1>8. PICK r : r = [sender[s] EXCEPT !.pc = "wait"]
  OBVIOUS
<1>9. r \in SenderShape /\ r.pc = "wait" /\ r.at = sender[s].at
  BY <1>1, <1>8 DEF SenderShape
<1>10. sender' = [sender EXCEPT ![s] = r] /\ UNCHANGED <<tmp, cache, dropped, cut>>
  BY <1>8 DEF SendReaches
<1>11. sender'[s] = r /\ \A x \in Senders \ {s} : sender'[x] = sender[x]
  BY <1>1, <1>10
<1>12. Fits(s, r)
  BY <1>1, <1>9 DEF Fits
<1>13. CaptureTypeOK'
  <2>1. sender' \in [Senders -> SenderShape]
    BY <1>1, <1>9, <1>10
  <2> QED
    BY <2>1, <1>1, <1>5, <1>10 DEF CaptureTypeOK, SenderShape, BrainInv
<1>14. ASSUME NEW x \in Senders
       PROVE  SenderHolds(x)'
  <2>1. CASE x = s
    BY <2>1, <1>6, <1>11, <1>12 DEF SenderHolds, Fits, Live
  <2>2. CASE x # s
    BY <2>2, <1>1, <1>6, <1>11 DEF SenderHolds, Fits, Live
  <2> QED
    BY <2>1, <2>2
<1>15. \A d \in Calls : call[d].from # s
  <2>1. s # None
    BY CaptureAssumption
  <2> QED
    BY <2>1, <1>1, <1>2 DEF Awaited
<1>16. ASSUME NEW d \in Calls
       PROVE  Awaited(d)'
  <2>1. CASE d = c
    <3>1. \A o \in Calls \ {c} : call'[o].from # s
      BY <1>7, <1>15
    <3> QED
      BY <2>1, <3>1, <1>6, <1>9, <1>11 DEF Awaited
  <2>2. CASE d # c
    <3>1. SUFFICES ASSUME call[d].from # None PROVE Awaited(d)'
      BY <2>2, <1>7 DEF Awaited
    <3>2. call[d].from \in Senders \ {s} /\ call'[d].from = call[d].from
      BY <2>2, <3>1, <1>2, <1>7, <1>15 DEF CallShape
    <3>3. \A o \in Calls \ {d} : call'[o].from # call[d].from
      <4>1. \A o \in Calls \ {d} : call[o].from # call[d].from
        BY <3>1, <1>2 DEF Awaited
      <4> QED
        BY <4>1, <3>2, <1>6, <1>7
    <3> QED
      BY <2>2, <3>1, <3>2, <3>3, <1>2, <1>7, <1>11 DEF Awaited
  <2> QED
    BY <2>1, <2>2
<1>17. NoCaptureLost'
  <2>1. ASSUME NEW t \in Times, sender'[t].pc = "gone"
        PROVE  t \in Kept
    <3>1. t # s /\ t \in Senders
      BY <2>1, <1>9, <1>11, CaptureAssumption
    <3>2. sender[t].pc = "gone"
      BY <2>1, <3>1, <1>11
    <3> QED
      BY <3>2 DEF CaptureInv, PhoneInv, NoCaptureLost, Kept
  <2> QED
    BY <2>1, <1>6, <1>10 DEF NoCaptureLost, Kept
<1> QED
  BY <1>1, <1>5, <1>10, <1>13, <1>14, <1>16, <1>17 DEF CaptureInv, PhoneInv

\* A coroutine ends wherever it is; what it waited for goes on without it.
LEMMA CutOffStep ==
  ASSUME CaptureInv, NEW s \in Senders, LeavesItsCall(s), NEW r \in SenderShape,
         sender' = [sender EXCEPT ![s] = r], r.pc \in {"none", "gone"},
         r.pc = "gone" => s \in cut', dropped' = dropped,
         tmp' \in Times \cup {None}, cache' \subseteq Times, IsFiniteSet(cache'),
         cache \subseteq cache', cut' \subseteq Times, cut \subseteq cut',
         sender[s].pc = "wait" => UNCHANGED <<tmp, cache>>
  PROVE  CaptureInv'
<1>1. /\ call \in [Calls -> CallShape] /\ BrainInv /\ dropped \subseteq Times
  BY SendersFit DEF CaptureInv, BrainInv, BrainTypeOK, CallShape
<1>2. CASE sender[s].pc = "wait"
  <2>1. PICK c \in Calls : call[c].from = s /\ Abandons(c)
    BY <1>2 DEF LeavesItsCall
  <2>2. BrainInv'
    BY <1>1, <2>1, AbandonsKeeps
  <2>3. call' = [call EXCEPT ![c].from = None] /\ stored' = stored
    BY <2>1 DEF Abandons
  <2>4. call'[c].from = None /\ \A d \in Calls \ {c} : call'[d] = call[d]
    BY <1>1, <2>3 DEF CallShape
  <2>5. call[c].from # None /\ UNCHANGED <<tmp, cache, dropped>>
    BY <1>2, <2>1, CaptureAssumption
  <2>6. \E q \in SenderShape :
          /\ sender' = [sender EXCEPT ![call[c].from] = q]
          /\ \/ q.pc \in {"none", "gone"}
             \/ /\ q.pc \in {"send", "sent", "unsent"}
                /\ q.at = sender[call[c].from].at
          /\ q.pc = "sent" => q.at \in stored
          /\ q.pc = "gone" => call[c].from \in cut'
    BY <2>1
  <2> QED
    BY <2>2, <2>3, <2>4, <2>5, <2>6, HeardStep
<1>3. CASE sender[s].pc # "wait"
  <2>1. UNCHANGED brainVars
    BY <1>3 DEF LeavesItsCall
  <2>2. Fits(s, r)
    BY DEF Fits
  <2>3. Kept \subseteq Kept' /\ cut' \subseteq Kept'
    BY <2>1 DEF Kept, brainVars
  <2>4. dropped' \subseteq Times
    BY <1>1
  <2> QED
    BY <1>3, <2>1, <2>2, <2>3, <2>4, OwnStep
<1> QED
  BY <1>2, <1>3

LEMMA LiveCutOffKeeps ==
  ASSUME CaptureInv, NEW t \in Times, LiveCutOff(t)
  PROVE  CaptureInv'
<1>1. /\ t \in Senders /\ tmp \in Times \cup {None} /\ cache \subseteq Times
      /\ cut \subseteq Times /\ IsFiniteSet(cache)
  BY SendersFit, CaptureAssumption DEF CaptureInv
<1>2. PICK r : r = Gone
  OBVIOUS
<1>3. r \in SenderShape /\ r.pc = "gone"
  BY <1>2, AsleepFits
<1>4. /\ LeavesItsCall(t) /\ sender' = [sender EXCEPT ![t] = r]
      /\ cut' = cut \cup {t} /\ dropped' = dropped
  BY <1>2 DEF LiveCutOff
<1>5. tmp' \in {tmp, t} /\ cache' \in {cache, cache \cup {t}}
  BY DEF LiveCutOff
<1>6. sender[t].pc = "wait" => UNCHANGED <<tmp, cache>>
  BY DEF LiveCutOff
<1>7. cache' \subseteq Times /\ cache \subseteq cache' /\ IsFiniteSet(cache')
  BY <1>1, <1>5, FS_AddElement
<1> QED
  BY <1>1, <1>3, <1>4, <1>5, <1>6, <1>7, CutOffStep

LEMMA DrainCutOffKeeps ==
  ASSUME CaptureInv, NEW d \in Drains, DrainCutOff(d)
  PROVE  CaptureInv'
<1>1. /\ d \in Senders /\ tmp \in Times \cup {None} /\ cache \subseteq Times
      /\ cut \subseteq Times /\ IsFiniteSet(cache)
  BY SendersFit, CaptureAssumption DEF CaptureInv
<1>2. PICK r : r = Asleep
  OBVIOUS
<1>3. r \in SenderShape /\ r.pc = "none"
  BY <1>2, AsleepFits
<1>4. /\ LeavesItsCall(d) /\ sender' = [sender EXCEPT ![d] = r]
      /\ UNCHANGED <<tmp, cache, dropped, cut>>
  BY <1>2 DEF DrainCutOff
<1> QED
  BY <1>1, <1>3, <1>4, CutOffStep

LEMMA VanishesKeeps ==
  ASSUME CaptureInv, Expires
  PROVE  CaptureInv'
<1>1. BrainInv' /\ UNCHANGED phoneVars /\ stored \subseteq stored'
  BY ExpiresKeeps DEF CaptureInv, Expires, KeyExpires
<1>2. call \in [Calls -> CallShape]
  BY DEF CaptureInv, BrainInv, BrainTypeOK, CallShape
<1>3. \A c \in Calls : call'[c].from = call[c].from /\ call'[c].at = call[c].at
  BY <1>2 DEF Expires, KeyExpires, CallShape
<1> QED
  BY <1>1, <1>3, ServerStep

LEMMA CaptureStarts == Init => CaptureInv
<1> SUFFICES ASSUME Init PROVE CaptureInv
  OBVIOUS
<1>1. BrainInv /\ BrainTypeOK
  BY BrainStarts DEF Init, BrainInv
<1>2. \A s \in Senders : sender[s] = Asleep /\ sender[s].pc = "none"
  BY DEF Init, Asleep
<1>3. CaptureTypeOK
  <2>1. sender \in [Senders -> SenderShape]
    BY AsleepFits DEF Init
  <2> QED
    BY <2>1, <1>1 DEF Init, CaptureTypeOK, SenderShape
<1>4. IsFiniteSet(cache)
  BY FS_EmptySet DEF Init
<1>5. \A s \in Senders : SenderHolds(s)
  BY <1>2 DEF SenderHolds
<1>6. \A c \in Calls : Awaited(c)
  BY DEF Init, BrainInit, NoCall, Awaited
<1>7. NoCaptureLost
  BY <1>2, CaptureAssumption DEF NoCaptureLost
<1> QED
  BY <1>1, <1>3, <1>4, <1>5, <1>6, <1>7 DEF CaptureInv, PhoneInv

\* Every step of the phone and of the server keeps the invariant.
LEMMA CaptureSteps == CaptureInv /\ [Next]_vars => CaptureInv'
<1> SUFFICES ASSUME CaptureInv, [Next]_vars PROVE CaptureInv'
  OBVIOUS
<1>1. ASSUME NEW t \in Times,
             \/ Captures(t) \/ LiveWrites(t) \/ LiveSent(t) \/ LiveMakesRoom(t)
             \/ LiveCaches(t) \/ LiveCacheFails(t) \/ LiveCutOff(t)
      PROVE  CaptureInv'
  BY <1>1, CapturesKeeps, LiveWritesKeeps, LiveSentKeeps, LiveMakesRoomKeeps, LiveCachesKeeps,
     LiveCacheFailsKeeps, LiveCutOffKeeps
<1>2. ASSUME NEW s \in Senders, SendFails(s) \/ SendReaches(s) \/ GivesUp(s)
      PROVE  CaptureInv'
  BY <1>2, SendFailsKeeps, SendReachesKeeps, GivesUpKeeps
<1>3. ASSUME NEW d \in Drains,
             DrainStarts(d) \/ DrainSent(d) \/ DrainBreaks(d) \/ DrainCutOff(d)
      PROVE  CaptureInv'
  BY <1>3, DrainStartsKeeps, DrainSentKeeps, DrainBreaksKeeps, DrainCutOffKeeps
<1>4. CASE UNCHANGED vars
  <2>1. BrainInv' /\ UNCHANGED phoneVars /\ stored \subseteq stored' /\ call' = call
    BY <1>4, StutterKeeps DEF vars, brainVars, CaptureInv
  <2> QED
    BY <2>1, ServerStep
<1> QED
  BY <1>1, <1>2, <1>3, <1>4, ServerKeeps, VanishesKeeps DEF Next

-----------------------------------------------------------------------------
(* What follows                                                            *)

LEMMA CaptureInvariant == Spec => []CaptureInv
  BY CaptureStarts, CaptureSteps, PTL DEF Spec

\* Whatever interleaves, breaks, retries or expires, every variable of the
\* phone and of the server keeps its shape.
THEOREM CaptureTypes == Spec => []CaptureTypeOK
<1>1. CaptureInv => CaptureTypeOK
  BY DEF CaptureInv, PhoneInv
<1> QED
  BY <1>1, CaptureInvariant, PTL

LEMMA InvHistory == CaptureInv => HistoryIsLatest
<1>1. ASSUME CaptureInv PROVE HistoryIsLatest
  <2>1. /\ hist \in Seq(Entry) /\ newest \in Seq(Times) /\ Mirrors
    BY <1>1 DEF CaptureInv, BrainInv, BrainTypeOK
  <2>2. PICK kept : kept = Latest(MaxFrames, hist)
    OBVIOUS
  <2>3. /\ kept \in Seq(Entry)
        /\ Len(kept) = IF Len(hist) > MaxFrames THEN MaxFrames ELSE Len(hist)
        /\ \A i \in 1 .. Len(kept) : kept[i] = hist[Len(hist) - Len(kept) + i]
    BY <2>1, <2>2, LatestAt, BrainAssumption
  <2>4. Len(kept) = Len(newest)
    BY <2>1, <2>3 DEF Mirrors
  <2>5. DOMAIN kept = 1 .. Len(newest) /\ DOMAIN newest = 1 .. Len(newest)
    BY <2>1, <2>3, <2>4, LenProperties
  <2>6. \A i \in 1 .. Len(newest) : kept[i].at = newest[i]
    BY <2>1, <2>3, <2>4 DEF Mirrors
  <2>7. newest = [i \in 1 .. Len(newest) |-> newest[i]]
    BY <2>1, LenProperties
  <2>8. [i \in DOMAIN kept |-> kept[i].at] = newest
    BY <2>5, <2>6, <2>7
  <2> QED
    BY <2>2, <2>8 DEF HistoryIsLatest
<1> QED BY <1>1

\* Of any number of frames that any number of overlapping calls store, in any
\* order and with equal times among them, the MaxFrames last of the sorted set
\* are the newest by capture time since the key last vanished.
THEOREM CaptureHistory == Spec => []HistoryIsLatest
BY InvHistory, CaptureInvariant, PTL

-----------------------------------------------------------------------------
(* The history implements FrameHistory                                     *)

\* The capture times of the MaxFrames newest entries, trimmed or not.
KeptTimes == LET kept == Latest(MaxFrames, hist) IN [i \in DOMAIN kept |-> kept[i].at]

H == INSTANCE FrameHistory WITH frames <- KeptTimes, ever <- stored

LEMMA KeptIsNewest == CaptureInv => KeptTimes = newest
BY InvHistory DEF HistoryIsLatest, KeptTimes

\* The times of the newest entries are in order.
LEMMA NewestSorted ==
  ASSUME BrainInv
  PROVE  /\ Len(newest) \in Nat /\ \A i \in 1 .. Len(newest) : newest[i] \in Nat
         /\ \A i, j \in 1 .. Len(newest) : i <= j => newest[i] <= newest[j]
<1>1. PICK L \in Nat : L = Len(hist)
  BY LenProperties DEF BrainInv, BrainTypeOK
<1>2. PICK l \in Nat : l = Len(newest)
  BY LenProperties DEF BrainInv, BrainTypeOK
<1>3. PICK d \in Nat : d = L - l
  <2>1. l = IF L > MaxFrames THEN MaxFrames ELSE L
    BY <1>1, <1>2 DEF BrainInv, Mirrors
  <2> QED BY <2>1, BrainAssumption
<1>4. \A i \in 1 .. l : newest[i] = hist[d + i].at /\ d + i \in 1 .. L
  BY <1>1, <1>2, <1>3 DEF BrainInv, Mirrors
<1>5. \A i \in 1 .. L : hist[i].at \in Nat
  BY <1>1, HistTimes DEF BrainInv, BrainTypeOK
<1>6. \A x, y \in 1 .. L : x <= y => hist[x].at <= hist[y].at
  BY <1>1 DEF BrainInv, HistSorted
<1>7. ASSUME NEW i \in 1 .. l, NEW j \in 1 .. l, i <= j
      PROVE  newest[i] <= newest[j]
  <2>1. d + i \in 1 .. L /\ d + j \in 1 .. L /\ d + i <= d + j
    BY <1>4, <1>7
  <2> QED BY <2>1, <1>4, <1>6
<1> QED BY <1>2, <1>4, <1>5, <1>7

\* PlacedTime adds the time at any rank that keeps the order.
LEMMA PlacedTimeJoins ==
  ASSUME NEW s \in Seq(Times), NEW t \in Times, NEW k \in 0 .. Len(s),
         \A i, j \in 1 .. Len(s) : i <= j => s[i] <= s[j],
         \A i \in 1 .. k : s[i] <= t,
         \A i \in k + 1 .. Len(s) : t <= s[i]
  PROVE  PlacedTime(s, t) = H!Joined(s, k, t)
<1>1. PICK l \in Nat : l = Len(s)
  BY LenProperties
<1>2. t \in Nat /\ \A i \in 1 .. l : s[i] \in Nat
  BY <1>1, ElementOfSeq, BrainAssumption
<1>3. ASSUME NEW i \in 1 .. l + 1
      PROVE  (IF i <= l /\ s[i] <= t THEN s[i] ELSE IF i = 1 \/ s[i - 1] <= t THEN t ELSE s[i - 1])
             = (IF i <= k THEN s[i] ELSE IF i = k + 1 THEN t ELSE s[i - 1])
  <2>1. k \in 0 .. l
    BY <1>1
  <2>2. CASE i <= k
    <3>1. i <= l /\ s[i] <= t
      BY <2>1, <2>2
    <3> QED BY <2>2, <3>1
  <2>3. CASE i = k + 1
    <3>1. i <= l => t <= s[i] /\ s[i] \in Nat
      BY <1>1, <1>2, <2>1, <2>3
    <3>2. i # 1 => s[i - 1] <= t
      BY <2>1, <2>3
    <3> QED BY <1>2, <2>3, <3>1, <3>2
  <2>4. CASE i > k + 1
    <3>1. i - 1 \in 1 .. l /\ i - 1 \in k + 1 .. l
      BY <2>1, <2>4
    <3>2. s[i - 1] \in Nat /\ t <= s[i - 1]
      BY <1>1, <1>2, <3>1
    <3>3. i <= l => s[i] \in Nat /\ s[i - 1] <= s[i]
      <4>1. i <= l => i \in 1 .. l /\ i - 1 <= i
        BY <3>1
      <4> QED BY <4>1, <3>1, <1>1, <1>2
    <3> QED BY <1>2, <2>4, <3>1, <3>2, <3>3
  <2> QED BY <2>1, <2>2, <2>3, <2>4
<1> QED BY <1>1, <1>3 DEF PlacedTime, H!Joined

\* Latest and Newest are the same.
LEMMA NewestLatest ==
  ASSUME NEW s \in Seq(Times)
  PROVE  Latest(MaxFrames, s) = H!Newest(s)
<1>1. PICK q : q = Latest(MaxFrames, s)
  OBVIOUS
<1>2. PICK l \in Nat : l = Len(s)
  BY LenProperties
<1>3. PICK n \in Nat : n = IF l > MaxFrames THEN MaxFrames ELSE l
  BY BrainAssumption
<1>4. q \in Seq(Times) /\ Len(q) = n /\ \A i \in 1 .. n : q[i] = s[l - n + i]
  BY <1>1, <1>2, <1>3, LatestAt, BrainAssumption
<1>5. q = [i \in 1 .. n |-> q[i]]
  BY <1>4, LenProperties
<1>6. q = [i \in 1 .. n |-> s[l - n + i]]
  BY <1>4, <1>5
<1> QED BY <1>1, <1>2, <1>3, <1>6 DEF H!Newest

\* What append_frame stores joins the newest entries at its rank.
LEMMA StoresJoins ==
  ASSUME BrainInv, NEW c \in Calls, Stores(c), KeptTimes = newest, (KeptTimes = newest)'
  PROVE  \E t \in Times : H!Joins(t)
<1>1. PICK e \in Entry :
        /\ e.at = call[c].at /\ e.at \in Times /\ hist' \in Placed(hist, e)
        /\ newest' = Latest(MaxFrames, PlacedTime(newest, e.at))
        /\ stored' = stored \cup {e.at}
  <2>1. call[c].pc = "arrived" /\ call[c].at \in Times /\ call[c].shot \in Times
    BY DEF BrainInv, CallHolds, Stores
  <2>2. [at |-> call[c].at, shot |-> call[c].shot] \in Entry
    BY <2>1 DEF Entry
  <2> QED BY <2>1, <2>2 DEF Stores
<1>2. PICK t \in Times : t = e.at
  BY <1>1
<1>3. PICK L \in Nat : L = Len(hist)
  BY LenProperties DEF BrainInv, BrainTypeOK
<1>4. PICK l \in Nat : l = Len(newest)
  BY LenProperties DEF BrainInv, BrainTypeOK
<1>5. PICK d \in Nat : d = L - l
  <2>1. l = IF L > MaxFrames THEN MaxFrames ELSE L
    BY <1>3, <1>4 DEF BrainInv, Mirrors
  <2> QED BY <2>1, BrainAssumption
<1>6. \A i \in 1 .. l : newest[i] = hist[d + i].at /\ d + i \in 1 .. L
  BY <1>3, <1>4, <1>5 DEF BrainInv, Mirrors
<1>7. PICK n \in 0 .. L : /\ \A i \in 1 .. n : hist[i].at <= t
                          /\ \A i \in n + 1 .. L : hist[i].at >= t
  <2>1. PICK n \in 0 .. L : PlacedAtRank(hist, e, hist', n)
    BY <1>1, <1>3, PlacedAt DEF BrainInv, BrainTypeOK
  <2> QED BY <1>2, <1>3, <2>1 DEF PlacedAtRank
<1>8. PICK k \in 0 .. l : k = IF n >= d THEN n - d ELSE 0
  BY <1>5
<1>9. \A i \in 1 .. k : newest[i] <= t
  <2> SUFFICES ASSUME NEW i \in 1 .. k PROVE newest[i] <= t
    OBVIOUS
  <2>1. i \in 1 .. l /\ d + i \in 1 .. n
    BY <1>8
  <2> QED BY <2>1, <1>6, <1>7
<1>10. \A i \in k + 1 .. l : t <= newest[i]
  <2> SUFFICES ASSUME NEW i \in k + 1 .. l PROVE t <= newest[i]
    OBVIOUS
  <2>1. i \in 1 .. l /\ d + i \in n + 1 .. L
    BY <1>5, <1>8
  <2>2. hist[d + i].at \in Nat /\ hist[d + i].at >= t
    BY <2>1, <1>3, <1>6, <1>7, HistTimes DEF BrainInv, BrainTypeOK
  <2>3. t \in Nat
    BY BrainAssumption
  <2> QED BY <2>1, <2>2, <2>3, <1>6
<1>11. newest \in Seq(Times)
  BY DEF BrainInv, BrainTypeOK
<1>12. PlacedTime(newest, t) = H!Joined(newest, k, t)
  BY <1>4, <1>9, <1>10, <1>11, NewestSorted, PlacedTimeJoins
<1>13. newest' = H!Newest(H!Joined(newest, k, t))
  BY <1>1, <1>2, <1>11, <1>12, PlacedTimeAt, NewestLatest
<1> QED BY <1>1, <1>2, <1>4, <1>9, <1>10, <1>13 DEF H!Joins

\* No other step of the phone or the server but the expiry of the key touches
\* what the history keeps.
LEMMA OthersKeepHistory ==
  ASSUME Next, \A c \in Calls : ~Stores(c), ~KeyExpires
  PROVE  UNCHANGED <<newest, stored>>
<1>1. CASE \E t \in Times : \/ Captures(t) \/ LiveWrites(t) \/ LiveSent(t)
                            \/ LiveMakesRoom(t) \/ LiveCaches(t)
                            \/ LiveCacheFails(t) \/ LiveCutOff(t)
  BY <1>1 DEF Captures, LiveWrites, LiveSent, LiveMakesRoom, LiveCaches, LiveCacheFails,
              LiveCutOff, LeavesItsCall, Abandons, brainVars
<1>2. CASE \E s \in Senders : SendFails(s) \/ SendReaches(s) \/ GivesUp(s)
  BY <1>2 DEF SendFails, SendReaches, GivesUp, Arrives, Abandons, brainVars
<1>3. CASE \E x \in Drains : DrainStarts(x) \/ DrainSent(x) \/ DrainBreaks(x) \/ DrainCutOff(x)
  BY <1>3 DEF DrainStarts, DrainSent, DrainBreaks, DrainCutOff, LeavesItsCall, Abandons,
              brainVars
<1>4. CASE \E c \in Calls : Server(c)
  BY <1>4 DEF Server, Trims, Judges, Answers, Breaks
<1> QED BY <1>1, <1>2, <1>3, <1>4 DEF Next, Expires

\* indicator_history_service.py 57-92: ZADD, the trim, the read and the expiry
\* of the key are commands of their own that those of other calls come between,
\* broken calls leave the history untrimmed, and the phone sends a capture late,
\* twice or not at all.  Its MaxFrames newest entries are still the frames of
\* FrameHistory: one joins at its rank in one step, only the oldest makes room
\* for it, and nothing else takes one away but the expiry, which takes them all.
THEOREM CaptureImplementsHistory == Spec => H!Spec
<1>1. Init => H!Init
  <2> SUFFICES ASSUME Init PROVE H!Init
    OBVIOUS
  <2>1. CaptureInv
    BY CaptureStarts
  <2>2. KeptTimes = newest
    BY <2>1, KeptIsNewest
  <2> QED BY <2>2 DEF Init, BrainInit, H!Init
<1>2. CaptureInv /\ CaptureInv' /\ [Next]_vars => [H!Next]_(H!historyVars)
  <2> SUFFICES ASSUME CaptureInv, CaptureInv', [Next]_vars PROVE [H!Next]_(H!historyVars)
    OBVIOUS
  <2>1. KeptTimes = newest /\ (KeptTimes = newest)'
    <3>1. CaptureInv' => (KeptTimes = newest)'
      BY KeptIsNewest, PTL
    <3> QED BY <3>1, KeptIsNewest
  <2>2. CASE \E c \in Calls : Stores(c)
    BY <2>1, <2>2, StoresJoins DEF CaptureInv, H!Next
  <2>3. CASE KeyExpires
    <3>1. newest # << >>
      <4>1. Len(hist) # 0 /\ Len(hist) \in Nat
        BY <2>3, EmptySeq, LenProperties DEF KeyExpires, CaptureInv, BrainInv, BrainTypeOK
      <4>2. Len(newest) # 0
        BY <4>1, BrainAssumption DEF CaptureInv, BrainInv, Mirrors
      <4> QED BY <4>2, EmptySeq
    <3> QED BY <2>1, <2>3, <3>1 DEF KeyExpires, H!Next, H!Vanish
  <2>4. CASE UNCHANGED <<newest, stored>>
    BY <2>1, <2>4 DEF H!historyVars
  <2>5. CASE UNCHANGED vars
    BY <2>4, <2>5 DEF vars, brainVars
  <2> QED BY <2>2, <2>3, <2>4, <2>5, OthersKeepHistory
<1> QED BY <1>1, <1>2, CaptureInvariant, PTL DEF Spec, H!Spec

\* A frame that is the newest, in a call no other overlaps, is judged as the
\* current frame, after the one stored before it.
THEOREM CaptureJudged == Spec => []InOrderIsJudged
<1>1. ASSUME CaptureInv PROVE InOrderIsJudged
  <2>1. hist \in Seq(Entry) /\ newest \in Seq(Times) /\ Mirrors
    BY <1>1 DEF CaptureInv, BrainInv, BrainTypeOK
  <2>2. PICK seen : seen = Latest(2, hist)
    OBVIOUS
  <2>3. PICK ats : ats = Latest(2, newest)
    OBVIOUS
  <2>4. ASSUME NEW c \in Calls, call[c].pc = "trimmed", call[c].clean
        PROVE  /\ [i \in DOMAIN seen |-> seen[i].at] = ats
               /\ seen[Len(seen)] = [at |-> call[c].at, shot |-> call[c].shot]
    <3>1. /\ hist # << >> /\ Len(hist) <= MaxFrames
          /\ hist[Len(hist)] = [at |-> call[c].at, shot |-> call[c].shot]
      BY <1>1, <2>4 DEF CaptureInv, BrainInv, CleanHolds
    <3>2. seen[Len(seen)] = hist[Len(hist)]
      BY <2>1, <2>2, <3>1, LatestLast
    <3>3. Len(newest) = Len(hist) /\ Len(hist) \in Nat
      BY <2>1, <3>1, BrainAssumption, LenProperties DEF Mirrors
    <3>4. \A i \in 1 .. Len(hist) : newest[i] = hist[i].at
      <4>1. ASSUME NEW i \in 1 .. Len(hist)
            PROVE  newest[i] = hist[i].at
        <5>1. newest[i] = hist[Len(hist) - Len(hist) + i].at
          BY <2>1, <3>3 DEF Mirrors
        <5>2. Len(hist) - Len(hist) + i = i
          BY <3>3
        <5> QED
          BY <5>1, <5>2
      <4> QED
        BY <4>1
    <3>5. PICK m \in Nat : m = IF Len(hist) > 2 THEN 2 ELSE Len(hist)
      BY <3>3
    <3>6. /\ seen \in Seq(Entry) /\ Len(seen) = m
          /\ \A i \in 1 .. m : seen[i] = hist[Len(hist) - m + i]
      <4>1. /\ seen \in Seq(Entry) /\ Len(seen) = IF Len(hist) > 2 THEN 2 ELSE Len(hist)
            /\ \A i \in 1 .. Len(seen) : seen[i] = hist[Len(hist) - Len(seen) + i]
        BY <2>1, <2>2, 2 \in Nat, LatestAt
      <4> QED
        BY <4>1, <3>5
    <3>7. /\ ats \in Seq(Times) /\ Len(ats) = m
          /\ \A i \in 1 .. m : ats[i] = newest[Len(hist) - m + i]
      <4>1. /\ ats \in Seq(Times) /\ Len(ats) = IF Len(newest) > 2 THEN 2 ELSE Len(newest)
            /\ \A i \in 1 .. Len(ats) : ats[i] = newest[Len(newest) - Len(ats) + i]
        BY <2>1, <2>3, 2 \in Nat, LatestAt
      <4> QED
        BY <4>1, <3>3, <3>5
    <3>8. \A i \in 1 .. m : ats[i] = seen[i].at
      <4>1. \A i \in 1 .. m : Len(hist) - m + i \in 1 .. Len(hist)
        BY <3>3, <3>5
      <4> QED
        BY <4>1, <3>4, <3>6, <3>7
    <3>9. DOMAIN seen = 1 .. m /\ ats = [i \in 1 .. m |-> ats[i]]
      BY <3>6, <3>7, LenProperties
    <3> QED
      BY <3>1, <3>2, <3>8, <3>9
  <2> QED
    BY <2>2, <2>3, <2>4 DEF InOrderIsJudged
<1> QED
  BY <1>1, CaptureInvariant, PTL

\* When the coroutine of a capture is gone, the server has stored a frame under its
\* time, or its file is in the cache, or a full cache has dropped it, unless the
\* coroutine was cut off or the file could not be written: no failure of the
\* network or of the server, and no overlap of captures and drains, costs one.
THEOREM CaptureKeeps == Spec => []NoCaptureLost
<1>1. CaptureInv => NoCaptureLost
  BY DEF CaptureInv, PhoneInv
<1> QED
  BY <1>1, CaptureInvariant, PTL

\* A file that makes room is older than every file that stays.
LEMMA OldestGoFirst ==
  ASSUME IsFiniteSet(cache), cache \subseteq Times,
         NEW t \in OverCap(cache), NEW u \in cache \ OverCap(cache)
  PROVE  t < u
<1>1. PICK n \in Int : OverCap(cache) = Oldest(n, cache)
  BY FS_CardinalityType, CaptureAssumption DEF OverCap
<1>2. t \in cache /\ t \in Nat /\ u \in Nat
  BY <1>1, BrainAssumption DEF Oldest
<1>3. PICK before : before = [v \in cache |-> { w \in cache : w < v }]
  OBVIOUS
<1>4. Cardinality(before[t]) < n /\ ~(Cardinality(before[u]) < n)
  <2>1. \A v \in cache : before[v] = { w \in cache : w < v }
    BY <1>3
  <2>2. \A v \in cache : v \in OverCap(cache) <=> Cardinality(before[v]) < n
    BY <1>1, <2>1, Zenon DEF Oldest
  <2> QED BY <1>2, <2>2
<1>5. before[t] \subseteq cache /\ before[u] \subseteq cache
  BY <1>2, <1>3
<1>6. IsFiniteSet(before[t])
  BY <1>5, FS_Subset
<1>7. ~(before[u] \subseteq before[t])
  <2> SUFFICES ASSUME before[u] \subseteq before[t] PROVE FALSE
    OBVIOUS
  <2>1. Cardinality(before[u]) <= Cardinality(before[t])
    BY <1>6, FS_Subset
  <2>2. IsFiniteSet(before[u])
    BY <1>5, FS_Subset
  <2>3. Cardinality(before[u]) \in Nat /\ Cardinality(before[t]) \in Nat
    BY <1>6, <2>2, FS_CardinalityType
  <2> QED BY <1>4, <2>1, <2>3
<1>8. PICK w \in cache : w < u /\ ~(w < t)
  BY <1>2, <1>3, <1>7
<1>9. w \in Nat
  BY BrainAssumption
<1> QED BY <1>2, <1>8, <1>9

\* ScreenshotCacheManager.kt 10, 17-20, a "FIFO cache": a file leaves it when the
\* server has stored its capture, or to make room, and then every file that stays
\* is newer.  Whatever drains and captures overlap, no step does anything else.
CacheIsFifo ==
  [][\A t \in cache \ cache' :
       t \in stored \/ (t \in dropped' /\ \A u \in cache' : t < u)]_vars

THEOREM CaptureCacheIsFifo == Spec => CacheIsFifo
<1> DEFINE Leaves == \A t \in cache \ cache' :
                       t \in stored \/ (t \in dropped' /\ \A u \in cache' : t < u)
<1>1. CaptureInv /\ [Next]_vars => [Leaves]_vars
  <2> SUFFICES ASSUME CaptureInv, Next PROVE Leaves
    OBVIOUS
  <2>1. CASE \E x \in Times : LiveMakesRoom(x)
    <3>1. IsFiniteSet(cache) /\ cache \subseteq Times
      BY DEF CaptureInv, PhoneInv, CaptureTypeOK
    <3>2. cache' = cache \ OverCap(cache) /\ dropped' = dropped \cup OverCap(cache)
      BY <2>1 DEF LiveMakesRoom
    <3> QED BY <3>1, <3>2, OldestGoFirst
  <2>2. CASE \E x \in Drains : DrainSent(x)
    <3>1. PICK x \in Drains : sender[x].pc = "sent" /\ cache' = cache \ {sender[x].at}
      BY <2>2 DEF DrainSent
    <3>2. sender[x].at \in stored
      BY <3>1, CaptureAssumption DEF CaptureInv, PhoneInv, SenderHolds
    <3> QED BY <3>1, <3>2
  <2>3. CASE \E x \in Times : LiveCaches(x) \/ LiveCacheFails(x) \/ LiveCutOff(x)
    <3>1. cache \subseteq cache'
      BY <2>3 DEF LiveCaches, LiveCacheFails, LiveCutOff
    <3> QED BY <3>1
  <2>4. CASE cache' = cache
    BY <2>4
  <2>5. CASE \E x \in Times : Captures(x) \/ LiveWrites(x) \/ LiveSent(x)
    BY <2>4, <2>5 DEF Captures, LiveWrites, LiveSent
  <2>6. CASE \E x \in Senders : SendFails(x) \/ SendReaches(x) \/ GivesUp(x)
    BY <2>4, <2>6 DEF SendFails, SendReaches, GivesUp
  <2>7. CASE \E x \in Drains : DrainStarts(x) \/ DrainBreaks(x) \/ DrainCutOff(x)
    BY <2>4, <2>7 DEF DrainStarts, DrainBreaks, DrainCutOff
  <2>8. CASE \E c \in Calls : Server(c)
    BY <2>4, <2>8 DEF Server, Hears, phoneVars
  <2>9. CASE Expires
    BY <2>4, <2>9 DEF Expires, phoneVars
  <2> QED BY <2>1, <2>2, <2>3, <2>5, <2>6, <2>7, <2>8, <2>9 DEF Next
<1> QED BY <1>1, CaptureInvariant, PTL DEF Spec, CacheIsFifo

-----------------------------------------------------------------------------
(* What a verdict depends on                                               *)

\* The last m of the last n are the last m, when n is no less.
LEMMA LatestOfLatest ==
  ASSUME NEW S, NEW h \in Seq(S), NEW n \in Nat, NEW m \in Nat, m <= n
  PROVE  Latest(m, Latest(n, h)) = Latest(m, h)
<1>1. PICK L \in Nat : L = Len(h)
  BY LenProperties
<1>2. PICK q : q = Latest(n, h)
  OBVIOUS
<1>3. /\ q \in Seq(S) /\ Len(q) = IF L > n THEN n ELSE L
      /\ \A i \in 1 .. Len(q) : q[i] = h[L - Len(q) + i]
  BY <1>1, <1>2, LatestAt
<1>4. PICK l \in Nat : l = Len(q)
  BY <1>3, LenProperties
<1>5. PICK a : a = Latest(m, q)
  OBVIOUS
<1>6. PICK b : b = Latest(m, h)
  OBVIOUS
<1>7. /\ a \in Seq(S) /\ Len(a) = IF l > m THEN m ELSE l
      /\ \A i \in 1 .. Len(a) : a[i] = q[l - Len(a) + i]
  BY <1>3, <1>4, <1>5, LatestAt
<1>8. /\ b \in Seq(S) /\ Len(b) = IF L > m THEN m ELSE L
      /\ \A i \in 1 .. Len(b) : b[i] = h[L - Len(b) + i]
  BY <1>1, <1>6, LatestAt
<1>9. PICK k \in Nat : k = Len(a) /\ k = Len(b) /\ k <= l /\ l <= L
  BY <1>3, <1>4, <1>7, <1>8
<1>10. ASSUME NEW i \in 1 .. k
       PROVE  a[i] = b[i]
  <2>1. l - k + i \in 1 .. l /\ L - l + (l - k + i) = L - k + i
    BY <1>9
  <2>2. q[l - k + i] = h[L - l + (l - k + i)]
    BY <2>1, <1>3, <1>4
  <2> QED
    BY <2>1, <2>2, <1>7, <1>8, <1>9
<1> QED
  BY <1>2, <1>5, <1>6, <1>7, <1>8, <1>9, <1>10, SeqEqual

\* The rules read the last two frames and the look-back: a history cut to no
\* less than both is judged as the whole one is.
LEMMA CutIsJudgedAlike ==
  ASSUME NEW S, NEW h \in Seq(S), NEW n \in Nat, n >= 2, n >= Lookback
  PROVE  Evaluate(Latest(n, h)) = Evaluate(h)
<1>1. PICK L \in Nat : L = Len(h)
  BY LenProperties
<1>2. PICK q : q = Latest(n, h)
  OBVIOUS
<1>3. /\ q \in Seq(S) /\ Len(q) = IF L > n THEN n ELSE L
      /\ \A i \in 1 .. Len(q) : q[i] = h[L - Len(q) + i]
  BY <1>1, <1>2, LatestAt
<1>4. Window(q) = Window(h)
  BY <1>2, LatestOfLatest, SignalRulesAssumption DEF Window
<1>5. DivergenceOf(q) = DivergenceOf(h)
  BY <1>4 DEF DivergenceOf, Prices, Ccis
<1>6. Len(q) < 2 <=> L < 2
  BY <1>3
<1>7. CASE L < 2
  BY <1>1, <1>2, <1>6, <1>7 DEF Evaluate
<1>8. CASE L >= 2
  <2>1. PICK l \in Nat : l = Len(q) /\ l >= 2 /\ l <= L
    BY <1>3, <1>8
  <2>2. l \in 1 .. l /\ l - 1 \in 1 .. l /\ L - l + l = L /\ L - l + (l - 1) = L - 1
    BY <2>1
  <2>3. q[l] = h[L] /\ q[l - 1] = h[L - 1]
    BY <2>1, <2>2, <1>3
  <2>4. Evaluate(q) = Evaluate(h)
    BY <2>1, <2>3, <1>1, <1>5, <1>6, <1>8 DEF Evaluate
  <2> QED
    BY <2>4, <1>2
<1> QED
  BY <1>7, <1>8

\* What the MaxFrames newest entries show, oldest first.
NewestFrames ==
  LET kept == Latest(MaxFrames, hist) IN [i \in DOMAIN kept |-> Chart[kept[i].shot]]

\* brain_router.py 97-115: as long as the history keeps the look-back and two
\* frames, what a call is told never depends on entries that another call has
\* stored and not yet, or never, trimmed: it is the verdict on the newest
\* frames by capture time.
VerdictIsOfTheNewest ==
  MaxFrames >= 2 /\ MaxFrames >= Lookback => Verdict = Evaluate(NewestFrames)

THEOREM CaptureVerdict == Spec => []VerdictIsOfTheNewest
<1>1. ASSUME CaptureInv PROVE VerdictIsOfTheNewest
  <2>1. SUFFICES ASSUME MaxFrames >= 2, MaxFrames >= Lookback
                 PROVE  Verdict = Evaluate(NewestFrames)
    BY DEF VerdictIsOfTheNewest
  <2>2. hist \in Seq(Entry) /\ MaxFrames \in Nat
    BY <1>1, BrainAssumption DEF CaptureInv, BrainInv, BrainTypeOK
  <2>3. PICK L \in Nat : L = Len(hist)
    BY <2>2, LenProperties
  <2>4. PICK shown : shown = [i \in DOMAIN hist |-> Chart[hist[i].shot]]
    OBVIOUS
  <2>5. shown \in Seq(Frame) /\ Len(shown) = L /\ \A i \in 1 .. L : shown[i] = Chart[hist[i].shot]
    <3>1. DOMAIN hist = 1 .. L
      BY <2>2, <2>3, LenProperties
    <3>2. ASSUME NEW i \in 1 .. L
          PROVE  Chart[hist[i].shot] \in Frame
      <4>1. hist[i] \in Entry
        BY <2>2, <2>3, ElementOfSeq
      <4> QED
        BY <4>1, BrainAssumption DEF Entry
    <3>3. shown \in [1 .. L -> Frame]
      BY <2>4, <3>1, <3>2
    <3> QED
      BY <2>4, <3>1, <3>3
  <2>6. PICK kept : kept = Latest(MaxFrames, hist)
    OBVIOUS
  <2>7. /\ kept \in Seq(Entry) /\ Len(kept) = IF L > MaxFrames THEN MaxFrames ELSE L
        /\ \A i \in 1 .. Len(kept) : kept[i] = hist[L - Len(kept) + i]
    BY <2>2, <2>3, <2>6, LatestAt
  <2>8. PICK seen : seen = Latest(MaxFrames, shown)
    OBVIOUS
  <2>9. /\ seen \in Seq(Frame) /\ Len(seen) = IF L > MaxFrames THEN MaxFrames ELSE L
        /\ \A i \in 1 .. Len(seen) : seen[i] = shown[L - Len(seen) + i]
    BY <2>2, <2>5, <2>8, LatestAt
  <2>10. PICK l \in Nat : l = Len(kept) /\ l = Len(seen) /\ l <= L
    BY <2>2, <2>7, <2>9
  <2>11. NewestFrames = seen
    <3>1. NewestFrames = [i \in DOMAIN kept |-> Chart[kept[i].shot]]
      BY <2>6 DEF NewestFrames
    <3>2. DOMAIN kept = 1 .. l /\ seen = [i \in 1 .. l |-> seen[i]]
      <4>1. DOMAIN kept = 1 .. l
        BY <2>7, <2>10, LenProperties
      <4>2. seen \in [1 .. l -> Frame]
        BY <2>9, <2>10, LenProperties
      <4>3. \A f \in [1 .. l -> Frame] : f = [i \in 1 .. l |-> f[i]]
        OBVIOUS
      <4> QED
        BY <4>1, <4>2, <4>3
    <3>3. ASSUME NEW i \in 1 .. l
          PROVE  seen[i] = Chart[kept[i].shot]
      <4>1. PICK j \in 1 .. L : j = L - l + i
        BY <2>10
      <4>2. kept[i] = hist[j]
        BY <4>1, <2>7, <2>10
      <4>3. seen[i] = shown[j]
        BY <4>1, <2>9, <2>10
      <4> QED
        BY <4>2, <4>3, <2>5
    <3> QED
      BY <3>1, <3>2, <3>3
  <2>12. Evaluate(seen) = Evaluate(shown)
    BY <2>1, <2>2, <2>5, <2>8, CutIsJudgedAlike
  <2> QED
    BY <2>4, <2>11, <2>12 DEF Verdict
<1> QED
  BY <1>1, CaptureInvariant, PTL

-----------------------------------------------------------------------------
(* What the phone sends is an image like any other upload: the promises of *)
(* ImagePipeline, for every size.                                          *)

CONSTANT LargestSide     \* as in ImagePipeline

I == INSTANCE ImagePipeline WITH Absent <- None

Sides == Nat \ {0}

Images == [width : Sides, height : Sides, channels : {3}, level : 0 .. 255]

Shown(l) == I!AtMost(255, I!Quarters(5 * I!AtMost(255, l + 15)))

\* The plotting area lies within the image, and is empty only for an image one pixel
\* wide or high (detect).
THEOREM PlotIsWithinTheImage ==
  ASSUME NEW image \in Images
  PROVE  LET region == I!Detect(image)
             plot   == I!PlottingArea(region)
         IN  /\ plot.x + plot.width <= image.width /\ plot.y + plot.height <= image.height
             /\ plot.width > 0 <=> image.width > 1
             /\ plot.height > 0 <=> image.height > 1
BY DEF I!PlottingArea, I!Detect, Images, Sides

LEMMA QuartersIncrease ==
  ASSUME NEW m \in Nat, NEW n \in Nat, m <= n
  PROVE  /\ I!Quarters(m) \in Nat /\ I!Quarters(n) \in Nat
         /\ I!Quarters(m) <= I!Quarters(n)
         /\ 4 * I!Quarters(m) <= m + 2 /\ 4 * I!Quarters(m) >= m - 2
BY DEF I!Quarters

\* Brightness and contrast never put two shades in the other order, but every shade from
\* 189 up becomes the same white (normalize_brightness, enhance_contrast).
THEOREM ShadesKeepTheirOrder ==
  ASSUME NEW image \in Images, NEW l \in 0 .. 255, image.level <= l
  PROVE  /\ I!EnhanceContrast(I!NormalizeBrightness(image)).level = Shown(image.level)
         /\ Shown(image.level) <= Shown(l)
         /\ Shown(l) = 255 <=> l >= 189
<1>1. image.level \in 0 .. 255
  BY DEF Images
<1>2. I!EnhanceContrast(I!NormalizeBrightness(image)).level = Shown(image.level)
  BY DEF I!EnhanceContrast, I!NormalizeBrightness, Shown, Images
<1>3. PICK k \in Nat : k = I!AtMost(255, image.level + 15)
  BY <1>1 DEF I!AtMost
<1>4. PICK n \in Nat : n = I!AtMost(255, l + 15)
  BY DEF I!AtMost
<1>5. k <= n /\ (n >= 204 <=> l >= 189)
  BY <1>1, <1>3, <1>4 DEF I!AtMost
<1>6. /\ I!Quarters(5 * k) \in Nat /\ I!Quarters(5 * n) \in Nat
      /\ I!Quarters(5 * k) <= I!Quarters(5 * n)
      /\ 4 * I!Quarters(5 * n) <= 5 * n + 2 /\ 4 * I!Quarters(5 * n) >= 5 * n - 2
  BY <1>5, QuartersIncrease
<1>7. I!Quarters(5 * n) >= 255 <=> n >= 204
  BY <1>6
<1>8. PICK K \in Nat : K = I!Quarters(5 * k)
  BY <1>6
<1>9. PICK N \in Nat : N = I!Quarters(5 * n)
  BY <1>6
<1>10. Shown(image.level) = I!AtMost(255, K) /\ Shown(l) = I!AtMost(255, N)
  BY <1>3, <1>4, <1>8, <1>9 DEF Shown
<1> QED
  BY <1>2, <1>5, <1>6, <1>7, <1>8, <1>9, <1>10 DEF I!AtMost

LEMMA DivisionLeaves ==
  ASSUME NEW n \in Nat, NEW d \in Sides
  PROVE  /\ n \div d \in Nat /\ d * (n \div d) <= n /\ n < d * (n \div d) + d
         /\ n % d = 0 <=> d * (n \div d) = n
BY DEF Sides

\* What a side can be scaled to: within a pixel of the exact ratio.
LEMMA ScaledIsWithinAPixel ==
  ASSUME NEW side \in Sides, NEW target \in Sides, NEW other \in Sides,
         NEW n \in I!Scaled(side, target, other)
  PROVE  /\ n \in Nat
         /\ n * other <= side * target /\ side * target <= n * other + other
<1>1. PICK p \in Nat \ {0} : p = side * target
  BY DEF Sides
<1>2. PICK q \in Nat : q = p \div other
  BY <1>1, DivisionLeaves
<1>3. other * q <= p /\ p < other * q + other /\ (p % other = 0 <=> other * q = p)
  BY <1>1, <1>2, DivisionLeaves
<1>4. n = q \/ (p % other = 0 /\ n = q - 1)
  BY <1>1, <1>2 DEF I!Scaled
<1>5. CASE n = q
  BY <1>1, <1>2, <1>3, <1>5 DEF Sides
<1>6. CASE p % other = 0 /\ n = q - 1
  <2>1. q # 0
    BY <1>1, <1>2, <1>3, <1>6 DEF Sides
  <2>2. other * (q - 1) = other * q - other
    BY <1>2 DEF Sides
  <2> QED
    BY <1>1, <1>2, <1>3, <1>6, <2>1, <2>2 DEF Sides
<1> QED
  BY <1>4, <1>5, <1>6

\* A resize to one side keeps the ratio to within a pixel of the other side, and it fails
\* only when that pixel is the last, and then a request that only shrinks an image leaves
\* it as it is, or when a side would be beyond what can surely be made (resize_image).
THEOREM ResizeKeepsTheRatio ==
  ASSUME NEW image \in Images, NEW h \in Sides, h # None, LargestSide \in Nat,
         NEW made \in I!ResizeImage(image, None, h)
  PROVE  IF made = I!NoImage
         THEN \/ image.width * h <= image.height
              \/ h > LargestSide \/ image.width * h > LargestSide * image.height
         ELSE /\ made.height = h
              /\ made.width * image.height <= image.width * h
              /\ image.width * h <= (made.width + 1) * image.height
<1>1. PICK w \in I!Scaled(image.width, h, image.height) : made \in I!Resized(image, w, h)
  BY DEF I!ResizeImage
<1>2. image.width \in Sides /\ image.height \in Sides
  BY DEF Images
<1>3. /\ w \in Nat
      /\ w * image.height <= image.width * h /\ image.width * h <= w * image.height + image.height
  BY <1>2, ScaledIsWithinAPixel
<1>4. CASE w = 0
  <2>1. made = I!NoImage
    BY <1>1, <1>4 DEF I!Resized
  <2> QED
    BY <1>2, <1>3, <1>4, <2>1 DEF Sides
<1>5. CASE w # 0 /\ made = I!NoImage
  <2>1. w > LargestSide \/ h > LargestSide
    <3>1. PICK other : other = [image EXCEPT !.width = w, !.height = h]
      OBVIOUS
    <3>2. other.width = w
      BY <3>1 DEF Images
    <3>3. other # I!NoImage
      BY <1>5, <3>2 DEF I!NoImage
    <3> QED
      BY <1>1, <1>5, <3>1, <3>3 DEF I!Resized, Sides
  <2>2. CASE w > LargestSide
    <3>1. PICK d \in Nat \ {0} : w = LargestSide + d
      <4>1. w - LargestSide \in Nat \ {0} /\ w = LargestSide + (w - LargestSide)
        BY <1>3, <2>2
      <4> QED
        BY <4>1
    <3>2. w * image.height = LargestSide * image.height + d * image.height
      BY <1>2, <3>1 DEF Sides
    <3>3. d * image.height > 0 /\ LargestSide * image.height \in Nat
      BY <1>2 DEF Sides
    <3>4. image.width * h \in Nat /\ d * image.height \in Nat
      BY <1>2 DEF Sides
    <3> QED
      BY <1>3, <1>5, <3>2, <3>3, <3>4
  <2> QED
    BY <1>5, <2>1, <2>2
<1>6. CASE w # 0 /\ made # I!NoImage
  <2>1. made = [image EXCEPT !.width = w, !.height = h]
    BY <1>1, <1>6 DEF I!Resized, Sides
  <2>2. made.width = w /\ made.height = h
    BY <2>1 DEF Images
  <2>3. made # I!NoImage
    BY <1>6
  <2>4. (w + 1) * image.height = w * image.height + image.height
    BY <1>2, <1>3 DEF Sides
  <2> QED
    BY <1>3, <2>2, <2>3, <2>4
<1> QED
  BY <1>4, <1>5, <1>6

\* The images of the same size.
Alike(image) == [width : {image.width}, height : {image.height}, channels : {1, 3}, level : 0 .. 255]

\* The stages before the resize.
Painting == {"brightness_normalization", "contrast_enhancement", "grayscale_conversion"}

LEMMA PaintingIsNoResize == "resize" \notin Painting
BY DEF Painting

\* A run before its resize: nothing has failed, and the size is the image's own.
Unresized(image, run) ==
  /\ run.stages \in Seq([name : Painting, success : {TRUE}])
  /\ run.image \in Alike(image)
  /\ run.failed = 0

\* A stage that makes images of the same size fails in no run.
LEMMA StageSucceeds ==
  ASSUME NEW image \in Images, NEW runs, NEW request,
         NEW stage \in Painting,
         \A run \in runs : /\ Unresized(image, run)
                           /\ I!Operation(stage, request, run.image) \subseteq Alike(image)
  PROVE  \A run \in I!RunStage(runs, stage, request) :
           /\ Unresized(image, run)
           /\ I!Enabled(stage, request) =>
                \E r \in runs : run.image \in I!Operation(stage, request, r.image)
           /\ ~I!Enabled(stage, request) => \E r \in runs : run.image = r.image
<1>1. CASE ~I!Enabled(stage, request)
  BY <1>1 DEF I!RunStage
<1>2. CASE I!Enabled(stage, request)
  <2> SUFFICES ASSUME NEW run \in I!RunStage(runs, stage, request)
               PROVE  /\ Unresized(image, run)
                      /\ \E r \in runs : run.image \in I!Operation(stage, request, r.image)
    BY <1>2
  <2>0. PICK r \in runs : \E new \in I!Operation(stage, request, r.image) : run = I!Ran(r, stage, new)
    BY <1>2 DEF I!RunStage
  <2>1. PICK new \in I!Operation(stage, request, r.image) : run = I!Ran(r, stage, new)
    BY <2>0
  <2>2. new \in Alike(image) /\ new # I!NoImage
    <3>1. new \in Alike(image)
      OBVIOUS
    <3> QED
      BY <3>1 DEF I!NoImage, Images, Sides, Alike
  <2>3. /\ run.image = new /\ run.failed = r.failed
        /\ run.stages = Append(r.stages, [name |-> stage, success |-> TRUE])
    BY <2>1, <2>2 DEF I!Ran
  <2>4. run.stages \in Seq([name : Painting, success : {TRUE}])
    <3>1. r.stages \in Seq([name : Painting, success : {TRUE}])
      BY DEF Unresized
    <3>2. [name |-> stage, success |-> TRUE] \in [name : Painting, success : {TRUE}]
      OBVIOUS
    <3> QED
      BY <2>3, <3>1, <3>2, AppendProperties
  <2> QED
    BY <2>2, <2>3, <2>4 DEF Unresized
<1> QED
  BY <1>1, <1>2

\* What the first two stages make of a shade.
Brightened(request, l) == IF request.apply_brightness THEN I!AtMost(255, l + 15) ELSE l
Contrasted(request, l) == IF request.apply_contrast THEN I!AtMost(255, I!Quarters(5 * l)) ELSE l

LEMMA OfTheSameSize ==
  ASSUME NEW image, NEW i \in Alike(image)
  PROVE  /\ I!NormalizeBrightness(i) \in Alike(image)
         /\ I!NormalizeBrightness(i).channels = i.channels
         /\ I!NormalizeBrightness(i).level = I!AtMost(255, i.level + 15)
         /\ I!EnhanceContrast(i) \in Alike(image)
         /\ I!EnhanceContrast(i).channels = i.channels
         /\ I!EnhanceContrast(i).level = I!AtMost(255, I!Quarters(5 * i.level))
         /\ I!ConvertToGrayscale(i) \in Alike(image)
         /\ I!ConvertToGrayscale(i).channels = 1
         /\ I!ConvertToGrayscale(i).level = i.level
<1>1. ASSUME NEW n \in 0 .. 255
      PROVE  /\ [i EXCEPT !.level = n] \in Alike(image)
             /\ [i EXCEPT !.level = n].channels = i.channels
             /\ [i EXCEPT !.level = n].level = n
  BY DEF Alike
<1>2. i.level \in 0 .. 255 /\ 5 * i.level \in Nat
  BY DEF Alike
<1>3. I!AtMost(255, i.level + 15) \in 0 .. 255
  BY <1>2 DEF I!AtMost
<1>4. I!AtMost(255, I!Quarters(5 * i.level)) \in 0 .. 255
  <2>1. PICK n \in Nat : n = 5 * i.level
    BY <1>2
  <2>2. n <= n
    OBVIOUS
  <2>3. PICK q \in Nat : q = I!Quarters(n)
    BY <2>2, QuartersIncrease
  <2>4. I!AtMost(255, q) \in 0 .. 255
    BY DEF I!AtMost
  <2> QED
    BY <2>1, <2>3, <2>4
<1>5. /\ I!ConvertToGrayscale(i) \in Alike(image)
      /\ I!ConvertToGrayscale(i).channels = 1 /\ I!ConvertToGrayscale(i).level = i.level
  BY DEF I!ConvertToGrayscale, Alike
<1>6. I!NormalizeBrightness(i) = [i EXCEPT !.level = I!AtMost(255, i.level + 15)]
  BY Zenon DEF I!NormalizeBrightness
<1>7. I!EnhanceContrast(i) = [i EXCEPT !.level = I!AtMost(255, I!Quarters(5 * i.level))]
  BY Zenon DEF I!EnhanceContrast
<1>8. /\ I!NormalizeBrightness(i) \in Alike(image)
      /\ I!NormalizeBrightness(i).channels = i.channels
      /\ I!NormalizeBrightness(i).level = I!AtMost(255, i.level + 15)
  <2>1. PICK n \in 0 .. 255 : n = I!AtMost(255, i.level + 15)
    BY <1>3
  <2>2. PICK new : new = [i EXCEPT !.level = n]
    OBVIOUS
  <2>3. new \in Alike(image) /\ new.channels = i.channels /\ new.level = n
    BY <1>1, <2>2
  <2>4. I!NormalizeBrightness(i) = new
    BY Zenon, <1>6, <2>1, <2>2
  <2> QED
    BY <2>1, <2>3, <2>4
<1>9. /\ I!EnhanceContrast(i) \in Alike(image)
      /\ I!EnhanceContrast(i).channels = i.channels
      /\ I!EnhanceContrast(i).level = I!AtMost(255, I!Quarters(5 * i.level))
  <2>1. PICK n \in 0 .. 255 : n = I!AtMost(255, I!Quarters(5 * i.level))
    BY <1>4
  <2>2. PICK new : new = [i EXCEPT !.level = n]
    OBVIOUS
  <2>3. new \in Alike(image) /\ new.channels = i.channels /\ new.level = n
    BY <1>1, <2>2
  <2>4. I!EnhanceContrast(i) = new
    BY Zenon, <1>7, <2>1, <2>2
  <2> QED
    BY <2>1, <2>3, <2>4
<1> QED
  BY <1>5, <1>8, <1>9

\* The runs before the resize.
Before(request, image) ==
  I!RunStage(I!RunStage(I!RunStage({[image |-> image, stages |-> <<>>, failed |-> 0]},
    "brightness_normalization", request), "contrast_enhancement", request),
    "grayscale_conversion", request)

LEMMA BeforeTheResize ==
  ASSUME NEW image \in Images, NEW request \in I!Requests(Sides), NEW run \in Before(request, image)
  PROVE  /\ Unresized(image, run)
         /\ run.image.channels = IF request.apply_grayscale THEN 1 ELSE 3
         /\ run.image.level = Contrasted(request, Brightened(request, image.level))
<1>0. /\ "brightness_normalization" \in Painting
      /\ "contrast_enhancement" \in Painting
      /\ "grayscale_conversion" \in Painting
  BY DEF Painting
<1>1. PICK R0 : R0 = {[image |-> image, stages |-> <<>>, failed |-> 0]}
  OBVIOUS
<1>2. PICK R1 : R1 = I!RunStage(R0, "brightness_normalization", request)
  OBVIOUS
<1>3. PICK R2 : R2 = I!RunStage(R1, "contrast_enhancement", request)
  OBVIOUS
<1>4. PICK R3 : R3 = I!RunStage(R2, "grayscale_conversion", request)
  OBVIOUS
<1>5. run \in R3
  BY <1>1, <1>2, <1>3, <1>4 DEF Before
<1>6. image \in Alike(image) /\ image.channels = 3
  BY DEF Alike, Images
<1>7. \A r \in R0 : Unresized(image, r) /\ r.image = image
  <2>1. << >> \in Seq([name : Painting, success : {TRUE}])
    BY EmptySeq
  <2>2. PICK r : r = [image |-> image, stages |-> <<>>, failed |-> 0]
    OBVIOUS
  <2>3. r.image = image /\ r.stages = << >> /\ r.failed = 0
    BY Zenon, <2>2
  <2> QED
    BY <1>1, <1>6, <2>1, <2>2, <2>3 DEF Unresized
<1>8. /\ I!Enabled("brightness_normalization", request) <=> request.apply_brightness
      /\ I!Enabled("contrast_enhancement", request) <=> request.apply_contrast
      /\ I!Enabled("grayscale_conversion", request) <=> request.apply_grayscale
  BY DEF I!Enabled, I!Requests
<1>9. \A i : /\ I!Operation("brightness_normalization", request, i) = {I!NormalizeBrightness(i)}
             /\ I!Operation("contrast_enhancement", request, i) = {I!EnhanceContrast(i)}
             /\ I!Operation("grayscale_conversion", request, i) = {I!ConvertToGrayscale(i)}
  BY DEF I!Operation
<1>10. \A r \in R1 : /\ Unresized(image, r) /\ r.image.channels = 3
                     /\ r.image.level = Brightened(request, image.level)
  <2>1. \A r \in R0 : I!Operation("brightness_normalization", request, r.image) \subseteq Alike(image)
    BY <1>6, <1>7, <1>9, OfTheSameSize
  <2>2. \A r \in R1 : /\ Unresized(image, r)
                      /\ I!Enabled("brightness_normalization", request) =>
                           \E s \in R0 : r.image \in I!Operation("brightness_normalization", request, s.image)
                      /\ ~I!Enabled("brightness_normalization", request) => \E s \in R0 : r.image = s.image
    BY <1>2, <1>7, <2>1, <1>0, StageSucceeds
  <2> QED
    BY <1>6, <1>7, <1>8, <1>9, <2>2, OfTheSameSize DEF Brightened
<1>11. \A r \in R2 : /\ Unresized(image, r) /\ r.image.channels = 3
                     /\ r.image.level = Contrasted(request, Brightened(request, image.level))
  <2>1. \A r \in R1 : I!Operation("contrast_enhancement", request, r.image) \subseteq Alike(image)
    BY <1>10, <1>9, OfTheSameSize DEF Unresized
  <2>2. \A r \in R2 : /\ Unresized(image, r)
                      /\ I!Enabled("contrast_enhancement", request) =>
                           \E s \in R1 : r.image \in I!Operation("contrast_enhancement", request, s.image)
                      /\ ~I!Enabled("contrast_enhancement", request) => \E s \in R1 : r.image = s.image
    BY <1>3, <1>10, <2>1, <1>0, StageSucceeds
  <2>3. \A s \in R1 : s.image \in Alike(image)
    BY <1>10 DEF Unresized
  <2> QED
    BY <1>8, <1>9, <1>10, <2>2, <2>3, OfTheSameSize DEF Contrasted
<1>12. \A r \in R3 : /\ Unresized(image, r)
                     /\ I!Enabled("grayscale_conversion", request) =>
                          \E s \in R2 : r.image \in I!Operation("grayscale_conversion", request, s.image)
                     /\ ~I!Enabled("grayscale_conversion", request) => \E s \in R2 : r.image = s.image
  <2>1. \A r \in R2 : I!Operation("grayscale_conversion", request, r.image) \subseteq Alike(image)
    BY <1>11, <1>9, OfTheSameSize DEF Unresized
  <2> QED
    BY <1>4, <1>11, <2>1, <1>0, StageSucceeds
<1>13. \A s \in R2 : s.image \in Alike(image)
  BY <1>11 DEF Unresized
<1> QED
  BY <1>5, <1>8, <1>9, <1>11, <1>12, <1>13, OfTheSameSize

Reports == [name : Painting \cup {"resize"}, success : BOOLEAN]

\* What a response says of a run.
LEMMA ResponseOf ==
  ASSUME NEW run, run.stages \in Seq(Reports), run.failed \in Nat
  PROVE  LET r == I!Response(run) IN
         /\ r.total = r.successful + r.failed /\ r.failed = run.failed
         /\ r.width = run.image.width /\ r.height = run.image.height
         /\ r.color_space = IF run.image.channels = 1 THEN "GRAY" ELSE "BGR"
         /\ r.status = IF run.failed = 0 THEN "success" ELSE "partial_success"
<1>2. PICK t : t = Len(I!Reported(run))
  OBVIOUS
<1>3. t \in Nat
  <2>1. PICK S : S = [name : Painting \cup {"resize", "identity"}, success : BOOLEAN]
    OBVIOUS
  <2>2. Reports \subseteq S
    BY <2>1 DEF Reports
  <2>3. run.stages \in Seq(S)
    BY <2>2
  <2>4. PICK other : other = [i \in DOMAIN I!RegisteredStages |-> [name |-> I!RegisteredStages[i], success |-> TRUE]]
    OBVIOUS
  <2>5. other \in Seq(S)
    <3>1. DOMAIN I!RegisteredStages = 1 .. 1 /\ I!RegisteredStages[1] = "identity"
      BY DEF I!RegisteredStages
    <3>2. [name |-> "identity", success |-> TRUE] \in S
      BY <2>1
    <3>3. PICK id \in S : id = [name |-> "identity", success |-> TRUE]
      BY <3>2
    <3>4. other = [i \in 1 .. 1 |-> id]
      <4>1. \A i \in 1 .. 1 : I!RegisteredStages[i] = "identity"
        BY <3>1
      <4> QED
        BY Zenon, <2>4, <3>1, <3>3, <4>1
    <3> QED
      BY <3>4
  <2>6. I!Reported(run) = run.stages \o other
    BY <2>4 DEF I!Reported
  <2>7. I!Reported(run) \in Seq(S)
    BY <2>3, <2>5, <2>6, ConcatProperties
  <2> QED
    BY <1>2, <2>7, LenProperties
<1>4. I!Response(run) =
        [total       |-> t,
         successful  |-> t - run.failed,
         failed      |-> run.failed,
         width       |-> run.image.width,
         height      |-> run.image.height,
         channels    |-> run.image.channels,
         color_space |-> IF run.image.channels = 1 THEN "GRAY" ELSE "BGR",
         status      |-> IF run.failed = 0 THEN "success" ELSE "partial_success"]
  BY <1>2, Zenon DEF I!Response
<1>5. t = (t - run.failed) + run.failed
  BY <1>3
<1> QED
  BY <1>4, <1>5

\* What a resize makes of an image, when it makes one.
LEMMA ResizedAsAsked ==
  ASSUME NEW image \in Images, NEW i \in Alike(image), None \notin Sides,
         NEW w \in Sides \cup {None}, NEW h \in Sides \cup {None}, w # None \/ h # None,
         NEW made \in I!ResizeImage(i, w, h), made # I!NoImage
  PROVE  /\ made.level = i.level /\ made.channels = i.channels
         /\ w # None => made.width = w
         /\ h # None => made.height = h
<1>1. PICK x, y : made \in I!Resized(i, x, y) /\ (w # None => x = w) /\ (h # None => y = h)
  <2>1. CASE w = None
    <3>1. h # None
      BY <2>1
    <3>2. PICK n \in I!Scaled(i.width, h, i.height) : made \in I!Resized(i, n, h)
      BY <2>1, <3>1 DEF I!ResizeImage
    <3> QED
      BY <2>1, <3>2
  <2>2. CASE h = None
    <3>1. w # None
      BY <2>2
    <3>2. PICK n \in I!Scaled(i.height, w, i.width) : made \in I!Resized(i, w, n)
      BY <2>2, <3>1 DEF I!ResizeImage
    <3> QED
      BY <2>2, <3>2
  <2>3. CASE w # None /\ h # None
    BY <2>3 DEF I!ResizeImage
  <2> QED
    BY <2>1, <2>2, <2>3
<1>2. made = [i EXCEPT !.width = x, !.height = y]
  BY <1>1 DEF I!Resized
<1>3. /\ made.width = x /\ made.height = y
      /\ made.level = i.level /\ made.channels = i.channels
  BY <1>2 DEF Alike
<1> QED
  BY <1>1, <1>3

\* The response tells what was made of the image (execute): its level is what the stages
\* asked for make of it; with "success" it has the size and the colours that were asked
\* for; with "partial_success" it has its own size and only the resize has failed.
THEOREM ResponseTellsTheImage ==
  ASSUME NEW image \in Images, None \notin Sides, NEW request \in I!Requests(Sides),
         NEW run \in I!Execute(request, image)
  PROVE  LET r == I!Response(run)
             asked(target, side) == IF target = None THEN side ELSE target
         IN  /\ r.color_space = IF request.apply_grayscale THEN "GRAY" ELSE "BGR"
             /\ r.total = r.successful + r.failed
             /\ run.image.level = Contrasted(request, Brightened(request, image.level))
             /\ r.status = "success" =>
                  \/ /\ request.resize_width = None /\ request.resize_height = None
                     /\ r.width = image.width /\ r.height = image.height
                  \/ /\ request.resize_width # None \/ request.resize_height # None
                     /\ r.width  = asked(request.resize_width, r.width)
                     /\ r.height = asked(request.resize_height, r.height)
             /\ r.status = "partial_success" =>
                  /\ r.failed = 1 /\ r.width = image.width /\ r.height = image.height
                  /\ \A i \in DOMAIN run.stages :
                       run.stages[i].success <=> run.stages[i].name # "resize"
<1>1. PICK w, h : w = request.resize_width /\ h = request.resize_height
  OBVIOUS
<1>2. w \in Sides \cup {None} /\ h \in Sides \cup {None} /\ request.apply_grayscale \in BOOLEAN
  BY <1>1 DEF I!Requests
<1>3. run \in I!RunStage(Before(request, image), "resize", request)
  BY DEF I!Execute, Before, I!BuiltInStages
<1>4. I!Enabled("resize", request) <=> w # None \/ h # None
  BY <1>1 DEF I!Enabled
<1>5. \A i : I!Operation("resize", request, i) = I!ResizeImage(i, w, h)
  BY <1>1 DEF I!Operation
<1>6. \A before \in Before(request, image) :
        /\ before.stages \in Seq([name : Painting, success : {TRUE}])
        /\ before.image \in Alike(image) /\ before.failed = 0
        /\ before.image.width = image.width /\ before.image.height = image.height
        /\ before.image.channels = IF request.apply_grayscale THEN 1 ELSE 3
        /\ before.image.level = Contrasted(request, Brightened(request, image.level))
  <2>1. ASSUME NEW before \in Before(request, image)
        PROVE  before.image.width = image.width /\ before.image.height = image.height
    BY BeforeTheResize DEF Unresized, Alike
  <2> QED
    BY <2>1, BeforeTheResize DEF Unresized
<1>7. \A stages \in Seq([name : Painting, success : {TRUE}]) :
        /\ stages \in Seq(Reports) /\ Len(stages) \in Nat
        /\ \A i \in 1 .. Len(stages) : stages[i].success = TRUE /\ stages[i].name \in Painting
  <2>1. SUFFICES ASSUME NEW stages \in Seq([name : Painting, success : {TRUE}])
                 PROVE  /\ stages \in Seq(Reports) /\ Len(stages) \in Nat
                        /\ \A i \in 1 .. Len(stages) :
                             stages[i].success = TRUE /\ stages[i].name \in Painting
    OBVIOUS
  <2>2. [name : Painting, success : {TRUE}] \subseteq Reports
    BY DEF Reports
  <2>3. ASSUME NEW i \in 1 .. Len(stages)
        PROVE  stages[i].success = TRUE /\ stages[i].name \in Painting
    <3>1. stages[i] \in [name : Painting, success : {TRUE}]
      BY ElementOfSeq
    <3> QED
      BY <3>1
  <2>4. Len(stages) \in Nat /\ stages \in [1 .. Len(stages) -> [name : Painting, success : {TRUE}]]
    BY LenProperties
  <2>5. stages \in [1 .. Len(stages) -> Reports]
    BY <2>2, <2>4
  <2>6. stages \in Seq(Reports)
    BY <2>4, <2>5
  <2> QED
    BY <2>3, <2>4, <2>6
<1>8. CASE ~I!Enabled("resize", request)
  <2>1. run \in Before(request, image)
    BY <1>3, <1>8 DEF I!RunStage
  <2>2. run.stages \in Seq(Reports) /\ run.failed = 0
    BY <1>6, <1>7, <2>1
  <2> QED
    BY <1>1, <1>2, <1>4, <1>6, <1>8, <2>1, <2>2, ResponseOf
<1>9. CASE I!Enabled("resize", request)
  <2>1. PICK before \in Before(request, image) :
          \E made \in I!ResizeImage(before.image, w, h) : run = I!Ran(before, "resize", made)
    BY <1>3, <1>5, <1>9 DEF I!RunStage
  <2>2. PICK made \in I!ResizeImage(before.image, w, h) : run = I!Ran(before, "resize", made)
    BY <2>1
  <2>3. PICK report : report = [name |-> "resize", success |-> made # I!NoImage]
    OBVIOUS
  <2>4. /\ report \in Reports /\ report.name = "resize"
        /\ report.success <=> made # I!NoImage
    BY <2>3 DEF Reports
  <2>5. run.stages = Append(before.stages, report)
    BY <2>2, <2>3 DEF I!Ran
  <2>6. PICK L \in Nat : L = Len(before.stages)
    BY <1>6, <1>7
  <2>7. /\ run.stages \in Seq(Reports) /\ Len(run.stages) = L + 1
        /\ run.stages[L + 1] = report
        /\ \A i \in 1 .. L : run.stages[i].success = TRUE /\ run.stages[i].name \in Painting
    <3>1. before.stages \in Seq(Reports)
      BY <1>6, <1>7
    <3>2. /\ run.stages \in Seq(Reports) /\ Len(run.stages) = L + 1
          /\ run.stages[L + 1] = report
          /\ \A i \in 1 .. L : run.stages[i] = before.stages[i]
      BY <2>4, <2>5, <2>6, <3>1, AppendProperties
    <3>3. PICK stages \in Seq([name : Painting, success : {TRUE}]) : stages = before.stages
      BY <1>6
    <3>4. \A i \in 1 .. L : stages[i].success = TRUE /\ stages[i].name \in Painting
      BY <1>7, <2>6, <3>3
    <3> QED
      BY <3>2, <3>3, <3>4
  <2>8. CASE made = I!NoImage
    <3>1. run.image = before.image /\ run.failed = 1
      BY <1>6, <2>2, <2>8 DEF I!Ran
    <3>2. \A i \in DOMAIN run.stages : run.stages[i].success <=> run.stages[i].name # "resize"
      <4>1. DOMAIN run.stages = 1 .. L + 1
        BY <2>7, LenProperties
      <4> QED
        BY <4>1, <2>4, <2>7, <2>8, PaintingIsNoResize
    <3> QED
      BY <1>2, <1>6, <2>7, <3>1, <3>2, ResponseOf
  <2>9. CASE made # I!NoImage
    <3>1. run.image = made /\ run.failed = 0
      BY <1>6, <2>2, <2>9 DEF I!Ran
    <3>2. /\ run.image.level = before.image.level /\ run.image.channels = before.image.channels
          /\ w # None => run.image.width = w
          /\ h # None => run.image.height = h
      BY <1>2, <1>4, <1>6, <1>9, <2>9, <3>1, ResizedAsAsked
    <3> QED
      BY <1>1, <1>2, <1>4, <1>6, <1>9, <2>7, <3>1, <3>2, ResponseOf
  <2> QED
    BY <2>8, <2>9
<1> QED
  BY <1>8, <1>9
=============================================================================
