---------------------------- MODULE NetworkProofs ----------------------------
(***************************************************************************)
(* What the datagram service may do to a channel, as facts about the set   *)
(* of packets in it: it adds at most the packet sent, and adds none when   *)
(* one is received or lost.  The protocols' proofs use only these facts.   *)
(***************************************************************************)
EXTENDS Network, TLAPS

\* sendto adds the packet it is given, or nothing.
LEMMA SendContents ==
    ASSUME NEW S, NEW ch \in Seq(S), NEW p \in S
    PROVE  /\ Send(ch, p) \in Seq(S)
           /\ Range(Send(ch, p)) \subseteq Range(ch) \cup {p}
<1>1. Append(ch, p) \in Seq(S)
  OBVIOUS
<1>2. Range(Append(ch, p)) \subseteq Range(ch) \cup {p}
  <2> SUFFICES ASSUME NEW i \in DOMAIN Append(ch, p)
               PROVE  Append(ch, p)[i] \in Range(ch) \cup {p}
    BY DEF Range
  <2>1. i \in 1 .. Len(ch) + 1
    OBVIOUS
  <2>2. CASE i = Len(ch) + 1
    BY <2>2
  <2>3. CASE i # Len(ch) + 1
    <3>1. i \in DOMAIN ch /\ Append(ch, p)[i] = ch[i]
      BY <2>1, <2>3
    <3> QED
      BY <3>1 DEF Range
  <2> QED
    BY <2>2, <2>3
<1> QED
  BY <1>1, <1>2 DEF Send

\* What the concatenation of two sequences holds at each position.
LEMMA ConcatContents ==
    ASSUME NEW S, NEW s \in Seq(S), NEW t \in Seq(S)
    PROVE  /\ s \o t \in Seq(S)
           /\ Range(s \o t) \subseteq Range(s) \cup Range(t)
<1>1. s \o t \in Seq(S) /\ Len(s \o t) = Len(s) + Len(t)
  OBVIOUS
<1>2. ASSUME NEW k \in 1 .. Len(s) + Len(t)
      PROVE  (s \o t)[k] \in Range(s) \cup Range(t)
  <2>0. Len(s) \in Nat /\ Len(t) \in Nat /\ k \in Nat
    OBVIOUS
  <2>1. CASE k <= Len(s)
    <3>1. (s \o t)[k] = s[k] /\ k \in DOMAIN s
      BY <2>0, <2>1
    <3> QED
      BY <3>1 DEF Range
  <2>2. CASE ~(k <= Len(s))
    <3>1. (s \o t)[k] = t[k - Len(s)]
      BY <2>0, <2>2
    <3>2. k - Len(s) \in DOMAIN t
      BY <2>0, <2>2
    <3> QED
      BY <3>1, <3>2 DEF Range
  <2> QED
    BY <2>1, <2>2
<1> QED
  BY <1>1, <1>2 DEF Range

\* Part of a sequence holds what the sequence holds.
LEMMA SubSeqContents ==
    ASSUME NEW S, NEW s \in Seq(S), NEW m \in Nat \ {0}, NEW n \in 0 .. Len(s)
    PROVE  /\ SubSeq(s, m, n) \in Seq(S)
           /\ Range(SubSeq(s, m, n)) \subseteq Range(s)
<1>1. SubSeq(s, m, n) \in Seq(S)
  OBVIOUS
<1>2. ASSUME NEW k \in DOMAIN SubSeq(s, m, n)
      PROVE  SubSeq(s, m, n)[k] \in Range(s)
  <2>1. SubSeq(s, m, n)[k] = s[m + k - 1] /\ m + k - 1 \in DOMAIN s
    OBVIOUS
  <2> QED
    BY <2>1 DEF Range
<1> QED
  BY <1>1, <1>2 DEF Range

\* Taking the packet at i out of a channel leaves packets it held.
LEMMA RemoveAtContents ==
    ASSUME NEW S, NEW ch \in Seq(S), NEW i \in DOMAIN ch
    PROVE  /\ RemoveAt(ch, i) \in Seq(S)
           /\ Range(RemoveAt(ch, i)) \subseteq Range(ch)
<1> DEFINE before == SubSeq(ch, 1, i - 1)
           after  == SubSeq(ch, i + 1, Len(ch))
<1>1. /\ before \in Seq(S) /\ Range(before) \subseteq Range(ch)
      /\ after \in Seq(S) /\ Range(after) \subseteq Range(ch)
  <2>1. i - 1 \in 0 .. Len(ch) /\ i + 1 \in Nat \ {0} /\ Len(ch) \in 0 .. Len(ch)
        /\ 1 \in Nat \ {0}
    OBVIOUS
  <2> QED
    BY <2>1, SubSeqContents
<1>2. RemoveAt(ch, i) = before \o after
  BY DEF RemoveAt
<1> HIDE DEF before, after
<1>3. before \o after \in Seq(S)
      /\ Range(before \o after) \subseteq Range(before) \cup Range(after)
  BY <1>1, ConcatContents
<1> QED
  BY <1>1, <1>2, <1>3

\* recvfrom leaves packets the channel held.
LEMMA ReceiptContents ==
    ASSUME NEW S, NEW ch \in Seq(S), NEW i \in Deliverable(ch),
           NEW rest \in AfterReceipt(ch, i)
    PROVE  /\ rest \in Seq(S)
           /\ Range(rest) \subseteq Range(ch)
           /\ ch[i] \in Range(ch) /\ ch[i] \in S
<1>1. i \in DOMAIN ch
  BY DEF Deliverable
<1>2. rest = RemoveAt(ch, i) \/ rest = ch
  BY DEF AfterReceipt
<1>3. RemoveAt(ch, i) \in Seq(S) /\ Range(RemoveAt(ch, i)) \subseteq Range(ch)
  BY <1>1, RemoveAtContents
<1>4. ch[i] \in Range(ch) /\ ch[i] \in S
  BY <1>1 DEF Range
<1> QED
  BY <1>2, <1>3, <1>4

\* A loss leaves packets the channel held.
LEMMA LossContents ==
    ASSUME NEW S, NEW ch \in Seq(S), NEW rest \in AfterLoss(ch)
    PROVE  rest \in Seq(S) /\ Range(rest) \subseteq Range(ch)
<1>1. PICK i \in DOMAIN ch : rest = RemoveAt(ch, i)
  BY DEF AfterLoss
<1> QED
  BY <1>1, RemoveAtContents

-----------------------------------------------------------------------------
(* The order of a channel.                                                 *)

\* A channel is in order when it holds packets of T only, or none.
LEMMA FollowsTrivially ==
    ASSUME NEW ch, NEW T, Range(ch) \subseteq T \/ Range(ch) \cap T = {}
    PROVE  Follows(ch, T)
BY DEF Follows, Range

\* Sending a packet of T keeps the order.
LEMMA FollowsSend ==
    ASSUME NEW S, NEW ch \in Seq(S), NEW T, Follows(ch, T),
           NEW p \in S, p \in T
    PROVE  Follows(Send(ch, p), T)
<1>1. ASSUME NEW i \in DOMAIN Append(ch, p), NEW j \in DOMAIN Append(ch, p),
             i < j, Append(ch, p)[i] \in T
      PROVE  Append(ch, p)[j] \in T
  <2>1. i \in 1 .. Len(ch) + 1 /\ j \in 1 .. Len(ch) + 1 /\ Len(ch) \in Nat
    BY <1>1
  <2>2. CASE j = Len(ch) + 1
    BY <2>2
  <2>3. CASE j # Len(ch) + 1
    <3>1. i \in DOMAIN ch /\ j \in DOMAIN ch
      BY <1>1, <2>1, <2>3
    <3>2. Append(ch, p)[i] = ch[i] /\ Append(ch, p)[j] = ch[j]
      BY <3>1
    <3> QED
      BY <1>1, <3>1, <3>2 DEF Follows
  <2> QED
    BY <2>2, <2>3
<1> QED
  BY <1>1 DEF Send, Follows

\* What stands where in two sequences put together.
LEMMA ConcatHead ==
    ASSUME NEW S, NEW s \in Seq(S), NEW t \in Seq(S), NEW k \in 1 .. Len(s)
    PROVE  (s \o t)[k] = s[k]
OBVIOUS

\* And behind the first of them.
LEMMA ConcatTail ==
    ASSUME NEW S, NEW s \in Seq(S), NEW t \in Seq(S), NEW m \in 1 .. Len(t)
    PROVE  (s \o t)[Len(s) + m] = t[m]
OBVIOUS

\* Taking a packet out keeps the order of the others.
LEMMA FollowsRemoval ==
    ASSUME NEW S, NEW ch \in Seq(S), NEW T, Follows(ch, T), NEW i \in DOMAIN ch
    PROVE  Follows(RemoveAt(ch, i), T)
<1> DEFINE rest == RemoveAt(ch, i)
<1>1. i \in 1 .. Len(ch) /\ Len(ch) \in Nat
  OBVIOUS
<1>2. rest = SubSeq(ch, 1, i - 1) \o SubSeq(ch, i + 1, Len(ch))
  BY DEF RemoveAt
<1>3. /\ SubSeq(ch, 1, i - 1) \in Seq(S) /\ Len(SubSeq(ch, 1, i - 1)) = i - 1
      /\ SubSeq(ch, i + 1, Len(ch)) \in Seq(S)
      /\ Len(SubSeq(ch, i + 1, Len(ch))) = Len(ch) - i
  BY <1>1
<1>4. DOMAIN rest = 1 .. Len(ch) - 1
  BY <1>1, <1>2, <1>3
<1>5. ASSUME NEW k \in DOMAIN rest
      PROVE  rest[k] = ch[IF k < i THEN k ELSE k + 1]
  <2> DEFINE before == SubSeq(ch, 1, i - 1)
             after  == SubSeq(ch, i + 1, Len(ch))
  <2>0. before \in Seq(S) /\ Len(before) = i - 1
        /\ after \in Seq(S) /\ Len(after) = Len(ch) - i /\ rest = before \o after
    BY <1>2, <1>3
  <2>1. before \in Seq(S) /\ after \in Seq(S)
    BY <2>0, Zenon
  <2>2. CASE k < i
    <3>1. k \in 1 .. i - 1
      BY <1>1, <1>4, <2>2
    <3>2. before[k] = ch[k]
      BY <1>1, <3>1
    <3> HIDE DEF before, after
    <3>3. (before \o after)[k] = before[k]
      <4>1. k \in 1 .. Len(before)
        BY <2>0, <3>1
      <4> QED
        BY <2>1, <4>1, ConcatHead, Zenon
    <3>4. rest[k] = ch[k]
      BY <2>0, <3>2, <3>3, Zenon
    <3> QED
      BY <2>2, <3>4
  <2>3. CASE ~(k < i)
    <3>1. PICK m \in 1 .. Len(ch) - i : k = (i - 1) + m
      <4>1. k - (i - 1) \in 1 .. Len(ch) - i /\ k = (i - 1) + (k - (i - 1))
        BY <1>1, <1>4, <2>3
      <4> QED
        BY <4>1
    <3>2. after[m] = ch[(i + 1) + m - 1]
      BY <1>1
    <3> HIDE DEF before, after
    <3>3. (before \o after)[Len(before) + m] = after[m]
      <4>1. m \in 1 .. Len(after)
        BY <2>0
      <4> QED
        BY <2>1, <4>1, ConcatTail, Zenon
    <3>4. Len(before) + m = k /\ (i + 1) + m - 1 = k + 1
      <4>1. Len(before) = i - 1 /\ i \in Int /\ m \in Int
        BY <1>1, <2>0
      <4> QED
        BY <3>1, <4>1
    <3>5. rest[k] = ch[k + 1]
      BY <2>0, <3>2, <3>3, <3>4, Zenon
    <3> QED
      BY <2>3, <3>5
  <2> QED
    BY <2>2, <2>3
<1> HIDE DEF rest
<1>6. ASSUME NEW k \in DOMAIN rest, NEW m \in DOMAIN rest, k < m, rest[k] \in T
      PROVE  rest[m] \in T
  <2> DEFINE kk == IF k < i THEN k ELSE k + 1
             mm == IF m < i THEN m ELSE m + 1
  <2>1. kk \in DOMAIN ch /\ mm \in DOMAIN ch /\ kk < mm
    BY <1>1, <1>4, <1>6
  <2>2. rest[k] = ch[kk] /\ rest[m] = ch[mm]
    BY <1>5
  <2> QED
    BY <1>6, <2>1, <2>2 DEF Follows
<1> QED
  BY <1>6 DEF Follows, rest

\* So do a reception and a loss.
LEMMA FollowsReceipt ==
    ASSUME NEW S, NEW ch \in Seq(S), NEW T, Follows(ch, T),
           NEW i \in Deliverable(ch), NEW rest \in AfterReceipt(ch, i)
    PROVE  Follows(rest, T)
<1>1. i \in DOMAIN ch
  BY DEF Deliverable
<1> QED
  BY <1>1, FollowsRemoval DEF AfterReceipt

\* A loss, too.
LEMMA FollowsLoss ==
    ASSUME NEW S, NEW ch \in Seq(S), NEW T, Follows(ch, T), NEW rest \in AfterLoss(ch)
    PROVE  Follows(rest, T)
<1>1. PICK i \in DOMAIN ch : rest = RemoveAt(ch, i)
  BY DEF AfterLoss
<1> QED
  BY <1>1, FollowsRemoval

\* On a path that keeps the order, a packet of T is received only when
\* nothing else is left.
LEMMA FollowsHead ==
    ASSUME NEW S, NEW ch \in Seq(S), NEW T, Follows(ch, T),
           "reordering" \notin NetFaults,
           NEW i \in Deliverable(ch), ch[i] \in T
    PROVE  Range(ch) \subseteq T
<1>1. i = 1 /\ i \in DOMAIN ch
  BY DEF Deliverable
<1>2. ASSUME NEW j \in DOMAIN ch
      PROVE  ch[j] \in T
  BY <1>1 DEF Follows
<1> QED
  BY <1>2 DEF Range
===============================================================================
