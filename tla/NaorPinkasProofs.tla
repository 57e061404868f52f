--------------------------- MODULE NaorPinkasProofs ---------------------------
(***************************************************************************)
(* Proofs about the Naor-Pinkas OT: for any group, any lengths and bits    *)
(* and however far one program is ahead of the other, the receiver opens   *)
(* the messages of the same call that its bits choose, and the channel is  *)
(* empty when both have returned.                                          *)
(***************************************************************************)
EXTENDS NaorPinkas, SequenceTheorems, TLAPS

(*------------------------------- the group ------------------------------*)
Exponents == 0..(Order - 1)

\* A number and its exponent differ by a multiple of the order.
LEMMA ModDiffers ==
    ASSUME NEW y \in Int
    PROVE  /\ y % Order \in Exponents
           /\ \E m \in Int : y % Order = y + Order * m
<1>1. Order \in Nat /\ Order > 0
    BY GroupAssumption
<1>2. y % Order \in Exponents
    BY <1>1 DEF Exponents
<1>3. y % Order = y + Order * (-(y \div Order)) /\ y \div Order \in Int
    BY <1>1
<1> QED BY <1>2, <1>3

\* Two exponents that differ by a multiple of the order are the same.
LEMMA ModUnique ==
    ASSUME NEW x \in Exponents, NEW y \in Exponents, NEW m \in Int, x = y + Order * m
    PROVE  x = y
<1>1. Order \in Nat /\ Order > 0
    BY GroupAssumption
<1>2. CASE m >= 1
    <2>1. Order * m >= Order
        BY <1>1, <1>2
    <2> QED BY <1>1, <2>1 DEF Exponents
<1>3. CASE m <= -1
    <2>1. Order * m <= -Order
        BY <1>1, <1>3
    <2> QED BY <1>1, <2>1 DEF Exponents
<1>4. CASE m = 0
    BY <1>1, <1>4 DEF Exponents
<1> QED BY <1>2, <1>3, <1>4

LEMMA Closed ==
    ASSUME NEW p \in Int, NEW x \in Int
    PROVE  /\ MulGen(x) \in Exponents /\ Mul(p, x) \in Exponents
           /\ Add(p, x) \in Exponents /\ Inv(p) \in Exponents
<1>1. Order \in Int
    BY GroupAssumption
<1>2. p * x \in Int /\ p + x \in Int /\ Order - p \in Int
    BY <1>1
<1> QED BY <1>2, ModDiffers DEF MulGen, Mul, Add, Inv

\* What the operations compute, up to a multiple of the order
LEMMA OperationsDiffer ==
    ASSUME NEW p \in Int, NEW x \in Int
    PROVE  /\ \E m \in Int : Mul(p, x) = p * x + Order * m
           /\ \E m \in Int : Add(p, x) = p + x + Order * m
           /\ \E m \in Int : Inv(p) = Order - p + Order * m
<1> DEFINE P == p * x
           A == p + x
           I == Order - p
<1>1. P \in Int /\ A \in Int /\ I \in Int
    BY GroupAssumption
<1>2. Mul(p, x) = P % Order /\ Add(p, x) = A % Order /\ Inv(p) = I % Order
    BY DEF Mul, Add, Inv
<1> HIDE DEF P, A, I
<1>3. /\ \E m \in Int : P % Order = P + Order * m
      /\ \E m \in Int : A % Order = A + Order * m
      /\ \E m \in Int : I % Order = I + Order * m
    BY <1>1, ModDiffers
<1> QED BY <1>2, <1>3 DEF P, A, I

LEMMA ExponentsAreInt == Exponents \subseteq Int /\ 0 \in Exponents
BY GroupAssumption DEF Exponents

LEMMA MulGenOfExponent ==
    ASSUME NEW x \in Exponents
    PROVE  MulGen(x) = x
BY GroupAssumption DEF Exponents, MulGen

\* With pk0 = k * G the key of m[0] is that of the receiver, k * gr.
LEMMA KeyOfM0 ==
    ASSUME NEW k \in Exponents, NEW r \in Exponents
    PROVE  Mul(MulGen(k), r) = Mul(MulGen(r), k)
<1>1. k * r = r * k
    BY ExponentsAreInt
<1> QED BY <1>1, MulGenOfExponent DEF Mul

\* With pk0 = C - k * G the key of m[1], r * C - r * pk0, is k * gr.
LEMMA KeyOfM1 ==
    ASSUME NEW k \in Exponents, NEW r \in Exponents, NEW d \in Exponents
    PROVE  LET pk0 == Add(MulGen(d), Inv(MulGen(k)))
           IN  Pk1(r, d, Mul(pk0, r)) = Mul(MulGen(r), k)
<1> DEFINE pk0 == Add(MulGen(d), Inv(MulGen(k)))
           key0 == Mul(pk0, r)
           key1 == Pk1(r, d, key0)
<1>1. Order \in Int /\ k \in Int /\ r \in Int /\ d \in Int
    BY GroupAssumption, ExponentsAreInt
<1>2. PICK m1 \in Int : pk0 = d - k + Order * m1
    <2>1. PICK a \in Int : Inv(k) = Order - k + Order * a
        BY <1>1, OperationsDiffer
    <2>2. Inv(k) \in Int
        BY <1>1, Closed, ExponentsAreInt
    <2>3. PICK b \in Int : Add(d, Inv(k)) = d + Inv(k) + Order * b
        BY <1>1, <2>2, MulGenOfExponent, OperationsDiffer
    <2>4. pk0 = d - k + Order * (1 + a + b)
        BY <1>1, <2>1, <2>3, MulGenOfExponent
    <2> QED BY <2>4
<1>3. PICK m2 \in Int : key0 = pk0 * r + Order * m2
    <2>1. pk0 \in Int
        BY <1>1, <1>2
    <2> HIDE DEF pk0
    <2> QED BY <1>1, <2>1, OperationsDiffer
<1>4. pk0 \in Int /\ key0 \in Int /\ key1 \in Exponents
    <2>1. pk0 \in Int
        BY <1>1, <1>2
    <2>2. key0 \in Int
        BY <1>1, <1>3, <2>1
    <2>3. MulGen(Mul(r, d)) \in Int /\ Inv(key0) \in Int
        BY <1>1, <2>2, Closed, ExponentsAreInt
    <2> QED BY <2>1, <2>2, <2>3, Closed DEF Pk1
<1>5. PICK m3 \in Int : key1 = r * d - key0 + Order * m3
    <2>1. Mul(r, d) \in Exponents
        BY <1>1, Closed
    <2>2. MulGen(Mul(r, d)) = Mul(r, d)
        BY <2>1, MulGenOfExponent
    <2>3. PICK a \in Int : Mul(r, d) = r * d + Order * a
        BY <1>1, OperationsDiffer
    <2>4. PICK b \in Int : Inv(key0) = Order - key0 + Order * b
        BY <1>1, <1>4, OperationsDiffer
    <2>5. Mul(r, d) \in Int /\ Inv(key0) \in Int
        BY <1>1, <1>4, <2>1, Closed, ExponentsAreInt
    <2>6. PICK c \in Int : key1 = Mul(r, d) + Inv(key0) + Order * c
        BY <2>2, <2>5, OperationsDiffer DEF Pk1
    <2>7. key1 = r * d - key0 + Order * (a + 1 + b + c)
        BY <1>1, <1>4, <2>3, <2>4, <2>6
    <2> QED BY <2>7
<1>6. PICK m4 \in Int : Mul(r, k) = r * k + Order * m4
    BY <1>1, OperationsDiffer
<1>7. key1 = Mul(r, k) + Order * (m3 - m2 - m1 * r - m4)
    <2>1. pk0 * r = d * r - k * r + Order * (m1 * r)
        BY <1>1, <1>2
    <2> QED BY <1>1, <1>3, <1>5, <1>6, <2>1
<1>8. Mul(r, k) \in Exponents
    BY <1>1, Closed
<1>9. m3 - m2 - m1 * r - m4 \in Int
    BY <1>1
<1>10. key1 = Mul(r, k)
    BY <1>4, <1>7, <1>8, <1>9, ModUnique
<1> QED BY <1>10, MulGenOfExponent

(*---------------------------- inductive invariant -----------------------*)
\* What has been sent to p, flushed or not, and p has not read
Stream(p) == net[p] \o pend[Peer(p)]
ToBob == Stream("BOB")
ToAlice == Stream("ALICE")

Texts == Nat \X Nat \X BOOLEAN
Item == [key : Exponents, text : Texts]
Msgs == Exponents \cup (Item \X Item)
Choices == UNION {[1..n -> BOOLEAN] : n \in Lengths}

ChannelOK == pend \in [Party -> Seq(Msgs)] /\ net \in [Party -> Seq(Msgs)]
Types ==
    /\ lens \in Seq(Lengths)
    /\ alice \in [pc : {"idle", "keys", "items"}, cnt : 0..Len(lens), d : Exponents,
                  r : Seq(Scalars), pk0 : Seq(Exponents)]
    /\ bob \in [pc : {"idle", "keys", "gr", "items"}, k : Seq(Scalars), gr : Seq(Exponents),
                asked : Seq(Choices), got : Seq(Seq(Texts))]
    /\ ChannelOK

\* Draws and bits are as many as the call is long, and a call of BOB's is finished.
Calls ==
    /\ alice.pc # "idle" => alice.cnt > 0 /\ Len(alice.r) = ALen
    /\ Len(bob.asked) <= Len(lens)
    /\ \A n \in 1..Len(bob.asked) : bob.asked[n] \in [1..lens[n] -> BOOLEAN]
    /\ IF bob.pc = "idle" THEN Len(bob.got) = Len(bob.asked)
       ELSE Len(bob.asked) = Len(bob.got) + 1 /\ Len(bob.k) = BLen

\* ALICE has finished BOB's call, and may have begun the one after it.
Ahead == /\ alice.pc = "keys"
         /\ alice.cnt = Len(bob.asked) + 1
Done == \/ alice.pc = "idle" /\ alice.cnt = Len(bob.asked)
        \/ Ahead

\* ALICE's and BOB's places in the same call of BOB's
At(a, b) == alice.pc = a /\ bob.pc = b /\ alice.cnt = Len(bob.asked)

\* After the first n of what is on the way to BOB there is C of the call ahead, if any.
OnlyAhead(n) ==
    /\ Len(ToBob) = n + (IF Ahead THEN 1 ELSE 0)
    /\ Ahead => ToBob[n + 1] = MulGen(alice.d)

C == MulGen(alice.d)

\* The side of a pair that BOB's bit chooses is hidden with a key that BOB has.
Opens(rec, pair, i, key) ==
    LET n == Len(rec.asked)
        m == pair[IF rec.asked[n][i] THEN 2 ELSE 1]
    IN  m.key = key /\ m.text = <<n, i, rec.asked[n][i]>>

(* The places of the two programs, and what is on the way between them.  ALICE
   needs BOB's points, so she is one call ahead at most. *)
NotOffered ==
    /\ alice.pc = "idle" /\ bob.pc = "keys" /\ Len(bob.asked) = alice.cnt + 1
    /\ ToBob = <<>>
CSent == At("keys", "keys") /\ ToBob = <<C>>
PointsSent == At("keys", "gr") /\ ToBob = <<>> /\ ToAlice = Points(C)
GrSent ==
    /\ At("items", "gr") /\ alice.pk0 = Points(C)
    /\ ToBob = [i \in 1..BLen |-> MulGen(alice.r[i])]
GrRead ==
    /\ At("items", "items") /\ alice.pk0 = Points(C)
    /\ ToBob = <<>>
    /\ \A i \in 1..BLen : bob.gr[i] = Mul(MulGen(alice.r[i]), bob.k[i])
ItemsAfterGr ==
    /\ Done /\ bob.pc = "gr" /\ OnlyAhead(2 * BLen)
    /\ \A i \in 1..BLen : /\ ToBob[i] \in Exponents
                          /\ Opens(bob, ToBob[BLen + i], i, Mul(ToBob[i], bob.k[i]))
ItemsSent ==
    /\ Done /\ bob.pc = "items" /\ OnlyAhead(BLen)
    /\ \A i \in 1..BLen : Opens(bob, ToBob[i], i, bob.gr[i])
Returned == Done /\ bob.pc = "idle" /\ OnlyAhead(0)

Places ==
    /\ \/ NotOffered \/ CSent \/ PointsSent \/ GrSent \/ GrRead
       \/ ItemsAfterGr \/ ItemsSent \/ Returned
    /\ ~PointsSent => ToAlice = <<>>

IndInv == Types /\ Calls /\ Places

(*------------------------------- the channel ----------------------------*)
LEMMA Peers ==
    /\ Party = {"ALICE", "BOB"} /\ "ALICE" # "BOB"
    /\ Peer("ALICE") = "BOB" /\ Peer("BOB") = "ALICE"
BY DEF Party, Peer

\* What a sequence is made of when another is appended to it
LEMMA Joined ==
    ASSUME NEW T, NEW s \in Seq(T), NEW t \in Seq(T)
    PROVE  /\ s \o t \in Seq(T) /\ Len(s \o t) = Len(s) + Len(t)
           /\ \A i \in 1..Len(s) : (s \o t)[i] = s[i]
           /\ \A i \in 1..Len(t) : (s \o t)[Len(s) + i] = t[i]
<1>1. Len(s) \in Nat /\ Len(t) \in Nat
    OBVIOUS
<1> QED BY <1>1, ConcatProperties

LEMMA JoinedEmpty ==
    ASSUME NEW T, NEW s \in Seq(T), NEW t \in Seq(T), Len(s \o t) = 0
    PROVE  s = <<>> /\ t = <<>>
<1>1. Len(s) \in Nat /\ Len(t) \in Nat
    OBVIOUS
<1>2. Len(s) = 0 /\ Len(t) = 0
    BY <1>1, Joined
<1> QED BY <1>2

\* t is s without its first n.
IsSuffix(t, s, n) ==
    /\ Len(t) = Len(s) - n
    /\ \A i \in 1..(Len(s) - n) : t[i] = s[n + i]

LEMMA Offset ==
    ASSUME NEW ls \in Nat, NEW lt \in Nat, NEW lu \in Nat, NEW n \in Int, NEW i \in Int,
           lt = ls - n, i > lt, i <= ls + lu - n
    PROVE  i - lt \in 1..lu /\ lt + (i - lt) = i /\ ls + (i - lt) = n + i
OBVIOUS

LEMMA SuffixOf ==
    ASSUME NEW T, NEW s \in Seq(T), NEW n \in 0..Len(s)
    PROVE  LET t == SubSeq(s, n + 1, Len(s))
           IN  t \in Seq(T) /\ IsSuffix(t, s, n)
<1> DEFINE t == SubSeq(s, n + 1, Len(s))
           l == Len(s)
<1>1. l \in Nat /\ n \in Nat /\ n <= l
    OBVIOUS
<1>2. n + 1 \in Int /\ l \in Int /\ \A i \in (n + 1)..l : s[i] \in T
    BY <1>1
<1>3. /\ t \in Seq(T) /\ Len(t) = (IF n + 1 <= l THEN l - (n + 1) + 1 ELSE 0)
      /\ \A i \in 1..(l - (n + 1) + 1) : t[i] = s[n + 1 + i - 1]
    BY <1>2, SubSeqProperties, SMTT(30)
<1> HIDE DEF t, l
<1>4. Len(t) = l - n
    <2>1. Len(t) = (IF n + 1 <= l THEN l - (n + 1) + 1 ELSE 0)
        BY <1>3
    <2> QED BY <1>1, <2>1
<1>5. l - (n + 1) + 1 = l - n /\ \A i \in 1..(l - n) : n + 1 + i - 1 = n + i
    BY <1>1
<1>6. \A i \in 1..(l - n) : t[i] = s[n + i]
    BY <1>3, <1>5
<1> QED BY <1>3, <1>4, <1>6 DEF IsSuffix, t, l

\* When s loses its first n to be t, so does s followed by u.
LEMMA JoinedSuffix ==
    ASSUME NEW T, NEW s \in Seq(T), NEW u \in Seq(T), NEW n \in 0..Len(s),
           NEW t \in Seq(T)
    PROVE  IsSuffix(t, s, n) => /\ IsSuffix(t \o u, s \o u, n) /\ Len(s \o u) >= n
                                /\ \A i \in 1..n : s[i] = (s \o u)[i]
<1> DEFINE old == s \o u
           new == t \o u
<1>1. Len(s) \in Nat /\ Len(u) \in Nat /\ Len(t) \in Nat
    OBVIOUS
<1>2. /\ Len(old) = Len(s) + Len(u)
      /\ \A i \in 1..Len(s) : old[i] = s[i]
      /\ \A i \in 1..Len(u) : old[Len(s) + i] = u[i]
    BY Joined
<1>3. /\ Len(new) = Len(t) + Len(u)
      /\ \A i \in 1..Len(t) : new[i] = t[i]
      /\ \A i \in 1..Len(u) : new[Len(t) + i] = u[i]
    BY Joined
<1> HIDE DEF old, new
<1> HAVE IsSuffix(t, s, n)
<1>0. Len(t) = Len(s) - n /\ \A i \in 1..(Len(s) - n) : t[i] = s[n + i]
    BY DEF IsSuffix
<1>4. ASSUME NEW i \in 1..(Len(old) - n)
      PROVE  new[i] = old[n + i]
    <2>1. CASE i <= Len(t)
        <3>1. i \in 1..Len(t) /\ n + i \in 1..Len(s)
            BY <1>0, <1>1, <2>1
        <3> QED BY <1>0, <1>2, <1>3, <3>1
    <2>2. CASE i > Len(t)
        <3>1. i <= Len(s) + Len(u) - n /\ Len(t) = Len(s) - n
            BY <1>0, <1>2
        <3>2. /\ i - Len(t) \in 1..Len(u) /\ Len(t) + (i - Len(t)) = i
              /\ Len(s) + (i - Len(t)) = n + i
            BY <1>1, <2>2, <3>1, Offset
        <3>3. new[i] = u[i - Len(t)]
            BY <1>3, <3>2
        <3>4. old[n + i] = u[i - Len(t)]
            BY <1>2, <3>2
        <3> QED BY <3>3, <3>4
    <2> QED BY <1>1, <2>1, <2>2
<1>5. Len(new) = Len(old) - n
    BY <1>0, <1>1, <1>2, <1>3
<1>6. Len(old) >= n /\ \A i \in 1..n : s[i] = old[i]
    BY <1>1, <1>2
<1> QED BY <1>4, <1>5, <1>6 DEF IsSuffix, old, new

LEMMA StreamType ==
    ASSUME ChannelOK, NEW p \in Party
    PROVE  Stream(p) \in Seq(Msgs)
BY Peers DEF ChannelOK, Stream

\* What is sent or written is appended to the stream of the peer.
LEMMA SendAppends ==
    ASSUME ChannelOK, NEW p \in Party, NEW ms \in Seq(Msgs), Send(p, ms)
    PROVE  ChannelOK' /\ Stream(Peer(p))' = Stream(Peer(p)) \o ms /\ Stream(p)' = Stream(p)
<1> DEFINE q == Peer(p)
<1>1. q \in Party /\ q # p /\ Peer(q) = p
    BY Peers
<1>2. /\ net[p] \in Seq(Msgs) /\ net[q] \in Seq(Msgs)
      /\ pend[p] \in Seq(Msgs) /\ pend[q] \in Seq(Msgs)
    BY <1>1 DEF ChannelOK
<1>3. /\ net' = [net EXCEPT ![q] = net[q] \o pend[p] \o ms]
      /\ pend' = [pend EXCEPT ![p] = <<>>]
    BY DEF Send
<1> HIDE DEF q
<1>4. ChannelOK'
    <2>1. net[q] \o pend[p] \o ms \in Seq(Msgs) /\ <<>> \in Seq(Msgs)
        BY <1>2
    <2> QED BY <1>3, <2>1 DEF ChannelOK
<1>5. /\ net'[q] = net[q] \o pend[p] \o ms /\ net'[p] = net[p]
      /\ pend'[p] = <<>> /\ pend'[q] = pend[q]
    BY <1>1, <1>3 DEF ChannelOK
<1>6. (net[q] \o pend[p] \o ms) \o <<>> = (net[q] \o pend[p]) \o ms
    BY <1>2
<1> QED BY <1>1, <1>4, <1>5, <1>6 DEF Stream, q

LEMMA WriteAppends ==
    ASSUME ChannelOK, NEW p \in Party, NEW ms \in Seq(Msgs), Write(p, ms)
    PROVE  ChannelOK' /\ Stream(Peer(p))' = Stream(Peer(p)) \o ms /\ Stream(p)' = Stream(p)
<1> DEFINE q == Peer(p)
<1>1. q \in Party /\ q # p /\ Peer(q) = p
    BY Peers
<1>2. net[q] \in Seq(Msgs) /\ pend[p] \in Seq(Msgs)
    BY <1>1 DEF ChannelOK
<1>3. pend' = [pend EXCEPT ![p] = pend[p] \o ms] /\ net' = net
    BY DEF Write
<1> HIDE DEF q
<1>4. ChannelOK' /\ pend'[p] = pend[p] \o ms /\ pend'[q] = pend[q]
    <2>1. pend[p] \o ms \in Seq(Msgs)
        BY <1>2
    <2> QED BY <1>1, <1>3, <2>1 DEF ChannelOK
<1>5. net[q] \o (pend[p] \o ms) = (net[q] \o pend[p]) \o ms
    <2> DEFINE s == net[q]
               t == pend[p]
    <2>1. s \in Seq(Msgs) /\ t \in Seq(Msgs)
        BY <1>2
    <2> HIDE DEF s, t
    <2>2. (s \o t) \o ms = s \o (t \o ms)
        BY <2>1, ConcatAssociative
    <2> QED BY <2>2 DEF s, t
<1> QED BY <1>1, <1>3, <1>4, <1>5 DEF Stream, q

\* Stream(p) loses its first n, which are those that p has read.
Drops(p, n) == IsSuffix(Stream(p)', Stream(p), n)

\* What is ready to be read is at the head of the stream.
LEMMA ReadyIsHead ==
    ASSUME ChannelOK, NEW p \in Party, NEW n \in Nat, Ready(p, n)
    PROVE  Len(Stream(p)) >= n /\ \A i \in 1..n : net[p][i] = Stream(p)[i]
<1> DEFINE s == net[p]
           u == pend[Peer(p)]
<1>1. s \in Seq(Msgs) /\ u \in Seq(Msgs) /\ Len(s) >= n
    BY Peers DEF ChannelOK, Ready
<1>2. Stream(p) = s \o u
    BY DEF Stream
<1> HIDE DEF s, u
<1>3. Len(s) \in Nat /\ Len(u) \in Nat
    BY <1>1
<1>4. Len(s \o u) = Len(s) + Len(u) /\ \A i \in 1..Len(s) : (s \o u)[i] = s[i]
    BY <1>1, Joined
<1> QED BY <1>1, <1>2, <1>3, <1>4 DEF s

\* p reads n of its stream, and sends or writes ms.
Reads(p, n, ms) ==
    /\ Ready(p, n)
    /\ \/ /\ net' = [Take(p, n) EXCEPT ![Peer(p)] = @ \o ms]
          /\ pend' = pend
       \/ /\ net' = Take(p, n)
          /\ pend' = [pend EXCEPT ![p] = ms]

LEMMA TakeDrops ==
    ASSUME ChannelOK, NEW p \in Party, NEW n \in Nat, NEW ms \in Seq(Msgs), Reads(p, n, ms)
    PROVE  /\ ChannelOK' /\ Stream(p)' \in Seq(Msgs)
           /\ Drops(p, n) /\ Stream(Peer(p))' = Stream(Peer(p)) \o ms
           /\ Len(Stream(p)) >= n /\ Taken(p, n) = [i \in 1..n |-> Stream(p)[i]]
           /\ \A i \in 1..n : net[p][i] = Stream(p)[i]
<1> DEFINE q == Peer(p)
           rest == SubSeq(net[p], n + 1, Len(net[p]))
<1>1. q \in Party /\ q # p /\ Peer(q) = p
    BY Peers
<1>2. /\ net[p] \in Seq(Msgs) /\ net[q] \in Seq(Msgs)
      /\ pend[p] = <<>> /\ pend[q] \in Seq(Msgs) /\ Len(net[p]) >= n
    BY <1>1 DEF ChannelOK, Reads, Ready
<1>3. rest \in Seq(Msgs) /\ IsSuffix(rest, net[p], n)
    <2>1. n \in 0..Len(net[p])
        BY <1>2
    <2> QED BY <1>2, <2>1, SuffixOf
<1> HIDE DEF q, rest
<1>4. ChannelOK' /\ net'[p] = rest /\ pend'[q] = pend[q] /\ Stream(q)' = Stream(q) \o ms
    <2>1. Stream(q) \o ms = net[q] \o ms
        BY <1>1, <1>2 DEF Stream
    <2>2. net[q] \o ms \in Seq(Msgs)
        BY <1>2
    <2>3. CASE net' = [Take(p, n) EXCEPT ![q] = @ \o ms] /\ UNCHANGED pend
        <3>1. net' = [net EXCEPT ![p] = rest, ![q] = net[q] \o ms]
            BY <1>1, <2>3 DEF Take, ChannelOK, rest
        <3>2. net'[p] = rest /\ net'[q] = net[q] \o ms
            BY <1>1, <3>1 DEF ChannelOK
        <3>4. net' \in [Party -> Seq(Msgs)]
            BY <1>3, <2>2, <3>1 DEF ChannelOK
        <3>5. ChannelOK'
            BY <2>3, <3>4 DEF ChannelOK
        <3>3. net'[q] \o <<>> = net[q] \o ms
            BY <2>2, <3>2
        <3> QED BY <1>1, <1>2, <2>1, <2>3, <3>2, <3>3, <3>5 DEF Stream
    <2>4. CASE net' = Take(p, n) /\ pend' = [pend EXCEPT ![p] = ms]
        <3>1. net' = [net EXCEPT ![p] = rest]
            BY <2>4 DEF Take, rest
        <3>2. /\ ChannelOK' /\ net'[p] = rest /\ net'[q] = net[q]
              /\ pend'[p] = ms /\ pend'[q] = pend[q]
            BY <1>1, <1>3, <2>4, <3>1 DEF ChannelOK
        <3> QED BY <1>1, <2>1, <3>2 DEF Stream
    <2> QED BY <2>3, <2>4 DEF Reads, q
<1>5. Stream(p) = net[p] \o pend[q] /\ Stream(p)' = rest \o pend[q]
    BY <1>4 DEF Stream, q
<1>6. /\ Drops(p, n) /\ Stream(p)' \in Seq(Msgs) /\ Len(Stream(p)) >= n
      /\ \A i \in 1..n : net[p][i] = Stream(p)[i]
    <2> DEFINE s == net[p]
               u == pend[q]
    <2>1. s \in Seq(Msgs) /\ u \in Seq(Msgs) /\ n \in 0..Len(s)
        BY <1>2
    <2>2. IsSuffix(rest, s, n)
        BY <1>3
    <2>3. Stream(p) = s \o u /\ Stream(p)' = rest \o u
        BY <1>5
    <2> HIDE DEF s, u
    <2>4. /\ IsSuffix(rest \o u, s \o u, n) /\ rest \o u \in Seq(Msgs)
          /\ Len(s \o u) >= n /\ \A i \in 1..n : s[i] = (s \o u)[i]
        BY <1>3, <2>1, <2>2, JoinedSuffix, Joined
    <2> QED BY <2>3, <2>4 DEF Drops, s
<1>7. Taken(p, n) = [i \in 1..n |-> Stream(p)[i]]
    <2>1. Taken(p, n) = [i \in 1..n |-> net[p][i]]
        BY <1>2 DEF Taken
    <2> QED BY <1>6, <2>1
<1> QED BY <1>4, <1>6, <1>7 DEF q

(*---------------------------- ALICE's actions ---------------------------*)
LEMMA LengthsArePositive ==
    ASSUME NEW n \in Lengths
    PROVE  n \in Nat /\ n >= 1
BY CallsAssumption

\* What is drawn for n indices, or computed for them, is a sequence.
LEMMA Vector ==
    ASSUME NEW T, NEW n \in Nat, NEW f \in [1..n -> T]
    PROVE  f \in Seq(T) /\ Len(f) = n
BY SeqDef

LEMMA NextLengthFacts ==
    ASSUME lens \in Seq(Lengths), NEW cnt \in 0..Len(lens), NEW n \in Lengths,
           NextLength(cnt, n)
    PROVE  /\ lens' \in Seq(Lengths) /\ Len(lens') >= Len(lens)
           /\ cnt + 1 \in 1..Len(lens') /\ lens'[cnt + 1] = n
           /\ \A j \in 1..Len(lens) : lens'[j] = lens[j]
<1>1. CASE cnt < Len(lens) /\ n = lens[cnt + 1] /\ UNCHANGED lens
    BY <1>1
<1>2. CASE ~(cnt < Len(lens)) /\ lens' = Append(lens, n)
    <2>1. cnt = Len(lens) /\ Len(lens) \in Nat
        BY <1>2
    <2> QED BY <1>2, <2>1, AppendProperties
<1> QED BY <1>1, <1>2 DEF NextLength

\* Lengths of earlier calls do not change, so what BOB does is what it was.
LEMMA BobStays ==
    ASSUME Types, Calls, bob' = bob, Len(lens') >= Len(lens), lens' \in Seq(Lengths),
           \A j \in 1..Len(lens) : lens'[j] = lens[j]
    PROVE  /\ \A n \in 1..Len(bob.asked) : bob.asked[n] \in [1..lens'[n] -> BOOLEAN]
           /\ Len(bob.asked) <= Len(lens')
           /\ bob.pc # "idle" => BLen' = BLen
<1>1. Len(bob.asked) \in Nat /\ Len(bob.asked) <= Len(lens) /\ Len(lens) \in Nat
    BY DEF Types, Calls
<1>2. ASSUME bob.pc # "idle" PROVE Len(bob.asked) \in 1..Len(lens)
    <2>1. Len(bob.got) \in Nat /\ Len(bob.asked) = Len(bob.got) + 1
        BY <1>2 DEF Types, Calls
    <2> QED BY <1>1, <2>1
<1>3. Len(lens') \in Nat
    OBVIOUS
<1>4. Len(bob.asked) <= Len(lens')
    BY <1>1, <1>3
<1>5. ASSUME NEW n \in 1..Len(bob.asked) PROVE bob.asked[n] \in [1..lens'[n] -> BOOLEAN]
    <2>1. n \in 1..Len(lens)
        BY <1>1
    <2>2. lens'[n] = lens[n] /\ bob.asked[n] \in [1..lens[n] -> BOOLEAN]
        BY <2>1 DEF Calls
    <2> QED BY <2>2
<1>6. bob.pc # "idle" => BLen' = BLen
    BY <1>2 DEF BLen
<1> QED BY <1>4, <1>5, <1>6

\* BOB is in a call of a length that he has drawn and asked as much for.
LEMMA BobsCall ==
    ASSUME Types, Calls, bob.pc # "idle"
    PROVE  /\ BLen \in Lengths /\ Len(bob.k) = BLen
           /\ bob.asked[Len(bob.asked)] \in [1..BLen -> BOOLEAN]
           /\ Len(bob.asked) \in 1..Len(lens) /\ Len(bob.asked) = Len(bob.got) + 1
<1>1. Len(bob.got) \in Nat /\ Len(bob.asked) = Len(bob.got) + 1 /\ Len(bob.asked) <= Len(lens)
    BY DEF Types, Calls
<1>2. Len(bob.asked) \in 1..Len(lens)
    BY <1>1 DEF Types
<1> QED BY <1>1, <1>2 DEF Types, Calls, BLen

LEMMA AliceCallStep ==
    ASSUME IndInv, AliceCall
    PROVE  IndInv'
<1>1. PICK n \in Lengths : \E d \in Scalars, r \in Drawn(n) :
          /\ alice.pc = "idle" /\ NextLength(alice.cnt, n)
          /\ Send("ALICE", <<MulGen(d)>>)
          /\ alice' = [pc |-> "keys", cnt |-> alice.cnt + 1, d |-> d, r |-> r, pk0 |-> <<>>]
          /\ UNCHANGED bob
    BY DEF AliceCall
<1>2. PICK d \in Scalars, r \in Drawn(n) :
          /\ alice.pc = "idle" /\ NextLength(alice.cnt, n)
          /\ Send("ALICE", <<MulGen(d)>>)
          /\ alice' = [pc |-> "keys", cnt |-> alice.cnt + 1, d |-> d, r |-> r, pk0 |-> <<>>]
          /\ UNCHANGED bob
    BY <1>1
<1>3. d \in Exponents /\ MulGen(d) \in Exponents
    <2>1. d \in Exponents
        BY CallsAssumption DEF Exponents
    <2> QED BY <2>1, MulGenOfExponent
<1>4. r \in Seq(Scalars) /\ Len(r) = n
    BY LengthsArePositive, Vector DEF Drawn
<1>5. /\ lens' \in Seq(Lengths) /\ Len(lens') >= Len(lens)
      /\ alice.cnt + 1 \in 1..Len(lens') /\ lens'[alice.cnt + 1] = n
      /\ \A j \in 1..Len(lens) : lens'[j] = lens[j]
    <2>1. alice.cnt \in 0..Len(lens) /\ lens \in Seq(Lengths)
        BY DEF IndInv, Types
    <2> QED BY <1>2, <2>1, NextLengthFacts
<1>6. /\ ChannelOK' /\ ToBob' = ToBob \o <<MulGen(d)>> /\ ToAlice' = ToAlice
    <2>1. <<MulGen(d)>> \in Seq(Msgs) /\ ChannelOK
        BY <1>3 DEF IndInv, Types, Msgs
    <2> QED BY <1>2, <2>1, SendAppends, Peers DEF ToBob, ToAlice
<1>7. /\ alice'.pc = "keys" /\ alice'.cnt = alice.cnt + 1 /\ alice'.d = d /\ alice'.r = r
      /\ bob' = bob
    BY <1>2
<1>8. Types'
    <2>1. alice' \in [pc : {"idle", "keys", "items"}, cnt : 0..Len(lens'), d : Exponents,
                      r : Seq(Scalars), pk0 : Seq(Exponents)]
        BY <1>2, <1>3, <1>4, <1>5
    <2> QED BY <1>5, <1>6, <1>7, <2>1 DEF IndInv, Types
<1>9. /\ bob.pc # "idle" => BLen' = BLen
      /\ Len(bob.asked) <= Len(lens')
      /\ \A m \in 1..Len(bob.asked) : bob.asked[m] \in [1..lens'[m] -> BOOLEAN]
    BY <1>5, <1>7, BobStays DEF IndInv
<1>10. Calls'
    <2>1. alice'.cnt > 0 /\ Len(alice'.r) = ALen'
        BY <1>4, <1>5, <1>7 DEF ALen, IndInv, Types
    <2> QED BY <1>7, <1>9, <2>1 DEF IndInv, Calls
<1>11. alice.cnt \in Nat /\ Len(bob.asked) \in Nat /\ ToBob \in Seq(Msgs)
    BY StreamType, Peers DEF IndInv, Types, ToBob
<1>12. Len(ToBob') = Len(ToBob) + 1 /\ ToBob'[Len(ToBob) + 1] = C'
       /\ \A i \in 1..Len(ToBob) : ToBob'[i] = ToBob[i]
    <2>1. C' = MulGen(d)
        BY <1>7 DEF C
    <2> QED BY <1>6, <1>11, <2>1
<1>13. Places'
    <2>1. ~PointsSent /\ ~CSent /\ ~GrSent /\ ~GrRead /\ ~Ahead
        BY <1>2 DEF PointsSent, CSent, GrSent, GrRead, At, Ahead
    <2>2. ToAlice' = <<>>
        BY <1>6, <2>1 DEF IndInv, Places
    <2>3. CASE NotOffered
        <3>1. ToBob' = <<C'>>
            BY <1>6, <1>7, <2>3 DEF NotOffered, C
        <3>2. CSent'
            BY <1>7, <1>11, <2>3, <3>1 DEF NotOffered, CSent, At
        <3> QED BY <2>2, <3>2 DEF Places
    <2>4. CASE ItemsAfterGr
        <3>1. Done' /\ Ahead'
            BY <1>7, <2>1, <2>4 DEF ItemsAfterGr, Done, Ahead
        <3>2. BLen' = BLen /\ BLen \in Nat
            BY <1>9, <2>4, BobsCall, LengthsArePositive DEF IndInv, ItemsAfterGr
        <3>3. Len(ToBob) = 2 * BLen
            BY <2>1, <2>4, <3>2 DEF ItemsAfterGr, OnlyAhead
        <3>4. OnlyAhead(2 * BLen)'
            BY <1>12, <3>1, <3>2, <3>3 DEF OnlyAhead, C
        <3>5. \A i \in 1..BLen : ToBob'[i] = ToBob[i] /\ ToBob'[BLen + i] = ToBob[BLen + i]
            BY <1>12, <3>2, <3>3
        <3>6. \A i \in 1..BLen : /\ ToBob'[i] \in Exponents
                                 /\ Opens(bob, ToBob'[BLen + i], i, Mul(ToBob'[i], bob.k[i]))
            BY <2>4, <3>5 DEF ItemsAfterGr
        <3>7. ItemsAfterGr'
            BY <1>7, <2>4, <3>1, <3>2, <3>4, <3>6 DEF ItemsAfterGr
        <3> QED BY <2>2, <3>7 DEF Places
    <2>5. CASE ItemsSent
        <3>1. Done' /\ Ahead'
            BY <1>7, <2>1, <2>5 DEF ItemsSent, Done, Ahead
        <3>2. BLen' = BLen /\ BLen \in Nat
            BY <1>9, <2>5, BobsCall, LengthsArePositive DEF IndInv, ItemsSent
        <3>3. Len(ToBob) = BLen
            BY <2>1, <2>5, <3>2 DEF ItemsSent, OnlyAhead
        <3>4. OnlyAhead(BLen)'
            BY <1>12, <3>1, <3>2, <3>3 DEF OnlyAhead, C
        <3>5. \A i \in 1..BLen : ToBob'[i] = ToBob[i]
            BY <1>12, <3>3
        <3>6. \A i \in 1..BLen : Opens(bob, ToBob'[i], i, bob.gr[i])
            BY <2>5, <3>5 DEF ItemsSent
        <3>7. ItemsSent'
            BY <1>7, <2>5, <3>1, <3>2, <3>4, <3>6 DEF ItemsSent
        <3> QED BY <2>2, <3>7 DEF Places
    <2>6. CASE Returned
        <3>1. Done' /\ Ahead'
            BY <1>7, <2>1, <2>6 DEF Returned, Done, Ahead
        <3>2. Len(ToBob) = 0
            BY <2>1, <2>6 DEF Returned, OnlyAhead
        <3>3. OnlyAhead(0)'
            BY <1>12, <3>1, <3>2 DEF OnlyAhead, C
        <3>4. Returned'
            BY <1>7, <2>6, <3>1, <3>3 DEF Returned
        <3> QED BY <2>2, <3>4 DEF Places
    <2> QED BY <2>1, <2>3, <2>4, <2>5, <2>6 DEF IndInv, Places
<1> QED BY <1>8, <1>10, <1>13 DEF IndInv

\* ALICE has drawn as much for her call as it is long.
LEMMA AlicesCall ==
    ASSUME Types, Calls, alice.pc # "idle"
    PROVE  /\ ALen \in Lengths /\ Len(alice.r) = ALen
           /\ \A i \in 1..ALen : alice.r[i] \in Scalars /\ alice.r[i] \in Exponents
<1>1. alice.cnt \in 1..Len(lens) /\ Len(alice.r) = ALen /\ alice.r \in Seq(Scalars)
    BY DEF Types, Calls
<1>2. ALen \in Lengths
    BY <1>1 DEF Types, ALen
<1>3. \A i \in 1..ALen : alice.r[i] \in Scalars
    BY <1>1
<1>4. Scalars \subseteq Exponents
    BY CallsAssumption DEF Exponents
<1> QED BY <1>1, <1>2, <1>3, <1>4

\* BOB's points are points.
LEMMA PointsType ==
    ASSUME Types, Calls, bob.pc # "idle"
    PROVE  Points(C) \in Seq(Exponents) /\ Len(Points(C)) = BLen
<1>1. BLen \in Nat /\ Len(bob.k) = BLen /\ bob.k \in Seq(Scalars) /\ alice.d \in Exponents
    BY BobsCall, LengthsArePositive DEF Types
<1>2. Scalars \subseteq Exponents
    BY CallsAssumption DEF Exponents
<1>3. ASSUME NEW i \in 1..BLen PROVE Pk0(C, i) \in Exponents
    <2>1. bob.k[i] \in Exponents
        BY <1>1, <1>2
    <2>2. MulGen(bob.k[i]) \in Exponents /\ C \in Exponents
        BY <1>1, <2>1, MulGenOfExponent DEF C
    <2>3. Inv(MulGen(bob.k[i])) \in Exponents
        BY <2>2, Closed, ExponentsAreInt
    <2>4. Add(C, Inv(MulGen(bob.k[i]))) \in Exponents
        BY <2>2, <2>3, Closed, ExponentsAreInt
    <2> QED BY <2>2, <2>4 DEF Pk0
<1>4. Points(C) \in [1..BLen -> Exponents]
    BY <1>3 DEF Points
<1> QED BY <1>1, <1>4, Vector

LEMMA AliceKeysStep ==
    ASSUME IndInv, AliceKeys
    PROVE  IndInv'
<1> DEFINE gr == [i \in 1..ALen |-> MulGen(alice.r[i])]
<1>1. /\ alice.pc = "keys" /\ Ready("ALICE", ALen)
      /\ net' = [Take("ALICE", ALen) EXCEPT !["BOB"] = @ \o gr]
      /\ alice' = [alice EXCEPT !.pc = "items", !.pk0 = Taken("ALICE", ALen)]
      /\ lens' = lens /\ bob' = bob /\ pend' = pend
    BY DEF AliceKeys
<1>2. /\ ALen \in Nat /\ ALen >= 1 /\ Len(alice.r) = ALen
      /\ \A i \in 1..ALen : alice.r[i] \in Exponents
    BY <1>1, AlicesCall, LengthsArePositive DEF IndInv
<1>3. gr \in [1..ALen -> Exponents] /\ gr \in Seq(Msgs)
    <2>1. gr \in [1..ALen -> Exponents]
        BY <1>2, MulGenOfExponent
    <2>2. gr \in [1..ALen -> Msgs]
        BY <2>1 DEF Msgs
    <2> QED BY <1>2, <2>1, <2>2, Vector
<1> HIDE DEF gr
<1>4. /\ ChannelOK' /\ ToAlice' \in Seq(Msgs)
      /\ Len(ToAlice) >= ALen /\ Len(ToAlice') = Len(ToAlice) - ALen
      /\ Taken("ALICE", ALen) = [i \in 1..ALen |-> ToAlice[i]]
      /\ ToBob' = ToBob \o gr
    <2>1. ChannelOK /\ "ALICE" \in Party /\ Peer("ALICE") = "BOB"
        BY Peers DEF IndInv, Types
    <2>2. Reads("ALICE", ALen, gr)
        BY <1>1, <2>1 DEF Reads
    <2>3. /\ ChannelOK' /\ Stream("ALICE")' \in Seq(Msgs) /\ Drops("ALICE", ALen)
          /\ Stream(Peer("ALICE"))' = Stream(Peer("ALICE")) \o gr
          /\ Len(Stream("ALICE")) >= ALen
          /\ Taken("ALICE", ALen) = [i \in 1..ALen |-> Stream("ALICE")[i]]
        BY <1>2, <1>3, <2>1, <2>2, TakeDrops
    <2> QED BY <2>1, <2>3 DEF ToAlice, ToBob, Drops, IsSuffix
<1>5. PointsSent
    <2>1. ToAlice # <<>>
        BY <1>2, <1>4
    <2> QED BY <2>1 DEF IndInv, Places
<1>6. /\ ALen = BLen /\ bob.pc = "gr" /\ alice.cnt = Len(bob.asked)
      /\ ToBob = <<>> /\ ToAlice = Points(C)
    BY <1>5 DEF PointsSent, At, ALen, BLen
<1>7. alice'.pk0 = Points(C) /\ alice'.pk0 \in Seq(Exponents)
    <2>1. ALen = Len(ToAlice)
        BY <1>2, <1>6 DEF Points
    <2>2. Points(C) = [i \in 1..ALen |-> Pk0(C, i)]
        BY <1>6 DEF Points
    <2>3. [i \in 1..ALen |-> ToAlice[i]] = Points(C)
        BY <1>6, <2>2
    <2>4. Points(C) \in Seq(Exponents)
        BY <1>6, PointsType DEF IndInv
    <2>5. alice'.pk0 = Taken("ALICE", ALen)
        BY <1>1 DEF IndInv, Types
    <2> QED BY <1>4, <2>3, <2>4, <2>5
<1>8. /\ alice'.pc = "items" /\ alice'.cnt = alice.cnt /\ alice'.d = alice.d
      /\ alice'.r = alice.r
    BY <1>1 DEF IndInv, Types
<1>9. Types'
    <2>1. alice' \in [pc : {"idle", "keys", "items"}, cnt : 0..Len(lens), d : Exponents,
                      r : Seq(Scalars), pk0 : Seq(Exponents)]
        BY <1>1, <1>7 DEF IndInv, Types
    <2> QED BY <1>1, <1>4, <2>1 DEF IndInv, Types
<1>10. Calls'
    BY <1>1, <1>8 DEF IndInv, Calls, ALen, BLen
<1>11. ToAlice' = <<>>
    <2>1. Len(ToAlice') = 0
        BY <1>2, <1>4, <1>6 DEF Points
    <2> QED BY <1>4, <2>1
<1>12. ToBob' = gr
    BY <1>3, <1>4, <1>6
<1>13. GrSent'
    <2>1. Points(C)' = Points(C)
        BY <1>1, <1>8 DEF Points, Pk0, Bit, BLen, C
    <2>2. At("items", "gr")'
        BY <1>1, <1>6, <1>8 DEF At
    <2>3. ToBob' = [i \in 1..BLen' |-> MulGen(alice'.r[i])]
        BY <1>1, <1>6, <1>8, <1>12 DEF gr, BLen
    <2> QED BY <1>7, <2>1, <2>2, <2>3 DEF GrSent
<1> QED BY <1>9, <1>10, <1>11, <1>13 DEF IndInv, Places

\* The pair of index i that ALICE writes
PairOf(i) ==
    <<[key |-> Mul(alice.pk0[i], alice.r[i]), text |-> <<alice.cnt, i, FALSE>>],
      [key |-> Pk1(alice.r[i], alice.d, Mul(alice.pk0[i], alice.r[i])),
       text |-> <<alice.cnt, i, TRUE>>]>>

\* BOB opens the side that his bit chooses, with k * gr, and that side only names it.
LEMMA PairIsOpened ==
    ASSUME Types, Calls, alice.pc = "items", bob.pc # "idle", alice.cnt = Len(bob.asked),
           alice.pk0 = Points(C), NEW i \in 1..BLen
    PROVE  /\ PairOf(i) \in Msgs
           /\ Opens(bob, PairOf(i), i, Mul(MulGen(alice.r[i]), bob.k[i]))
<1> DEFINE k == bob.k[i]
           r == alice.r[i]
           d == alice.d
           pk0 == Pk0(C, i)
           bit == bob.asked[Len(bob.asked)][i]
<1>1. /\ BLen \in Nat /\ Len(bob.k) = BLen /\ bob.k \in Seq(Scalars)
      /\ bit \in BOOLEAN /\ ALen = BLen
    BY BobsCall, LengthsArePositive DEF Types, ALen, BLen
<1>2. k \in Exponents /\ r \in Exponents /\ d \in Exponents
    <2>1. Scalars \subseteq Exponents
        BY CallsAssumption DEF Exponents
    <2>2. k \in Scalars
        BY <1>1
    <2>3. r \in Exponents
        BY <1>1, AlicesCall
    <2> QED BY <2>1, <2>2, <2>3 DEF Types
<1>3. alice.pk0[i] = pk0
    BY DEF Points
<1>4. pk0 = IF bit THEN Add(MulGen(d), Inv(MulGen(k))) ELSE MulGen(k)
    BY DEF Pk0, Bit, C
<1> DEFINE key0 == Mul(pk0, r)
           key1 == Pk1(r, d, key0)
           ours == Mul(MulGen(r), k)
<1>5. key0 \in Exponents /\ key1 \in Exponents
    <2>1. pk0 \in Int
        <3>1. MulGen(d) \in Int /\ MulGen(k) \in Int
            BY <1>2, MulGenOfExponent, ExponentsAreInt
        <3>2. Inv(MulGen(k)) \in Int
            BY <3>1, Closed, ExponentsAreInt
        <3>3. Add(MulGen(d), Inv(MulGen(k))) \in Int
            BY <3>1, <3>2, Closed, ExponentsAreInt
        <3> QED BY <1>4, <3>1, <3>3
    <2> HIDE DEF pk0
    <2>2. key0 \in Exponents
        BY <1>2, <2>1, Closed, ExponentsAreInt
    <2>3. Mul(r, d) \in Int
        BY <1>2, Closed, ExponentsAreInt
    <2>4. MulGen(Mul(r, d)) \in Int /\ Inv(key0) \in Int
        BY <2>2, <2>3, Closed, ExponentsAreInt
    <2> QED BY <2>2, <2>4, Closed DEF Pk1
<1> HIDE DEF k, r, d, pk0, bit, key0, key1, ours
<1>6. (IF bit THEN key1 ELSE key0) = ours
    <2>1. CASE bit
        <3>1. key1 = ours
            BY <1>2, <1>4, <2>1, KeyOfM1 DEF key0, key1, ours
        <3> QED BY <2>1, <3>1
    <2>2. CASE ~bit
        <3>1. key0 = ours
            BY <1>2, <1>4, <2>2, KeyOfM0 DEF key0, ours
        <3> QED BY <2>2, <3>1
    <2> QED BY <2>1, <2>2
<1> DEFINE m0 == [key |-> key0, text |-> <<alice.cnt, i, FALSE>>]
           m1 == [key |-> key1, text |-> <<alice.cnt, i, TRUE>>]
<1>7. PairOf(i) = <<m0, m1>>
    BY <1>3 DEF PairOf, key0, key1, r, d
<1>8. m0 \in Item /\ m1 \in Item
    <2>1. alice.cnt \in Nat /\ i \in Nat
        BY <1>1 DEF Types
    <2> QED BY <1>5, <2>1 DEF Item, Texts
<1> HIDE DEF m0, m1
<1>9. PairOf(i)[IF bit THEN 2 ELSE 1] = IF bit THEN m1 ELSE m0
    BY <1>1, <1>7
<1>10. (IF bit THEN m1 ELSE m0).key = ours
    BY <1>1, <1>6 DEF m0, m1
<1>11. (IF bit THEN m1 ELSE m0).text = <<alice.cnt, i, bit>>
    BY <1>1 DEF m0, m1
<1>12. Opens(bob, PairOf(i), i, ours)
    BY <1>9, <1>10, <1>11 DEF Opens, bit
<1>13. PairOf(i) \in Msgs
    BY <1>7, <1>8 DEF Msgs
<1> QED BY <1>12, <1>13 DEF ours, r, k

LEMMA AliceItemsStep ==
    ASSUME IndInv, AliceItems
    PROVE  IndInv'
<1> DEFINE pairs == [i \in 1..ALen |-> PairOf(i)]
<1>1. /\ alice.pc = "items" /\ Write("ALICE", pairs)
      /\ alice' = [alice EXCEPT !.pc = "idle", !.d = 0, !.r = <<>>, !.pk0 = <<>>]
      /\ lens' = lens /\ bob' = bob
    BY DEF AliceItems, PairOf
<1>2. GrSent \/ GrRead
    BY <1>1 DEF IndInv, Places, NotOffered, CSent, PointsSent, At, ItemsAfterGr, ItemsSent,
                Returned, Done, Ahead
<1>3. /\ alice.cnt = Len(bob.asked) /\ bob.pc # "idle" /\ alice.pk0 = Points(C)
      /\ ToAlice = <<>> /\ ~PointsSent
    BY <1>2 DEF IndInv, Places, GrSent, GrRead, PointsSent, At
<1>4. ALen = BLen /\ BLen \in Nat
    BY <1>3, BobsCall, LengthsArePositive DEF IndInv, ALen, BLen
<1>5. \A i \in 1..BLen : /\ PairOf(i) \in Msgs
                          /\ Opens(bob, PairOf(i), i, Mul(MulGen(alice.r[i]), bob.k[i]))
    BY <1>1, <1>3, PairIsOpened DEF IndInv
<1>6. pairs \in Seq(Msgs) /\ Len(pairs) = BLen /\ \A i \in 1..BLen : pairs[i] = PairOf(i)
    <2>1. pairs \in [1..BLen -> Msgs]
        BY <1>4, <1>5
    <2> QED BY <1>4, <2>1, Vector
<1> HIDE DEF pairs
<1>7. ChannelOK' /\ ToBob' = ToBob \o pairs /\ ToAlice' = <<>> /\ ToBob \in Seq(Msgs)
    <2>1. ChannelOK
        BY DEF IndInv, Types
    <2> QED BY <1>1, <1>3, <1>6, <2>1, WriteAppends, StreamType, Peers DEF ToBob, ToAlice
<1>8. alice'.pc = "idle" /\ alice'.cnt = alice.cnt
    BY <1>1 DEF IndInv, Types
<1>9. Types'
    <2>1. 0 \in Exponents /\ <<>> \in Seq(Scalars) /\ <<>> \in Seq(Exponents)
        BY ExponentsAreInt
    <2>2. alice' \in [pc : {"idle", "keys", "items"}, cnt : 0..Len(lens), d : Exponents,
                      r : Seq(Scalars), pk0 : Seq(Exponents)]
        BY <1>1, <2>1 DEF IndInv, Types
    <2> QED BY <1>1, <1>7, <2>2 DEF IndInv, Types
<1>10. Calls'
    BY <1>1, <1>8 DEF IndInv, Calls, BLen
<1>11. Done' /\ ~Ahead' /\ BLen' = BLen
    BY <1>1, <1>3, <1>8 DEF Done, Ahead, BLen
<1>12. /\ Len(ToBob') = Len(ToBob) + BLen
       /\ \A i \in 1..Len(ToBob) : ToBob'[i] = ToBob[i]
       /\ \A i \in 1..BLen : ToBob'[Len(ToBob) + i] = PairOf(i)
    <2>1. /\ Len(ToBob \o pairs) = Len(ToBob) + Len(pairs)
          /\ \A i \in 1..Len(ToBob) : (ToBob \o pairs)[i] = ToBob[i]
          /\ \A i \in 1..Len(pairs) : (ToBob \o pairs)[Len(ToBob) + i] = pairs[i]
        <3>1. ToBob \in Seq(Msgs) /\ pairs \in Seq(Msgs)
            BY <1>6, <1>7
        <3> QED BY <3>1, Joined
    <2>2. ToBob' = ToBob \o pairs
        BY <1>7
    <2>3. Len(ToBob') = Len(ToBob) + BLen
        BY <1>6, <2>1, <2>2
    <2>4. \A i \in 1..Len(ToBob) : ToBob'[i] = ToBob[i]
        BY <2>1, <2>2
    <2>5. \A i \in 1..BLen : ToBob'[Len(ToBob) + i] = PairOf(i)
        BY <1>6, <2>1, <2>2
    <2> QED BY <2>3, <2>4, <2>5
<1>13. CASE GrSent
    <2>1. Len(ToBob) = BLen /\ \A i \in 1..BLen : ToBob[i] = MulGen(alice.r[i])
        BY <1>4, <1>13 DEF GrSent
    <2>2. OnlyAhead(2 * BLen)'
        BY <1>4, <1>11, <1>12, <2>1 DEF OnlyAhead
    <2>3. \A i \in 1..BLen : /\ ToBob'[i] \in Exponents
                             /\ Opens(bob, ToBob'[BLen + i], i, Mul(ToBob'[i], bob.k[i]))
        <3>1. \A i \in 1..BLen : MulGen(alice.r[i]) \in Exponents
            BY <1>1, <1>4, AlicesCall, MulGenOfExponent DEF IndInv
        <3> QED BY <1>5, <1>12, <2>1, <3>1
    <2>4. ItemsAfterGr'
        BY <1>1, <1>11, <1>13, <2>2, <2>3 DEF ItemsAfterGr, GrSent, At
    <2> QED BY <1>7, <1>9, <1>10, <2>4 DEF IndInv, Places
<1>14. CASE GrRead
    <2>1. Len(ToBob) = 0
        BY <1>14 DEF GrRead
    <2>2. OnlyAhead(BLen)'
        BY <1>4, <1>11, <1>12, <2>1 DEF OnlyAhead
    <2>3. \A i \in 1..BLen : ToBob'[i] = PairOf(i)
        BY <1>4, <1>12, <2>1
    <2>4. \A i \in 1..BLen : Opens(bob, ToBob'[i], i, bob.gr[i])
        BY <1>5, <1>14, <2>3 DEF GrRead
    <2>5. ItemsSent'
        BY <1>1, <1>11, <1>14, <2>2, <2>4 DEF ItemsSent, GrRead, At
    <2> QED BY <1>7, <1>9, <1>10, <2>5 DEF IndInv, Places
<1> QED BY <1>2, <1>13, <1>14

(*----------------------------- BOB's actions ----------------------------*)
BobType == [pc : {"idle", "keys", "gr", "items"}, k : Seq(Scalars), gr : Seq(Exponents),
            asked : Seq(Choices), got : Seq(Seq(Texts))]

LEMMA BobCallStep ==
    ASSUME IndInv, BobCall
    PROVE  IndInv'
<1>1. PICK n \in Lengths : \E k \in Drawn(n), b \in [1..n -> BOOLEAN] :
          /\ bob.pc = "idle" /\ NextLength(Len(bob.asked), n)
          /\ bob' = [bob EXCEPT !.pc = "keys", !.k = k, !.asked = Append(@, b)]
          /\ Silent /\ UNCHANGED alice
    BY DEF BobCall
<1>2. PICK k \in Drawn(n), b \in [1..n -> BOOLEAN] :
          /\ bob.pc = "idle" /\ NextLength(Len(bob.asked), n)
          /\ bob' = [bob EXCEPT !.pc = "keys", !.k = k, !.asked = Append(@, b)]
          /\ Silent /\ UNCHANGED alice
    BY <1>1
<1> DEFINE m == Len(bob.asked)
<1>3. /\ m \in Nat /\ m \in 0..Len(lens) /\ lens \in Seq(Lengths) /\ bob.asked \in Seq(Choices)
      /\ Len(bob.got) = m
    BY <1>2 DEF IndInv, Types, Calls
<1>4. /\ lens' \in Seq(Lengths) /\ Len(lens') >= Len(lens) /\ m + 1 \in 1..Len(lens')
      /\ lens'[m + 1] = n /\ \A j \in 1..Len(lens) : lens'[j] = lens[j]
    BY <1>2, <1>3, NextLengthFacts
<1>5. k \in Seq(Scalars) /\ Len(k) = n /\ b \in Choices
    BY LengthsArePositive, Vector DEF Drawn, Choices
<1>6. /\ bob'.pc = "keys" /\ bob'.k = k /\ bob'.asked = Append(bob.asked, b)
      /\ bob'.got = bob.got /\ alice' = alice /\ pend' = pend /\ net' = net
    BY <1>2 DEF IndInv, Types, Silent
<1>7. /\ Len(bob'.asked) = m + 1 /\ bob'.asked[m + 1] = b
      /\ \A j \in 1..m : bob'.asked[j] = bob.asked[j]
    BY <1>3, <1>5, <1>6, AppendProperties
<1>8. Types'
    <2>1. bob' \in BobType
        <3>1. Append(bob.asked, b) \in Seq(Choices)
            BY <1>3, <1>5
        <3> QED BY <1>2, <1>5, <3>1 DEF IndInv, Types, BobType
    <2>2. alice \in [pc : {"idle", "keys", "items"}, cnt : 0..Len(lens'), d : Exponents,
                     r : Seq(Scalars), pk0 : Seq(Exponents)]
        BY <1>4 DEF IndInv, Types
    <2> QED BY <1>4, <1>6, <2>1, <2>2 DEF IndInv, Types, BobType, ChannelOK
<1>9. Calls'
    <2>1. alice'.pc # "idle" => alice'.cnt > 0 /\ Len(alice'.r) = ALen'
        <3>1. alice.pc # "idle" => alice.cnt \in 1..Len(lens)
            BY DEF IndInv, Types, Calls
        <3>2. alice.pc # "idle" => lens'[alice.cnt] = lens[alice.cnt]
            BY <1>4, <3>1
        <3> QED BY <1>6, <3>2 DEF IndInv, Calls, ALen
    <2>2. Len(bob'.asked) <= Len(lens')
        BY <1>4, <1>7
    <2>3. ASSUME NEW j \in 1..(m + 1) PROVE bob'.asked[j] \in [1..lens'[j] -> BOOLEAN]
        <3>1. CASE j = m + 1
            BY <1>4, <1>7, <3>1
        <3>2. CASE j \in 1..m
            <4>1. bob.asked[j] \in [1..lens[j] -> BOOLEAN]
                BY <3>2 DEF IndInv, Calls
            <4>2. j \in 1..Len(lens)
                BY <1>3, <3>2
            <4>3. lens'[j] = lens[j] /\ bob'.asked[j] = bob.asked[j]
                BY <1>4, <1>7, <3>2, <4>2
            <4> QED BY <4>1, <4>3
        <3>3. j = m + 1 \/ j \in 1..m
            BY <1>3
        <3> QED BY <3>1, <3>2, <3>3
    <2>4. BLen' = n
        BY <1>4, <1>7 DEF BLen
    <2> QED BY <1>3, <1>5, <1>6, <1>7, <2>1, <2>2, <2>3, <2>4 DEF Calls
<1>10. Returned
    BY <1>2 DEF IndInv, Places, NotOffered, CSent, PointsSent, GrSent, GrRead, At,
                ItemsAfterGr, ItemsSent
<1>11. ToBob' = ToBob /\ ToAlice' = <<>> /\ ToBob \in Seq(Msgs)
    <2>1. ToAlice = <<>>
        BY <1>10 DEF IndInv, Places, PointsSent, At, Returned
    <2> QED BY <1>6, <2>1, StreamType, Peers DEF IndInv, Types, ToBob, ToAlice, Stream
<1>12. CASE Ahead
    <2>1. Len(ToBob) = 1 /\ ToBob[1] = C
        BY <1>10, <1>12 DEF Returned, OnlyAhead, C
    <2>2. ToBob = <<C>>
        BY <1>11, <2>1
    <2>3. CSent'
        BY <1>6, <1>7, <1>11, <1>12, <2>2 DEF CSent, At, Ahead, C
    <2> QED BY <1>8, <1>9, <1>11, <2>3 DEF IndInv, Places
<1>13. CASE ~Ahead
    <2>1. Len(ToBob) = 0 /\ alice.pc = "idle" /\ alice.cnt = m
        BY <1>10, <1>13 DEF Returned, OnlyAhead, Done
    <2>2. ToBob = <<>>
        BY <1>11, <2>1
    <2>3. NotOffered'
        BY <1>6, <1>7, <1>11, <2>1, <2>2 DEF NotOffered
    <2> QED BY <1>8, <1>9, <1>11, <2>3 DEF IndInv, Places
<1> QED BY <1>12, <1>13

LEMMA BobKeysStep ==
    ASSUME IndInv, BobKeys
    PROVE  IndInv'
<1>1. /\ bob.pc = "keys" /\ Ready("BOB", 1) /\ net' = Take("BOB", 1)
      /\ pend' = [pend EXCEPT !["BOB"] = Points(net["BOB"][1])]
      /\ bob' = [bob EXCEPT !.pc = "gr"]
      /\ lens' = lens /\ alice' = alice
    BY DEF BobKeys
<1>2. CSent
    <2>1. ToBob # <<>>
        <3>1. Len(ToBob) >= 1
            BY <1>1, ReadyIsHead, Peers DEF IndInv, Types, ToBob
        <3> QED BY <3>1
    <2> QED BY <1>1, <2>1 DEF IndInv, Places, NotOffered, PointsSent, GrSent, GrRead, At,
                              ItemsAfterGr, ItemsSent, Returned
<1>3. alice.pc = "keys" /\ alice.cnt = Len(bob.asked) /\ ToBob = <<C>> /\ ToAlice = <<>>
    BY <1>2 DEF IndInv, Places, CSent, PointsSent, At
<1>4. Points(C) \in Seq(Msgs) /\ net["BOB"][1] = C
    <2>1. Points(C) \in Seq(Exponents)
        BY <1>1, PointsType DEF IndInv
    <2>2. Points(C) \in Seq(Msgs)
        BY <2>1 DEF Msgs
    <2>3. net["BOB"][1] = ToBob[1]
        <3>1. \A i \in 1..1 : net["BOB"][i] = Stream("BOB")[i]
            BY <1>1, ReadyIsHead, Peers DEF IndInv, Types
        <3> QED BY <3>1 DEF ToBob
    <2> QED BY <1>3, <2>2, <2>3
<1>5. /\ ChannelOK' /\ Len(ToBob') = 0 /\ ToBob' \in Seq(Msgs)
      /\ ToAlice' = ToAlice \o Points(C)
    <2>1. ChannelOK /\ "BOB" \in Party /\ Peer("BOB") = "ALICE"
        BY Peers DEF IndInv, Types
    <2>2. Reads("BOB", 1, Points(C))
        BY <1>1, <1>4 DEF Reads
    <2>3. /\ ChannelOK' /\ Stream("BOB")' \in Seq(Msgs) /\ Drops("BOB", 1)
          /\ Stream(Peer("BOB"))' = Stream(Peer("BOB")) \o Points(C)
        BY <1>4, <2>1, <2>2, TakeDrops
    <2>4. Len(ToBob') = Len(ToBob) - 1
        BY <2>3 DEF ToBob, Drops, IsSuffix
    <2> QED BY <1>3, <2>1, <2>3, <2>4 DEF ToAlice, ToBob
<1>6. ToBob' = <<>> /\ ToAlice' = Points(C)
    BY <1>3, <1>4, <1>5
<1>7. /\ bob'.pc = "gr" /\ bob'.k = bob.k /\ bob'.asked = bob.asked /\ bob'.got = bob.got
      /\ bob' \in BobType
    BY <1>1 DEF IndInv, Types, BobType
<1>8. Types'
    BY <1>1, <1>5, <1>7 DEF IndInv, Types, BobType
<1>9. Calls'
    BY <1>1, <1>7 DEF IndInv, Calls, ALen, BLen
<1>10. PointsSent'
    <2>1. Points(C)' = Points(C)
        BY <1>1, <1>7 DEF Points, Pk0, Bit, BLen, C
    <2> QED BY <1>1, <1>3, <1>6, <1>7, <2>1 DEF PointsSent, At
<1> QED BY <1>8, <1>9, <1>10 DEF IndInv, Places

LEMMA BobGrStep ==
    ASSUME IndInv, BobGr
    PROVE  IndInv'
<1> DEFINE gr == [i \in 1..BLen |-> Mul(net["BOB"][i], bob.k[i])]
<1>1. /\ bob.pc = "gr" /\ Ready("BOB", BLen) /\ net' = Take("BOB", BLen)
      /\ bob' = [bob EXCEPT !.pc = "items", !.gr = gr]
      /\ lens' = lens /\ alice' = alice /\ pend' = pend
    BY DEF BobGr
<1>2. BLen \in Nat /\ BLen >= 1 /\ Len(bob.k) = BLen /\ bob.k \in Seq(Scalars)
    BY <1>1, BobsCall, LengthsArePositive DEF IndInv, Types
<1>3. Len(ToBob) >= BLen /\ \A i \in 1..BLen : net["BOB"][i] = ToBob[i]
    BY <1>1, <1>2, ReadyIsHead, Peers DEF IndInv, Types, ToBob
<1>4. GrSent \/ ItemsAfterGr
    <2>1. ToBob # <<>>
        BY <1>2, <1>3
    <2> QED BY <1>1, <2>1 DEF IndInv, Places, NotOffered, CSent, PointsSent, GrRead, At,
                              ItemsSent, Returned
<1>5. ToAlice = <<>>
    BY <1>4 DEF IndInv, Places, PointsSent, GrSent, ItemsAfterGr, Done, Ahead, At
<1>6. \A i \in 1..BLen : ToBob[i] \in Exponents
    <2>1. CASE GrSent
        <3>1. ALen = BLen
            BY <2>1 DEF GrSent, At, ALen, BLen
        <3>2. \A i \in 1..BLen : MulGen(alice.r[i]) \in Exponents
            BY <2>1, <3>1, AlicesCall, MulGenOfExponent DEF IndInv, GrSent, At
        <3> QED BY <2>1, <3>2 DEF GrSent
    <2>2. CASE ItemsAfterGr
        BY <2>2 DEF ItemsAfterGr
    <2> QED BY <1>4, <2>1, <2>2
<1>7. gr \in Seq(Exponents) /\ \A i \in 1..BLen : gr[i] = Mul(ToBob[i], bob.k[i])
    <2>1. Scalars \subseteq Exponents
        BY CallsAssumption DEF Exponents
    <2>2. ASSUME NEW i \in 1..BLen PROVE bob.k[i] \in Int /\ ToBob[i] \in Int
        <3>1. bob.k[i] \in Scalars
            BY <1>2
        <3> QED BY <1>6, <2>1, <3>1, ExponentsAreInt
    <2>3. \A i \in 1..BLen : gr[i] \in Exponents
        BY <1>3, <2>2, Closed
    <2>4. gr \in [1..BLen -> Exponents]
        BY <2>3
    <2> QED BY <1>2, <1>3, <2>4, Vector
<1> HIDE DEF gr
<1>8. /\ ChannelOK' /\ ToBob' \in Seq(Msgs) /\ ToAlice' = <<>>
      /\ Len(ToBob') = Len(ToBob) - BLen
      /\ \A i \in 1..(Len(ToBob) - BLen) : ToBob'[i] = ToBob[BLen + i]
    <2>1. ChannelOK /\ "BOB" \in Party /\ Peer("BOB") = "ALICE" /\ <<>> \in Seq(Msgs)
        BY Peers DEF IndInv, Types
    <2>2. Reads("BOB", BLen, <<>>)
        <3>1. pend' = [pend EXCEPT !["BOB"] = <<>>]
            BY <1>1, Peers DEF IndInv, Types, ChannelOK, Ready
        <3> QED BY <1>1, <3>1 DEF Reads
    <2>3. /\ ChannelOK' /\ Stream("BOB")' \in Seq(Msgs) /\ Drops("BOB", BLen)
          /\ Stream(Peer("BOB"))' = Stream(Peer("BOB")) \o <<>>
        BY <1>2, <2>1, <2>2, TakeDrops
    <2>4. ToAlice' = <<>>
        BY <1>5, <2>1, <2>3 DEF ToAlice
    <2> QED BY <2>3, <2>4 DEF ToBob, Drops, IsSuffix
<1>9. /\ bob'.pc = "items" /\ bob'.k = bob.k /\ bob'.asked = bob.asked /\ bob'.got = bob.got
      /\ bob'.gr = gr /\ bob' \in BobType
    BY <1>1, <1>7 DEF IndInv, Types, BobType
<1>10. Types'
    BY <1>1, <1>8, <1>9 DEF IndInv, Types, BobType
<1>11. Calls'
    BY <1>1, <1>9 DEF IndInv, Calls, ALen, BLen
<1>12. BLen' = BLen /\ Ahead' = Ahead /\ Done' = Done /\ C' = C
    BY <1>1, <1>9 DEF BLen, Ahead, Done, C
<1>13. CASE GrSent
    <2>1. /\ Len(ToBob) = BLen /\ alice.pk0 = Points(C)
          /\ \A i \in 1..BLen : ToBob[i] = MulGen(alice.r[i])
        BY <1>2, <1>13 DEF GrSent
    <2>2. ToBob' = <<>>
        BY <1>2, <1>8, <2>1
    <2>3. Points(C)' = Points(C)
        BY <1>1, <1>9 DEF Points, Pk0, Bit, BLen, C
    <2>4. \A i \in 1..BLen : bob'.gr[i] = Mul(MulGen(alice.r[i]), bob.k[i])
        BY <1>7, <1>9, <2>1
    <2>5. GrRead'
        BY <1>1, <1>9, <1>12, <1>13, <2>1, <2>2, <2>3, <2>4 DEF GrRead, GrSent, At
    <2> QED BY <1>8, <1>10, <1>11, <2>5 DEF IndInv, Places
<1>14. CASE ItemsAfterGr
    <2>1. /\ Len(ToBob) = 2 * BLen + (IF Ahead THEN 1 ELSE 0)
          /\ Ahead => ToBob[2 * BLen + 1] = C
          /\ \A i \in 1..BLen : Opens(bob, ToBob[BLen + i], i, Mul(ToBob[i], bob.k[i]))
        BY <1>14 DEF ItemsAfterGr, OnlyAhead, C
    <2>2. Len(ToBob') = BLen + (IF Ahead THEN 1 ELSE 0)
        BY <1>2, <1>8, <2>1
    <2>3. ASSUME Ahead PROVE ToBob'[BLen + 1] = C
        <3>1. BLen + 1 \in 1..(Len(ToBob) - BLen) /\ BLen + (BLen + 1) = 2 * BLen + 1
            BY <1>2, <2>1, <2>3
        <3> QED BY <1>8, <2>1, <2>3, <3>1
    <2>4. OnlyAhead(BLen)'
        BY <1>12, <2>2, <2>3 DEF OnlyAhead, C
    <2>5. \A i \in 1..BLen : ToBob'[i] = ToBob[BLen + i]
        BY <1>2, <1>8, <2>1
    <2>6. \A i \in 1..BLen : Opens(bob, ToBob'[i], i, bob'.gr[i])
        BY <1>7, <1>9, <2>1, <2>5
    <2>7. \A i \in 1..BLen : Opens(bob', ToBob'[i], i, bob'.gr[i])
        BY <1>9, <2>6 DEF Opens
    <2>8. ItemsSent'
        BY <1>9, <1>12, <1>14, <2>4, <2>7 DEF ItemsSent, ItemsAfterGr
    <2> QED BY <1>8, <1>10, <1>11, <2>8 DEF IndInv, Places
<1> QED BY <1>4, <1>13, <1>14

\* BobItems appends what the bits of the call choose.
LEMMA BobItemsGets ==
    ASSUME IndInv, BobItems
    PROVE  LET n == Len(bob.asked)
           IN  /\ ItemsSent
               /\ bob'.got = Append(bob.got, Ideal!Chosen(n, bob.asked[n]))
<1> DEFINE n == Len(bob.asked)
           m(i) == net["BOB"][i][IF Bit(i) THEN 2 ELSE 1]
           opened == [i \in 1..BLen |-> IF m(i).key = bob.gr[i] THEN m(i).text ELSE <<>>]
<1>1. /\ bob.pc = "items" /\ Ready("BOB", BLen)
      /\ bob' = [bob EXCEPT !.pc = "idle", !.k = <<>>, !.gr = <<>>, !.got = Append(@, opened)]
    BY DEF BobItems
<1>2. BLen \in Nat /\ BLen >= 1 /\ bob.asked[n] \in [1..BLen -> BOOLEAN]
    BY <1>1, BobsCall, LengthsArePositive DEF IndInv
<1>3. Len(ToBob) >= BLen /\ \A i \in 1..BLen : net["BOB"][i] = ToBob[i]
    BY <1>1, <1>2, ReadyIsHead, Peers DEF IndInv, Types, ToBob
<1>4. ItemsSent
    <2>1. ToBob # <<>>
        BY <1>2, <1>3
    <2> QED BY <1>1, <2>1 DEF IndInv, Places, NotOffered, CSent, PointsSent, GrSent, GrRead,
                              At, ItemsAfterGr, Returned
<1>5. ASSUME NEW i \in 1..BLen
      PROVE  m(i).key = bob.gr[i] /\ m(i).text = <<n, i, bob.asked[n][i]>>
    <2>1. Opens(bob, net["BOB"][i], i, bob.gr[i])
        BY <1>3, <1>4 DEF ItemsSent
    <2> QED BY <2>1 DEF Opens, Bit
<1> HIDE DEF m
<1>6. opened = [i \in 1..BLen |-> <<n, i, bob.asked[n][i]>>]
    BY <1>5
<1>7. Ideal!Chosen(n, bob.asked[n]) = [i \in 1..BLen |-> <<n, i, bob.asked[n][i]>>]
    BY <1>2 DEF Ideal!Chosen
<1>8. bob'.got = Append(bob.got, opened)
    BY <1>1 DEF IndInv, Types
<1> QED BY <1>4, <1>6, <1>7, <1>8

LEMMA BobItemsStep ==
    ASSUME IndInv, BobItems
    PROVE  IndInv'
<1> DEFINE n == Len(bob.asked)
           res == Ideal!Chosen(n, bob.asked[n])
<1>1. /\ bob.pc = "items" /\ Ready("BOB", BLen) /\ net' = Take("BOB", BLen)
      /\ lens' = lens /\ alice' = alice /\ pend' = pend
      /\ \E data : bob' = [bob EXCEPT !.pc = "idle", !.k = <<>>, !.gr = <<>>,
                                      !.got = Append(@, data)]
    BY DEF BobItems
<1>2. ItemsSent /\ bob'.got = Append(bob.got, res)
    BY BobItemsGets
<1>3. /\ BLen \in Nat /\ BLen >= 1 /\ bob.asked[n] \in [1..BLen -> BOOLEAN]
      /\ n = Len(bob.got) + 1 /\ n \in Nat /\ bob.got \in Seq(Seq(Texts))
    BY <1>1, BobsCall, LengthsArePositive DEF IndInv, Types
<1>4. res \in Seq(Texts)
    <2>1. res = [i \in 1..BLen |-> <<n, i, bob.asked[n][i]>>]
        BY <1>3 DEF Ideal!Chosen
    <2>2. \A i \in 1..BLen : <<n, i, bob.asked[n][i]>> \in Texts
        BY <1>3 DEF Texts
    <2>3. res \in [1..BLen -> Texts]
        BY <2>1, <2>2
    <2> QED BY <1>3, <2>3, Vector
<1> HIDE DEF res
<1>5. bob'.got \in Seq(Seq(Texts)) /\ Len(bob'.got) = n
    BY <1>2, <1>3, <1>4, AppendProperties
<1>6. /\ bob'.pc = "idle" /\ bob'.asked = bob.asked /\ bob' \in BobType
    <2>1. PICK data : bob' = [bob EXCEPT !.pc = "idle", !.k = <<>>, !.gr = <<>>,
                                         !.got = Append(@, data)]
        BY <1>1
    <2>2. bob' = [bob EXCEPT !.pc = "idle", !.k = <<>>, !.gr = <<>>, !.got = bob'.got]
        BY <2>1 DEF IndInv, Types
    <2>3. <<>> \in Seq(Scalars) /\ <<>> \in Seq(Exponents)
        OBVIOUS
    <2> QED BY <1>5, <2>2, <2>3 DEF IndInv, Types, BobType
<1>7. /\ ChannelOK' /\ ToBob' \in Seq(Msgs) /\ ToAlice' = <<>>
      /\ Len(ToBob') = Len(ToBob) - BLen
      /\ \A i \in 1..(Len(ToBob) - BLen) : ToBob'[i] = ToBob[BLen + i]
    <2>1. ChannelOK /\ "BOB" \in Party /\ Peer("BOB") = "ALICE" /\ <<>> \in Seq(Msgs)
        BY Peers DEF IndInv, Types
    <2>2. Reads("BOB", BLen, <<>>)
        <3>1. pend' = [pend EXCEPT !["BOB"] = <<>>]
            BY <1>1, Peers DEF IndInv, Types, ChannelOK, Ready
        <3> QED BY <1>1, <3>1 DEF Reads
    <2>3. /\ ChannelOK' /\ Stream("BOB")' \in Seq(Msgs) /\ Drops("BOB", BLen)
          /\ Stream(Peer("BOB"))' = Stream(Peer("BOB")) \o <<>>
        BY <1>3, <2>1, <2>2, TakeDrops
    <2>4. ToAlice = <<>>
        BY <1>2 DEF IndInv, Places, PointsSent, At, ItemsSent
    <2>5. ToAlice' = <<>>
        BY <2>1, <2>3, <2>4 DEF ToAlice
    <2> QED BY <2>3, <2>5 DEF ToBob, Drops, IsSuffix
<1>8. Types'
    BY <1>1, <1>6, <1>7 DEF IndInv, Types, BobType
<1>9. Calls'
    BY <1>1, <1>5, <1>6 DEF IndInv, Calls, ALen, BLen
<1>10. Ahead' = Ahead /\ Done' = Done
    BY <1>1, <1>6 DEF Ahead, Done
<1>11. /\ Len(ToBob) = BLen + (IF Ahead THEN 1 ELSE 0)
       /\ Ahead => ToBob[BLen + 1] = MulGen(alice.d)
    BY <1>2 DEF ItemsSent, OnlyAhead
<1>12. OnlyAhead(0)'
    <2>1. CASE Ahead
        <3>1. Len(ToBob) - BLen = 1 /\ 1 \in 1..(Len(ToBob) - BLen)
            BY <1>3, <1>11, <2>1
        <3>2. ToBob'[1] = MulGen(alice.d)
            BY <1>7, <1>11, <2>1, <3>1
        <3> QED BY <1>1, <1>7, <1>10, <2>1, <3>1, <3>2 DEF OnlyAhead
    <2>2. CASE ~Ahead
        <3>1. Len(ToBob) - BLen = 0
            BY <1>3, <1>11, <2>2
        <3> QED BY <1>7, <1>10, <2>2, <3>1 DEF OnlyAhead
    <2> QED BY <2>1, <2>2
<1>13. Returned'
    BY <1>2, <1>6, <1>10, <1>12 DEF Returned, ItemsSent
<1> QED BY <1>7, <1>8, <1>9, <1>13 DEF IndInv, Places

LEMMA FlushStep ==
    ASSUME IndInv, NEW p \in Party, Flush(p)
    PROVE  IndInv'
<1>1. /\ Send(p, <<>>) /\ lens' = lens /\ alice' = alice /\ bob' = bob
    BY DEF Flush
<1>2. ChannelOK' /\ ToBob' = ToBob /\ ToAlice' = ToAlice
    <2>1. ChannelOK /\ <<>> \in Seq(Msgs) /\ Peer(p) \in Party
        BY Peers DEF IndInv, Types
    <2>2. /\ ChannelOK' /\ Stream(Peer(p))' = Stream(Peer(p)) \o <<>>
          /\ Stream(p)' = Stream(p)
        BY <1>1, <2>1, SendAppends
    <2>3. Stream(Peer(p)) \o <<>> = Stream(Peer(p))
        BY <2>1, StreamType
    <2> QED BY <2>2, <2>3, Peers DEF ToBob, ToAlice
<1>3. Types' /\ Calls'
    BY <1>1, <1>2 DEF IndInv, Types, Calls, ALen, BLen
<1>4. Places'
    BY <1>1, <1>2 DEF IndInv, Places, NotOffered, CSent, PointsSent, GrSent, GrRead, At, C,
          ItemsAfterGr, ItemsSent, Returned, Done, Ahead, OnlyAhead, Points, Pk0, Bit, BLen
<1> QED BY <1>3, <1>4 DEF IndInv

(*-------------------------------- theorems ------------------------------*)
LEMMA InitInv == Init => IndInv
<1> SUFFICES ASSUME Init PROVE IndInv
    OBVIOUS
<1>1. Types
    BY ExponentsAreInt DEF Init, Types, ChannelOK, Quiet
<1>2. Calls
    BY DEF Init, Calls
<1>3. ToBob = <<>> /\ ToAlice = <<>>
    BY Peers DEF Init, Quiet, ToBob, ToAlice, Stream
<1>4. Returned
    BY <1>3 DEF Init, Returned, Done, Ahead, OnlyAhead
<1> QED BY <1>1, <1>2, <1>3, <1>4 DEF IndInv, Places

LEMMA StepInv == IndInv /\ [Next]_vars => IndInv'
<1> SUFFICES ASSUME IndInv, [Next]_vars PROVE IndInv'
    OBVIOUS
<1>1. CASE AliceCall
    BY <1>1, AliceCallStep
<1>2. CASE AliceKeys
    BY <1>2, AliceKeysStep
<1>3. CASE AliceItems
    BY <1>3, AliceItemsStep
<1>4. CASE BobCall
    BY <1>4, BobCallStep
<1>5. CASE BobKeys
    BY <1>5, BobKeysStep
<1>6. CASE BobGr
    BY <1>6, BobGrStep
<1>7. CASE BobItems
    BY <1>7, BobItemsStep
<1>8. CASE \E p \in Party : Flush(p)
    BY <1>8, FlushStep
<1>9. CASE UNCHANGED vars
    BY <1>9 DEF vars, IndInv, Types, Calls, ChannelOK, Places, NotOffered, CSent, PointsSent,
          GrSent, GrRead, At, C, ItemsAfterGr, ItemsSent, Returned, Done, Ahead, OnlyAhead,
          Points, Pk0, Bit, BLen, ALen, ToBob, ToAlice, Stream
<1> QED BY <1>1, <1>2, <1>3, <1>4, <1>5, <1>6, <1>7, <1>8, <1>9, Peers DEF Next, Alice, Bob

LEMMA IndInvHolds == Spec => []IndInv
BY InitInv, StepInv, PTL DEF Spec

(* After calls that both have returned both ends of the channel are at the
   same place, whatever the lengths of the calls and however far one program
   was ahead (np.h:30-114). *)
THEOREM TypeCorrect == Spec => []TypeOK
<1>1. IndInv => TypeOK
  <2> SUFFICES ASSUME IndInv PROVE TypeOK
    OBVIOUS
  <2>1. ASSUME alice.cnt = Len(bob.got), alice.pc = "idle", bob.pc = "idle", NEW p \in Party
        PROVE  net[p] = <<>> /\ pend[p] = <<>>
    <3>1. Returned /\ ~Ahead
        BY <2>1 DEF IndInv, Places, NotOffered, CSent, PointsSent, GrSent, GrRead, At,
                    ItemsAfterGr, ItemsSent, Ahead
    <3>2. Len(ToBob) = 0 /\ ToAlice = <<>>
        BY <3>1 DEF IndInv, Places, PointsSent, At, Returned, OnlyAhead
    <3>3. \A q \in Party : net[q] \in Seq(Msgs) /\ pend[q] \in Seq(Msgs)
        BY DEF IndInv, Types, ChannelOK
    <3>4. net["BOB"] = <<>> /\ pend["ALICE"] = <<>>
        BY <3>2, <3>3, JoinedEmpty, Peers DEF ToBob, Stream
    <3>5. net["ALICE"] = <<>> /\ pend["BOB"] = <<>>
        BY <3>2, <3>3, JoinedEmpty, Peers DEF ToAlice, Stream
    <3> QED BY <3>4, <3>5, Peers
  <2> QED BY <2>1 DEF IndInv, Types, Calls, TypeOK
<1> QED BY <1>1, IndInvHolds, PTL

(* send and recv of np.h implement the ideal OT: each call of BOB's returns
   the messages of the same call of ALICE's that his bits choose, never before
   she has begun it, for every group, length, draw and interleaving. *)
THEOREM ImplementsIdeal == Spec => Ideal!SafeSpec
<1>1. Init => Ideal!Init
  BY DEF Init, Ideal!Init
<1>2. IndInv /\ [Next]_vars => [Ideal!Next]_(Ideal!vars)
  <2> SUFFICES ASSUME IndInv, [Next]_vars PROVE [Ideal!Next]_(Ideal!vars)
    OBVIOUS
  <2>1. CASE AliceCall
    <3>1. alice'.cnt = alice.cnt + 1 /\ bob' = bob
        BY <2>1 DEF AliceCall
    <3> QED BY <3>1 DEF Ideal!Next, Ideal!Offer
  <2>2. CASE AliceKeys
    <3>1. alice'.cnt = alice.cnt /\ bob' = bob
        BY <2>2 DEF AliceKeys, IndInv, Types
    <3> QED BY <3>1 DEF Ideal!vars
  <2>3. CASE AliceItems
    <3>1. alice'.cnt = alice.cnt /\ bob' = bob
        BY <2>3 DEF AliceItems, IndInv, Types
    <3> QED BY <3>1 DEF Ideal!vars
  <2>4. CASE BobCall
    <3>1. PICK b \in Choices : bob.pc = "idle" /\ alice' = alice /\ bob'.got = bob.got
                               /\ bob'.asked = Append(bob.asked, b)
        <4>1. PICK n \in Lengths : \E k \in Drawn(n), b \in [1..n -> BOOLEAN] :
                  /\ bob.pc = "idle" /\ alice' = alice
                  /\ bob' = [bob EXCEPT !.pc = "keys", !.k = k, !.asked = Append(@, b)]
            BY <2>4 DEF BobCall
        <4>2. PICK k \in Drawn(n), b \in [1..n -> BOOLEAN] :
                  /\ bob.pc = "idle" /\ alice' = alice
                  /\ bob' = [bob EXCEPT !.pc = "keys", !.k = k, !.asked = Append(@, b)]
            BY <4>1
        <4>3. b \in Choices
            BY DEF Choices
        <4>4. bob'.got = bob.got /\ bob'.asked = Append(bob.asked, b)
            BY <4>2 DEF IndInv, Types
        <4> QED BY <4>2, <4>3, <4>4
    <3>2. Len(bob.asked) = Len(bob.got)
        BY <3>1 DEF IndInv, Calls
    <3> QED BY <3>1, <3>2 DEF Ideal!Next, Ideal!Ask, Choices
  <2>5. CASE BobKeys
    <3>1. bob'.got = bob.got /\ bob'.asked = bob.asked /\ alice' = alice
        BY <2>5 DEF BobKeys, IndInv, Types
    <3> QED BY <3>1 DEF Ideal!vars
  <2>6. CASE BobGr
    <3>1. bob'.got = bob.got /\ bob'.asked = bob.asked /\ alice' = alice
        BY <2>6 DEF BobGr, IndInv, Types
    <3> QED BY <3>1 DEF Ideal!vars
  <2>7. CASE BobItems
    <3> DEFINE n == Len(bob.asked)
    <3>1. ItemsSent /\ bob'.got = Append(bob.got, Ideal!Chosen(n, bob.asked[n]))
        BY <2>7, BobItemsGets
    <3>2. bob'.asked = bob.asked /\ alice' = alice
        BY <2>7 DEF BobItems, IndInv, Types
    <3>3. n = Len(bob.got) + 1 /\ n \in Nat
        BY <3>1, BobsCall DEF IndInv, Types, ItemsSent
    <3>4. n <= alice.cnt
        BY <3>1, <3>3 DEF ItemsSent, Done, Ahead
    <3> QED BY <3>1, <3>2, <3>3, <3>4 DEF Ideal!Next, Ideal!Deliver
  <2>8. CASE \E p \in Party : Flush(p)
    BY <2>8 DEF Flush, Ideal!vars
  <2>9. CASE UNCHANGED vars
    BY <2>9 DEF vars, Ideal!vars
  <2> QED BY <2>1, <2>2, <2>3, <2>4, <2>5, <2>6, <2>7, <2>8, <2>9, Peers DEF Next, Alice, Bob
<1> QED BY <1>1, <1>2, IndInvHolds, PTL DEF Spec, Ideal!SafeSpec
=============================================================================
