--------------------------- MODULE FerretCOTProofs ---------------------------
(***************************************************************************)
(* Proofs about FerretCOT, for every parameter set with M <= ot_limit,     *)
(* every set of call arguments and any number of calls: first about the    *)
(* buffers of each party, then about the messages of an extension and the  *)
(* blocks that the extensions produce.  The two parties never lose step,   *)
(* the check never fails, and no block is handed out twice, in both modes. *)
(***************************************************************************)
EXTENDS FerretCOT, TLAPS

(*------------------------------ arithmetic ------------------------------*)
\* M and ot_limit are natural numbers, and M <= ot_limit
LEMMA ParamFacts ==
    /\ M \in Nat /\ OtLimit \in Nat /\ N \in Nat
    /\ M > 0 /\ M <= OtLimit /\ N = OtLimit + M
BY ParamAssumption DEF M, OtLimit

\* One more round of a loop: multiplication distributes over i - 1.
LEMMA LoopStep ==
    ASSUME NEW x \in Nat \ {0}, NEW l \in Nat
    PROVE  (x - 1) * l = x * l - l /\ x * l >= l /\ x * l \in Nat
<1>1. (x - 1) * l = x * l - l
    OBVIOUS
<1>2. (x - 1) * l \in Nat
    <2> DEFINE y == x - 1
    <2>1. y \in Nat
        OBVIOUS
    <2>2. y * l \in Nat
        BY <2>1
    <2> QED BY <2>2
<1> QED BY <1>1, <1>2

\* Division of integers in the form that Quot needs
LEMMA DivFacts ==
    ASSUME NEW a \in Nat, NEW d \in Nat \ {0}
    PROVE  /\ a \div d \in Nat
           /\ (a \div d) * d <= a
           /\ a < (a \div d) * d + d
OBVIOUS

(* The number of in-place rounds of a call that still needs `need` blocks,
   when at least one extension is needed: it leaves between M and M +
   ot_limit - 1 blocks to the two last rounds, or everything if no in-place
   round fits (hpp:164). *)
LEMMA RoundsFacts ==
    ASSUME NEW need \in Nat \ {0}
    PROVE  LET q == InplaceRounds(need) IN
           /\ q \in Nat
           /\ need - q * OtLimit \in 1..(M + OtLimit - 1)
           /\ q > 0 => need - q * OtLimit >= M
<1> USE ParamFacts
<1> DEFINE a == need - M
           q == InplaceRounds(need)
<1>1. CASE a >= 0
    <2>1. q = a \div OtLimit
        BY <1>1 DEF InplaceRounds, Quot
    <2>2. a \in Nat /\ OtLimit \in Nat \ {0}
        BY <1>1
    <2>3. q \in Nat /\ q * OtLimit <= a /\ a < q * OtLimit + OtLimit
        BY <2>1, <2>2, DivFacts
    <2> QED BY <2>3
<1>2. CASE a < 0
    <2> DEFINE b == -a
    <2>1. b \in Nat /\ b < OtLimit /\ OtLimit \in Nat \ {0}
        BY <1>2
    <2>2. b \div OtLimit = 0
        BY <2>1
    <2>3. q = 0
        BY <1>2, <2>2 DEF InplaceRounds, Quot
    <2>4. q * OtLimit = 0
        BY <2>3
    <2> QED BY <1>2, <2>3, <2>4
<1> QED BY <1>1, <1>2

(*-------------------------------- buffers -------------------------------*)
\* The two parties are each other's peer.
LEMMA PartyFacts ==
    ASSUME NEW p \in Party
    PROVE  Peer(p) \in Party /\ Peer(p) # p
BY DEF Party, Peer

\* Buffers of s blocks
Buffer(s) == [0..(s - 1) -> Block]

\* memcpy between buffers gives a buffer, and keeps what it does not write.
LEMMA MemCpyFacts ==
    ASSUME NEW s \in Nat, NEW dst \in Buffer(s), NEW src \in Buffer(N),
           NEW at \in Nat, NEW from \in Nat, NEW len \in Nat, from + len <= N
    PROVE  /\ MemCpy(dst, at, src, from, len) \in Buffer(s)
           /\ \A i \in 0..(s - 1) :
                 MemCpy(dst, at, src, from, len)[i] =
                     IF i \in at..(at + len - 1) THEN src[from + i - at]
                                                 ELSE dst[i]
<1> USE ParamFacts DEF Buffer
<1> DEFINE r == MemCpy(dst, at, src, from, len)
<1>1. r = [i \in 0..(s - 1) |-> IF i \in at..(at + len - 1)
                                THEN src[from + i - at] ELSE dst[i]]
    BY DEF MemCpy
<1>2. ASSUME NEW i \in 0..(s - 1), i \in at..(at + len - 1)
      PROVE  src[from + i - at] \in Block
    <2>1. from + i - at \in 0..(N - 1)
        BY <1>2
    <2> QED BY <2>1
<1> HIDE DEF r
<1>3. \A i \in 0..(s - 1) : (IF i \in at..(at + len - 1)
                               THEN src[from + i - at] ELSE dst[i]) \in Block
    BY <1>2
<1> QED BY <1>1, <1>3 DEF r

\* A fresh buffer of a caller is a buffer of blocks.
LEMMA UserBufferFacts ==
    ASSUME NEW s \in Nat
    PROVE  UserBuffer(s) \in [0..(s - 1) -> Block]
BY DEF UserBuffer, Blank, Block

\* The blocks of one extension, each at its own place
Extension == {b \in [0..(N - 1) -> Block] : \A i \in 0..(N - 1) : b[i][2] = i}

\* What an extension produces, and the seed taken from it, are blocks.
LEMMA ExtensionFacts ==
    /\ Garbage \in Extension
    /\ \A r \in Nat : Fresh(r) \in Extension
    /\ \A b \in Extension : SeedOf(b) \in Seeds
<1> USE ParamFacts
<1>1. Garbage \in Extension
    BY DEF Garbage, Extension, Block
<1>2. \A r \in Nat : Fresh(r) \in Extension
    BY DEF Fresh, Extension, Block
<1>3. ASSUME NEW b \in Extension
      PROVE  SeedOf(b) \in Seeds
    <2>1. \A i \in 0..(M - 1) : OtLimit + i \in 0..(N - 1)
        OBVIOUS
    <2>2. \A i \in 0..(M - 1) : b[OtLimit + i] \in Block
        BY <2>1 DEF Extension
    <2> QED BY <2>2 DEF SeedOf, Seeds
<1> QED BY <1>1, <1>2, <1>3

(*---------------------------- the first state ---------------------------*)
\* The invariant holds right after setup.
LEMMA InitInv == Init => IndInv
<1> USE ParamFacts
<1> SUFFICES ASSUME Init PROVE IndInv
    OBVIOUS
<1>1. TypeOK
    <2>1. UserBuffer(0) \in [0..(0 - 1) -> Block] /\ UserBuffer(N) \in [0..(N - 1) -> Block]
        BY UserBufferFacts
    <2>2. SeedOf(Fresh(0)) \in Seeds /\ trees \in [0..(N - 1) -> Block]
        BY ExtensionFacts DEF Init, Extension
    <2>3. call \in [Party -> PlanType] /\ \A p \in Party : call[p].size = 0
        BY DEF Init, Plan, PlanType
    <2>4. \A p \in Party : data[p] \in [0..(call[p].size - 1) -> Block]
        BY <2>1, <2>3 DEF Init
    <2>5. /\ pc \in [Party -> {"idle", "rounds", "check"}]
          /\ data = [p \in Party |-> data[p]]
          /\ otUsed \in [Party -> 0..OtLimit]
          /\ ext \in [Party -> Nat]
        BY DEF Init
    <2>6. otData \in [Party -> [0..(N - 1) -> Block]] /\ pre \in [Party -> Seeds]
        BY <2>1, <2>2 DEF Init
    <2>7. wire \in [Party -> Seq(Msg)] /\ out \in [Party -> Seq(Block)]
        BY DEF Init
    <2>8. alarm \in BOOLEAN
        BY DEF Init
    <2> QED BY <2>2, <2>3, <2>4, <2>5, <2>6, <2>7, <2>8 DEF TypeOK
<1>2. PlanInv
    BY DEF Init, PlanInv
<1>3. BlocksInv
    BY ExtensionFacts DEF Init, BlocksInv, Extension
<1>4. NoSeedDelivered
    BY DEF Init, NoSeedDelivered
<1> QED BY <1>1, <1>2, <1>3, <1>4 DEF IndInv

(*------------------------------- one party ------------------------------*)
(* What IndInv says of one party: where it is, the call it serves, the
   caller's buffer, ot_used and ot_data. *)
PartyOK(s, c, d, u, o) ==
    /\ s \in {"idle", "rounds", "check"}
    /\ c \in PlanType
    /\ d \in [0..(c.size - 1) -> Block]
    /\ u \in 0..OtLimit
    /\ o \in [0..(N - 1) -> Block]
    /\ u < OtLimit => \A i \in 0..(N - 1) : o[i][2] = i
    /\ s # "idle" => PlanOK(c) /\ \A i \in 0..(c.pt - 1) : Usable(d[i])

LEMMA PartyInv ==
    ASSUME IndInv, NEW p \in Party
    PROVE  PartyOK(pc[p], call[p], data[p], otUsed[p], otData[p])
BY DEF IndInv, TypeOK, PlanInv, BlocksInv, PartyOK

(* A step that changes these variables of one party preserves IndInv when
   the new values are right for that party. *)
LEMMA UpdateParty ==
    ASSUME IndInv, NEW p \in Party, NEW s, NEW c, NEW d, NEW u, NEW o,
           PartyOK(s, c, d, u, o),
           pc' = [pc EXCEPT ![p] = s],
           call' = [call EXCEPT ![p] = c],
           data' = [data EXCEPT ![p] = d],
           otUsed' = [otUsed EXCEPT ![p] = u],
           otData' = [otData EXCEPT ![p] = o],
           pre' \in [Party -> Seeds], ext' \in [Party -> Nat],
           wire' \in [Party -> Seq(Msg)], alarm' \in BOOLEAN,
           trees' \in Extension, out' \in [Party -> Seq(Block)],
           NoSeedDelivered'
    PROVE  IndInv'
<1>1. \A q \in Party : PartyOK(pc'[q], call'[q], data'[q], otUsed'[q], otData'[q])
    <2> SUFFICES ASSUME NEW q \in Party
                 PROVE  PartyOK(pc'[q], call'[q], data'[q], otUsed'[q], otData'[q])
        OBVIOUS
    <2>1. CASE q = p
        BY <2>1 DEF IndInv, TypeOK
    <2>2. CASE q # p
        BY <2>2, PartyInv
    <2> QED BY <2>1, <2>2
<1>2. /\ pc' \in [Party -> {"idle", "rounds", "check"}]
      /\ call' \in [Party -> PlanType]
      /\ data' = [q \in Party |-> data'[q]]
      /\ otUsed' \in [Party -> 0..OtLimit]
      /\ otData' \in [Party -> [0..(N - 1) -> Block]]
    BY DEF IndInv, TypeOK, PartyOK
<1>3. TypeOK'
    BY <1>1, <1>2 DEF TypeOK, PartyOK, Extension
<1>4. PlanInv'
    BY <1>1 DEF PlanInv, PartyOK
<1>5. BlocksInv'
    BY <1>1 DEF BlocksInv, PartyOK, Extension
<1> QED BY <1>3, <1>4, <1>5 DEF IndInv

\* UNCHANGED in the form that UpdateParty takes
LEMMA SameParty ==
    ASSUME IndInv, NEW p \in Party
    PROVE  /\ pc = [pc EXCEPT ![p] = pc[p]]
           /\ call = [call EXCEPT ![p] = call[p]]
           /\ data = [data EXCEPT ![p] = data[p]]
           /\ otUsed = [otUsed EXCEPT ![p] = otUsed[p]]
           /\ otData = [otData EXCEPT ![p] = otData[p]]
           /\ trees \in Extension
BY DEF IndInv, TypeOK, BlocksInv, Extension

\* What a call copies from ot_data to the start of the caller's buffer
LEMMA TakeFacts ==
    ASSUME IndInv, NEW p \in Party, NEW num \in Nat, NEW len \in 0..num,
           otUsed[p] + len <= OtLimit
    PROVE  LET d == MemCpy(UserBuffer(num), 0, otData[p], otUsed[p], len) IN
           /\ d \in Buffer(num)
           /\ \A i \in 0..(len - 1) : Usable(d[i])
<1> USE ParamFacts
<1> DEFINE d == MemCpy(UserBuffer(num), 0, otData[p], otUsed[p], len)
           ub == UserBuffer(num)
           o == otData[p]
           from == otUsed[p]
           at == 0
<1>1. /\ o \in Buffer(N) /\ from \in Nat /\ from + len <= N
      /\ at \in Nat /\ len \in Nat
    BY DEF IndInv, TypeOK, Buffer
<1>2. ub \in Buffer(num)
    BY UserBufferFacts DEF Buffer
<1>3. from < OtLimit => \A i \in 0..(N - 1) : o[i][2] = i
    BY DEF IndInv, BlocksInv
<1>4. d = MemCpy(ub, at, o, from, len)
    OBVIOUS
<1> HIDE DEF d, ub, o, from, at
<1>5. /\ d \in Buffer(num)
      /\ \A i \in 0..(num - 1) :
            d[i] = IF i \in at..(at + len - 1) THEN o[from + i - at] ELSE ub[i]
    <2>1. MemCpy(ub, at, o, from, len) \in Buffer(num)
        BY <1>1, <1>2, MemCpyFacts
    <2>2. ASSUME NEW i \in 0..(num - 1)
          PROVE  MemCpy(ub, at, o, from, len)[i] =
                   IF i \in at..(at + len - 1) THEN o[from + i - at] ELSE ub[i]
        BY <1>1, <1>2, MemCpyFacts
    <2> QED BY <1>4, <2>1, <2>2
<1>6. \A i \in 0..(len - 1) : Usable(d[i])
    <2> SUFFICES ASSUME NEW i \in 0..(len - 1) PROVE Usable(d[i])
        OBVIOUS
    <2>1. /\ from + i - at = from + i /\ from + i \in 0..(N - 1)
          /\ from + i \in 0..(OtLimit - 1) /\ from < OtLimit
          /\ i \in 0..(num - 1) /\ i \in at..(at + len - 1)
        BY <1>1 DEF from, at
    <2> QED BY <1>3, <1>5, <2>1 DEF Usable
<1> QED BY <1>5, <1>6 DEF d

(*-------------------------------- the calls -----------------------------*)
\* rcot served from ot_data preserves the invariant.
LEMMA HitStep ==
    ASSUME IndInv, NEW p \in Party, NEW num \in Lengths,
           Issue(p, <<"rcot", num>>), RcotHit(p, num)
    PROVE  IndInv'
<1> USE ParamFacts
<1> DEFINE c == Plan("rcot", num, num, num, 0, FALSE, 0)
           d == MemCpy(UserBuffer(num), 0, otData[p], otUsed[p], num)
           u == otUsed[p] + num
<1>1. num \in Nat /\ otUsed[p] \in 0..OtLimit /\ u \in 0..OtLimit
    <2>1. num \in Nat /\ otUsed[p] \in 0..OtLimit
        BY CallAssumption DEF IndInv, TypeOK
    <2>2. num <= OtLimit - otUsed[p]
        BY DEF RcotHit, SilentOtLeft
    <2> QED BY <2>1, <2>2
<1>2. d \in [0..(num - 1) -> Block] /\ \A i \in 0..(num - 1) : Usable(d[i])
    <2>1. num \in 0..num /\ otUsed[p] + num <= OtLimit
        BY <1>1
    <2>2. d \in Buffer(num) /\ \A i \in 0..(num - 1) : Usable(d[i])
        BY <1>1, <2>1, TakeFacts, Zenon
    <2> QED BY <2>2 DEF Buffer
<1>3. /\ c \in PlanType /\ c.size = num /\ c.pt = num /\ PlanOK(c)
    BY <1>1 DEF Plan, PlanType, PlanOK, Rest
<1>5. /\ data' = [data EXCEPT ![p] = d]
      /\ call' = [call EXCEPT ![p] = c]
      /\ otUsed' = [otUsed EXCEPT ![p] = u]
      /\ pc' = [pc EXCEPT ![p] = "rounds"]
      /\ UNCHANGED <<otData, pre, ext, trees, wire, out, alarm>>
    BY DEF RcotHit, Issue
<1> HIDE DEF d, c, u
<1>6. PartyOK("rounds", c, d, u, otData[p])
    <2>1. otData[p] \in [0..(N - 1) -> Block]
        BY DEF IndInv, TypeOK
    <2>2. u < OtLimit => \A i \in 0..(N - 1) : otData[p][i][2] = i
        BY <1>1 DEF IndInv, BlocksInv, u
    <2> QED BY <1>1, <1>2, <1>3, <2>1, <2>2 DEF PartyOK
<1>7. /\ pre' \in [Party -> Seeds] /\ ext' \in [Party -> Nat]
      /\ wire' \in [Party -> Seq(Msg)] /\ alarm' \in BOOLEAN
      /\ trees' \in Extension /\ out' \in [Party -> Seq(Block)]
      /\ NoSeedDelivered'
    BY <1>5, SameParty DEF IndInv, TypeOK, NoSeedDelivered, Usable
<1>4. otData' = [otData EXCEPT ![p] = otData[p]]
    BY <1>5, SameParty
<1> QED BY <1>4, <1>5, <1>6, <1>7, UpdateParty

\* rcot that plans extensions preserves the invariant: its plan adds up.
LEMMA MissStep ==
    ASSUME IndInv, NEW p \in Party, NEW num \in Lengths,
           Issue(p, <<"rcot", num>>), RcotMiss(p, num)
    PROVE  IndInv'
<1> USE ParamFacts
<1> DEFINE gened == SilentOtLeft(p)
           inplace == InplaceRounds(num - gened)
           rest == num - gened - inplace * OtLimit
           memcpy == rest > OtLimit
           last == IF memcpy THEN rest - OtLimit ELSE rest
           c == Plan("rcot", num, num, gened, inplace, memcpy, last)
           d == MemCpy(UserBuffer(num), 0, otData[p], otUsed[p], gened)
<1>1. num \in Nat /\ otUsed[p] \in 0..OtLimit /\ num > gened
    BY CallAssumption DEF IndInv, TypeOK, RcotMiss
<1>2. gened \in 0..num /\ otUsed[p] + gened <= OtLimit /\ num - gened \in Nat \ {0}
    BY <1>1 DEF SilentOtLeft
<1>3. d \in Buffer(num) /\ \A i \in 0..(gened - 1) : Usable(d[i])
    BY <1>1, <1>2, TakeFacts
<1>4. /\ inplace \in Nat /\ rest \in 1..(M + OtLimit - 1)
      /\ inplace > 0 => rest >= M
    BY <1>2, RoundsFacts
<1>5. /\ data' = [data EXCEPT ![p] = d]
      /\ call' = [call EXCEPT ![p] = c]
      /\ pc' = [pc EXCEPT ![p] = "rounds"]
      /\ UNCHANGED <<otUsed, otData, pre, ext, trees, wire, out, alarm>>
    BY DEF RcotMiss, Issue
<1>6. c \in PlanType /\ c.size = num /\ c.pt = gened /\ PlanOK(c)
    <2>1. last \in 0..OtLimit /\ (IF memcpy THEN OtLimit ELSE 0) + last = rest
        BY <1>4
    <2>2. inplace * OtLimit \in Int /\ gened + inplace * OtLimit + rest = num
        BY <1>1, <1>2, <1>4
    <2>3. memcpy \in BOOLEAN
        OBVIOUS
    <2> HIDE DEF gened, inplace, rest, memcpy, last
    <2>4. /\ c.op = "rcot" /\ c.size = num /\ c.give = num /\ c.pt = gened
          /\ c.inplace = inplace /\ c.memcpy = memcpy /\ c.last = last
        BY DEF Plan
    <2>5. c \in PlanType
        BY <1>1, <1>2, <1>4, <2>1, <2>3 DEF Plan, PlanType
    <2>6. Rest(c) = rest
        BY <2>1, <2>4, <1>4 DEF Rest
    <2> HIDE DEF c
    <2>7. PlanOK(c)
        BY <1>4, <2>1, <2>2, <2>4, <2>6 DEF PlanOK
    <2> QED BY <2>4, <2>5, <2>7
<1> HIDE DEF c, d, gened, inplace, rest, memcpy, last
<1>7. PartyOK("rounds", c, d, otUsed[p], otData[p])
    BY <1>3, <1>6, PartyInv DEF PartyOK, Buffer
<1>8. /\ pre' \in [Party -> Seeds] /\ ext' \in [Party -> Nat]
      /\ wire' \in [Party -> Seq(Msg)] /\ alarm' \in BOOLEAN
      /\ trees' \in Extension /\ out' \in [Party -> Seq(Block)]
      /\ NoSeedDelivered'
    BY <1>5, SameParty DEF IndInv, TypeOK, NoSeedDelivered, Usable
<1> DEFINE u == otUsed[p]
           o == otData[p]
<1>9. /\ otData' = [otData EXCEPT ![p] = o]
      /\ otUsed' = [otUsed EXCEPT ![p] = u]
      /\ PartyOK("rounds", c, d, u, o)
    BY <1>5, <1>7, SameParty
<1> HIDE DEF u, o
<1> QED BY <1>5, <1>8, <1>9, UpdateParty

\* rcot_inplace preserves the invariant: its plan adds up.
LEMMA InplaceStep ==
    ASSUME IndInv, NEW p \in Party, NEW need \in Needs,
           Issue(p, <<"inplace", need>>), RcotInplace(p, need)
    PROVE  IndInv'
<1> USE ParamFacts
<1> DEFINE space == ByteMemoryNeedInplace(need)
           rounds == (space - M) \div OtLimit
           c == Plan("inplace", space, space - M, 0, rounds, FALSE, 0)
           d == UserBuffer(space)
<1>1. /\ space >= N /\ (space - M) % OtLimit = 0
      /\ data' = [data EXCEPT ![p] = d]
      /\ call' = [call EXCEPT ![p] = c]
      /\ pc' = [pc EXCEPT ![p] = "rounds"]
      /\ UNCHANGED <<otUsed, otData, pre, ext, trees, wire, out, alarm>>
    BY DEF RcotInplace, Issue
<1>2. space \in Nat
    <2>1. need - 1 \in Nat /\ OtLimit \in Nat \ {0}
        BY CallAssumption
    <2>2. (need - 1) \div OtLimit \in Nat
        BY <2>1, DivFacts
    <2>3. space = ((need - 1) \div OtLimit) * OtLimit + N
        BY <2>1 DEF ByteMemoryNeedInplace, Quot
    <2> QED BY <1>1, <2>2, <2>3
<1>3. rounds \in Nat /\ rounds * OtLimit = space - M
    <2> DEFINE a == space - M
    <2>1. a \in Nat /\ OtLimit \in Nat \ {0} /\ a % OtLimit = 0
        BY <1>1, <1>2
    <2> HIDE DEF a
    <2>2. a \div OtLimit \in Nat /\ (a \div OtLimit) * OtLimit = a
        BY <2>1
    <2> QED BY <2>2 DEF a
<1> HIDE DEF space, rounds
<1>4. c \in PlanType /\ c.size = space /\ c.pt = 0
    BY <1>1, <1>2, <1>3 DEF Plan, PlanType
<1>5. PlanOK(c)
    <2>1. /\ c.op = "inplace" /\ c.size = space /\ c.give = space - M /\ c.pt = 0
          /\ c.inplace = rounds /\ c.memcpy = FALSE /\ c.last = 0
        BY DEF Plan
    <2> HIDE DEF c
    <2>2. Rest(c) = M
        BY <2>1 DEF Rest
    <2> QED BY <1>2, <1>3, <2>1, <2>2 DEF PlanOK
<1>6. d \in Buffer(space)
    BY <1>2, UserBufferFacts DEF Buffer
<1> HIDE DEF c, d
<1>7. PartyOK("rounds", c, d, otUsed[p], otData[p])
    BY <1>4, <1>5, <1>6, PartyInv DEF PartyOK, Buffer
<1>8. /\ pre' \in [Party -> Seeds] /\ ext' \in [Party -> Nat]
      /\ wire' \in [Party -> Seq(Msg)] /\ alarm' \in BOOLEAN
      /\ trees' \in Extension /\ out' \in [Party -> Seq(Block)]
      /\ NoSeedDelivered'
    BY <1>1, SameParty DEF IndInv, TypeOK, NoSeedDelivered, Usable
<1> DEFINE u == otUsed[p]
           o == otData[p]
<1>9. /\ otData' = [otData EXCEPT ![p] = o]
      /\ otUsed' = [otUsed EXCEPT ![p] = u]
      /\ PartyOK("rounds", c, d, u, o)
    BY <1>1, <1>7, SameParty
<1> HIDE DEF u, o
<1> QED BY <1>1, <1>8, <1>9, UpdateParty

\* A call that returns hands out usable blocks only.
LEMMA ReturnStep ==
    ASSUME IndInv, NEW p \in Party, Return(p)
    PROVE  IndInv'
<1> USE ParamFacts
<1> DEFINE c == call[p]
           res == [i \in 1..c.give |-> data[p][i - 1]]
<1>1. /\ pc[p] = "rounds" /\ ~RoundsLeft(c)
      /\ out' = [out EXCEPT ![p] = @ \o res]
      /\ pc' = [pc EXCEPT ![p] = "idle"]
      /\ UNCHANGED <<call, data, otData, otUsed, pre, ext, trees, wire, calls, alarm>>
    BY DEF Return
<1>2. PartyOK("rounds", c, data[p], otUsed[p], otData[p])
    BY <1>1, PartyInv
<1>3. c.pt = c.give /\ c.give \in Nat /\ c.give <= c.size
    <2>1. /\ c.op \in {"rcot", "inplace"} /\ c.size \in Nat /\ c.give \in Nat
          /\ c.pt \in Nat /\ c.inplace \in Int /\ c.last \in Nat
        BY <1>2 DEF PartyOK, PlanType
    <2>2. c.inplace = 0 /\ ~c.memcpy /\ c.last = 0
        <3>1. c.inplace >= 0
            BY <1>2 DEF PartyOK, PlanOK
        <3>2. ~(c.inplace > 0) /\ ~c.memcpy /\ ~(c.last > 0)
            BY <1>1 DEF RoundsLeft
        <3> HIDE DEF c
        <3> QED BY <2>1, <3>1, <3>2
    <2>3. c.inplace * OtLimit = 0
        BY <2>2
    <2>4. Rest(c) = IF c.op = "inplace" THEN M ELSE 0
        BY <2>2 DEF Rest
    <2>5. /\ c.pt + c.inplace * OtLimit + Rest(c) = c.size
          /\ c.op = "rcot" => c.give = c.size
          /\ c.op = "inplace" => c.give = c.size - M
        BY <1>2 DEF PartyOK, PlanOK
    <2> HIDE DEF c
    <2>6. c.pt + Rest(c) = c.size
        BY <2>1, <2>3, <2>4, <2>5
    <2> QED BY <2>1, <2>4, <2>5, <2>6
<1>4. \A i \in 1..c.give : res[i] \in Block /\ Usable(res[i])
    <2> SUFFICES ASSUME NEW i \in 1..c.give
                 PROVE  res[i] \in Block /\ Usable(res[i])
        OBVIOUS
    <2>1. i - 1 \in 0..(c.pt - 1) /\ i - 1 \in 0..(c.size - 1)
        BY <1>2, <1>3 DEF PartyOK, PlanType
    <2>2. res[i] = data[p][i - 1]
        OBVIOUS
    <2> QED BY <1>2, <2>1, <2>2 DEF PartyOK
<1>5. res \in Seq(Block) /\ Len(res) = c.give
    <2> DEFINE n == c.give
    <2>1. n \in Nat /\ res \in [1..n -> Block]
        BY <1>3, <1>4
    <2> HIDE DEF n, res
    <2>2. res \in Seq(Block) /\ Len(res) = n
        BY <2>1
    <2> QED BY <2>2 DEF n
<1> HIDE DEF res
<1>6. out' \in [Party -> Seq(Block)]
    BY <1>1, <1>5 DEF IndInv, TypeOK
<1>7. NoSeedDelivered'
    <2> SUFFICES ASSUME NEW q \in Party, NEW i \in 1..Len(out'[q])
                 PROVE  Usable(out'[q][i])
        BY DEF NoSeedDelivered, Usable
    <2>1. CASE q # p
        BY <1>1, <2>1 DEF IndInv, TypeOK, NoSeedDelivered
    <2>2. CASE q = p
        <3>1. out'[p] = out[p] \o res /\ out[p] \in Seq(Block)
            BY <1>1 DEF IndInv, TypeOK
        <3>2. CASE i <= Len(out[p])
            BY <1>5, <2>2, <3>1, <3>2 DEF IndInv, NoSeedDelivered
        <3>3. CASE i > Len(out[p])
            <4>1. i - Len(out[p]) \in 1..c.give /\ out'[p][i] = res[i - Len(out[p])]
                BY <1>3, <1>5, <2>2, <3>1, <3>3
            <4> QED BY <1>4, <2>2, <4>1
        <3> QED BY <3>1, <3>2, <3>3
    <2> QED BY <2>1, <2>2
<1>8. PartyOK("idle", c, data[p], otUsed[p], otData[p])
    BY <1>2 DEF PartyOK
<1> DEFINE d == data[p]
           u == otUsed[p]
           o == otData[p]
<1>9. /\ pc' = [pc EXCEPT ![p] = "idle"]
      /\ call' = [call EXCEPT ![p] = c]
      /\ data' = [data EXCEPT ![p] = d]
      /\ otUsed' = [otUsed EXCEPT ![p] = u]
      /\ otData' = [otData EXCEPT ![p] = o]
      /\ PartyOK("idle", c, d, u, o)
    BY <1>1, <1>8, SameParty
<1>10. /\ pre' \in [Party -> Seeds] /\ ext' \in [Party -> Nat]
       /\ wire' \in [Party -> Seq(Msg)] /\ alarm' \in BOOLEAN
       /\ trees' \in Extension
    BY <1>1, SameParty DEF IndInv, TypeOK
<1> HIDE DEF c, d, u, o
<1> QED BY <1>6, <1>7, <1>9, <1>10, UpdateParty

(*------------------------- the end of an extension ----------------------*)
\* The first len blocks of an extension, copied to place pt of a buffer
Copied(d, pt, b, len) == MemCpy(d, pt, b, 0, len)

\* A caller's buffer of which the first n blocks are final
Final(d, size, n) == d \in Buffer(size) /\ \A i \in 0..(n - 1) : Usable(d[i])

(* Copying the first len blocks of an extension to pt makes the caller's
   buffer final as far as the copied blocks are usable ones. *)
LEMMA AppendFacts ==
    ASSUME NEW size \in Nat, NEW pt \in Nat, NEW d, Final(d, size, pt),
           NEW b \in Extension, NEW len \in 0..N, NEW n \in 0..size,
           n <= pt + len, n <= pt + OtLimit
    PROVE  Final(Copied(d, pt, b, len), size, n)
<1> USE ParamFacts
<1> DEFINE from == 0
           r == MemCpy(d, pt, b, from, len)
<1>1. /\ b \in Buffer(N) /\ from \in Nat /\ from + len <= N /\ d \in Buffer(size)
      /\ \A i \in 0..(pt - 1) : Usable(d[i])
    BY DEF Extension, Buffer, Final
<1> HIDE DEF from
<1>2. r \in Buffer(size)
    BY <1>1, MemCpyFacts
<1>3. ASSUME NEW i \in 0..(size - 1)
      PROVE  r[i] = IF i \in pt..(pt + len - 1) THEN b[from + i - pt] ELSE d[i]
    BY <1>1, MemCpyFacts
<1> HIDE DEF r
<1>4. ASSUME NEW i \in 0..(n - 1)
      PROVE  Usable(r[i])
    <2>1. i \in 0..(size - 1)
        OBVIOUS
    <2>2. CASE i < pt
        BY <1>1, <1>3, <2>1, <2>2
    <2>3. CASE i >= pt
        <3>1. /\ i \in pt..(pt + len - 1) /\ from + i - pt = i - pt
              /\ i - pt \in 0..(N - 1) /\ i - pt \in 0..(OtLimit - 1)
            BY <2>3 DEF from
        <3>2. b[i - pt][2] = i - pt
            BY <3>1 DEF Extension
        <3> QED BY <1>3, <2>1, <3>1, <3>2 DEF Usable
    <2> QED BY <2>2, <2>3
<1> QED BY <1>2, <1>4 DEF r, from, Final, Copied

(* The plan of a call after each kind of round. *)
LEMMA InplacePlan ==
    ASSUME NEW c \in PlanType, PlanOK(c), c.inplace > 0
    PROVE  LET n == AfterInplace(c) IN
           /\ n \in PlanType /\ PlanOK(n)
           /\ n.size = c.size /\ n.pt = c.pt + OtLimit
           /\ c.pt + N <= c.size
<1> USE ParamFacts
<1> DEFINE n == AfterInplace(c)
<1>1. /\ n.op = c.op /\ n.size = c.size /\ n.give = c.give /\ n.pt = c.pt + OtLimit
      /\ n.inplace = c.inplace - 1 /\ n.memcpy = c.memcpy /\ n.last = c.last
    BY DEF AfterInplace, Plan
<1>2. n \in PlanType
    BY ParamFacts DEF AfterInplace, Plan, PlanType, PlanOK
<1>3. Rest(n) = Rest(c)
    BY <1>1 DEF Rest
<1>4. Rest(c) \in Nat /\ c.pt \in Nat /\ c.size \in Nat /\ c.inplace \in Nat \ {0}
    BY DEF PlanType, PlanOK, Rest
<1> HIDE DEF n
<1>5. /\ (c.inplace - 1) * OtLimit = c.inplace * OtLimit - OtLimit
      /\ c.inplace * OtLimit >= OtLimit /\ c.inplace * OtLimit \in Nat
    BY <1>4, LoopStep
<1>6. /\ c.pt + c.inplace * OtLimit + Rest(c) = c.size
      /\ Rest(c) >= M
    BY DEF PlanOK
<1>7. n.pt + n.inplace * OtLimit + Rest(n) = n.size
    <2>1. n.inplace * OtLimit = c.inplace * OtLimit - OtLimit
        BY <1>1, <1>5
    <2> QED BY <1>1, <1>3, <1>4, <1>5, <1>6, <2>1
<1>8. PlanOK(n)
    BY <1>1, <1>3, <1>4, <1>7 DEF PlanOK
<1>9. c.pt + N <= c.size
    BY <1>4, <1>5, <1>6
<1> QED BY <1>1, <1>2, <1>8, <1>9 DEF n

\* The plan after the extension that is copied whole
LEMMA MemcpyPlan ==
    ASSUME NEW c \in PlanType, PlanOK(c), c.inplace <= 0, c.memcpy
    PROVE  LET n == AfterMemcpy(c) IN
           /\ n \in PlanType /\ PlanOK(n)
           /\ n.size = c.size /\ n.pt = c.pt + OtLimit
           /\ c.pt + OtLimit <= c.size
<1> USE ParamFacts
<1> DEFINE n == AfterMemcpy(c)
<1>1. /\ n.op = c.op /\ n.size = c.size /\ n.give = c.give /\ n.pt = c.pt + OtLimit
      /\ n.inplace = c.inplace /\ ~n.memcpy /\ n.last = c.last
    BY DEF AfterMemcpy, Plan
<1>2. n \in PlanType
    BY ParamFacts DEF AfterMemcpy, Plan, PlanType, PlanOK
<1>3. /\ c.pt \in Nat /\ c.size \in Nat /\ c.inplace = 0 /\ c.last \in Nat
      /\ c.op = "rcot"
    BY DEF PlanType, PlanOK
<1> HIDE DEF n
<1>4. Rest(c) = OtLimit + c.last /\ Rest(n) = c.last
    BY <1>1, <1>3 DEF Rest
<1>5. c.inplace * OtLimit = 0 /\ n.inplace * OtLimit = 0
    BY <1>1, <1>3
<1>6. c.pt + c.inplace * OtLimit + Rest(c) = c.size
    BY DEF PlanOK
<1>7. c.pt + OtLimit + c.last = c.size
    BY <1>3, <1>4, <1>5, <1>6
<1>8. n.pt + n.inplace * OtLimit + Rest(n) = n.size
    BY <1>1, <1>3, <1>4, <1>5, <1>7
<1>9. PlanOK(n)
    BY <1>1, <1>3, <1>8 DEF PlanOK
<1> QED BY <1>1, <1>2, <1>3, <1>7, <1>9 DEF n

\* The plan after the extension of which a part is copied
LEMMA LastPlan ==
    ASSUME NEW c \in PlanType, PlanOK(c), c.inplace <= 0, ~c.memcpy, c.last > 0
    PROVE  LET n == AfterLast(c) IN
           /\ n \in PlanType /\ PlanOK(n)
           /\ n.size = c.size /\ n.pt = c.pt + c.last
           /\ c.pt + c.last <= c.size
<1> USE ParamFacts
<1> DEFINE n == AfterLast(c)
<1>1. /\ n.op = c.op /\ n.size = c.size /\ n.give = c.give /\ n.pt = c.pt + c.last
      /\ n.inplace = c.inplace /\ n.memcpy = c.memcpy /\ n.last = 0
    BY DEF AfterLast, Plan
<1>2. n \in PlanType
    BY ParamFacts DEF AfterLast, Plan, PlanType, PlanOK
<1>3. /\ c.pt \in Nat /\ c.size \in Nat /\ c.inplace = 0 /\ c.last \in Nat
      /\ c.op = "rcot"
    BY DEF PlanType, PlanOK
<1> HIDE DEF n
<1>4. Rest(c) = c.last /\ Rest(n) = 0
    BY <1>1, <1>3 DEF Rest
<1>5. c.inplace * OtLimit = 0 /\ n.inplace * OtLimit = 0
    BY <1>1, <1>3
<1>6. c.pt + c.inplace * OtLimit + Rest(c) = c.size
    BY DEF PlanOK
<1>7. c.pt + c.last = c.size
    BY <1>3, <1>4, <1>5, <1>6
<1>8. n.pt + n.inplace * OtLimit + Rest(n) = n.size
    BY <1>1, <1>3, <1>4, <1>5, <1>7
<1>9. PlanOK(n)
    BY <1>1, <1>3, <1>8 DEF PlanOK
<1> QED BY <1>1, <1>2, <1>3, <1>7, <1>9 DEF n

\* The end of an extension, in each kind of round, preserves the invariant.
LEMMA FinishStep ==
    ASSUME IndInv, NEW p \in Party, NEW b \in Extension, pc[p] # "idle",
           FinishExtension(p, b),
           wire' \in [Party -> Seq(Msg)], alarm' \in BOOLEAN, trees' \in Extension
    PROVE  IndInv'
<1> USE ParamFacts
<1> DEFINE c == call[p]
           d == data[p]
           u == otUsed[p]
           o == otData[p]
           sz == c.size
           at == c.pt
           last == c.last
<1>1. PartyOK(pc[p], c, d, u, o)
    BY PartyInv
<1>2. /\ c \in PlanType /\ PlanOK(c) /\ sz \in Nat /\ at \in Nat /\ last \in 0..OtLimit
      /\ Final(d, sz, at)
      /\ u \in 0..OtLimit /\ o \in [0..(N - 1) -> Block]
      /\ u < OtLimit => \A i \in 0..(N - 1) : o[i][2] = i
    <2>1. c \in PlanType /\ PlanOK(c)
        BY <1>1 DEF PartyOK
    <2>2. sz \in Nat /\ at \in Nat /\ last \in 0..OtLimit
        BY <2>1 DEF PlanType, PlanOK
    <2>3. Final(d, sz, at)
        BY <1>1 DEF PartyOK, Final, Buffer
    <2> QED BY <1>1, <2>1, <2>2, <2>3 DEF PartyOK
<1>3. b \in [0..(N - 1) -> Block] /\ \A i \in 0..(N - 1) : b[i][2] = i
    BY DEF Extension
<1>4. /\ pre' \in [Party -> Seeds] /\ ext' \in [Party -> Nat]
      /\ pc' = [pc EXCEPT ![p] = "rounds"]
      /\ out' \in [Party -> Seq(Block)] /\ NoSeedDelivered'
    <2>1. SeedOf(b) \in Seeds
        BY ExtensionFacts
    <2>2. /\ pre' = [pre EXCEPT ![p] = SeedOf(b)] /\ ext' = [ext EXCEPT ![p] = @ + 1]
          /\ pc' = [pc EXCEPT ![p] = "rounds"] /\ out' = out
        BY DEF FinishExtension
    <2>3. pre' \in [Party -> Seeds] /\ ext' \in [Party -> Nat]
        BY <2>1, <2>2 DEF IndInv, TypeOK
    <2> QED BY <2>2, <2>3 DEF IndInv, TypeOK, NoSeedDelivered, Usable
<1>5. ASSUME NEW n, NEW e, NEW v, NEW w, PartyOK("rounds", n, e, v, w),
             call' = [call EXCEPT ![p] = n], data' = [data EXCEPT ![p] = e],
             otUsed' = [otUsed EXCEPT ![p] = v], otData' = [otData EXCEPT ![p] = w]
      PROVE  IndInv'
    BY <1>4, <1>5, UpdateParty
<1>6. ASSUME NEW v \in 0..OtLimit, v < OtLimit => v = u,
             InplaceRound(p, b) \/ UserRound(p, b),
             otUsed' = [otUsed EXCEPT ![p] = v]
      PROVE  IndInv'
    <2> DEFINE n == AfterInplace(c)
               e == Copied(d, at, b, N)
    <2>1. /\ call' = [call EXCEPT ![p] = n] /\ data' = [data EXCEPT ![p] = e]
          /\ otData' = [otData EXCEPT ![p] = o] /\ c.inplace > 0
        <3>1. /\ call' = [call EXCEPT ![p] = AfterInplace(@)]
              /\ data' = [data EXCEPT ![p] = e] /\ otData' = otData /\ c.inplace > 0
            BY <1>6 DEF InplaceRound, UserRound, Copied
        <3>2. call \in [Party -> PlanType]
            BY DEF IndInv, TypeOK
        <3>3. call' = [call EXCEPT ![p] = n]
            BY <3>1, <3>2
        <3> QED BY <3>1, <3>3, SameParty
    <2> HIDE DEF d, u, o
    <2>2. /\ n \in PlanType /\ PlanOK(n) /\ n.size = sz
          /\ n.pt = at + OtLimit /\ at + N <= sz
        BY <1>2, <2>1, InplacePlan
    <2> HIDE DEF n, c, sz, at, last
    <2>3. at + OtLimit <= sz /\ OtLimit <= N
        BY <1>2, <2>2
    <2>4. Final(e, sz, at + OtLimit)
        <3> DEFINE to == at + OtLimit
                   len == N
        <3>1. /\ to \in 0..sz /\ len \in 0..N
              /\ to <= at + len /\ to <= at + OtLimit
            BY <1>2, <2>3
        <3>2. e = Copied(d, at, b, len)
            OBVIOUS
        <3> HIDE DEF e, to, len
        <3>3. Final(Copied(d, at, b, len), sz, to)
            BY <1>2, <3>1, AppendFacts
        <3> QED BY <3>2, <3>3 DEF to
    <2> HIDE DEF e
    <2>5. PartyOK("rounds", n, e, v, o)
        BY <1>2, <1>6, <2>2, <2>4 DEF PartyOK, Buffer, Final
    <2> QED BY <1>5, <1>6, <2>1, <2>5
<1>7. CASE InplaceRound(p, b)
    <2>1. otUsed' = [otUsed EXCEPT ![p] = OtLimit] /\ OtLimit \in 0..OtLimit
        BY <1>7 DEF InplaceRound
    <2> DEFINE v == OtLimit
    <2>2. v \in 0..OtLimit /\ (v < OtLimit => v = u) /\ otUsed' = [otUsed EXCEPT ![p] = v]
        BY <2>1
    <2> HIDE DEF v
    <2> QED BY <1>6, <1>7, <2>2
<1>8. CASE MemcpyRound(p, b)
    <2> DEFINE n == AfterMemcpy(c)
               e == Copied(d, at, b, OtLimit)
    <2>1. /\ call' = [call EXCEPT ![p] = n] /\ data' = [data EXCEPT ![p] = e]
          /\ otUsed' = [otUsed EXCEPT ![p] = 0] /\ otData' = [otData EXCEPT ![p] = b]
          /\ c.inplace <= 0 /\ c.memcpy
        BY <1>8 DEF MemcpyRound, IndInv, TypeOK, Copied
    <2> HIDE DEF d, u, o
    <2>2. /\ n \in PlanType /\ PlanOK(n) /\ n.size = sz
          /\ n.pt = at + OtLimit /\ at + OtLimit <= sz
        BY <1>2, <2>1, MemcpyPlan
    <2> HIDE DEF n, c, sz, at, last
    <2>3. OtLimit <= N
        OBVIOUS
    <2>4. Final(e, sz, at + OtLimit)
        <3> DEFINE to == at + OtLimit
                   len == OtLimit
        <3>1. /\ to \in 0..sz /\ len \in 0..N
              /\ to <= at + len /\ to <= at + OtLimit
            BY <1>2, <2>2, <2>3
        <3>2. e = Copied(d, at, b, len)
            OBVIOUS
        <3> HIDE DEF e, to, len
        <3>3. Final(Copied(d, at, b, len), sz, to)
            BY <1>2, <3>1, AppendFacts
        <3> QED BY <3>2, <3>3 DEF to
    <2> HIDE DEF e
    <2>5. PartyOK("rounds", n, e, 0, b)
        BY <1>3, <2>2, <2>4 DEF PartyOK, Buffer, Final
    <2> QED BY <1>5, <2>1, <2>5
<1>9. CASE LastRound(p, b)
    <2> DEFINE n == AfterLast(c)
               e == Copied(d, at, b, last)
    <2>1. /\ call' = [call EXCEPT ![p] = n] /\ data' = [data EXCEPT ![p] = e]
          /\ otUsed' = [otUsed EXCEPT ![p] = last] /\ otData' = [otData EXCEPT ![p] = b]
          /\ c.inplace <= 0 /\ ~c.memcpy /\ last > 0
        BY <1>9 DEF LastRound, IndInv, TypeOK, Copied
    <2> HIDE DEF d, u, o
    <2>2. /\ n \in PlanType /\ PlanOK(n) /\ n.size = sz
          /\ n.pt = at + last /\ at + last <= sz
        BY <1>2, <2>1, LastPlan
    <2> HIDE DEF n, c, sz, at, last
    <2>3. last \in Nat /\ last <= OtLimit /\ last <= N
        BY <1>2
    <2>4. Final(e, sz, at + last)
        <3> DEFINE to == at + last
                   len == last
        <3>1. /\ to \in 0..sz /\ len \in 0..N
              /\ to <= at + len /\ to <= at + OtLimit
            BY <1>2, <2>2, <2>3
        <3>2. e = Copied(d, at, b, len)
            OBVIOUS
        <3> HIDE DEF e, to, len
        <3>3. Final(Copied(d, at, b, len), sz, to)
            BY <1>2, <3>1, AppendFacts
        <3> QED BY <3>2, <3>3 DEF to
    <2> HIDE DEF e
    <2>5. PartyOK("rounds", n, e, last, b)
        BY <1>2, <1>3, <2>2, <2>4 DEF PartyOK, Buffer, Final
    <2> QED BY <1>5, <2>1, <2>5
<1>10. CASE UserRound(p, b)
    <2>1. otUsed' = [otUsed EXCEPT ![p] = u] /\ u \in 0..OtLimit
        BY <1>2, <1>10, SameParty DEF UserRound
    <2> HIDE DEF u
    <2> QED BY <1>6, <1>10, <2>1
<1> QED BY <1>7, <1>8, <1>9, <1>10 DEF FinishExtension

(*--------------------------- the two-party protocol ---------------------*)
\* What a step of the consistency check leaves alone
Kept == UNCHANGED <<call, data, otData, otUsed, pre, ext, out, alarm>>

\* A step that moves one party inside a call and leaves its buffers alone
LEMMA PcStep ==
    ASSUME IndInv, NEW p \in Party, pc[p] # "idle",
           pc' = [pc EXCEPT ![p] = "check"],
           Kept, wire' \in [Party -> Seq(Msg)], trees' \in Extension
    PROVE  IndInv'
<1> DEFINE c == call[p]
           d == data[p]
           u == otUsed[p]
           o == otData[p]
<1>1. PartyOK("check", c, d, u, o)
    BY PartyInv DEF PartyOK
<1>2. /\ call' = [call EXCEPT ![p] = c] /\ data' = [data EXCEPT ![p] = d]
      /\ otUsed' = [otUsed EXCEPT ![p] = u] /\ otData' = [otData EXCEPT ![p] = o]
    BY SameParty DEF Kept
<1>3. /\ pre' \in [Party -> Seeds] /\ ext' \in [Party -> Nat]
      /\ alarm' \in BOOLEAN /\ out' \in [Party -> Seq(Block)]
      /\ NoSeedDelivered'
    BY DEF Kept, IndInv, TypeOK, NoSeedDelivered, Usable
<1> DEFINE s == "check"
<1>4. PartyOK(s, c, d, u, o) /\ pc' = [pc EXCEPT ![p] = s]
    BY <1>1
<1> HIDE DEF c, d, u, o, s
<1> QED BY <1>2, <1>3, <1>4, UpdateParty

\* The next message of a party, and what is left on the wire when it is read
LEMMA ArrivedFacts ==
    ASSUME IndInv, NEW p \in Party, NEW t, Arrived(p, t)
    PROVE  /\ Head(wire[p]) \in Msg /\ Head(wire[p]).type = t
           /\ [wire EXCEPT ![p] = Tail(@)] \in [Party -> Seq(Msg)]
           /\ \A m \in Msg : Exchange(p, m) \in [Party -> Seq(Msg)]
<1>1. wire \in [Party -> Seq(Msg)] /\ wire[p] # <<>> /\ Head(wire[p]).type = t
    BY DEF IndInv, TypeOK, Arrived
<1>2. Head(wire[p]) \in Msg /\ Tail(wire[p]) \in Seq(Msg)
    BY <1>1
<1>3. ASSUME NEW m \in Msg
      PROVE  Exchange(p, m) \in [Party -> Seq(Msg)]
    <2>1. Append(wire[Peer(p)], m) \in Seq(Msg)
        BY <1>1, PartyFacts
    <2> QED BY <1>1, <1>2, <2>1, PartyFacts DEF Exchange
<1> QED BY <1>1, <1>2, <1>3

\* The messages that a party makes are messages
LEMMA MsgFacts ==
    ASSUME IndInv, NEW p \in Party
    PROVE  /\ TreesMsg(p) \in Msg
           /\ [type |-> "xprime"] \in Msg
           /\ [type |-> "dig", seeds |-> pre[p]] \in Msg
           /\ \A to \in Party : Send(to, TreesMsg(p)) \in [Party -> Seq(Msg)]
<1>1. pre[p] \in Seeds /\ ext[p] \in Nat /\ wire \in [Party -> Seq(Msg)]
    BY DEF IndInv, TypeOK
<1>2. TreesMsg(p) \in Msg
    BY <1>1 DEF TreesMsg, Msg
<1>3. \A to \in Party : Append(wire[to], TreesMsg(p)) \in Seq(Msg)
    BY <1>1, <1>2
<1> QED BY <1>1, <1>2, <1>3 DEF Msg, Send

\* What a receiver makes of the trees is n blocks at their places
LEMMA ReceivedFacts ==
    ASSUME IndInv, NEW p \in Party, Arrived(p, "trees")
    PROVE  Received(p, Head(wire[p])) \in Extension
<1> DEFINE m == Head(wire[p])
<1>1. m \in Msg /\ m.type = "trees"
    BY ArrivedFacts
<1>2. m.run \in Nat
    BY <1>1 DEF Msg
<1> QED BY <1>2, ExtensionFacts DEF Received

\* The messages of the sender and the ends of her extensions preserve the invariant.
LEMMA AliceProtocol ==
    ASSUME IndInv, AliceExtend \/ AliceSendTrees \/ AliceSendDig
    PROVE  IndInv'
<1>1. "ALICE" \in Party /\ "BOB" \in Party /\ trees \in Extension
    BY SameParty DEF Party
<1>2. Fresh(ext["ALICE"] + 1) \in Extension
    <2> DEFINE r == ext["ALICE"] + 1
    <2>1. r \in Nat
        BY <1>1 DEF IndInv, TypeOK
    <2> HIDE DEF r
    <2>2. Fresh(r) \in Extension
        BY <2>1, ExtensionFacts
    <2> QED BY <2>2 DEF r
<1>3. CASE AliceExtend
    <2>1. /\ pc["ALICE"] # "idle" /\ trees' = trees /\ alarm' = alarm
          /\ wire' \in [Party -> Seq(Msg)]
        BY <1>1, <1>3, MsgFacts DEF AliceExtend, Extending
    <2>2. FinishExtension("ALICE", Fresh(ext["ALICE"] + 1)) /\ alarm' \in BOOLEAN
        BY <1>3, <2>1 DEF AliceExtend, IndInv, TypeOK
    <2> QED BY <1>1, <1>2, <2>1, <2>2, FinishStep
<1>4. CASE AliceSendTrees
    <2>1. /\ pc["ALICE"] # "idle" /\ pc' = [pc EXCEPT !["ALICE"] = "check"]
          /\ Kept /\ wire' \in [Party -> Seq(Msg)] /\ trees' = trees
        BY <1>1, <1>4, MsgFacts DEF AliceSendTrees, Extending, Kept
    <2> QED BY <1>1, <2>1, PcStep
<1>5. CASE AliceSendDig
    <2>1. /\ pc["ALICE"] # "idle" /\ trees' = trees /\ alarm' = alarm
          /\ wire' \in [Party -> Seq(Msg)]
        <3>1. [type |-> "dig", seeds |-> pre["ALICE"]] \in Msg
            BY <1>1, MsgFacts
        <3> QED BY <1>1, <1>5, <3>1, ArrivedFacts DEF AliceSendDig
    <2>2. FinishExtension("ALICE", Fresh(ext["ALICE"] + 1)) /\ alarm' \in BOOLEAN
        BY <1>5, <2>1 DEF AliceSendDig, IndInv, TypeOK
    <2> QED BY <1>1, <1>2, <2>1, <2>2, FinishStep
<1> QED BY <1>3, <1>4, <1>5

\* The messages of the receiver and the ends of his extensions preserve the invariant.
LEMMA BobProtocol ==
    ASSUME IndInv, BobExtend \/ BobSendXPrime \/ BobCompareDig
    PROVE  IndInv'
<1>1. "ALICE" \in Party /\ "BOB" \in Party /\ trees \in Extension
    BY SameParty DEF Party
<1>2. CASE BobExtend
    <2>1. /\ pc["BOB"] # "idle" /\ trees' = trees /\ alarm' = alarm
          /\ Arrived("BOB", "trees") /\ wire' = [wire EXCEPT !["BOB"] = Tail(@)]
          /\ FinishExtension("BOB", Received("BOB", Head(wire["BOB"])))
        BY <1>2 DEF BobExtend, Extending
    <2>2. /\ wire' \in [Party -> Seq(Msg)] /\ alarm' \in BOOLEAN
          /\ Received("BOB", Head(wire["BOB"])) \in Extension
        BY <1>1, <2>1, ArrivedFacts, ReceivedFacts DEF IndInv, TypeOK
    <2> QED BY <1>1, <2>1, <2>2, FinishStep
<1>3. CASE BobSendXPrime
    <2>1. /\ pc["BOB"] # "idle" /\ pc' = [pc EXCEPT !["BOB"] = "check"]
          /\ Kept /\ Arrived("BOB", "trees") /\ wire' = Exchange("BOB", [type |-> "xprime"])
          /\ trees' = Received("BOB", Head(wire["BOB"]))
        BY <1>3 DEF BobSendXPrime, Extending, Kept
    <2>2. wire' \in [Party -> Seq(Msg)] /\ trees' \in Extension
        BY <1>1, <2>1, ArrivedFacts, ReceivedFacts, MsgFacts
    <2> QED BY <1>1, <2>1, <2>2, PcStep
<1>4. CASE BobCompareDig
    <2>1. /\ pc["BOB"] # "idle" /\ trees' = trees /\ Arrived("BOB", "dig")
          /\ wire' = [wire EXCEPT !["BOB"] = Tail(@)]
          /\ alarm' = (alarm \/ Head(wire["BOB"]).seeds # pre["BOB"])
          /\ FinishExtension("BOB", trees)
        BY <1>4 DEF BobCompareDig
    <2>2. wire' \in [Party -> Seq(Msg)]
        BY <1>1, <2>1, ArrivedFacts
    <2>3. alarm' \in BOOLEAN
        BY <2>1 DEF IndInv, TypeOK
    <2> QED BY <1>1, <2>1, <2>2, <2>3, FinishStep
<1> QED BY <1>2, <1>3, <1>4

(*------------------------------- every step -----------------------------*)
\* A step that changes none of the variables of IndInv preserves it.
LEMMA Stutter == IndInv /\ UNCHANGED vars => IndInv'
BY DEF IndInv, vars, TypeOK, PlanInv, BlocksInv, NoSeedDelivered, Usable,
       PlanOK, Rest

(* IndInv is inductive: every action of the two parties and of their callers
   preserves it. *)
LEMMA InductiveStep == IndInv /\ [Next]_vars => IndInv'
<1> SUFFICES ASSUME IndInv, [Next]_vars PROVE IndInv'
    OBVIOUS
<1>1. CASE \E p \in Party : Call(p)
    <2>1. PICK p \in Party : Call(p)
        BY <1>1
    <2>2. CASE \E num \in Lengths : Issue(p, <<"rcot", num>>) /\ RcotHit(p, num)
        BY <2>2, HitStep
    <2>3. CASE \E num \in Lengths : Issue(p, <<"rcot", num>>) /\ RcotMiss(p, num)
        BY <2>3, MissStep
    <2>4. CASE \E need \in Needs : Issue(p, <<"inplace", need>>) /\ RcotInplace(p, need)
        BY <2>4, InplaceStep
    <2> QED BY <2>1, <2>2, <2>3, <2>4 DEF Call
<1>2. CASE \E p \in Party : Return(p)
    BY <1>2, ReturnStep
<1>3. CASE AliceExtend \/ AliceSendTrees \/ AliceSendDig
    BY <1>3, AliceProtocol
<1>4. CASE BobExtend \/ BobSendXPrime \/ BobCompareDig
    BY <1>4, BobProtocol
<1>5. CASE UNCHANGED vars
    BY <1>5, Stutter
<1> QED BY <1>1, <1>2, <1>3, <1>4, <1>5 DEF Next, AliceStep, BobStep, Party

(*-------------------------------- theorems ------------------------------*)
(* IndInv holds in every reachable state, for every parameter set with
   M <= ot_limit, whatever the callers ask for and however often. *)
THEOREM Invariance == Spec => []IndInv
<1>1. Init => IndInv
    BY InitInv
<1>2. IndInv /\ [Next]_vars => IndInv'
    BY InductiveStep
<1> QED BY <1>1, <1>2, PTL DEF Spec

(* The variables keep their types and the buffers the length that their owner
   allocated, over any number of rcot and rcot_inplace calls. *)
THEOREM TypeCorrect == Spec => []TypeOK
<1>1. IndInv => TypeOK
    BY DEF IndInv
<1> QED BY <1>1, Invariance, PTL

(* No round of rcot or rcot_inplace writes past the caller's buffer. *)
THEOREM NoOverrun == Spec => []WritesInBounds
<1>1. ASSUME IndInv PROVE WritesInBounds
    <2> USE ParamFacts
    <2> SUFFICES ASSUME NEW p \in Party, pc[p] # "idle"
                 PROVE  /\ call[p].inplace > 0 => call[p].pt + N <= call[p].size
                        /\ call[p].inplace = 0 /\ call[p].memcpy
                              => call[p].pt + OtLimit <= call[p].size
                        /\ call[p].inplace = 0 /\ ~call[p].memcpy
                              => call[p].pt + call[p].last <= call[p].size
        BY DEF WritesInBounds
    <2> DEFINE c == call[p]
    <2>1. c \in PlanType /\ PlanOK(c)
        BY <1>1, PartyInv DEF PartyOK
    <2> HIDE DEF c
    <2>2. c.inplace > 0 => c.pt + N <= c.size
        BY <2>1, InplacePlan
    <2>3. ASSUME c.inplace = 0
          PROVE  c.pt + Rest(c) = c.size /\ c.pt \in Nat /\ c.last \in Nat
        <3>1. c.inplace * OtLimit = 0
            BY <2>3
        <3>2. c.pt \in Nat /\ c.last \in Nat /\ Rest(c) \in Nat
            BY <2>1 DEF PlanType, Rest
        <3> QED BY <2>1, <3>1, <3>2 DEF PlanOK
    <2>4. c.inplace = 0 /\ c.memcpy => c.pt + OtLimit <= c.size
        BY <2>3 DEF Rest
    <2>5. c.inplace = 0 /\ ~c.memcpy => c.pt + c.last <= c.size
        BY <2>3 DEF Rest
    <2> QED BY <2>2, <2>4, <2>5 DEF c
<1> QED BY <1>1, Invariance, PTL

(* No block of the seed of an extension, and no block that was never written,
   is ever returned to a caller. *)
THEOREM SeedNeverDelivered == Spec => []NoSeedDelivered
<1>1. IndInv => NoSeedDelivered
    BY DEF IndInv
<1> QED BY <1>1, Invariance, PTL

(*------------------------------- the messages ---------------------------*)
\* What the sender sends for extension r
Trees(r) == [type |-> "trees", run |-> r, seeds |-> SeedOf(Fresh(r - 1))]
XPrime == [type |-> "xprime"]
Dig(r) == [type |-> "dig", seeds |-> SeedOf(Fresh(r - 1))]

(* Semi-honest mode: the receiver has not yet read the trees of the extensions
   that the sender is ahead, and nothing else is under way. *)
SilentInv ==
    /\ \A p \in Party : pc[p] # "check"
    /\ wire["ALICE"] = <<>>
    /\ Len(wire["BOB"]) = ext["ALICE"] - ext["BOB"]
    /\ \A i \in 1..Len(wire["BOB"]) : wire["BOB"][i] = Trees(ext["BOB"] + i)

\* Where the parties are and what is on the wire
Stage(a, b, toA, toB, ahead) ==
    /\ (pc["ALICE"] = "check") = a /\ (pc["BOB"] = "check") = b
    /\ wire["ALICE"] = toA /\ wire["BOB"] = toB
    /\ ext["ALICE"] = ext["BOB"] + ahead
    /\ b => trees = Fresh(ext["BOB"] + 1)

(* Malicious mode: between extensions; the trees sent; x_prime sent; the
   digest sent; the digest sent and the trees of the next extension as well. *)
CheckedInv ==
    LET r == ext["BOB"] + 1 IN
    \/ Stage(FALSE, FALSE, <<>>, <<>>, 0)
    \/ Stage(TRUE, FALSE, <<>>, <<Trees(r)>>, 0)
    \/ Stage(TRUE, TRUE, <<XPrime>>, <<>>, 0)
    \/ Stage(FALSE, TRUE, <<>>, <<Dig(r)>>, 1)
    \/ Stage(TRUE, TRUE, <<>>, <<Dig(r), Trees(r + 1)>>, 1)

(* The pre-computed data of a party is the seed of the last extension that it
   has completed, and the messages are those of the extensions between. *)
ProtocolInv ==
    /\ \A p \in Party : pre[p] = SeedOf(Fresh(ext[p]))
    /\ ~alarm
    /\ Malicious => CheckedInv
    /\ ~Malicious => SilentInv

(*------------------------- the blocks that are taken --------------------*)
\* What a caller has received, w, followed by the first n blocks of its buffer
With(w, d, n) == w \o [i \in 1..n |-> d[i - 1]]

\* Its elements: those of w, then the blocks of the buffer d
Entry(w, d, i) == IF i <= Len(w) THEN w[i] ELSE d[i - Len(w) - 1]

\* What a party's callers have or are going to get, as far as it is final
Taken(s, c, d, w) == IF s = "idle" THEN w ELSE With(w, d, c.pt)

(* ot_data has not been given to the call that is being served: a call of rcot
   that extends has taken all of it. *)
KeepsLeftover(s, c) == s = "idle" \/ c.op = "inplace" \/ ~RoundsLeft(c)

Distinct(t) == \A i, j \in 1..Len(t) : t[i] = t[j] => i = j

\* The blocks of t that extension r has produced lie before place u.
Before(t, r, u) == \A i \in 1..Len(t) : t[i][1] = r => t[i][2] < u

(* Blocks that are taken differ and come from completed extensions, and those
   of the extension that is in ot_data lie before ot_used. *)
ServedOK(s, c, d, u, o, e, w) ==
    LET t == Taken(s, c, d, w) IN
    /\ Distinct(t)
    /\ \A i \in 1..Len(t) : t[i][1] <= e
    /\ s # "idle" /\ c.memcpy => c.last > 0
    /\ KeepsLeftover(s, c) /\ u < OtLimit =>
          \E r \in 1..e : o = Fresh(r) /\ Before(t, r, u)

ServedInv ==
    \A p \in Party :
        ServedOK(pc[p], call[p], data[p], otUsed[p], otData[p], ext[p], out[p])

(*-------------------------- steps of the protocol -----------------------*)
\* The variables that the protocol moves, as functions of the party
LEMMA Typing ==
    ASSUME IndInv
    PROVE  /\ "ALICE" \in Party /\ "BOB" \in Party /\ Peer("ALICE") = "BOB"
           /\ Peer("BOB") = "ALICE"
           /\ pc = [p \in Party |-> pc[p]] /\ ext \in [Party -> Nat]
           /\ pre = [p \in Party |-> pre[p]] /\ wire \in [Party -> Seq(Msg)]
           /\ \A p \in Party : p = "ALICE" \/ p = "BOB"
BY DEF IndInv, TypeOK, Party, Peer

\* What the end of an extension does to the state that the protocol reads
LEMMA FinishFrame ==
    ASSUME IndInv, NEW p \in Party, NEW b, FinishExtension(p, b)
    PROVE  /\ pre'[p] = SeedOf(b) /\ ext'[p] = ext[p] + 1 /\ pc'[p] = "rounds"
           /\ \A q \in Party : q # p => /\ pre'[q] = pre[q] /\ ext'[q] = ext[q]
                                       /\ pc'[q] = pc[q]
BY Typing DEF FinishExtension

\* The digest or the trees of a party are those of the extension it is in.
LEMMA Outgoing ==
    ASSUME IndInv, ProtocolInv
    PROVE  /\ TreesMsg("ALICE") = Trees(ext["ALICE"] + 1)
           /\ [type |-> "dig", seeds |-> pre["ALICE"]] = Dig(ext["ALICE"] + 1)
<1>1. pre["ALICE"] = SeedOf(Fresh(ext["ALICE"])) /\ ext["ALICE"] \in Nat
    BY Typing DEF ProtocolInv
<1>2. ext["ALICE"] + 1 - 1 = ext["ALICE"]
    BY <1>1
<1> QED BY <1>1, <1>2 DEF TreesMsg, Trees, Dig

\* A receiver that reads the trees of its own extension gets the extension.
LEMMA Incoming ==
    ASSUME IndInv, ProtocolInv
    PROVE  Received("BOB", Trees(ext["BOB"] + 1)) = Fresh(ext["BOB"] + 1)
<1>1. pre["BOB"] = SeedOf(Fresh(ext["BOB"])) /\ ext["BOB"] \in Nat
    BY Typing DEF ProtocolInv
<1>2. ext["BOB"] + 1 - 1 = ext["BOB"]
    BY <1>1
<1> QED BY <1>1, <1>2 DEF Received, Trees

\* Sequences of one and of two messages
LEMMA ShortQueues ==
    ASSUME NEW x, NEW y
    PROVE  /\ Append(<<>>, x) = <<x>> /\ Append(<<y>>, x) = <<y, x>>
           /\ Head(<<x>>) = x /\ Tail(<<x>>) = <<>>
           /\ Head(<<x, y>>) = x /\ Tail(<<x, y>>) = <<y>>
           /\ <<x>> # <<>> /\ <<x, y>> # <<>>
<1>1. Append(<<>>, x) = <<x>> /\ Append(<<y>>, x) = <<y, x>>
    <2> DEFINE S == {x, y}
    <2>1. x \in S /\ y \in S /\ <<>> \in Seq(S) /\ <<y>> \in Seq(S)
        OBVIOUS
    <2> HIDE DEF S
    <2>2. Append(<<>>, x) = <<x>>
        BY <2>1
    <2>3. Append(<<y>>, x) = <<y, x>>
        <3> DEFINE t == Append(<<y>>, x)
        <3>1. t \in Seq(S) /\ Len(t) = 2 /\ t[1] = y /\ t[2] = x
            BY <2>1
        <3> HIDE DEF t
        <3>2. t = <<y, x>>
            BY <3>1
        <3> QED BY <3>2 DEF t
    <2> QED BY <2>2, <2>3
<1>2. Head(<<x>>) = x /\ Tail(<<x>>) = <<>> /\ <<x>> # <<>>
    OBVIOUS
<1>3. Head(<<x, y>>) = x /\ <<x, y>> # <<>>
    OBVIOUS
<1>4. Tail(<<x, y>>) = <<y>>
    OBVIOUS
<1> QED BY <1>1, <1>2, <1>3, <1>4

\* The types of messages tell them apart.
LEMMA Types ==
    \A r : Trees(r).type = "trees" /\ Dig(r).type = "dig" /\ XPrime.type = "xprime"
BY DEF Trees, Dig, XPrime

\* Right after setup nothing is on the wire.
LEMMA InitProtocol == Init => ProtocolInv
<1> SUFFICES ASSUME Init PROVE ProtocolInv
    OBVIOUS
<1>1. "ALICE" \in Party /\ "BOB" \in Party
    BY DEF Party
<1>2. Stage(FALSE, FALSE, <<>>, <<>>, 0) /\ SilentInv
    BY <1>1 DEF Init, Stage, SilentInv
<1> QED BY <1>2 DEF Init, ProtocolInv, CheckedInv

(* A step that leaves the wire and the extensions alone and keeps each party
   on its side of the check preserves the invariant. *)
LEMMA LocalStep ==
    ASSUME IndInv, ProtocolInv, UNCHANGED <<pre, ext, trees, wire, alarm>>,
           \A p \in Party : (pc'[p] = "check") = (pc[p] = "check")
    PROVE  ProtocolInv'
<1>1. SilentInv => SilentInv'
    BY DEF SilentInv
<1>2. ASSUME NEW a, NEW b, NEW toA, NEW toB, NEW ahead, Stage(a, b, toA, toB, ahead)
      PROVE  Stage(a, b, toA, toB, ahead)'
    BY <1>2, Typing DEF Stage
<1>3. CheckedInv => CheckedInv'
    <2> DEFINE r == ext["BOB"] + 1
    <2>1. r' = r
        OBVIOUS
    <2>2. /\ <<Trees(r)>>' = <<Trees(r)>> /\ <<Dig(r)>>' = <<Dig(r)>>
          /\ <<Dig(r), Trees(r + 1)>>' = <<Dig(r), Trees(r + 1)>>
        BY <2>1
    <2> HIDE DEF r
    <2> QED BY <1>2, <2>2 DEF CheckedInv, r
<1> QED BY <1>1, <1>3 DEF ProtocolInv

\* The steps of the sender
LEMMA AliceKeepsStep ==
    ASSUME IndInv, ProtocolInv, AliceExtend \/ AliceSendTrees \/ AliceSendDig
    PROVE  ProtocolInv'
<1> USE Typing
<1> DEFINE a == ext["ALICE"]
           r == ext["BOB"] + 1
<1>1. a \in Nat /\ r \in Nat \ {0} /\ pc["ALICE"] \in {"idle", "rounds", "check"}
    BY DEF IndInv, TypeOK
<1>2. CASE AliceExtend
    <2>1. /\ ~Malicious /\ SilentInv /\ trees' = trees /\ alarm' = alarm
          /\ wire' = [wire EXCEPT !["BOB"] = Append(@, Trees(a + 1))]
          /\ FinishExtension("ALICE", Fresh(a + 1))
        BY <1>2, Outgoing DEF AliceExtend, Send, ProtocolInv
    <2>2. /\ pre'["ALICE"] = SeedOf(Fresh(a + 1)) /\ ext'["ALICE"] = a + 1
          /\ pc'["ALICE"] = "rounds" /\ pre'["BOB"] = pre["BOB"]
          /\ ext'["BOB"] = ext["BOB"] /\ pc'["BOB"] = pc["BOB"]
        BY <2>1, FinishFrame
    <2>3. SilentInv'
        <3> DEFINE w == wire["BOB"]
                   x == Trees(a + 1)
        <3>1. /\ wire'["ALICE"] = <<>> /\ wire'["BOB"] = Append(w, x)
              /\ w \in Seq(Msg) /\ x \in Msg /\ Len(w) = a - ext["BOB"]
              /\ \A i \in 1..Len(w) : w[i] = Trees(ext["BOB"] + i)
            BY <2>1, Outgoing, MsgFacts DEF SilentInv
        <3>2. x = Trees(ext["BOB"] + Len(w) + 1)
            <4>1. ext["BOB"] + Len(w) + 1 = a + 1
                BY <1>1, <3>1
            <4> QED BY <4>1
        <3> HIDE DEF w, x
        <3>3. /\ Len(Append(w, x)) = Len(w) + 1
              /\ \A i \in 1..(Len(w) + 1) : Append(w, x)[i] = Trees(ext["BOB"] + i)
            <4>1. Len(Append(w, x)) = Len(w) + 1 /\ Len(w) \in Nat
                BY <3>1
            <4>2. ASSUME NEW i \in 1..(Len(w) + 1)
                  PROVE  Append(w, x)[i] = Trees(ext["BOB"] + i)
                <5>1. CASE i <= Len(w)
                    BY <3>1, <4>1, <5>1
                <5>2. CASE i = Len(w) + 1
                    <6>1. Append(w, x)[i] = x
                        BY <3>1, <5>2
                    <6>2. ext["BOB"] + i = ext["BOB"] + Len(w) + 1
                        BY <1>1, <4>1, <5>2
                    <6> QED BY <3>2, <6>1, <6>2
                <5> QED BY <4>1, <5>1, <5>2
            <4> QED BY <4>1, <4>2
        <3>4. Len(w) + 1 = ext'["ALICE"] - ext'["BOB"]
            BY <1>1, <2>2, <3>1
        <3> QED BY <2>1, <2>2, <3>1, <3>3, <3>4 DEF SilentInv
    <2> QED BY <2>1, <2>2, <2>3 DEF ProtocolInv
<1>3. CASE AliceSendTrees
    <2>1. /\ Malicious /\ pc["ALICE"] = "rounds" /\ CheckedInv
          /\ wire' = [wire EXCEPT !["BOB"] = Append(@, Trees(a + 1))]
          /\ pc' = [pc EXCEPT !["ALICE"] = "check"]
          /\ UNCHANGED <<pre, ext, trees, alarm>>
        BY <1>3, Outgoing DEF AliceSendTrees, Extending, Send, ProtocolInv
    <2>2. /\ wire'["ALICE"] = wire["ALICE"]
          /\ wire'["BOB"] = Append(wire["BOB"], Trees(a + 1))
          /\ pc'["ALICE"] = "check" /\ pc'["BOB"] = pc["BOB"]
        BY <2>1
    <2>3. CASE Stage(FALSE, FALSE, <<>>, <<>>, 0)
        <3>1. a + 1 = r
            BY <1>1, <2>3 DEF Stage
        <3>2. Stage(TRUE, FALSE, <<>>, <<Trees(r)>>, 0)'
            BY <2>1, <2>2, <2>3, <3>1, ShortQueues DEF Stage
        <3>3. CheckedInv'
            BY <3>2 DEF CheckedInv
        <3> QED BY <2>1, <3>3 DEF ProtocolInv
    <2>4. CASE Stage(FALSE, TRUE, <<>>, <<Dig(r)>>, 1)
        <3>1. a + 1 = r + 1
            BY <1>1, <2>4 DEF Stage
        <3>2. Stage(TRUE, TRUE, <<>>, <<Dig(r), Trees(r + 1)>>, 1)'
            <4>1. wire'["BOB"] = <<Dig(r), Trees(r + 1)>> /\ wire'["ALICE"] = <<>>
                BY <2>2, <2>4, <3>1, ShortQueues DEF Stage
            <4> HIDE DEF a
            <4>2. /\ (pc'["ALICE"] = "check") = TRUE /\ (pc'["BOB"] = "check") = TRUE
                  /\ ext'["ALICE"] = ext'["BOB"] + 1
                  /\ trees' = Fresh(ext'["BOB"] + 1)
                BY <2>1, <2>2, <2>4 DEF Stage
            <4> QED BY <2>1, <4>1, <4>2 DEF Stage
        <3>3. CheckedInv'
            BY <3>2 DEF CheckedInv
        <3> QED BY <2>1, <3>3 DEF ProtocolInv
    <2> QED BY <2>1, <2>3, <2>4 DEF CheckedInv, Stage
<1>4. CASE AliceSendDig
    <2>1. /\ pc["ALICE"] = "check" /\ wire["ALICE"] # <<>> /\ trees' = trees
          /\ wire' = [wire EXCEPT !["ALICE"] = Tail(@),
                                  !["BOB"] = Append(@, Dig(a + 1))]
          /\ alarm' = alarm /\ FinishExtension("ALICE", Fresh(a + 1))
        BY <1>4, Outgoing DEF AliceSendDig, Arrived, Exchange
    <2>2. Malicious /\ Stage(TRUE, TRUE, <<XPrime>>, <<>>, 0)
        BY <2>1 DEF ProtocolInv, SilentInv, CheckedInv, Stage
    <2>3. /\ pre'["ALICE"] = SeedOf(Fresh(a + 1)) /\ ext'["ALICE"] = a + 1
          /\ pc'["ALICE"] = "rounds" /\ pre'["BOB"] = pre["BOB"]
          /\ ext'["BOB"] = ext["BOB"] /\ pc'["BOB"] = pc["BOB"]
        BY <2>1, FinishFrame
    <2>4. /\ wire'["ALICE"] = Tail(wire["ALICE"])
          /\ wire'["BOB"] = Append(wire["BOB"], Dig(a + 1)) /\ a + 1 = r
        BY <1>1, <2>1, <2>2 DEF Stage
    <2>5. Stage(FALSE, TRUE, <<>>, <<Dig(r)>>, 1)'
        <3>1. wire'["BOB"] = <<Dig(r)>> /\ wire'["ALICE"] = <<>>
            BY <2>2, <2>4, ShortQueues DEF Stage
        <3>2. /\ (pc'["ALICE"] = "check") = FALSE /\ (pc'["BOB"] = "check") = TRUE
              /\ ext'["ALICE"] = ext'["BOB"] + 1
              /\ trees' = Fresh(ext'["BOB"] + 1)
            BY <2>1, <2>2, <2>3, <2>4 DEF Stage
        <3> QED BY <2>3, <3>1, <3>2 DEF Stage
    <2>6. CheckedInv'
        BY <2>5 DEF CheckedInv
    <2>7. \A p \in Party : pre'[p] = SeedOf(Fresh(ext'[p]))
        <3>1. pre'["ALICE"] = SeedOf(Fresh(ext'["ALICE"]))
            BY <2>3
        <3>2. pre'["BOB"] = SeedOf(Fresh(ext'["BOB"]))
            BY <2>3 DEF ProtocolInv
        <3> QED BY <3>1, <3>2
    <2>8. ~alarm'
        BY <2>1 DEF ProtocolInv
    <2> QED BY <2>2, <2>6, <2>7, <2>8 DEF ProtocolInv
<1> QED BY <1>2, <1>3, <1>4

\* The steps of the receiver
LEMMA BobKeepsStep ==
    ASSUME IndInv, ProtocolInv, BobExtend \/ BobSendXPrime \/ BobCompareDig
    PROVE  ProtocolInv'
<1> USE Typing
<1> DEFINE r == ext["BOB"] + 1
           w == wire["BOB"]
<1>1. r \in Nat \ {0} /\ pc["BOB"] \in {"idle", "rounds", "check"}
    BY DEF IndInv, TypeOK
<1>2. CASE BobExtend
    <2>1. /\ ~Malicious /\ SilentInv /\ trees' = trees /\ alarm' = alarm
          /\ w # <<>> /\ w \in Seq(Msg) /\ wire' = [wire EXCEPT !["BOB"] = Tail(@)]
          /\ FinishExtension("BOB", Received("BOB", Head(w)))
        BY <1>2 DEF BobExtend, Arrived, ProtocolInv
    <2>2. Head(w) = Trees(r) /\ Received("BOB", Head(w)) = Fresh(r)
        <3>1. Head(w) = w[1] /\ 1 \in 1..Len(w)
            BY <2>1
        <3> QED BY <2>1, <3>1, Incoming DEF SilentInv
    <2>3. /\ pre'["BOB"] = SeedOf(Fresh(r)) /\ ext'["BOB"] = r
          /\ pc'["BOB"] = "rounds" /\ pre'["ALICE"] = pre["ALICE"]
          /\ ext'["ALICE"] = ext["ALICE"] /\ pc'["ALICE"] = pc["ALICE"]
        BY <2>1, <2>2, FinishFrame
    <2>4. SilentInv'
        <3>1. wire'["ALICE"] = <<>> /\ wire'["BOB"] = Tail(w)
            BY <2>1 DEF SilentInv
        <3> DEFINE e == ext["BOB"]
        <3>2. /\ Len(w) = ext["ALICE"] - e /\ e \in Nat /\ ext["ALICE"] \in Nat
              /\ \A i \in 1..Len(w) : w[i] = Trees(e + i)
            BY <2>1 DEF SilentInv
        <3>3. Len(Tail(w)) = ext["ALICE"] - r /\ Len(Tail(w)) = Len(w) - 1
            BY <2>1, <3>2
        <3>4. ASSUME NEW i \in 1..Len(Tail(w))
              PROVE  Tail(w)[i] = Trees(r + i)
            <4>1. r + i = e + (i + 1)
                BY <3>2
            <4> HIDE DEF w, e, r
            <4>2. Tail(w)[i] = w[i + 1] /\ i + 1 \in 1..Len(w)
                BY <2>1, <3>2, <3>3
            <4> QED BY <3>2, <4>1, <4>2
        <3> QED BY <2>1, <2>3, <3>1, <3>3, <3>4 DEF SilentInv
    <2> QED BY <2>1, <2>3, <2>4 DEF ProtocolInv
<1>3. CASE BobSendXPrime
    <2>1. /\ Malicious /\ pc["BOB"] = "rounds" /\ CheckedInv /\ w # <<>>
          /\ wire' = [wire EXCEPT !["BOB"] = Tail(@), !["ALICE"] = Append(@, XPrime)]
          /\ trees' = Received("BOB", Head(w)) /\ pc' = [pc EXCEPT !["BOB"] = "check"]
          /\ UNCHANGED <<pre, ext, alarm>>
        BY <1>3 DEF BobSendXPrime, Extending, Arrived, Exchange, XPrime, ProtocolInv
    <2>2. Stage(TRUE, FALSE, <<>>, <<Trees(r)>>, 0)
        BY <2>1 DEF CheckedInv, Stage
    <2>3. /\ wire'["BOB"] = Tail(w) /\ wire'["ALICE"] = Append(wire["ALICE"], XPrime)
          /\ pc'["BOB"] = "check" /\ pc'["ALICE"] = pc["ALICE"]
        BY <2>1
    <2>4. trees' = Fresh(r)
        BY <2>1, <2>2, ShortQueues, Incoming DEF Stage
    <2>5. Stage(TRUE, TRUE, <<XPrime>>, <<>>, 0)'
        BY <2>1, <2>2, <2>3, <2>4, ShortQueues DEF Stage
    <2> QED BY <2>1, <2>5 DEF ProtocolInv, CheckedInv
<1>4. CASE BobCompareDig
    <2>1. /\ pc["BOB"] = "check" /\ w # <<>> /\ Head(w).type = "dig" /\ trees' = trees
          /\ wire' = [wire EXCEPT !["BOB"] = Tail(@)]
          /\ alarm' = (alarm \/ Head(w).seeds # pre["BOB"])
          /\ FinishExtension("BOB", trees)
        BY <1>4 DEF BobCompareDig, Arrived
    <2>2. /\ Malicious
          /\ \/ Stage(FALSE, TRUE, <<>>, <<Dig(r)>>, 1)
             \/ Stage(TRUE, TRUE, <<>>, <<Dig(r), Trees(r + 1)>>, 1)
        BY <2>1 DEF ProtocolInv, SilentInv, CheckedInv, Stage
    <2>3. trees = Fresh(r) /\ Head(w) = Dig(r)
        BY <2>1, <2>2, ShortQueues DEF Stage
    <2>4. ~alarm'
        <3>1. r - 1 = ext["BOB"] /\ Head(w).seeds = SeedOf(Fresh(r - 1))
            BY <1>1, <2>3 DEF Dig
        <3> QED BY <2>1, <3>1 DEF ProtocolInv
    <2>5. /\ pre'["BOB"] = SeedOf(Fresh(r)) /\ ext'["BOB"] = r
          /\ pc'["BOB"] = "rounds" /\ pre'["ALICE"] = pre["ALICE"]
          /\ ext'["ALICE"] = ext["ALICE"] /\ pc'["ALICE"] = pc["ALICE"]
          /\ wire'["ALICE"] = wire["ALICE"] /\ wire'["BOB"] = Tail(w)
        BY <2>1, <2>3, FinishFrame
    <2>6. CASE Stage(FALSE, TRUE, <<>>, <<Dig(r)>>, 1)
        <3>1. Stage(FALSE, FALSE, <<>>, <<>>, 0)'
            BY <1>1, <2>1, <2>5, <2>6, ShortQueues DEF Stage
        <3> QED BY <2>2, <2>4, <2>5, <3>1 DEF ProtocolInv, CheckedInv
    <2>7. CASE Stage(TRUE, TRUE, <<>>, <<Dig(r), Trees(r + 1)>>, 1)
        <3>1. Stage(TRUE, FALSE, <<>>, <<Trees(r)>>, 0)'
            BY <1>1, <2>1, <2>5, <2>7, ShortQueues DEF Stage
        <3> QED BY <2>2, <2>4, <2>5, <3>1 DEF ProtocolInv, CheckedInv
    <2> QED BY <2>2, <2>6, <2>7
<1> QED BY <1>2, <1>3, <1>4

\* Every step keeps the parties and their messages in step.
LEMMA ProtocolStep == IndInv /\ ProtocolInv /\ [Next]_vars => ProtocolInv'
<1> SUFFICES ASSUME IndInv, ProtocolInv, [Next]_vars PROVE ProtocolInv'
    OBVIOUS
<1>1. ASSUME NEW p \in Party, Call(p) \/ Return(p)
      PROVE  ProtocolInv'
    <2>1. /\ UNCHANGED <<pre, ext, trees, wire, alarm>> /\ pc[p] # "check"
          /\ \E s \in {"rounds", "idle"} : pc' = [pc EXCEPT ![p] = s]
        BY <1>1 DEF Call, Issue, Return
    <2>2. \A q \in Party : (pc'[q] = "check") = (pc[q] = "check")
        BY <2>1, Typing
    <2> QED BY <2>1, <2>2, LocalStep
<1>2. CASE UNCHANGED vars
    BY <1>2, LocalStep DEF vars
<1>3. CASE AliceExtend \/ AliceSendTrees \/ AliceSendDig
    BY <1>3, AliceKeepsStep
<1>4. CASE BobExtend \/ BobSendXPrime \/ BobCompareDig
    BY <1>4, BobKeepsStep
<1> QED BY <1>1, <1>2, <1>3, <1>4, Typing DEF Next, AliceStep, BobStep

(* The parties stay in step in every reachable state. *)
LEMMA InStep == Spec => []ProtocolInv
<1> QED BY InitProtocol, ProtocolStep, Invariance, PTL DEF Spec

(* Two honest parties never see the consistency check fail, whatever their
   callers ask for: the digest is made of the pre-computed data that the trees
   were made with, and the receiver compares it with the same. *)
THEOREM CheckSucceeds == Spec => []NoFalseAlarm
<1>1. ProtocolInv => NoFalseAlarm
    BY DEF ProtocolInv, NoFalseAlarm
<1> QED BY <1>1, InStep, PTL

(*------------------------ sequences of taken blocks ---------------------*)
\* The first n blocks of a buffer, appended to what a caller has received
LEMMA WithFacts ==
    ASSUME NEW w \in Seq(Block), NEW n \in Nat, NEW d,
           \A i \in 0..(n - 1) : d[i] \in Block
    PROVE  /\ With(w, d, n) \in Seq(Block) /\ Len(With(w, d, n)) = Len(w) + n
           /\ \A i \in 1..(Len(w) + n) : With(w, d, n)[i] = Entry(w, d, i)
<1> DEFINE s == [i \in 1..n |-> d[i - 1]]
<1>1. s \in Seq(Block) /\ Len(s) = n
    <2>1. \A i \in 1..n : d[i - 1] \in Block
        OBVIOUS
    <2>2. s \in [1..n -> Block]
        BY <2>1
    <2> HIDE DEF s
    <2> QED BY <2>2
<1>2. \A i \in 1..n : s[i] = d[i - 1]
    OBVIOUS
<1> HIDE DEF s
<1>3. /\ w \o s \in Seq(Block) /\ Len(w \o s) = Len(w) + n
      /\ \A i \in 1..(Len(w) + n) :
            (w \o s)[i] = IF i <= Len(w) THEN w[i] ELSE s[i - Len(w)]
    BY <1>1
<1>4. \A i \in 1..(Len(w) + n) : i > Len(w) => s[i - Len(w)] = d[i - Len(w) - 1]
    BY <1>1, <1>2
<1> QED BY <1>3, <1>4 DEF With, Entry, s

\* The elements of new are those of old or places f .. f + m - 1 of extension r.
Grown(old, new, r, f, m) ==
    \A i \in 1..Len(new) :
        \/ i <= Len(old) /\ new[i] = old[i]
        \/ \E j \in 0..(m - 1) : new[i] = <<r, f + j>>

(* m more blocks become final: they are those of extension r from place f on,
   and no block of r from there on has been taken before. *)
LEMMA Grow ==
    ASSUME NEW w \in Seq(Block), NEW n \in Nat, NEW m \in Nat, NEW d, NEW g,
           \A i \in 0..(n - 1) : d[i] \in Block /\ g[i] = d[i],
           NEW r \in Int, NEW f \in Int,
           \A j \in 0..(m - 1) : g[n + j] = <<r, f + j>>,
           Distinct(With(w, d, n)), Before(With(w, d, n), r, f)
    PROVE  LET old == With(w, d, n)
               new == With(w, g, n + m)
           IN  new \in Seq(Block) /\ Distinct(new) /\ Grown(old, new, r, f, m)
<1> DEFINE old == With(w, d, n)
           new == With(w, g, n + m)
           l == Len(w)
<1>1. /\ old \in Seq(Block) /\ Len(old) = l + n /\ l \in Nat
      /\ \A i \in 1..(l + n) : old[i] = IF i <= l THEN w[i] ELSE d[i - l - 1]
    <2>1. \A i \in 0..(n - 1) : d[i] \in Block
        OBVIOUS
    <2>2. /\ old \in Seq(Block) /\ Len(old) = l + n
          /\ \A i \in 1..(l + n) : old[i] = Entry(w, d, i)
        BY <2>1, WithFacts
    <2>3. l \in Nat
        OBVIOUS
    <2> QED BY <2>2, <2>3, Zenon DEF Entry
<1>2. \A i \in 0..(n + m - 1) : g[i] \in Block
    <2> SUFFICES ASSUME NEW i \in 0..(n + m - 1) PROVE g[i] \in Block
        OBVIOUS
    <2>1. CASE i < n
        BY <2>1
    <2>2. CASE i >= n
        <3>1. i - n \in 0..(m - 1) /\ n + (i - n) = i
            BY <2>2
        <3>2. g[i] = <<r, f + (i - n)>>
            BY <3>1
        <3> QED BY <3>2 DEF Block
    <2> QED BY <2>1, <2>2
<1>3. /\ new \in Seq(Block) /\ Len(new) = l + (n + m)
      /\ \A i \in 1..(l + (n + m)) : new[i] = IF i <= l THEN w[i] ELSE g[i - l - 1]
    <2>1. n + m \in Nat
        OBVIOUS
    <2>2. /\ new \in Seq(Block) /\ Len(new) = l + (n + m)
          /\ \A i \in 1..(l + (n + m)) : new[i] = Entry(w, g, i)
        BY <1>2, <2>1, WithFacts
    <2> QED BY <2>2, Zenon DEF Entry
<1>7. Distinct(old) /\ Before(old, r, f)
    OBVIOUS
<1> HIDE DEF old, new
<1>4. \A i \in 1..(l + n) : new[i] = old[i]
    <2> SUFFICES ASSUME NEW i \in 1..(l + n) PROVE new[i] = old[i]
        OBVIOUS
    <2>1. i \in 1..(l + (n + m)) /\ (i > l => i - l - 1 \in 0..(n - 1))
        BY <1>1
    <2>2. /\ new[i] = (IF i <= l THEN w[i] ELSE g[i - l - 1])
          /\ old[i] = (IF i <= l THEN w[i] ELSE d[i - l - 1])
        BY <1>1, <1>3, <2>1
    <2>3. i > l => g[i - l - 1] = d[i - l - 1]
        BY <2>1
    <2> QED BY <1>1, <2>2, <2>3
<1>5. \A i \in 1..(l + n + m) : i > l + n =>
          i - l - n - 1 \in 0..(m - 1) /\ new[i] = <<r, f + (i - l - n - 1)>>
    <2> SUFFICES ASSUME NEW i \in 1..(l + n + m), i > l + n
                 PROVE  /\ i - l - n - 1 \in 0..(m - 1)
                        /\ new[i] = <<r, f + (i - l - n - 1)>>
        OBVIOUS
    <2>1. /\ i - l - n - 1 \in 0..(m - 1) /\ n + (i - l - n - 1) = i - l - 1
          /\ i \in 1..(l + (n + m)) /\ ~(i <= l)
        BY <1>1
    <2> QED BY <1>3, <2>1
<1>6. Distinct(new)
    <2> SUFFICES ASSUME NEW i \in 1..(l + n + m), NEW j \in 1..(l + n + m),
                        new[i] = new[j]
                 PROVE  i = j
        BY <1>1, <1>3 DEF Distinct
    <2>1. ASSUME NEW a \in 1..(l + n), NEW b \in 1..(l + n + m), b > l + n
          PROVE  new[a] # new[b]
        <3>1. /\ new[b] = <<r, f + (b - l - n - 1)>> /\ b - l - n - 1 \in Nat
              /\ new[a] = old[a]
            BY <1>1, <1>4, <1>5, <2>1
        <3>2. new[b][1] = r /\ ~(new[b][2] < f)
            BY <3>1
        <3>3. old[a][1] = r => old[a][2] < f
            BY <1>1, <1>7 DEF Before
        <3> QED BY <3>1, <3>2, <3>3
    <2>2. CASE i <= l + n /\ j <= l + n
        BY <1>1, <1>4, <1>7, <2>2 DEF Distinct
    <2>3. CASE i > l + n /\ j > l + n
        <3>1. f + (i - l - n - 1) = f + (j - l - n - 1)
            BY <1>5, <2>3
        <3> QED BY <1>1, <3>1
    <2> QED BY <1>1, <2>1, <2>2, <2>3
<1>8. Grown(old, new, r, f, m)
    <2> SUFFICES ASSUME NEW i \in 1..Len(new)
                 PROVE  \/ i <= Len(old) /\ new[i] = old[i]
                        \/ \E j \in 0..(m - 1) : new[i] = <<r, f + j>>
        BY DEF Grown
    <2>0. i \in 1..(l + n + m)
        BY <1>1, <1>3
    <2>1. CASE i <= l + n
        BY <1>1, <1>4, <2>0, <2>1
    <2>2. CASE i > l + n
        <3> DEFINE j == i - l - n - 1
        <3>1. j \in 0..(m - 1) /\ new[i] = <<r, f + j>>
            BY <1>5, <2>0, <2>2
        <3> HIDE DEF j
        <3> QED BY <3>1
    <2>3. i <= l + n \/ i > l + n
        BY <1>1, <2>0
    <2> QED BY <2>1, <2>2, <2>3
<1> QED BY <1>3, <1>6, <1>8 DEF old, new

\* A call that has written nothing has taken nothing.
LEMMA WithNone == ASSUME NEW w \in Seq(Block), NEW d PROVE With(w, d, 0) = w
<1> DEFINE n == 0
           t == With(w, d, n)
<1>1. n \in Nat /\ \A i \in 0..(n - 1) : d[i] \in Block
    OBVIOUS
<1> HIDE DEF n
<1>2. /\ t \in Seq(Block) /\ Len(t) = Len(w) + n
      /\ \A i \in 1..(Len(w) + n) : t[i] = Entry(w, d, i)
    BY <1>1, WithFacts
<1> HIDE DEF t
<1>3. Len(t) = Len(w) /\ \A i \in 1..Len(w) : t[i] = w[i]
    BY <1>2 DEF n, Entry
<1>4. t = w
    BY <1>2, <1>3
<1> QED BY <1>4 DEF t, n

(*----------------------- steps that take blocks -------------------------*)
\* What IndInv says of one party, in the form that the lemmas above take
LEMMA Stored ==
    ASSUME IndInv, NEW p \in Party
    PROVE  /\ out[p] \in Seq(Block) /\ ext[p] \in Nat /\ call[p] \in PlanType
           /\ data[p] \in Buffer(call[p].size) /\ otUsed[p] \in 0..OtLimit
           /\ otData[p] \in Buffer(N) /\ pc[p] \in {"idle", "rounds", "check"}
           /\ pc[p] # "idle" => PlanOK(call[p])
BY PartyInv DEF PartyOK, IndInv, TypeOK, Buffer

(* A step that changes these variables of one party preserves ServedInv when
   the new values are right for that party. *)
LEMMA UpdateServed ==
    ASSUME IndInv, ServedInv, NEW p \in Party,
           NEW s, NEW c, NEW d, NEW u, NEW o, NEW e, NEW w,
           ServedOK(s, c, d, u, o, e, w),
           pc' = [pc EXCEPT ![p] = s], call' = [call EXCEPT ![p] = c],
           data' = [data EXCEPT ![p] = d], otUsed' = [otUsed EXCEPT ![p] = u],
           otData' = [otData EXCEPT ![p] = o], ext' = [ext EXCEPT ![p] = e],
           out' = [out EXCEPT ![p] = w]
    PROVE  ServedInv'
<1> SUFFICES ASSUME NEW q \in Party
             PROVE  ServedOK(pc'[q], call'[q], data'[q], otUsed'[q], otData'[q],
                             ext'[q], out'[q])
    BY DEF ServedInv
<1>1. CASE q = p
    BY <1>1 DEF IndInv, TypeOK
<1>2. CASE q # p
    <2>1. /\ pc'[q] = pc[q] /\ call'[q] = call[q] /\ data'[q] = data[q]
          /\ otUsed'[q] = otUsed[q] /\ otData'[q] = otData[q]
          /\ ext'[q] = ext[q] /\ out'[q] = out[q]
        BY <1>2
    <2> QED BY <2>1 DEF ServedInv
<1> QED BY <1>1, <1>2

\* What a call copies from ot_data to the start of the caller's buffer
LEMMA TakenBlocks ==
    ASSUME IndInv, NEW p \in Party, NEW num \in Nat, NEW len \in 0..num,
           otUsed[p] + len <= OtLimit, NEW j \in 0..(len - 1)
    PROVE  /\ MemCpy(UserBuffer(num), 0, otData[p], otUsed[p], len)[j]
                 = otData[p][otUsed[p] + j]
           /\ otUsed[p] + j \in 0..(N - 1)
<1> USE ParamFacts
<1> DEFINE u == otUsed[p]
           o == otData[p]
           z == 0
           ub == UserBuffer(num)
<1>1. /\ o \in Buffer(N) /\ ub \in Buffer(num) /\ z \in Nat /\ u \in Nat
      /\ u + len <= N /\ len \in Nat
    <2>1. o \in Buffer(N) /\ u \in 0..OtLimit
        BY Stored
    <2>2. ub \in Buffer(num)
        BY UserBufferFacts DEF Buffer
    <2> HIDE DEF ub, o
    <2> QED BY <2>1, <2>2
<1>2. /\ j \in 0..(num - 1) /\ j \in z..(z + len - 1) /\ u + j - z = u + j
      /\ u + j \in 0..(N - 1)
    BY <1>1
<1> HIDE DEF ub, u, o, z
<1>3. MemCpy(ub, z, o, u, len)[j] = o[u + j - z]
    BY <1>1, <1>2, MemCpyFacts
<1> QED BY <1>2, <1>3 DEF ub, u, o, z

(* What a call takes from ot_data lies from ot_used on, where nothing has been
   taken yet. *)
LEMMA TakeServed ==
    ASSUME IndInv, ServedInv, NEW p \in Party, pc[p] = "idle",
           NEW num \in Nat, NEW len \in 0..num, otUsed[p] + len <= OtLimit
    PROVE  LET d == MemCpy(UserBuffer(num), 0, otData[p], otUsed[p], len)
               t == With(out[p], d, len)
           IN  /\ t \in Seq(Block) /\ Distinct(t)
               /\ \A i \in 1..Len(t) : t[i][1] <= ext[p]
               /\ otUsed[p] + len < OtLimit =>
                     \E r \in 1..ext[p] : /\ otData[p] = Fresh(r)
                                         /\ Before(t, r, otUsed[p] + len)
<1> USE ParamFacts
<1> DEFINE w == out[p]
           u == otUsed[p]
           o == otData[p]
           e == ext[p]
           d == MemCpy(UserBuffer(num), 0, o, u, len)
           t == With(w, d, len)
           z == 0
<1>1. /\ w \in Seq(Block) /\ e \in Nat /\ u \in Nat /\ u + len <= OtLimit
      /\ len \in Nat
    BY Stored
<1>2. /\ Distinct(w) /\ \A i \in 1..Len(w) : w[i][1] <= e
      /\ u < OtLimit => \E r \in 1..e : o = Fresh(r) /\ Before(w, r, u)
    BY DEF ServedInv, ServedOK, Taken, KeepsLeftover
<1>3. w = With(w, d, z)
    BY <1>1, WithNone
<1>4. CASE len = 0
    <2>1. t = w /\ u + len = u
        BY <1>1, <1>4, WithNone
    <2> HIDE DEF w, u, o, e, t
    <2>2. t \in Seq(Block) /\ Distinct(t) /\ \A i \in 1..Len(t) : t[i][1] <= e
        BY <1>1, <1>2, <2>1
    <2>3. u + len < OtLimit =>
             \E r \in 1..e : o = Fresh(r) /\ Before(t, r, u + len)
        BY <1>2, <2>1
    <2> QED BY <2>2, <2>3 DEF w, u, o, e, t
<1>5. CASE len > 0
    <2>1. PICK r \in 1..e : o = Fresh(r) /\ Before(w, r, u)
        BY <1>1, <1>2, <1>5
    <2>2. \A j \in 0..(len - 1) : d[j] = <<r, u + j>>
        <3> SUFFICES ASSUME NEW j \in 0..(len - 1) PROVE d[j] = <<r, u + j>>
            OBVIOUS
        <3>1. d[j] = o[u + j] /\ u + j \in 0..(N - 1)
            BY TakenBlocks
        <3> HIDE DEF d, o, u
        <3> QED BY <2>1, <3>1 DEF Fresh
    <2> DEFINE old == With(w, d, z)
    <2> HIDE DEF w, u, o, e, d
    <2>3. /\ z \in Nat /\ r \in Int /\ u \in Int /\ z + len = len
          /\ \A i \in 0..(z - 1) : d[i] \in Block /\ d[i] = d[i]
          /\ \A j \in 0..(len - 1) : d[z + j] = <<r, u + j>>
        BY <1>1, <2>2
    <2>4. Distinct(With(w, d, z)) /\ Before(With(w, d, z), r, u)
        BY <1>2, <1>3, <2>1
    <2> HIDE DEF z
    <2>5. t \in Seq(Block) /\ Distinct(t) /\ Grown(w, t, r, u, len)
        <3> DEFINE new == With(w, d, z + len)
        <3>1. new = t
            BY <2>3
        <3>2. new \in Seq(Block) /\ Distinct(new) /\ Grown(With(w, d, z), new, r, u, len)
            BY <1>1, <2>3, <2>4, Grow
        <3> HIDE DEF new, t
        <3> QED BY <1>3, <3>1, <3>2
    <2> HIDE DEF t
    <2>6. \A i \in 1..Len(t) : t[i][1] <= e /\ (t[i][1] = r => t[i][2] < u + len)
        <3> SUFFICES ASSUME NEW i \in 1..Len(t)
                     PROVE  t[i][1] <= e /\ (t[i][1] = r => t[i][2] < u + len)
            OBVIOUS
        <3>1. CASE i <= Len(w) /\ t[i] = w[i]
            <4>1. i \in 1..Len(w) /\ w[i] \in Block
                BY <1>1, <2>5, <3>1
            <4>2. w[i][1] <= e /\ (w[i][1] = r => w[i][2] < u) /\ w[i][2] \in Int
                BY <1>2, <2>1, <4>1 DEF Before, Block
            <4> QED BY <1>1, <3>1, <4>2
        <3>2. CASE \E j \in 0..(len - 1) : t[i] = <<r, u + j>>
            BY <1>1, <2>1, <3>2
        <3> QED BY <2>5, <3>1, <3>2 DEF Grown
    <2>7. Before(t, r, u + len)
        BY <2>6 DEF Before
    <2> QED BY <2>1, <2>5, <2>6, <2>7 DEF w, u, o, e, d, t
<1> QED BY <1>1, <1>4, <1>5

\* The calls of rcot and rcot_inplace
LEMMA CallServed ==
    ASSUME IndInv, ServedInv, NEW p \in Party, Call(p)
    PROVE  ServedInv'
<1> USE ParamFacts
<1> DEFINE w == out[p]
           u == otUsed[p]
           o == otData[p]
           e == ext[p]
<1>1. /\ pc[p] = "idle" /\ pc' = [pc EXCEPT ![p] = "rounds"]
      /\ UNCHANGED <<otData, ext, out>> /\ u \in 0..OtLimit /\ w \in Seq(Block)
    BY Stored DEF Call, Issue
<1>2. /\ otData' = [otData EXCEPT ![p] = o] /\ ext' = [ext EXCEPT ![p] = e]
      /\ out' = [out EXCEPT ![p] = w]
    BY <1>1 DEF IndInv, TypeOK
<1>3. ASSUME NEW num \in Lengths, RcotHit(p, num)
      PROVE  ServedInv'
    <2> DEFINE c == Plan("rcot", num, num, num, 0, FALSE, 0)
               d == MemCpy(UserBuffer(num), 0, o, u, num)
               v == u + num
               t == With(w, d, num)
               s == "rounds"
    <2>1. num \in Nat /\ u + num <= OtLimit /\ num \in 0..num
        BY <1>1, <1>3, CallAssumption DEF RcotHit, SilentOtLeft
    <2>2. /\ data' = [data EXCEPT ![p] = d] /\ call' = [call EXCEPT ![p] = c]
          /\ otUsed' = [otUsed EXCEPT ![p] = v] /\ c.pt = num /\ ~c.memcpy
        BY <1>3 DEF RcotHit, Plan
    <2>3. /\ Distinct(t) /\ \A i \in 1..Len(t) : t[i][1] <= e
          /\ v < OtLimit => \E r \in 1..e : o = Fresh(r) /\ Before(t, r, v)
        BY <1>1, <2>1, TakeServed
    <2>4. t = Taken(s, c, d, w)
        BY <2>2 DEF Taken
    <2> HIDE DEF c, d, v, t, w, u, o, e
    <2>5. ServedOK(s, c, d, v, o, e, w)
        BY <2>2, <2>3, <2>4 DEF ServedOK
    <2> HIDE DEF s
    <2> QED BY <1>1, <1>2, <2>2, <2>5, UpdateServed DEF s
<1>4. ASSUME NEW num \in Lengths, RcotMiss(p, num)
      PROVE  ServedInv'
    <2> DEFINE gened == SilentOtLeft(p)
               inplace == InplaceRounds(num - gened)
               rest == num - gened - inplace * OtLimit
               memcpy == rest > OtLimit
               last == IF memcpy THEN rest - OtLimit ELSE rest
               c == Plan("rcot", num, num, gened, inplace, memcpy, last)
               d == MemCpy(UserBuffer(num), 0, o, u, gened)
               t == With(w, d, gened)
               s == "rounds"
    <2>1. /\ num \in Nat /\ num > gened /\ gened \in 0..num /\ u + gened <= OtLimit
          /\ num - gened \in Nat \ {0}
        BY <1>1, <1>4, CallAssumption DEF RcotMiss, SilentOtLeft
    <2>2. /\ data' = [data EXCEPT ![p] = d] /\ call' = [call EXCEPT ![p] = c]
          /\ otUsed' = otUsed /\ c.pt = gened /\ c.memcpy = memcpy
          /\ c.last = last /\ c.op = "rcot"
        BY <1>4 DEF RcotMiss, Plan
    <2>3. rest \in 1..(M + OtLimit - 1)
        BY <2>1, RoundsFacts
    <2>4. last > 0
        BY <2>3
    <2>5. Distinct(t) /\ \A i \in 1..Len(t) : t[i][1] <= e
        BY <1>1, <2>1, TakeServed
    <2>6. t = Taken(s, c, d, w)
        BY <2>2 DEF Taken
    <2>7. otUsed' = [otUsed EXCEPT ![p] = u]
        BY <2>2, SameParty
    <2> HIDE DEF c, d, t, w, u, o, e, rest, memcpy, last
    <2>8. ~KeepsLeftover(s, c)
        BY <2>2, <2>4 DEF KeepsLeftover, RoundsLeft
    <2>9. ServedOK(s, c, d, u, o, e, w)
        BY <2>2, <2>4, <2>5, <2>6, <2>8 DEF ServedOK
    <2>10. /\ pc' = [pc EXCEPT ![p] = s] /\ call' = [call EXCEPT ![p] = c]
           /\ data' = [data EXCEPT ![p] = d] /\ otUsed' = [otUsed EXCEPT ![p] = u]
           /\ otData' = [otData EXCEPT ![p] = o] /\ ext' = [ext EXCEPT ![p] = e]
           /\ out' = [out EXCEPT ![p] = w]
        BY <1>1, <1>2, <2>2, <2>7
    <2> HIDE DEF s
    <2> QED BY <2>9, <2>10, UpdateServed
<1>5. ASSUME NEW need \in Needs, RcotInplace(p, need)
      PROVE  ServedInv'
    <2> DEFINE space == ByteMemoryNeedInplace(need)
               c == Plan("inplace", space, space - M, 0, (space - M) \div OtLimit,
                         FALSE, 0)
               d == UserBuffer(space)
               s == "rounds"
    <2>1. /\ data' = [data EXCEPT ![p] = d] /\ call' = [call EXCEPT ![p] = c]
          /\ otUsed' = otUsed /\ c.pt = 0 /\ ~c.memcpy
        BY <1>5 DEF RcotInplace, Plan
    <2>2. Taken(s, c, d, w) = Taken(pc[p], call[p], data[p], w)
        BY <1>1, <2>1, WithNone DEF Taken
    <2>3. ServedOK(pc[p], call[p], data[p], u, o, e, w) /\ KeepsLeftover(pc[p], call[p])
        BY <1>1 DEF ServedInv, KeepsLeftover
    <2>4. otUsed' = [otUsed EXCEPT ![p] = u]
        BY <2>1, SameParty
    <2> HIDE DEF c, d, w, u, o, e
    <2>5. ServedOK(s, c, d, u, o, e, w)
        BY <2>1, <2>2, <2>3 DEF ServedOK
    <2>6. /\ pc' = [pc EXCEPT ![p] = s] /\ call' = [call EXCEPT ![p] = c]
          /\ data' = [data EXCEPT ![p] = d] /\ otUsed' = [otUsed EXCEPT ![p] = u]
          /\ otData' = [otData EXCEPT ![p] = o] /\ ext' = [ext EXCEPT ![p] = e]
          /\ out' = [out EXCEPT ![p] = w]
        BY <1>1, <1>2, <2>1, <2>4
    <2> HIDE DEF s
    <2> QED BY <2>5, <2>6, UpdateServed
<1> QED BY <1>3, <1>4, <1>5 DEF Call

\* A call that has no round left has filled what its caller gets.
LEMMA AllFinal ==
    ASSUME NEW c \in PlanType, PlanOK(c), ~RoundsLeft(c)
    PROVE  c.pt = c.give
<1>1. c.inplace = 0 /\ ~c.memcpy /\ c.last = 0 /\ c.inplace * OtLimit = 0
    BY ParamFacts DEF RoundsLeft, PlanOK, PlanType
<1>2. Rest(c) = IF c.op = "inplace" THEN M ELSE 0
    BY <1>1, ParamFacts DEF Rest
<1>3. /\ c.pt + Rest(c) = c.size /\ c.op \in {"rcot", "inplace"}
      /\ c.pt \in Nat /\ c.size \in Nat /\ M \in Nat
    BY <1>1, <1>2, ParamFacts DEF PlanOK, PlanType
<1>4. /\ c.op = "rcot" => c.give = c.size
      /\ c.op = "inplace" => c.give = c.size - M
    BY DEF PlanOK
<1> QED BY <1>2, <1>3, <1>4

\* A call that returns hands out what it has taken, and no more.
LEMMA ReturnServed ==
    ASSUME IndInv, ServedInv, NEW p \in Party, Return(p)
    PROVE  ServedInv'
<1> DEFINE c == call[p]
           d == data[p]
           u == otUsed[p]
           o == otData[p]
           e == ext[p]
           w == With(out[p], d, c.pt)
           s == "idle"
<1>1. /\ pc[p] = "rounds" /\ ~RoundsLeft(c)
      /\ out' = [out EXCEPT ![p] = @ \o [i \in 1..c.give |-> d[i - 1]]]
      /\ pc' = [pc EXCEPT ![p] = s]
      /\ UNCHANGED <<call, data, otData, otUsed, ext>>
    BY DEF Return
<1>2. c.pt = c.give
    <2>1. c \in PlanType /\ PlanOK(c)
        BY <1>1, Stored
    <2> HIDE DEF c
    <2> QED BY <1>1, <2>1, AllFinal
<1>3. out' = [out EXCEPT ![p] = w]
    BY <1>1, <1>2 DEF With
<1>4. /\ call' = [call EXCEPT ![p] = c] /\ data' = [data EXCEPT ![p] = d]
      /\ otUsed' = [otUsed EXCEPT ![p] = u] /\ otData' = [otData EXCEPT ![p] = o]
      /\ ext' = [ext EXCEPT ![p] = e]
    BY <1>1, SameParty, Typing
<1>5. /\ Taken(pc[p], c, d, out[p]) = w /\ Taken(s, c, d, w) = w
      /\ KeepsLeftover(pc[p], c) /\ KeepsLeftover(s, c)
    BY <1>1 DEF Taken, KeepsLeftover
<1>6. ServedOK(pc[p], c, d, u, o, e, out[p])
    BY DEF ServedInv
<1>7. ServedOK(s, c, d, u, o, e, w)
    <2> HIDE DEF c, d, u, o, e, w
    <2> QED BY <1>5, <1>6 DEF ServedOK
<1>8. pc' = [pc EXCEPT ![p] = s]
    BY <1>1
<1> HIDE DEF c, d, u, o, e, w, s
<1> QED BY <1>3, <1>4, <1>7, <1>8, UpdateServed

(*------------------------ extensions that are served --------------------*)
\* The first len blocks of extension r, copied to place pt of a buffer
CopiedBlock(d, pt, r, len, i) == IF i \in pt..(pt + len - 1) THEN <<r, i - pt>> ELSE d[i]

LEMMA CopiedFacts ==
    ASSUME NEW size \in Nat, NEW pt \in Nat, NEW d \in Buffer(size),
           NEW r \in Nat, NEW len \in 0..N
    PROVE  \A i \in 0..(size - 1) :
               Copied(d, pt, Fresh(r), len)[i] = CopiedBlock(d, pt, r, len, i)
<1> SUFFICES ASSUME NEW i \in 0..(size - 1)
             PROVE  Copied(d, pt, Fresh(r), len)[i] = CopiedBlock(d, pt, r, len, i)
    OBVIOUS
<1> USE ParamFacts
<1> DEFINE b == Fresh(r)
           f == 0
<1>1. b \in Buffer(N) /\ f \in Nat /\ f + len <= N /\ len \in Nat
    BY ExtensionFacts DEF Extension, Buffer
<1>2. \A j \in 0..(N - 1) : b[j] = <<r, j>>
    BY DEF Fresh
<1>3. Copied(d, pt, b, len) = MemCpy(d, pt, b, f, len)
    BY DEF Copied
<1> HIDE DEF b, f
<1>4. MemCpy(d, pt, b, f, len)[i] =
         IF i \in pt..(pt + len - 1) THEN b[f + i - pt] ELSE d[i]
    BY <1>1, MemCpyFacts
<1>5. i \in pt..(pt + len - 1) => f + i - pt = i - pt /\ i - pt \in 0..(N - 1)
    BY DEF f
<1>6. Copied(d, pt, b, len)[i] = CopiedBlock(d, pt, r, len, i)
    BY <1>2, <1>3, <1>4, <1>5 DEF CopiedBlock
<1> QED BY <1>6 DEF b

(* An extension that is copied to the caller's buffer: m of its blocks become
   final, and they are newer than everything that was taken before. *)
LEMMA CopyServed ==
    ASSUME NEW w \in Seq(Block), NEW size \in Nat, NEW pt \in Nat, NEW d \in Buffer(size),
           NEW e \in Nat, NEW len \in 0..N, NEW m \in 0..len, pt + m <= size,
           Distinct(With(w, d, pt)), \A i \in 1..Len(With(w, d, pt)) : With(w, d, pt)[i][1] <= e
    PROVE  LET old == With(w, d, pt)
               new == With(w, Copied(d, pt, Fresh(e + 1), len), pt + m)
           IN  /\ Distinct(new) /\ Grown(old, new, e + 1, 0, m) /\ Before(new, e + 1, m)
               /\ \A i \in 1..Len(new) : new[i][1] <= e + 1
<1> USE ParamFacts
<1> DEFINE r == e + 1
           f == 0
           g == Copied(d, pt, Fresh(r), len)
           old == With(w, d, pt)
           new == With(w, g, pt + m)
<1>1. r \in Nat /\ r > e /\ f \in Nat /\ m \in Nat /\ len \in 0..N
    OBVIOUS
<1> HIDE DEF f, r
<1>2. ASSUME NEW i \in 0..(size - 1)
      PROVE  g[i] = IF i \in pt..(pt + len - 1) THEN <<r, i - pt>> ELSE d[i]
    <2>1. r \in Nat
        BY <1>1
    <2>2. \A k \in 0..(size - 1) : g[k] = CopiedBlock(d, pt, r, len, k)
        BY <2>1, CopiedFacts
    <2> QED BY <2>2, Zenon DEF CopiedBlock
<1> HIDE DEF g
<1>5. ASSUME NEW i \in 0..(pt - 1) PROVE d[i] \in Block /\ g[i] = d[i]
    <2>1. i \in 0..(size - 1) /\ i \notin pt..(pt + len - 1)
        OBVIOUS
    <2>2. d[i] \in Block
        BY <2>1 DEF Buffer
    <2> QED BY <1>2, <2>1, <2>2
<1>6. ASSUME NEW j \in 0..(m - 1) PROVE g[pt + j] = <<r, f + j>>
    <2> DEFINE i == pt + j
    <2>1. /\ i \in 0..(size - 1) /\ i \in pt..(pt + len - 1)
          /\ i - pt = j /\ f + j = j
        BY DEF f
    <2> HIDE DEF i
    <2>2. g[i] = <<r, j>>
        BY <1>2, <2>1
    <2> QED BY <2>1, <2>2 DEF i
<1>7. Before(old, r, f)
    BY <1>1 DEF Before
<1>8. Distinct(old) /\ \A i \in 1..Len(old) : old[i][1] <= e
    OBVIOUS
<1>9. /\ \A i \in 0..(pt - 1) : d[i] \in Block /\ g[i] = d[i]
      /\ r \in Int /\ f \in Int /\ \A j \in 0..(m - 1) : g[pt + j] = <<r, f + j>>
    <2>1. \A i \in 0..(pt - 1) : d[i] \in Block /\ g[i] = d[i]
        BY <1>5
    <2>2. r \in Int /\ f \in Int
        BY <1>1
    <2>3. \A j \in 0..(m - 1) : g[pt + j] = <<r, f + j>>
        BY <1>6
    <2> QED BY <2>1, <2>2, <2>3
<1> HIDE DEF r
<1>10. Distinct(new) /\ Grown(old, new, r, f, m)
    BY <1>1, <1>7, <1>8, <1>9, Grow
<1> HIDE DEF old, new
<1>11. \A i \in 1..Len(new) : new[i][1] <= r /\ (new[i][1] = r => new[i][2] < m)
    <2> SUFFICES ASSUME NEW i \in 1..Len(new)
                 PROVE  new[i][1] <= r /\ (new[i][1] = r => new[i][2] < m)
        OBVIOUS
    <2>1. CASE i <= Len(old) /\ new[i] = old[i]
        <3>1. i \in 1..Len(old)
            BY <2>1, <1>10
        <3>2. old[i][1] <= e /\ old[i] \in Block
            <4>1. old \in Seq(Block)
                <5> USE DEF old
                <5>1. \A j \in 0..(pt - 1) : d[j] \in Block
                    BY <1>9
                <5> QED BY <5>1, WithFacts
            <4> QED BY <1>8, <3>1, <4>1
        <3> QED BY <1>1, <2>1, <3>2 DEF Block
    <2>2. CASE \E j \in 0..(m - 1) : new[i] = <<r, f + j>>
        BY <1>1, <2>2 DEF f
    <2> QED BY <1>10, <2>1, <2>2 DEF Grown
<1>12. Before(new, r, m) /\ \A i \in 1..Len(new) : new[i][1] <= r
    BY <1>11 DEF Before
<1> QED BY <1>10, <1>12 DEF r, f, g, old, new

\* What another extension has given out is not changed by extension r.
LEMMA GrownBefore ==
    ASSUME NEW old, NEW new, NEW r, NEW f, NEW m, Grown(old, new, r, f, m),
           NEW q, q # r, NEW u, Before(old, q, u), Len(old) \in Nat
    PROVE  Before(new, q, u)
<1> SUFFICES ASSUME NEW i \in 1..Len(new), new[i][1] = q PROVE new[i][2] < u
    BY DEF Before
<1>1. CASE i <= Len(old) /\ new[i] = old[i]
    BY <1>1 DEF Before
<1>2. CASE \E j \in 0..(m - 1) : new[i] = <<r, f + j>>
    BY <1>2
<1> QED BY <1>1, <1>2 DEF Grown

(* What the plan of a call has made final lies in the caller's buffer. *)
LEMMA PlanBound ==
    ASSUME NEW c \in PlanType, PlanOK(c)
    PROVE  c.pt \in Nat /\ c.pt <= c.size
<1>1. /\ c.pt \in Nat /\ c.inplace \in Nat /\ c.size \in Nat /\ Rest(c) \in Nat
      /\ c.pt + c.inplace * OtLimit + Rest(c) = c.size
    BY ParamFacts DEF PlanOK, PlanType, Rest
<1>2. c.inplace * OtLimit \in Nat
    BY <1>1, ParamFacts
<1> QED BY <1>1, <1>2

\* The end of an extension, in each kind of round
LEMMA FinishServed ==
    ASSUME IndInv, ServedInv, NEW p \in Party, pc[p] # "idle",
           FinishExtension(p, Fresh(ext[p] + 1))
    PROVE  ServedInv'
<1> USE ParamFacts
<1> DEFINE c == call[p]
           d == data[p]
           u == otUsed[p]
           o == otData[p]
           e == ext[p]
           w == out[p]
           r == e + 1
           b == Fresh(r)
           at == c.pt
           last == c.last
           old == With(w, d, at)
           s == "rounds"
           z == 0
<1>1. /\ w \in Seq(Block) /\ e \in Nat /\ c \in PlanType /\ PlanOK(c)
      /\ d \in Buffer(c.size) /\ u \in 0..OtLimit /\ pc[p] \in {"rounds", "check"}
    BY Stored
<1>2. /\ at \in Nat /\ c.size \in Nat /\ last \in 0..OtLimit
      /\ c.memcpy => c.op = "rcot"
    BY <1>1 DEF PlanType, PlanOK
<1>3. /\ Distinct(old) /\ (c.memcpy => last > 0)
      /\ \A i \in 1..Len(old) : old[i][1] <= e
      /\ (c.op = "inplace" \/ ~RoundsLeft(c)) /\ u < OtLimit
            => \E q \in 1..e : o = Fresh(q) /\ Before(old, q, u)
    <2>1. ServedOK(pc[p], c, d, u, o, e, w) /\ Taken(pc[p], c, d, w) = old
        BY <1>1 DEF ServedInv, Taken
    <2> HIDE DEF c, d, u, o, e, w, old, last
    <2>2. c.memcpy => c.last > 0
        BY <1>1, <2>1 DEF ServedOK
    <2>3. KeepsLeftover(pc[p], c) <=> c.op = "inplace" \/ ~RoundsLeft(c)
        BY <1>1 DEF KeepsLeftover
    <2> QED BY <2>1, <2>2, <2>3 DEF ServedOK, last
<1>4. /\ pc' = [pc EXCEPT ![p] = s] /\ ext' = [ext EXCEPT ![p] = r]
      /\ out' = [out EXCEPT ![p] = w]
    BY Typing DEF FinishExtension, IndInv, TypeOK
<1>5. ASSUME NEW len \in 0..N, NEW m \in 0..len, at + m <= c.size
      PROVE  LET new == With(w, Copied(d, at, b, len), at + m)
             IN  /\ Distinct(new) /\ Grown(old, new, r, z, m) /\ Before(new, r, m)
                 /\ \A i \in 1..Len(new) : new[i][1] <= r
    <2> HIDE DEF c, d, e, w, at
    <2> QED BY <1>1, <1>2, <1>3, <1>5, CopyServed
<1>6. ASSUME NEW n, NEW g, NEW v, NEW q, ServedOK(s, n, g, v, q, r, w),
             call' = [call EXCEPT ![p] = n], data' = [data EXCEPT ![p] = g],
             otUsed' = [otUsed EXCEPT ![p] = v], otData' = [otData EXCEPT ![p] = q]
      PROVE  ServedInv'
    <2> HIDE DEF s, r, w
    <2> QED BY <1>4, <1>6, UpdateServed
<1>7. ASSUME NEW v, v < OtLimit => v = u /\ c.op = "inplace",
             InplaceRound(p, b) \/ UserRound(p, b),
             otUsed' = [otUsed EXCEPT ![p] = v]
      PROVE  ServedInv'
    <2> DEFINE n == AfterInplace(c)
               g == Copied(d, at, b, N)
               m == OtLimit
               len == N
               t == With(w, Copied(d, at, b, len), at + m)
    <2>1. /\ call' = [call EXCEPT ![p] = n] /\ data' = [data EXCEPT ![p] = g]
          /\ otData' = [otData EXCEPT ![p] = o] /\ c.inplace > 0
        <3>1. /\ call' = [call EXCEPT ![p] = AfterInplace(@)]
              /\ data' = [data EXCEPT ![p] = g] /\ otData' = otData /\ c.inplace > 0
            BY <1>7 DEF InplaceRound, UserRound, Copied
        <3>2. call \in [Party -> PlanType]
            BY DEF IndInv, TypeOK
        <3> QED BY <3>1, <3>2, SameParty
    <2>2. n.pt = at + m /\ n.memcpy = c.memcpy /\ n.last = last /\ n.op = c.op
        BY DEF AfterInplace, Plan
    <2>3. at + N <= c.size
        BY <1>1, <2>1, InplacePlan
    <2>4. len \in 0..N /\ m \in 0..len /\ at + m <= c.size
        BY <1>2, <2>3
    <2>5. Taken(s, n, g, w) = t
        BY <2>2 DEF Taken
    <2> HIDE DEF m, len
    <2>6. /\ Distinct(t) /\ Grown(old, t, r, z, m)
          /\ \A i \in 1..Len(t) : t[i][1] <= r
        BY <1>5, <2>4
    <2>7. v < OtLimit => \E q \in 1..r : o = Fresh(q) /\ Before(t, q, v)
        <3> SUFFICES ASSUME v < OtLimit PROVE \E q \in 1..r : o = Fresh(q) /\ Before(t, q, v)
            OBVIOUS
        <3>1. PICK q \in 1..e : o = Fresh(q) /\ Before(old, q, u)
            BY <1>3, <1>7
        <3>2. q # r /\ q \in 1..r
            BY <1>1, <3>1
        <3>3. Len(old) \in Nat
            <4>1. \A i \in 0..(at - 1) : d[i] \in Block
                <5> DEFINE size == c.size
                <5>1. at <= size /\ size \in Nat /\ at \in Nat /\ d \in Buffer(size)
                    BY <1>1, <1>2, <2>3
                <5> HIDE DEF c, d, at, size
                <5> QED BY <5>1 DEF Buffer
            <4> HIDE DEF d, at, w
            <4> QED BY <1>1, <1>2, <4>1, WithFacts
        <3> HIDE DEF old, t, r, z
        <3>4. Before(t, q, u)
            BY <2>6, <3>1, <3>2, <3>3, GrownBefore
        <3> QED BY <1>7, <3>1, <3>2, <3>4
    <2> HIDE DEF t, n, g, c, d, u, o, w, e, r, last, b, old, at
    <2>8. ServedOK(s, n, g, v, o, r, w)
        BY <1>3, <2>2, <2>5, <2>6, <2>7 DEF ServedOK
    <2> HIDE DEF s
    <2> QED BY <1>6, <1>7, <2>1, <2>8
<1>8. CASE InplaceRound(p, b)
    <2> DEFINE v == OtLimit
    <2>1. otUsed' = [otUsed EXCEPT ![p] = v]
        BY <1>8 DEF InplaceRound
    <2>2. ~(v < OtLimit)
        OBVIOUS
    <2> HIDE DEF v, u, c, b
    <2> QED BY <1>7, <1>8, <2>1, <2>2
<1>9. CASE UserRound(p, b)
    <2>1. otUsed' = [otUsed EXCEPT ![p] = u] /\ c.op = "inplace"
        BY <1>9, SameParty DEF UserRound
    <2> HIDE DEF u, c, b
    <2> QED BY <1>7, <1>9, <2>1
<1>10. CASE MemcpyRound(p, b)
    <2> DEFINE n == AfterMemcpy(c)
               m == OtLimit
               len == OtLimit
               g == Copied(d, at, b, len)
               t == With(w, g, at + m)
    <2>1. /\ call' = [call EXCEPT ![p] = n] /\ data' = [data EXCEPT ![p] = g]
          /\ otUsed' = [otUsed EXCEPT ![p] = z] /\ otData' = [otData EXCEPT ![p] = b]
          /\ c.inplace <= 0 /\ c.memcpy
        BY <1>10 DEF MemcpyRound, IndInv, TypeOK, Copied
    <2>2. n.pt = at + m /\ ~n.memcpy /\ n.last = last /\ n.op = c.op
        BY DEF AfterMemcpy, Plan
    <2>3. at + OtLimit <= c.size
        BY <1>1, <2>1, MemcpyPlan
    <2>4. len \in 0..N /\ m \in 0..len /\ at + m <= c.size
        BY <1>2, <2>3
    <2>5. Taken(s, n, g, w) = t
        BY <2>2 DEF Taken
    <2> HIDE DEF m, len
    <2>6. Distinct(t) /\ \A i \in 1..Len(t) : t[i][1] <= r
        BY <1>5, <2>4
    <2>7. ~KeepsLeftover(s, n)
        BY <1>2, <1>3, <2>1, <2>2 DEF KeepsLeftover, RoundsLeft
    <2> HIDE DEF t, n, g, c, d, u, o, w, e, r, last, b, old, at
    <2>8. ServedOK(s, n, g, z, b, r, w)
        BY <2>2, <2>5, <2>6, <2>7 DEF ServedOK
    <2> HIDE DEF s, z
    <2> QED BY <1>6, <2>1, <2>8
<1>11. CASE LastRound(p, b)
    <2> DEFINE n == AfterLast(c)
               m == last
               len == last
               g == Copied(d, at, b, len)
               t == With(w, g, at + m)
    <2>1. /\ call' = [call EXCEPT ![p] = n] /\ data' = [data EXCEPT ![p] = g]
          /\ otUsed' = [otUsed EXCEPT ![p] = m] /\ otData' = [otData EXCEPT ![p] = b]
          /\ c.inplace <= 0 /\ ~c.memcpy /\ last > 0
        BY <1>11 DEF LastRound, IndInv, TypeOK, Copied
    <2>2. n.pt = at + m /\ ~n.memcpy
        BY <2>1 DEF AfterLast, Plan
    <2>3. at + last <= c.size
        BY <1>1, <2>1, LastPlan
    <2>4. len \in 0..N /\ m \in 0..len /\ at + m <= c.size
        BY <1>2, <2>3
    <2>5. Taken(s, n, g, w) = t
        BY <2>2 DEF Taken
    <2> HIDE DEF m, len
    <2>6. Distinct(t) /\ Before(t, r, m) /\ \A i \in 1..Len(t) : t[i][1] <= r
        BY <1>5, <2>4
    <2>7. r \in 1..r /\ b = Fresh(r)
        BY <1>1
    <2> HIDE DEF t, n, g, c, d, u, o, w, e, r, last, b, old, at
    <2>8. ServedOK(s, n, g, m, b, r, w)
        BY <2>2, <2>5, <2>6, <2>7 DEF ServedOK
    <2> HIDE DEF s
    <2> QED BY <1>6, <2>1, <2>8
<1> QED BY <1>8, <1>9, <1>10, <1>11 DEF FinishExtension

(*---------------------------- the kinds of step -------------------------*)
\* A party that waits for the check, and one that completes its extension
Begins(p) ==
    /\ pc[p] # "idle" /\ pc' = [pc EXCEPT ![p] = "check"]
    /\ UNCHANGED <<call, data, otData, otUsed, pre, ext, calls, out>>
Produces(p) == pc[p] # "idle" /\ FinishExtension(p, Fresh(ext[p] + 1))

(* Every extension gives the party that completes it the blocks of its own
   next extension: the receiver never reads the trees of another one. *)
LEMMA StepKinds ==
    ASSUME IndInv, ProtocolInv, Next
    PROVE  \E p \in Party : Call(p) \/ Return(p) \/ Begins(p) \/ Produces(p)
<1> USE Typing
<1>1. CASE AliceExtend \/ AliceSendDig
    <2>1. Produces("ALICE")
        BY <1>1 DEF AliceExtend, AliceSendDig, Extending, Produces
    <2> QED BY <2>1
<1>2. CASE AliceSendTrees
    <2>1. Begins("ALICE")
        BY <1>2 DEF AliceSendTrees, Extending, Begins
    <2> QED BY <2>1
<1>3. CASE BobSendXPrime
    <2>1. Begins("BOB")
        BY <1>3 DEF BobSendXPrime, Extending, Begins
    <2> QED BY <2>1
<1>4. CASE BobExtend
    <2> DEFINE w == wire["BOB"]
               r == ext["BOB"] + 1
    <2>1. /\ SilentInv /\ pc["BOB"] # "idle" /\ w # <<>> /\ w \in Seq(Msg)
          /\ FinishExtension("BOB", Received("BOB", Head(w)))
        BY <1>4 DEF BobExtend, Extending, Arrived, ProtocolInv
    <2>2. Head(w) = Trees(r)
        <3>1. Head(w) = w[1] /\ 1 \in 1..Len(w)
            BY <2>1
        <3> QED BY <2>1, <3>1 DEF SilentInv
    <2>3. Produces("BOB")
        BY <2>1, <2>2, Incoming DEF Produces
    <2> QED BY <2>3
<1>5. CASE BobCompareDig
    <2>1. pc["BOB"] = "check" /\ FinishExtension("BOB", trees)
        BY <1>5 DEF BobCompareDig
    <2>2. trees = Fresh(ext["BOB"] + 1)
        BY <2>1 DEF ProtocolInv, SilentInv, CheckedInv, Stage
    <2>3. Produces("BOB")
        BY <2>1, <2>2 DEF Produces
    <2> QED BY <2>3
<1> QED BY <1>1, <1>2, <1>3, <1>4, <1>5 DEF Next, AliceStep, BobStep

\* After setup nothing has been taken and ot_data is used up.
LEMMA InitServed == Init => ServedInv
<1> SUFFICES ASSUME Init, NEW p \in Party
             PROVE  ServedOK(pc[p], call[p], data[p], otUsed[p], otData[p], ext[p], out[p])
    BY DEF ServedInv
<1>1. pc[p] = "idle" /\ otUsed[p] = OtLimit /\ out[p] = <<>> /\ Len(<<>>) = 0
    BY DEF Init
<1>2. ~(OtLimit < OtLimit)
    BY ParamFacts
<1> QED BY <1>1, <1>2 DEF ServedOK, Taken, Distinct

\* Every step keeps the blocks that are taken apart.
LEMMA ServedStep == IndInv /\ ProtocolInv /\ ServedInv /\ [Next]_vars => ServedInv'
<1> SUFFICES ASSUME IndInv, ProtocolInv, ServedInv, [Next]_vars PROVE ServedInv'
    OBVIOUS
<1>1. ASSUME NEW p \in Party, Begins(p)
      PROVE  ServedInv'
    <2> DEFINE c == call[p]
               d == data[p]
               u == otUsed[p]
               o == otData[p]
               e == ext[p]
               w == out[p]
               s == "check"
    <2>1. pc[p] # "idle" /\ UNCHANGED <<call, data, otData, otUsed, ext, out>>
        BY <1>1 DEF Begins
    <2>2. /\ pc' = [pc EXCEPT ![p] = s] /\ call' = [call EXCEPT ![p] = c]
          /\ data' = [data EXCEPT ![p] = d] /\ otUsed' = [otUsed EXCEPT ![p] = u]
          /\ otData' = [otData EXCEPT ![p] = o]
        BY <1>1, SameParty DEF Begins
    <2>3. ext' = [ext EXCEPT ![p] = e] /\ out' = [out EXCEPT ![p] = w]
        BY <2>1 DEF IndInv, TypeOK
    <2>4. ServedOK(pc[p], c, d, u, o, e, w)
        BY DEF ServedInv
    <2> HIDE DEF c, d, u, o, e, w
    <2>5. Taken(pc[p], c, d, w) = Taken(s, c, d, w)
          /\ (KeepsLeftover(pc[p], c) <=> KeepsLeftover(s, c)) /\ s # "idle"
        BY <2>1 DEF Taken, KeepsLeftover
    <2>6. ServedOK(s, c, d, u, o, e, w)
        BY <2>1, <2>4, <2>5 DEF ServedOK
    <2> HIDE DEF s
    <2> QED BY <2>2, <2>3, <2>6, UpdateServed
<1>2. ASSUME NEW p \in Party, Produces(p)
      PROVE  ServedInv'
    BY <1>2, FinishServed DEF Produces
<1>3. CASE UNCHANGED vars
    BY <1>3 DEF vars, ServedInv
<1>4. CASE Next
    BY <1>1, <1>2, <1>4, CallServed, ReturnServed, StepKinds
<1> QED BY <1>3, <1>4

\* In every reachable state what has been taken is apart from what is in store.
LEMMA ServedApart == Spec => []ServedInv
<1> QED BY InitServed, ServedStep, Invariance, InStep, PTL DEF Spec

(* No block is returned twice, and between calls none that was returned is
   still in ot_data or in the seed of the next extension, for any mixture of
   calls of rcot and rcot_inplace in both modes. *)
THEOREM ServedOnce == Spec => []NeverServedTwice
<1>1. ASSUME IndInv, ProtocolInv, ServedInv PROVE NeverServedTwice
    <2> SUFFICES ASSUME NEW p \in Party
                 PROVE  /\ \A i, j \in 1..Len(out[p]) : out[p][i] = out[p][j] => i = j
                        /\ pc[p] = "idle" =>
                              Delivered(p) \cap
                                (Leftover(p) \cup {pre[p][i] : i \in 0..(M - 1)}) = {}
        BY DEF NeverServedTwice
    <2> DEFINE c == call[p]
               d == data[p]
               w == out[p]
               u == otUsed[p]
               t == Taken(pc[p], c, d, w)
    <2> USE ParamFacts
    <2>1. /\ w \in Seq(Block) /\ d \in Buffer(c.size) /\ c \in PlanType /\ u \in 0..OtLimit
          /\ ext[p] \in Nat
        BY <1>1, Stored
    <2>2. /\ Distinct(t) /\ \A i \in 1..Len(t) : t[i][1] <= ext[p]
          /\ KeepsLeftover(pc[p], c) /\ u < OtLimit =>
                \E r \in 1..ext[p] : otData[p] = Fresh(r) /\ Before(t, r, u)
        BY <1>1 DEF ServedInv, ServedOK
    <2>3. \A i \in 1..Len(w) : i \in 1..Len(t) /\ t[i] = w[i]
        <3>1. CASE pc[p] = "idle"
            BY <3>1 DEF Taken
        <3>2. CASE pc[p] # "idle"
            <4> DEFINE n == c.pt
            <4>1. n \in Nat /\ \A i \in 0..(n - 1) : d[i] \in Block
                <5>1. c \in PlanType /\ PlanOK(c) /\ c.size \in Nat
                    BY <1>1, <3>2, Stored DEF PlanType
                <5> DEFINE size == c.size
                <5>2. n \in Nat /\ n <= size /\ d \in Buffer(size) /\ size \in Nat
                    <6> HIDE DEF c, d
                    <6> QED BY <2>1, <5>1, PlanBound
                <5> HIDE DEF n, d, size
                <5> QED BY <5>2 DEF Buffer
            <4> HIDE DEF n, w, d
            <4>2. /\ With(w, d, n) \in Seq(Block) /\ Len(With(w, d, n)) = Len(w) + n
                  /\ \A i \in 1..(Len(w) + n) :
                       With(w, d, n)[i] = IF i <= Len(w) THEN w[i] ELSE d[i - Len(w) - 1]
                BY <2>1, <4>1, WithFacts DEF Entry
            <4>3. t = With(w, d, n)
                BY <3>2 DEF Taken, n
            <4> HIDE DEF t
            <4> QED BY <2>1, <4>1, <4>2, <4>3
        <3> QED BY <3>1, <3>2
    <2>4. \A i, j \in 1..Len(w) : w[i] = w[j] => i = j
        <3> HIDE DEF t, w
        <3> QED BY <2>2, <2>3 DEF Distinct
    <2>5. ASSUME pc[p] = "idle", NEW i \in 1..Len(w), NEW j \in u..(OtLimit - 1)
          PROVE  w[i] # otData[p][j]
        <3>1. t = w /\ KeepsLeftover(pc[p], c) /\ u < OtLimit
            BY <2>1, <2>5 DEF Taken, KeepsLeftover
        <3>2. PICK r \in 1..ext[p] : otData[p] = Fresh(r) /\ Before(w, r, u)
            BY <2>2, <3>1
        <3>3. j \in 0..(N - 1) /\ otData[p][j] = <<r, j>>
            BY <2>1, <3>2 DEF Fresh
        <3>4. w[i][1] = r => w[i][2] < u
            BY <3>2 DEF Before
        <3> QED BY <2>1, <3>3, <3>4
    <2>6. ASSUME NEW i \in 1..Len(w), NEW j \in 0..(M - 1)
          PROVE  w[i] # pre[p][j]
        <3>1. pre[p][j] = <<ext[p], OtLimit + j>>
            <4>1. pre[p] = SeedOf(Fresh(ext[p])) /\ OtLimit + j \in 0..(N - 1)
                BY <1>1 DEF ProtocolInv
            <4> QED BY <4>1 DEF SeedOf, Fresh
        <3>2. w[i][2] \in 0..(OtLimit - 1)
            BY <1>1 DEF IndInv, NoSeedDelivered, Usable
        <3> QED BY <3>1, <3>2
    <2> HIDE DEF t, c, d
    <2> QED BY <2>4, <2>5, <2>6 DEF Delivered, Leftover
<1> QED BY <1>1, Invariance, InStep, ServedApart, PTL
=============================================================================
