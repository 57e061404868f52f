--------------------------- MODULE FerretStreamProofs ---------------------------
(***************************************************************************)
(* Proofs about what a call returns.  The blocks that a call hands out are *)
(* determined by the state of the party when the call began and by its     *)
(* argument alone.  Two consequences: callers that use rcot only read one  *)
(* and the same stream, and callers that make the same calls, of rcot and  *)
(* of rcot_inplace, receive the same blocks.                               *)
(***************************************************************************)
EXTENDS FerretCOTProofs, MCFerretCOT

(*----------------------- the place of a block in a run ------------------*)
\* The number of a block among the usable ones of all extensions
Pos(x) == x[1] * OtLimit + x[2]

\* Multiplication distributes over sums and differences.
LEMMA Distribute ==
    ASSUME NEW x \in Int, NEW y \in Int, NEW l \in Int
    PROVE  /\ (x + y) * l = x * l + y * l /\ (x - y) * l = x * l - y * l
           /\ (x + 1) * l = x * l + l /\ x * l \in Int
OBVIOUS

\* Division with remainder is unique.
LEMMA UniqueQuotient ==
    ASSUME NEW l \in Nat \ {0}, NEW q \in Int, NEW m \in 0..(l - 1),
           NEW r \in Int, NEW n \in 0..(l - 1), q * l + m = r * l + n
    PROVE  q = r /\ m = n
<1>1. ASSUME NEW a \in Int, NEW b \in Int, a < b
      PROVE  b * l >= a * l + l
    <2> DEFINE k == b - a - 1
    <2>1. k \in Nat /\ b = a + (k + 1)
        BY <1>1
    <2>2. k * l \in Nat
        BY <2>1
    <2>3. b * l = a * l + (k * l + l)
        BY <2>1
    <2> QED BY <2>2, <2>3
<1>2. q * l \in Int /\ r * l \in Int
    OBVIOUS
<1>3. ~(q < r)
    <2>1. q < r => r * l >= q * l + l
        BY <1>1
    <2> QED BY <1>2, <2>1
<1>4. ~(r < q)
    <2>1. r < q => q * l >= r * l + l
        BY <1>1
    <2> QED BY <1>2, <2>1
<1>5. q = r
    BY <1>3, <1>4
<1> QED BY <1>2, <1>5

\* Usable blocks with the same number are the same block.
LEMMA SamePlace ==
    ASSUME NEW x \in Block, NEW y \in Block, Usable(x), Usable(y), Pos(x) = Pos(y)
    PROVE  x = y
<1>1. x[1] \in Int /\ y[1] \in Int /\ x = <<x[1], x[2]>> /\ y = <<y[1], y[2]>>
    BY DEF Block
<1>2. x[2] \in 0..(OtLimit - 1) /\ y[2] \in 0..(OtLimit - 1) /\ OtLimit \in Nat \ {0}
    BY ParamFacts DEF Usable
<1>3. x[1] = y[1] /\ x[2] = y[2]
    BY <1>1, <1>2, UniqueQuotient DEF Pos
<1> QED BY <1>1, <1>3

(*------------------------------ calls of a party ------------------------*)
Commands == ({"rcot"} \X Lengths) \cup ({"inplace"} \X Needs)

\* How many blocks a call returns
Num(cmd) == IF cmd[1] = "rcot" THEN cmd[2] ELSE ByteMemoryNeedInplace(cmd[2]) - M

(* A party between two calls: run is the extension in ot_data, ext the last
   one, out what its caller has received. *)
Base == [run : Nat, used : 0..OtLimit, ext : Nat, out : Seq(Block)]

\* What ot_data has for a call
Left(b, op) == IF op = "rcot" THEN OtLimit - b.used ELSE 0

\* Block number k of a call of op that begins at b
Served(b, op, k, x) ==
    IF k < Left(b, op)
    THEN x = <<b.run, b.used + k>>
    ELSE /\ x \in Block /\ Usable(x)
         /\ Pos(x) = (b.ext + 1) * OtLimit + (k - Left(b, op))

(* A call of op that begins at b and returns n blocks leaves the party after
   extension e with extension r in ot_data, used up to u. *)
Moves(b, op, n, e, u, r) ==
    \/ op = "inplace" /\ n = (e - b.ext) * OtLimit /\ u = b.used /\ r = b.run
    \/ /\ op = "rcot" /\ n <= Left(b, op)
       /\ e = b.ext /\ u = b.used + n /\ r = b.run
    \/ /\ op = "rcot" /\ n > Left(b, op)
       /\ n - Left(b, op) = (e - b.ext) * OtLimit - (OtLimit - u) /\ u > 0 /\ r = e

\* The whole effect of a call, from b to b2
CallEffect(b, cmd, b2) ==
    /\ Moves(b, cmd[1], Num(cmd), b2.ext, b2.used, b2.run)
    /\ Len(b2.out) = Len(b.out) + Num(cmd)
    /\ \A i \in 1..Len(b.out) : b2.out[i] = b.out[i]
    /\ \A k \in 0..(Num(cmd) - 1) : Served(b, cmd[1], k, b2.out[Len(b.out) + (k + 1)])

\* A party whose state is b
AtRest(b, u, o, e, w) ==
    b.used = u /\ b.ext = e /\ b.out = w /\ (u < OtLimit => o = Fresh(b.run))

\* The first pt blocks of a call of op come from the extensions up to e.
Filled(b, op, e, pt) == pt = Left(b, op) + (e - b.ext) * OtLimit

(* A party inside the call cmd that it began at b: the final blocks are those
   that the call is going to return at their place. *)
Serving(b, cmd, c, d, u, o, e, w) ==
    /\ b.out = w /\ e >= b.ext /\ c.op = cmd[1] /\ c.give = Num(cmd)
    /\ c.memcpy => c.last > 0
    /\ \A k \in 0..(c.pt - 1) : Served(b, c.op, k, d[k])
    /\ RoundsLeft(c) \/ c.op = "inplace" => Filled(b, c.op, e, c.pt)
    /\ c.op = "rcot" /\ RoundsLeft(c) => c.give > Left(b, c.op)
    /\ c.op = "rcot" /\ ~RoundsLeft(c) =>
          \E r \in Nat : Moves(b, c.op, c.give, e, u, r) /\ (u < OtLimit => o = Fresh(r))
    /\ c.op = "inplace" => u = b.used /\ (u < OtLimit => o = Fresh(b.run))

\* Every call returns a natural number of blocks.
LEMMA NumFacts ==
    ASSUME NEW cmd \in Commands
    PROVE  Num(cmd) \in Nat /\ cmd[1] \in {"rcot", "inplace"}
<1> USE ParamFacts
<1>1. CASE cmd \in {"rcot"} \X Lengths
    BY <1>1, CallAssumption DEF Num
<1>2. CASE cmd \in {"inplace"} \X Needs
    <2> DEFINE n == cmd[2] - 1
               q == n \div OtLimit
    <2>1. n \in Nat /\ cmd[1] = "inplace"
        <3>1. cmd[1] = "inplace" /\ cmd[2] \in Needs
            BY <1>2
        <3>2. cmd[2] \in Nat \ {0}
            BY <3>1, CallAssumption
        <3> QED BY <3>1, <3>2
    <2>2. q \in Nat
        BY <2>1, DivFacts
    <2>3. Num(cmd) = q * OtLimit + N - M
        BY <2>1 DEF Num, ByteMemoryNeedInplace, Quot
    <2> HIDE DEF q
    <2>4. q * OtLimit \in Nat
        BY <2>2
    <2> QED BY <2>1, <2>3, <2>4
<1> QED BY <1>1, <1>2 DEF Commands

\* The blocks that a call returns are determined by where it began.
LEMMA ServedUnique ==
    ASSUME NEW b \in Base, NEW op, NEW k \in Nat, NEW x, NEW y,
           Served(b, op, k, x), Served(b, op, k, y)
    PROVE  x = y
<1>1. CASE k < Left(b, op)
    BY <1>1 DEF Served
<1>2. CASE ~(k < Left(b, op))
    BY <1>2, SamePlace DEF Served
<1> QED BY <1>1, <1>2

\* So is the state that it leaves.
LEMMA MovesUnique ==
    ASSUME NEW b \in Base, NEW op, NEW n \in Nat, NEW e \in Nat, NEW u \in 0..OtLimit,
           NEW r, NEW e2 \in Nat, NEW u2 \in 0..OtLimit, NEW r2,
           Moves(b, op, n, e, u, r), Moves(b, op, n, e2, u2, r2)
    PROVE  e = e2 /\ u = u2 /\ r = r2
<1> USE ParamFacts
<1> DEFINE f == b.ext
           l == Left(b, op)
           z == 0
<1>1. f \in Nat /\ b.used \in 0..OtLimit /\ l \in Int /\ OtLimit \in Nat \ {0} /\ z \in 0..(OtLimit - 1)
    BY DEF Base, Left
<1>2. ASSUME NEW a \in Int, NEW c \in Int, NEW i \in 0..(OtLimit - 1), NEW j \in 0..(OtLimit - 1),
             (a - f) * OtLimit + i = (c - f) * OtLimit + j
      PROVE  a = c /\ i = j
    <2> DEFINE q == a - f
               s == c - f
    <2>1. q \in Int /\ s \in Int /\ q * OtLimit + i = s * OtLimit + j
        BY <1>1, <1>2
    <2> HIDE DEF q, s
    <2>2. q = s /\ i = j
        BY <1>1, <2>1, UniqueQuotient
    <2> QED BY <1>1, <2>2 DEF q, s
<1>3. CASE op = "inplace"
    <2>1. /\ n = (e - f) * OtLimit /\ n = (e2 - f) * OtLimit
          /\ u = u2 /\ r = r2
        BY <1>3 DEF Moves
    <2> HIDE DEF f
    <2>2. (e - f) * OtLimit \in Int /\ (e2 - f) * OtLimit \in Int
        BY <1>1
    <2>3. (e - f) * OtLimit + z = (e2 - f) * OtLimit + z
        BY <2>1, <2>2
    <2> HIDE DEF z
    <2>4. e = e2
        BY <1>1, <1>2, <2>3
    <2> QED BY <2>1, <2>4
<1>4. CASE op = "rcot" /\ n <= l
    BY <1>1, <1>4 DEF Moves
<1>5. CASE op = "rcot" /\ n > l
    <2> DEFINE i == u - 1
               j == u2 - 1
    <2>1. /\ n - l = (e - f) * OtLimit - (OtLimit - u) /\ u > 0 /\ r = e
          /\ n - l = (e2 - f) * OtLimit - (OtLimit - u2) /\ u2 > 0 /\ r2 = e2
        BY <1>1, <1>5 DEF Moves
    <2> HIDE DEF f, l
    <2>2. (e - f) * OtLimit \in Int /\ (e2 - f) * OtLimit \in Int
        BY <1>1
    <2>3. /\ i \in 0..(OtLimit - 1) /\ j \in 0..(OtLimit - 1)
          /\ (e - f) * OtLimit + i = (e2 - f) * OtLimit + j
        BY <1>1, <2>1, <2>2
    <2> HIDE DEF i, j
    <2>4. e = e2 /\ i = j
        BY <1>2, <2>3
    <2> QED BY <2>1, <2>4 DEF i, j
<1> QED BY <1>1, <1>3, <1>4, <1>5 DEF Moves

(* Two parties that make the same call in the same state end in the same state
   and have received the same. *)
LEMMA SameEffect ==
    ASSUME NEW b \in Base, NEW cmd \in Commands, NEW b1 \in Base, NEW b2 \in Base,
           CallEffect(b, cmd, b1), CallEffect(b, cmd, b2)
    PROVE  b1 = b2
<1> DEFINE n == Num(cmd)
           l == Len(b.out)
           s == b1.out
           t == b2.out
<1>1. n \in Nat /\ l \in Nat /\ s \in Seq(Block) /\ t \in Seq(Block)
    BY NumFacts DEF Base
<1>2. b1.ext = b2.ext /\ b1.used = b2.used /\ b1.run = b2.run
    <2> HIDE DEF n
    <2>1. /\ Moves(b, cmd[1], n, b1.ext, b1.used, b1.run)
          /\ Moves(b, cmd[1], n, b2.ext, b2.used, b2.run)
        BY DEF CallEffect, n
    <2>2. /\ b1.ext \in Nat /\ b1.used \in 0..OtLimit
          /\ b2.ext \in Nat /\ b2.used \in 0..OtLimit
        BY DEF Base
    <2> QED BY <1>1, <2>1, <2>2, MovesUnique
<1>3. /\ Len(s) = l + n /\ Len(t) = l + n
      /\ \A i \in 1..l : s[i] = b.out[i] /\ t[i] = b.out[i]
      /\ \A k \in 0..(n - 1) : /\ Served(b, cmd[1], k, s[l + (k + 1)])
                              /\ Served(b, cmd[1], k, t[l + (k + 1)])
    BY DEF CallEffect
<1> HIDE DEF n, l, s, t
<1>4. ASSUME NEW i \in 1..(l + n) PROVE s[i] = t[i]
    <2>1. CASE i <= l
        BY <1>1, <1>3, <2>1
    <2>2. CASE i > l
        <3> DEFINE k == i - l - 1
        <3>1. k \in 0..(n - 1) /\ k \in Nat /\ l + (k + 1) = i
            BY <1>1, <2>2
        <3> HIDE DEF k
        <3>2. Served(b, cmd[1], k, s[i]) /\ Served(b, cmd[1], k, t[i])
            BY <1>3, <3>1
        <3> QED BY <3>1, <3>2, ServedUnique
    <2> QED BY <1>1, <2>1, <2>2
<1>5. s = t
    BY <1>1, <1>3, <1>4
<1>6. /\ b1 = [run |-> b1.run, used |-> b1.used, ext |-> b1.ext, out |-> s]
      /\ b2 = [run |-> b2.run, used |-> b2.used, ext |-> b2.ext, out |-> t]
    BY DEF Base, s, t
<1> QED BY <1>2, <1>5, <1>6

(*---------------------------- the start of a call -----------------------*)
\* The caller of p, whose state is b, makes the call cmd.
Starts(p, b, cmd) ==
    /\ pc[p] = "idle" /\ pc' = [pc EXCEPT ![p] = "rounds"]
    /\ Lockstep /\ Behind(p) => cmd = calls[Peer(p)][Len(calls[p]) + 1]
    /\ calls' = [calls EXCEPT ![p] = Append(@, cmd)]
    /\ Serving(b, cmd, call'[p], data'[p], otUsed'[p], otData'[p], ext'[p], out'[p])

\* The blocks that a call takes from ot_data are those of its base.
LEMMA TakeServing ==
    ASSUME IndInv, NEW p \in Party, NEW b \in Base,
           AtRest(b, otUsed[p], otData[p], ext[p], out[p]),
           NEW num \in Nat, NEW len \in 0..num, otUsed[p] + len <= OtLimit
    PROVE  /\ Left(b, "rcot") = OtLimit - otUsed[p]
           /\ \A k \in 0..(len - 1) :
                 Served(b, "rcot", k,
                        MemCpy(UserBuffer(num), 0, otData[p], otUsed[p], len)[k])
<1> USE ParamFacts
<1> DEFINE u == otUsed[p]
           o == otData[p]
<1>1. b.used = u /\ (u < OtLimit => o = Fresh(b.run)) /\ u \in 0..OtLimit
    BY Stored DEF AtRest
<1>2. Left(b, "rcot") = OtLimit - u
    BY <1>1 DEF Left
<1>3. ASSUME NEW k \in 0..(len - 1)
      PROVE  Served(b, "rcot", k, MemCpy(UserBuffer(num), 0, o, u, len)[k])
    <2>1. MemCpy(UserBuffer(num), 0, o, u, len)[k] = o[u + k] /\ u + k \in 0..(N - 1)
        BY TakenBlocks
    <2>2. k < Left(b, "rcot") /\ u < OtLimit
        BY <1>1, <1>2
    <2> HIDE DEF u, o
    <2> QED BY <1>1, <2>1, <2>2 DEF Served, Fresh
<1> QED BY <1>2, <1>3

\* A call begins with what ot_data has and a plan for the rest.
LEMMA CallStarts ==
    ASSUME IndInv, calls \in [Party -> Seq(Commands)], NEW p \in Party, NEW b \in Base,
           AtRest(b, otUsed[p], otData[p], ext[p], out[p]), Call(p)
    PROVE  \E cmd \in Commands : Starts(p, b, cmd)
<1> USE ParamFacts
<1> DEFINE w == out[p]
           u == otUsed[p]
           o == otData[p]
           e == ext[p]
<1>1. /\ u \in 0..OtLimit /\ e \in Nat /\ out' = out /\ ext' = ext /\ otData' = otData
      /\ b.used = u /\ b.ext = e /\ b.out = w /\ (u < OtLimit => o = Fresh(b.run))
      /\ b.run \in Nat
    BY Stored DEF Call, Issue, AtRest, Base
<1>2. ASSUME NEW cmd \in Commands, Issue(p, cmd), NEW c, NEW d, NEW v,
             call' = [call EXCEPT ![p] = c], data' = [data EXCEPT ![p] = d],
             otUsed' = [otUsed EXCEPT ![p] = v],
             Serving(b, cmd, c, d, v, o, e, w)
      PROVE  Starts(p, b, cmd)
    <2>1. call'[p] = c /\ data'[p] = d /\ otUsed'[p] = v
        BY <1>2 DEF IndInv, TypeOK
    <2> QED BY <1>1, <1>2, <2>1 DEF Starts, Issue
<1>3. ASSUME NEW num \in Lengths, Issue(p, <<"rcot", num>>), RcotHit(p, num)
      PROVE  \E cmd \in Commands : Starts(p, b, cmd)
    <2> DEFINE c == Plan("rcot", num, num, num, 0, FALSE, 0)
               d == MemCpy(UserBuffer(num), 0, o, u, num)
               v == u + num
               cmd == <<"rcot", num>>
    <2>1. /\ num \in Nat /\ v <= OtLimit /\ num \in 0..num /\ cmd \in Commands
          /\ cmd[1] = "rcot" /\ Num(cmd) = num
        BY <1>1, <1>3, CallAssumption DEF RcotHit, SilentOtLeft, Commands, Num
    <2>2. /\ data' = [data EXCEPT ![p] = d] /\ call' = [call EXCEPT ![p] = c]
          /\ otUsed' = [otUsed EXCEPT ![p] = v]
          /\ c.pt = num /\ ~c.memcpy /\ c.op = "rcot" /\ c.give = num /\ ~RoundsLeft(c)
        BY <1>3 DEF RcotHit, Plan, RoundsLeft
    <2>3. /\ Left(b, "rcot") = OtLimit - u
          /\ \A k \in 0..(num - 1) : Served(b, "rcot", k, d[k])
        BY <2>1, TakeServing
    <2> HIDE DEF c, d, w, u, o, e, cmd
    <2>4. Moves(b, "rcot", num, e, v, b.run)
        BY <1>1, <2>1, <2>3 DEF Moves
    <2>5. v < OtLimit => o = Fresh(b.run)
        BY <1>1, <2>1
    <2> HIDE DEF v
    <2>6. Serving(b, cmd, c, d, v, o, e, w)
        BY <1>1, <2>1, <2>2, <2>3, <2>4, <2>5 DEF Serving
    <2>7. Issue(p, cmd)
        BY <1>3 DEF cmd
    <2> QED BY <1>2, <2>1, <2>2, <2>6, <2>7
<1>4. ASSUME NEW num \in Lengths, Issue(p, <<"rcot", num>>), RcotMiss(p, num)
      PROVE  \E cmd \in Commands : Starts(p, b, cmd)
    <2> DEFINE gened == SilentOtLeft(p)
               inplace == InplaceRounds(num - gened)
               rest == num - gened - inplace * OtLimit
               memcpy == rest > OtLimit
               last == IF memcpy THEN rest - OtLimit ELSE rest
               c == Plan("rcot", num, num, gened, inplace, memcpy, last)
               d == MemCpy(UserBuffer(num), 0, o, u, gened)
               cmd == <<"rcot", num>>
    <2>1. /\ num \in Nat /\ num > gened /\ gened \in 0..num /\ u + gened <= OtLimit
          /\ num - gened \in Nat \ {0} /\ cmd \in Commands
          /\ cmd[1] = "rcot" /\ Num(cmd) = num
        <3>1. num \in Nat /\ num > gened
            BY <1>4, CallAssumption DEF RcotMiss
        <3>2. gened \in Nat /\ u + gened <= OtLimit
            <4>1. u \in 0..OtLimit /\ gened = OtLimit - u
                BY <1>1 DEF SilentOtLeft
            <4> HIDE DEF u, gened
            <4> QED BY <4>1
        <3>3. cmd \in Commands /\ cmd[1] = "rcot" /\ Num(cmd) = num
            BY DEF Commands, Num
        <3> HIDE DEF gened, cmd
        <3> QED BY <3>1, <3>2, <3>3
    <2>2. /\ data' = [data EXCEPT ![p] = d] /\ call' = [call EXCEPT ![p] = c]
          /\ otUsed' = otUsed /\ c.pt = gened /\ c.memcpy = memcpy
          /\ c.last = last /\ c.op = "rcot" /\ c.give = num
        BY <1>4 DEF RcotMiss, Plan
    <2>3. rest \in 1..(M + OtLimit - 1)
        BY <2>1, RoundsFacts
    <2>4. last > 0
        BY <2>3
    <2>5. /\ Left(b, "rcot") = OtLimit - u /\ gened = OtLimit - u
          /\ \A k \in 0..(gened - 1) : Served(b, "rcot", k, d[k])
        BY <2>1, TakeServing DEF SilentOtLeft
    <2>6. otUsed' = [otUsed EXCEPT ![p] = u]
        BY <2>2, SameParty
    <2> HIDE DEF c, d, w, u, o, e, rest, memcpy, last, cmd, gened
    <2>7. RoundsLeft(c)
        BY <2>2, <2>4 DEF RoundsLeft
    <2>8. Filled(b, "rcot", e, gened) /\ num > Left(b, "rcot")
        <3>1. (e - b.ext) * OtLimit = 0
            BY <1>1
        <3> QED BY <1>1, <2>1, <2>5, <3>1 DEF Filled
    <2>9. b.out = w /\ e >= b.ext /\ c.op = "rcot" /\ c.pt = gened /\ c.last > 0
        BY <1>1, <2>2, <2>4
    <2>10. /\ cmd[1] = "rcot" /\ c.give = Num(cmd) /\ c.give = num
           /\ \A k \in 0..(gened - 1) : Served(b, "rcot", k, d[k])
        BY <2>1, <2>2, <2>5
    <2>11. Serving(b, cmd, c, d, u, o, e, w)
        BY <2>7, <2>8, <2>9, <2>10 DEF Serving
    <2>12. Issue(p, cmd)
        BY <1>4 DEF cmd
    <2> QED BY <1>2, <2>1, <2>2, <2>6, <2>11, <2>12
<1>5. ASSUME NEW need \in Needs, Issue(p, <<"inplace", need>>), RcotInplace(p, need)
      PROVE  \E cmd \in Commands : Starts(p, b, cmd)
    <2> DEFINE space == ByteMemoryNeedInplace(need)
               c == Plan("inplace", space, space - M, 0, (space - M) \div OtLimit,
                         FALSE, 0)
               d == UserBuffer(space)
               cmd == <<"inplace", need>>
    <2>1. /\ cmd \in Commands /\ cmd[1] = "inplace" /\ Num(cmd) = space - M
        BY DEF Commands, Num
    <2>2. /\ data' = [data EXCEPT ![p] = d] /\ call' = [call EXCEPT ![p] = c]
          /\ otUsed' = otUsed /\ c.pt = 0 /\ ~c.memcpy /\ c.op = "inplace"
          /\ c.give = space - M
        BY <1>5 DEF RcotInplace, Plan
    <2>3. otUsed' = [otUsed EXCEPT ![p] = u]
        BY <2>2, SameParty
    <2> HIDE DEF c, d, w, u, o, e, cmd, space
    <2>4. Filled(b, "inplace", e, 0)
        BY <1>1 DEF Left, Filled
    <2>5. Serving(b, cmd, c, d, u, o, e, w)
        BY <1>1, <2>1, <2>2, <2>4 DEF Serving
    <2>6. Issue(p, cmd)
        BY <1>5 DEF cmd
    <2> QED BY <1>2, <2>1, <2>2, <2>3, <2>5, <2>6
<1> QED BY <1>3, <1>4, <1>5 DEF Call

(*--------------------------- the rounds of a call -----------------------*)
\* The blocks of a round come next in the order of the extensions.
LEMMA RoundBlocks ==
    ASSUME NEW b \in Base, NEW op, NEW e \in Nat, e >= b.ext,
           NEW size \in Nat, NEW pt \in Nat, NEW d \in Buffer(size),
           Filled(b, op, e, pt),
           \A k \in 0..(pt - 1) : Served(b, op, k, d[k]),
           NEW len \in 0..N, NEW m \in 0..len, m <= OtLimit, pt + m <= size
    PROVE  \A k \in 0..(pt + m - 1) :
              Served(b, op, k, Copied(d, pt, Fresh(e + 1), len)[k])
<1> USE ParamFacts
<1> DEFINE r == e + 1
           g == Copied(d, pt, Fresh(r), len)
           l == Left(b, op)
           f == b.ext
<1>1. /\ r \in Nat /\ f \in Nat /\ l \in Int /\ (e - f) * OtLimit \in Nat
      /\ len \in 0..N /\ m \in Nat
    <2>1. f \in Nat /\ l \in Int /\ e - f \in Nat
        BY DEF Base, Left
    <2> HIDE DEF f, l
    <2> QED BY <2>1
<1> HIDE DEF r
<1>2. ASSUME NEW k \in 0..(size - 1)
      PROVE  g[k] = IF k \in pt..(pt + len - 1) THEN <<r, k - pt>> ELSE d[k]
    <2>1. r \in Nat
        BY <1>1
    <2>2. \A i \in 0..(size - 1) : g[i] = CopiedBlock(d, pt, r, len, i)
        BY <2>1, CopiedFacts
    <2> QED BY <2>2, Zenon DEF CopiedBlock
<1> HIDE DEF g, l, f
<1>3. ASSUME NEW k \in 0..(pt + m - 1)
      PROVE  Served(b, op, k, g[k])
    <2>1. k \in 0..(size - 1) /\ k \in Nat
        OBVIOUS
    <2>2. CASE k < pt
        <3>1. k \in 0..(pt - 1) /\ k \notin pt..(pt + len - 1)
            BY <2>2
        <3>2. g[k] = d[k]
            BY <1>2, <2>1, <3>1
        <3> QED BY <3>1, <3>2
    <2>3. CASE k >= pt
        <3> DEFINE j == k - pt
        <3>1. g[k] = <<r, j>> /\ j \in 0..(OtLimit - 1)
            <4>1. k \in pt..(pt + len - 1) /\ j \in 0..(OtLimit - 1)
                BY <1>1, <2>3
            <4> QED BY <1>2, <2>1, <4>1
        <3>2. pt = l + (e - f) * OtLimit /\ ~(k < l) /\ k - l = (e - f) * OtLimit + j
            <4>1. pt = l + (e - f) * OtLimit
                BY DEF l, f, Filled
            <4> QED BY <1>1, <2>3, <4>1
        <3>3. r * OtLimit + j = (f + 1) * OtLimit + (k - l)
            <4>1. /\ r * OtLimit = e * OtLimit + OtLimit
                  /\ (f + 1) * OtLimit = f * OtLimit + OtLimit
                  /\ (e - f) * OtLimit = e * OtLimit - f * OtLimit
                  /\ e * OtLimit \in Int /\ f * OtLimit \in Int
                BY <1>1, Distribute DEF r
            <4> QED BY <1>1, <3>1, <3>2, <4>1
        <3> HIDE DEF j
        <3>4. g[k] \in Block /\ Usable(g[k]) /\ Pos(g[k]) = r * OtLimit + j
            BY <1>1, <3>1 DEF Block, Usable, Pos
        <3> QED BY <3>2, <3>3, <3>4 DEF Served, l, f
    <2> QED BY <2>2, <2>3
<1> QED BY <1>3 DEF g, r

\* A round keeps the call on its way, whatever kind of round it is.
LEMMA RoundServing ==
    ASSUME IndInv, NEW p \in Party, NEW b \in Base, NEW cmd, Produces(p),
           Serving(b, cmd, call[p], data[p], otUsed[p], otData[p], ext[p], out[p])
    PROVE  Serving(b, cmd, call'[p], data'[p], otUsed'[p], otData'[p], ext'[p], out'[p])
<1> USE ParamFacts
<1> DEFINE c == call[p]
           d == data[p]
           u == otUsed[p]
           o == otData[p]
           e == ext[p]
           w == out[p]
           r == e + 1
           x == Fresh(r)
           at == c.pt
           last == c.last
           op == c.op
           lft == Left(b, op)
           z == 0
<1>1. /\ e \in Nat /\ c \in PlanType /\ PlanOK(c) /\ d \in Buffer(c.size)
      /\ u \in 0..OtLimit
    BY Stored DEF Produces
<1>2. /\ at \in Nat /\ c.size \in Nat /\ last \in 0..OtLimit /\ c.give \in Nat
      /\ op \in {"rcot", "inplace"} /\ (c.memcpy => op = "rcot")
      /\ (op = "rcot" => c.give = c.size) /\ c.inplace \in Nat
    BY <1>1 DEF PlanType, PlanOK
<1>3. /\ b.out = w /\ e >= b.ext /\ op = cmd[1] /\ c.give = Num(cmd)
      /\ (c.memcpy => last > 0) /\ \A k \in 0..(at - 1) : Served(b, op, k, d[k])
      /\ (RoundsLeft(c) \/ op = "inplace" => Filled(b, op, e, at))
      /\ (op = "rcot" /\ RoundsLeft(c) => c.give > lft)
      /\ (op = "inplace" => u = b.used /\ (u < OtLimit => o = Fresh(b.run)))
    BY DEF Serving
<1>4. ext' = [ext EXCEPT ![p] = r] /\ out'[p] = w /\ FinishExtension(p, x)
    BY DEF Produces, FinishExtension
<1>5. ASSUME NEW n, NEW g, NEW v, NEW q, Serving(b, cmd, n, g, v, q, r, w),
             call' = [call EXCEPT ![p] = n], data' = [data EXCEPT ![p] = g],
             otUsed' = [otUsed EXCEPT ![p] = v], otData' = [otData EXCEPT ![p] = q]
      PROVE  Serving(b, cmd, call'[p], data'[p], otUsed'[p], otData'[p], ext'[p], out'[p])
    <2>1. /\ call'[p] = n /\ data'[p] = g /\ otUsed'[p] = v /\ otData'[p] = q
          /\ ext'[p] = r
        BY <1>4, <1>5 DEF IndInv, TypeOK
    <2> QED BY <1>4, <1>5, <2>1
<1>6. /\ b.ext \in Nat /\ lft \in Int
      /\ (e - b.ext) * OtLimit \in Int
      /\ (r - b.ext) * OtLimit = (e - b.ext) * OtLimit + OtLimit /\ r >= b.ext
    <2> DEFINE k == e - b.ext
    <2>1. b.ext \in Nat /\ lft \in Int /\ k \in Int /\ r - b.ext = k + 1
        <3>1. b.ext \in Nat /\ b.used \in Int
            BY DEF Base
        <3> QED BY <1>1, <3>1 DEF Left
    <2> HIDE DEF k
    <2>2. (k + 1) * OtLimit = k * OtLimit + OtLimit /\ k * OtLimit \in Int
        BY <2>1, Distribute
    <2> QED BY <1>1, <1>3, <2>1, <2>2 DEF k
<1>7. ASSUME NEW len \in 0..N, NEW m \in 0..len, m <= OtLimit, at + m <= c.size,
             RoundsLeft(c)
      PROVE  \A k \in 0..(at + m - 1) : Served(b, op, k, Copied(d, at, x, len)[k])
    <2>1. Filled(b, op, e, at)
        BY <1>3, <1>7
    <2> DEFINE size == c.size
    <2>2. size \in Nat /\ d \in Buffer(size) /\ at + m <= size
        BY <1>1, <1>2, <1>7
    <2> HIDE DEF d, e, at, op, size, lft
    <2> QED BY <1>1, <1>2, <1>3, <1>7, <2>1, <2>2, RoundBlocks DEF lft
<1>8. CASE InplaceRound(p, x) \/ UserRound(p, x)
    <2> DEFINE n == AfterInplace(c)
               g == Copied(d, at, x, N)
               m == OtLimit
               len == N
               v == IF op = "rcot" THEN OtLimit ELSE u
    <2>1. /\ call' = [call EXCEPT ![p] = n] /\ data' = [data EXCEPT ![p] = g]
          /\ otData' = [otData EXCEPT ![p] = o] /\ c.inplace > 0
          /\ otUsed' = [otUsed EXCEPT ![p] = v]
        <3>1. /\ call' = [call EXCEPT ![p] = AfterInplace(@)]
              /\ data' = [data EXCEPT ![p] = g] /\ otData' = otData /\ c.inplace > 0
              /\ otUsed' = [otUsed EXCEPT ![p] = v]
            BY <1>8, SameParty DEF InplaceRound, UserRound, Copied
        <3>2. call \in [Party -> PlanType]
            BY DEF IndInv, TypeOK
        <3> QED BY <3>1, <3>2, SameParty
    <2>2. /\ n.pt = at + m /\ n.memcpy = c.memcpy /\ n.last = last /\ n.op = op
          /\ n.give = c.give
        BY DEF AfterInplace, Plan
    <2>3. at + N <= c.size /\ RoundsLeft(c)
        BY <1>1, <2>1, InplacePlan DEF RoundsLeft
    <2>4. len \in 0..N /\ m \in 0..len /\ at + m <= c.size /\ m <= OtLimit
        BY <1>2, <2>3
    <2>5. \A k \in 0..(n.pt - 1) : Served(b, op, k, g[k])
        <3> HIDE DEF m, len, n, at
        <3>1. \A k \in 0..(at + m - 1) : Served(b, op, k, Copied(d, at, x, len)[k])
            BY <1>7, <2>3, <2>4
        <3>2. n.pt - 1 = at + (m - 1)
            BY <1>2, <2>2, <2>4
        <3> QED BY <3>1, <3>2 DEF len
    <2>6. op = "rcot" => RoundsLeft(n)
        <3>1. op = "rcot" => c.memcpy \/ last > 0
            <4> HIDE DEF c
            <4>1. Rest(c) >= M
                BY <1>1, <2>1 DEF PlanOK
            <4> QED BY <1>2, <4>1 DEF Rest, last, op
        <3> HIDE DEF n, c
        <3> QED BY <2>2, <3>1 DEF RoundsLeft
    <2>7. Filled(b, op, r, n.pt)
        BY <1>2, <1>3, <1>6, <2>2, <2>3 DEF Filled
    <2>8. op = "inplace" => v = u
        OBVIOUS
    <2>9. op = "rcot" => c.give > lft
        BY <1>3, <2>3
    <2> HIDE DEF n, g, c, d, u, o, w, e, r, last, x, at, m, len, v, op
    <2>10. Serving(b, cmd, n, g, v, o, r, w)
        BY <1>3, <1>6, <2>2, <2>5, <2>6, <2>7, <2>8, <2>9 DEF Serving, lft
    <2> QED BY <1>5, <2>1, <2>10
<1>9. CASE MemcpyRound(p, x)
    <2> DEFINE n == AfterMemcpy(c)
               m == OtLimit
               len == OtLimit
               g == Copied(d, at, x, len)
    <2>1. /\ call' = [call EXCEPT ![p] = n] /\ data' = [data EXCEPT ![p] = g]
          /\ otUsed' = [otUsed EXCEPT ![p] = z] /\ otData' = [otData EXCEPT ![p] = x]
          /\ c.inplace <= 0 /\ c.memcpy
        BY <1>9 DEF MemcpyRound, IndInv, TypeOK, Copied
    <2>2. /\ n.pt = at + m /\ ~n.memcpy /\ n.last = last /\ n.op = op
          /\ n.give = c.give
        BY DEF AfterMemcpy, Plan
    <2>3. at + OtLimit <= c.size /\ RoundsLeft(c)
        BY <1>1, <2>1, MemcpyPlan DEF RoundsLeft
    <2>4. len \in 0..N /\ m \in 0..len /\ at + m <= c.size /\ m <= OtLimit
        BY <1>2, <2>3
    <2>5. \A k \in 0..(n.pt - 1) : Served(b, op, k, g[k])
        <3> HIDE DEF m, len, n, at
        <3>1. \A k \in 0..(at + m - 1) : Served(b, op, k, g[k])
            BY <1>7, <2>3, <2>4
        <3>2. n.pt - 1 = at + (m - 1)
            BY <1>2, <2>2, <2>4
        <3> QED BY <3>1, <3>2
    <2>6. op = "rcot" /\ RoundsLeft(n)
        BY <1>2, <1>3, <2>1, <2>2 DEF RoundsLeft
    <2>7. Filled(b, op, r, n.pt)
        BY <1>2, <1>3, <1>6, <2>2, <2>3 DEF Filled
    <2>8. c.give > lft
        BY <1>3, <2>3, <2>6
    <2> HIDE DEF n, g, c, d, u, o, w, e, r, last, x, at, m, len, op
    <2>9. Serving(b, cmd, n, g, z, x, r, w)
        BY <1>3, <1>6, <2>2, <2>5, <2>6, <2>7, <2>8 DEF Serving, lft
    <2> HIDE DEF z
    <2> QED BY <1>5, <2>1, <2>9
<1>10. CASE LastRound(p, x)
    <2> DEFINE n == AfterLast(c)
               m == last
               len == last
               g == Copied(d, at, x, len)
    <2>1. /\ call' = [call EXCEPT ![p] = n] /\ data' = [data EXCEPT ![p] = g]
          /\ otUsed' = [otUsed EXCEPT ![p] = m] /\ otData' = [otData EXCEPT ![p] = x]
          /\ c.inplace <= 0 /\ ~c.memcpy /\ last > 0
        BY <1>10 DEF LastRound, IndInv, TypeOK, Copied
    <2>2. /\ n.pt = at + m /\ ~n.memcpy /\ n.last = 0 /\ n.op = op /\ n.give = c.give
          /\ n.inplace = c.inplace
        BY <2>1 DEF AfterLast, Plan
    <2>3. /\ at + last <= c.size /\ RoundsLeft(c) /\ n \in PlanType /\ PlanOK(n)
          /\ ~RoundsLeft(n)
        <3> HIDE DEF c
        <3>1. /\ at + last <= c.size /\ n \in PlanType /\ PlanOK(n)
            BY <1>1, <2>1, LastPlan
        <3>2. RoundsLeft(c)
            BY <2>1 DEF RoundsLeft
        <3> HIDE DEF n, last
        <3>3. ~RoundsLeft(n)
            BY <1>2, <2>1, <2>2 DEF RoundsLeft
        <3> QED BY <3>1, <3>2, <3>3 DEF last
    <2>4. len \in 0..N /\ m \in 0..len /\ at + m <= c.size /\ m <= OtLimit
        BY <1>2, <2>3
    <2>5. \A k \in 0..(n.pt - 1) : Served(b, op, k, g[k])
        <3> HIDE DEF m, len, n, at
        <3>1. \A k \in 0..(at + m - 1) : Served(b, op, k, g[k])
            BY <1>7, <2>3, <2>4
        <3>2. n.pt - 1 = at + (m - 1)
            BY <1>2, <2>2, <2>4
        <3> QED BY <3>1, <3>2
    <2>6. op = "rcot"
        <3>1. op = "inplace" => last = 0
            <4> HIDE DEF c
            <4> QED BY <1>1 DEF PlanOK, op, last
        <3> QED BY <1>2, <2>1, <3>1
    <2>7. c.give = at + m
        <3> HIDE DEF n, m
        <3> QED BY <2>2, <2>3, AllFinal
    <2>8. Moves(b, op, c.give, r, m, r)
        <3>1. c.give > lft /\ at = lft + (e - b.ext) * OtLimit
            BY <1>3, <2>3, <2>6 DEF Filled
        <3> DEFINE h == (e - b.ext) * OtLimit
                   i == (r - b.ext) * OtLimit
        <3>2. i = h + OtLimit /\ h \in Int /\ at = lft + h
            BY <1>6, <3>1
        <3> HIDE DEF h, i, e, r, at, lft
        <3>3. c.give - lft = i - (OtLimit - m)
            BY <1>2, <1>6, <2>7, <3>2
        <3> QED BY <2>1, <2>6, <3>1, <3>3 DEF Moves, lft, i
    <2> HIDE DEF n, g, c, d, u, o, w, e, last, at, m, len, op
    <2>9. r \in Nat /\ x = Fresh(r)
        BY <1>1
    <2> HIDE DEF r, x
    <2>10. Serving(b, cmd, n, g, m, x, r, w)
        BY <1>3, <1>6, <2>2, <2>3, <2>5, <2>6, <2>8, <2>9 DEF Serving, lft
    <2> QED BY <1>5, <2>1, <2>10
<1> QED BY <1>4, <1>8, <1>9, <1>10 DEF FinishExtension

\* The return of a call has the effect that its beginning determined.
LEMMA ReturnEnds ==
    ASSUME IndInv, NEW p \in Party, NEW b \in Base, NEW cmd \in Commands, Return(p),
           Serving(b, cmd, call[p], data[p], otUsed[p], otData[p], ext[p], out[p])
    PROVE  \E b2 \in Base :
              /\ CallEffect(b, cmd, b2)
              /\ AtRest(b2, otUsed[p], otData[p], ext[p], out'[p])
<1> USE ParamFacts
<1> DEFINE c == call[p]
           d == data[p]
           u == otUsed[p]
           o == otData[p]
           e == ext[p]
           w == out[p]
           n == Num(cmd)
           t == With(w, d, n)
           op == cmd[1]
<1>1. /\ e \in Nat /\ c \in PlanType /\ PlanOK(c) /\ d \in Buffer(c.size) /\ ~RoundsLeft(c)
      /\ u \in 0..OtLimit /\ w \in Seq(Block) /\ n \in Nat /\ op \in {"rcot", "inplace"}
    BY Stored, NumFacts DEF Return
<1>2. /\ b.out = w /\ c.give = n /\ c.op = op /\ c.pt = n
    BY <1>1, AllFinal DEF Serving
<1>3. out'[p] = t
    <2>1. out' = [out EXCEPT ![p] = @ \o [i \in 1..c.give |-> data[p][i - 1]]]
        BY DEF Return
    <2> QED BY <1>2, <2>1 DEF With, IndInv, TypeOK
<1>4. \A k \in 0..(n - 1) : d[k] \in Block
    <2> DEFINE size == c.size
    <2>1. n <= size /\ size \in Nat /\ d \in Buffer(size)
        <3> HIDE DEF c, d, n
        <3> QED BY <1>1, <1>2, PlanBound DEF PlanType
    <2> HIDE DEF d, size, n
    <2>2. n \in Nat
        BY <1>1
    <2>3. ASSUME NEW k \in 0..(n - 1) PROVE d[k] \in Block
        <3>1. k \in 0..(size - 1)
            BY <2>1, <2>2
        <3> QED BY <2>1, <3>1 DEF Buffer
    <2> QED BY <2>3
<1>5. /\ t \in Seq(Block) /\ Len(t) = Len(w) + n
      /\ \A i \in 1..(Len(w) + n) : t[i] = IF i <= Len(w) THEN w[i] ELSE d[i - Len(w) - 1]
    <2> HIDE DEF w, d, n
    <2>1. /\ t \in Seq(Block) /\ Len(t) = Len(w) + n
          /\ \A i \in 1..(Len(w) + n) : t[i] = Entry(w, d, i)
        BY <1>1, <1>4, WithFacts, Zenon
    <2> QED BY <2>1, Zenon DEF Entry
<1>6. \A i \in 1..Len(w) : t[i] = w[i]
    <2> HIDE DEF w, t, n
    <2> QED BY <1>1, <1>5
<1>7. \A k \in 0..(n - 1) : Served(b, op, k, t[Len(w) + (k + 1)])
    <2> SUFFICES ASSUME NEW k \in 0..(n - 1) PROVE Served(b, op, k, t[Len(w) + (k + 1)])
        OBVIOUS
    <2> DEFINE i == Len(w) + (k + 1)
    <2>1. i \in 1..(Len(w) + n) /\ ~(i <= Len(w)) /\ i - Len(w) - 1 = k
        <3>1. PICK lw \in Nat : lw = Len(w)
            BY <1>1
        <3> HIDE DEF w, n
        <3> QED BY <1>1, <3>1
    <2>2. t[i] = d[k]
        <3> HIDE DEF i, w, t, d, n
        <3> QED BY <1>5, <2>1
    <2>3. Served(b, op, k, d[k])
        <3>1. \A j \in 0..(c.pt - 1) : Served(b, c.op, j, d[j])
            BY DEF Serving
        <3> HIDE DEF c, d, n, op
        <3> QED BY <1>2, <3>1
    <2> QED BY <2>2, <2>3
<1>8. PICK r \in Nat : Moves(b, op, n, e, u, r) /\ (u < OtLimit => o = Fresh(r))
    <2>1. CASE op = "rcot"
        <3>1. \E r \in Nat : Moves(b, c.op, c.give, e, u, r) /\ (u < OtLimit => o = Fresh(r))
            BY <1>1, <1>2, <2>1 DEF Serving
        <3> HIDE DEF c, n, op
        <3> QED BY <1>2, <3>1
    <2>2. CASE op = "inplace"
        <3>1. Filled(b, op, e, n) /\ u = b.used /\ (u < OtLimit => o = Fresh(b.run))
            BY <1>2, <2>2 DEF Serving
        <3>2. n = (e - b.ext) * OtLimit
            <4>1. (e - b.ext) * OtLimit \in Int
                <5>1. b.ext \in Int /\ e - b.ext \in Int
                    BY <1>1 DEF Base
                <5> QED BY <5>1
            <4> HIDE DEF n, e
            <4> QED BY <2>2, <3>1, <4>1 DEF Filled, Left
        <3>3. b.run \in Nat
            BY DEF Base
        <3> HIDE DEF n, e, u, o, op
        <3> QED BY <2>2, <3>1, <3>2, <3>3 DEF Moves
    <2> QED BY <1>1, <2>1, <2>2
<1> DEFINE b2 == [run |-> r, used |-> u, ext |-> e, out |-> t]
<1>9. /\ b2 \in Base /\ b2.run = r /\ b2.used = u /\ b2.ext = e /\ b2.out = t
    <2> HIDE DEF t, u, e
    <2> QED BY <1>1, <1>5 DEF Base
<1> HIDE DEF b2
<1>10. CallEffect(b, cmd, b2)
    <2> HIDE DEF c, d, w, e, u, o, t
    <2> QED BY <1>2, <1>5, <1>6, <1>7, <1>8, <1>9 DEF CallEffect, n, op
<1>11. AtRest(b2, u, o, e, t)
    <2> HIDE DEF u, o, e, t
    <2> QED BY <1>8, <1>9 DEF AtRest
<1> HIDE DEF t
<1> QED BY <1>3, <1>9, <1>10, <1>11

\* A step of one party leaves the other alone.
LEMMA OtherKept ==
    ASSUME IndInv, calls \in [Party -> Seq(Commands)], NEW p \in Party, NEW q \in Party, q # p,
           Call(p) \/ Return(p) \/ Begins(p) \/ Produces(p)
    PROVE  /\ pc'[q] = pc[q] /\ call'[q] = call[q] /\ data'[q] = data[q]
           /\ otUsed'[q] = otUsed[q] /\ otData'[q] = otData[q] /\ ext'[q] = ext[q]
           /\ out'[q] = out[q] /\ calls'[q] = calls[q]
<1> USE Typing DEF IndInv, TypeOK
<1>1. CASE Call(p)
    BY <1>1 DEF Call, Issue, RcotHit, RcotMiss, RcotInplace
<1>2. CASE Return(p)
    BY <1>2 DEF Return
<1>3. CASE Begins(p)
    BY <1>3 DEF Begins
<1>4. CASE Produces(p)
    BY <1>4 DEF Produces, FinishExtension, InplaceRound, MemcpyRound, LastRound, UserRound
<1> QED BY <1>1, <1>2, <1>3, <1>4

(*-------------------- callers that make the same calls ------------------*)
\* The calls of p that have returned
Returned(p) == IF pc[p] = "idle" THEN Len(calls[p]) ELSE Len(calls[p]) - 1

\* p is between calls in the state b, or inside a call that began in it.
Stands(p, b) ==
    IF pc[p] = "idle"
    THEN AtRest(b, otUsed[p], otData[p], ext[p], out[p])
    ELSE Serving(b, calls[p][Len(calls[p])], call[p], data[p], otUsed[p], otData[p],
                 ext[p], out[p])

\* t is s, or s and more.
Longer(s, t) == Len(s) <= Len(t) /\ \A i \in 1..Len(s) : t[i] = s[i]

(* The states between the calls, from the first on, as far as either party
   has come: each call leads from one to the next, for both parties. *)
Ledger(h) ==
    /\ \A p \in Party : Returned(p) + 1 <= Len(h)
    /\ \E p \in Party : Returned(p) + 1 = Len(h)
    /\ \A p \in Party : \A i \in 1..Len(calls[p]) :
          i < Len(h) => CallEffect(h[i], calls[p][i], h[i + 1])
    /\ \A i, j \in 1..Len(h) : i <= j => Longer(h[i].out, h[j].out)
    /\ \A p \in Party : Stands(p, h[Returned(p) + 1])

\* The calls of the two callers are the same, as far as both have come.
SameCalls ==
    /\ calls \in [Party -> Seq(Commands)]
    /\ \A p \in Party : pc[p] # "idle" => Len(calls[p]) > 0
    /\ \A p, q \in Party : \A i \in 1..Len(calls[p]) :
          i <= Len(calls[q]) => calls[p][i] = calls[q][i]

(* Two callers in lockstep pass through the same states between calls, though
   one of them may be ahead. *)
LockInv == Lockstep /\ SameCalls /\ \E h \in Seq(Base) : Ledger(h)

\* After setup no call has been made.
LEMMA InitLock == Lockstep /\ Init => LockInv
<1> SUFFICES ASSUME Lockstep, Init PROVE LockInv
    OBVIOUS
<1> USE ParamFacts
<1> DEFINE b == [run |-> 0, used |-> OtLimit, ext |-> 0, out |-> <<>>]
           h == <<b>>
<1>1. b \in Base /\ b.used = OtLimit /\ b.ext = 0 /\ b.out = <<>>
    BY DEF Base
<1> HIDE DEF b
<1>2. h \in Seq(Base) /\ Len(h) = 1 /\ h[1] = b
    BY <1>1
<1> HIDE DEF h
<1>3. \A p \in Party : pc[p] = "idle" /\ calls[p] = <<>> /\ Len(calls[p]) = 0
    BY DEF Init
<1>4. \A p \in Party : Returned(p) = 0
    BY <1>3 DEF Returned
<1>5. ASSUME NEW p \in Party PROVE Stands(p, h[Returned(p) + 1])
    <2>1. AtRest(b, otUsed[p], otData[p], ext[p], out[p])
        BY <1>1 DEF Init, AtRest
    <2> QED BY <1>2, <1>3, <1>4, <2>1 DEF Stands
<1>6. Ledger(h)
    <2>1. \A i, j \in 1..Len(h) : i <= j => Longer(h[i].out, h[j].out)
        BY <1>1, <1>2 DEF Longer
    <2>2. \E p \in Party : Returned(p) + 1 = Len(h)
        BY <1>2, <1>4, Typing DEF Party
    <2> QED BY <1>2, <1>3, <1>4, <1>5, <2>1, <2>2 DEF Ledger
<1>7. SameCalls
    BY <1>3 DEF SameCalls, Init
<1> QED BY <1>2, <1>6, <1>7 DEF LockInv

\* The caller that is behind repeats the calls of the other.
LEMMA CallLock ==
    ASSUME IndInv, LockInv, NEW p \in Party, Call(p)
    PROVE  LockInv'
<1>1. PICK h \in Seq(Base) : Ledger(h)
    BY DEF LockInv
<1>2. PICK k \in Nat : k = Len(calls[p])
    BY DEF LockInv, SameCalls
<1>3. /\ calls \in [Party -> Seq(Commands)] /\ pc[p] = "idle"
      /\ Returned(p) = k /\ k + 1 \in 1..Len(h) /\ Len(h) \in Nat
    <2>1. calls \in [Party -> Seq(Commands)] /\ pc[p] = "idle" /\ Len(h) \in Nat
        BY DEF LockInv, SameCalls, Call, Issue
    <2>2. Returned(p) = k /\ Returned(p) + 1 <= Len(h)
        BY <1>1, <1>2, <2>1 DEF Returned, Ledger
    <2> QED BY <2>1, <2>2
<1>4. PICK b \in Base : b = h[k + 1]
    BY <1>3
<1>5. AtRest(b, otUsed[p], otData[p], ext[p], out[p])
    <2>1. Stands(p, b)
        BY <1>1, <1>3, <1>4 DEF Ledger
    <2> QED BY <1>3, <2>1 DEF Stands
<1>6. PICK cmd \in Commands : Starts(p, b, cmd)
    BY <1>3, <1>5, CallStarts
<1>7. /\ calls' \in [Party -> Seq(Commands)] /\ calls'[p] = Append(calls[p], cmd)
      /\ pc'[p] = "rounds" /\ Len(calls'[p]) = k + 1 /\ calls'[p][k + 1] = cmd
      /\ \A i \in 1..k : calls'[p][i] = calls[p][i]
    BY <1>2, <1>3, <1>6, Typing DEF Starts
<1>8. ASSUME NEW q \in Party, q # p
      PROVE  /\ pc'[q] = pc[q] /\ calls'[q] = calls[q] /\ Returned(q)' = Returned(q)
             /\ \A x : Stands(q, x) => Stands(q, x)'
    <2>1. /\ pc'[q] = pc[q] /\ call'[q] = call[q] /\ data'[q] = data[q]
          /\ otUsed'[q] = otUsed[q] /\ otData'[q] = otData[q] /\ ext'[q] = ext[q]
          /\ out'[q] = out[q] /\ calls'[q] = calls[q]
        BY <1>3, <1>8, OtherKept
    <2> QED BY <2>1 DEF Returned, Stands
<1>9. Returned(p)' = Returned(p)
    BY <1>3, <1>7 DEF Returned
<1>10. Stands(p, b)'
    BY <1>6, <1>7 DEF Stands, Starts
<1>11. \A q \in Party : k + 1 <= Len(calls[q]) => cmd = calls[q][k + 1]
    <2> SUFFICES ASSUME NEW q \in Party, k + 1 <= Len(calls[q])
                 PROVE  cmd = calls[q][k + 1]
        OBVIOUS
    <2>1. q = Peer(p)
        BY <1>2, Typing DEF Party, Peer
    <2>2. Behind(p)
        BY <1>2, <1>3, <2>1 DEF Behind
    <2> QED BY <1>2, <1>6, <2>1, <2>2 DEF Starts, LockInv
<1>12. SameCalls'
    <2>1. ASSUME NEW q \in Party, q # p, NEW i \in Nat, i > 0,
                 i <= k + 1, i <= Len(calls[q])
          PROVE  calls'[p][i] = calls[q][i]
        <3>1. CASE i = k + 1
            BY <1>7, <1>11, <2>1, <3>1
        <3>2. CASE i <= k
            BY <1>2, <1>7, <2>1, <3>2 DEF LockInv, SameCalls
        <3> QED BY <2>1, <3>1, <3>2
    <2>2. ASSUME NEW q \in Party, pc'[q] # "idle" PROVE Len(calls'[q]) > 0
        <3>1. CASE q = p
            BY <1>7, <3>1
        <3>2. CASE q # p
            BY <1>8, <2>2, <3>2 DEF LockInv, SameCalls
        <3> QED BY <3>1, <3>2
    <2>3. ASSUME NEW q \in Party, NEW r \in Party, NEW i \in 1..Len(calls'[q]),
                 i <= Len(calls'[r])
          PROVE  calls'[q][i] = calls'[r][i]
        <3>0. i \in Nat /\ i > 0 /\ i <= Len(calls'[q]) /\ i <= Len(calls'[r])
            BY <1>7, <2>3
        <3>1. CASE q = p /\ r # p
            <4>1. calls'[r] = calls[r] /\ i <= k + 1
                BY <1>7, <1>8, <3>0, <3>1
            <4> QED BY <2>1, <3>0, <3>1, <4>1
        <3>2. CASE r = p /\ q # p
            <4>1. calls'[q] = calls[q] /\ i <= k + 1
                BY <1>7, <1>8, <3>0, <3>2
            <4> QED BY <2>1, <3>0, <3>2, <4>1
        <3>3. CASE q # p /\ r # p
            BY <1>8, <2>3, <3>3 DEF LockInv, SameCalls
        <3> QED BY <3>1, <3>2, <3>3
    <2> QED BY <1>7, <2>2, <2>3 DEF SameCalls
<1>13. Ledger(h)'
    <2>1. \A q \in Party : Returned(q)' = Returned(q)
        BY <1>8, <1>9
    <2>2. ASSUME NEW q \in Party PROVE Stands(q, h[Returned(q) + 1])'
        <3>1. CASE q = p
            BY <1>3, <1>4, <1>10, <2>1, <3>1
        <3>2. CASE q # p
            BY <1>1, <1>8, <2>1, <3>2 DEF Ledger
        <3> QED BY <3>1, <3>2
    <2>3. ASSUME NEW q \in Party, NEW i \in 1..Len(calls'[q]), i < Len(h)
          PROVE  CallEffect(h[i], calls'[q][i], h[i + 1])
        <3>1. CASE q # p \/ i <= k
            <4>1. i \in 1..Len(calls[q]) /\ calls'[q][i] = calls[q][i]
                BY <1>2, <1>7, <1>8, <2>3, <3>1
            <4> QED BY <1>1, <2>3, <4>1 DEF Ledger
        <3>2. CASE q = p /\ ~(i <= k)
            <4>1. i = k + 1
                BY <1>7, <3>2
            <4>2. PICK r \in Party : Returned(r) + 1 = Len(h)
                BY <1>1 DEF Ledger
            <4>3. k + 1 <= Len(calls[r]) /\ Len(calls[r]) \in Nat
                BY <1>3, <2>3, <4>1, <4>2 DEF Returned
            <4>4. calls[r][k + 1] = cmd /\ k + 1 \in 1..Len(calls[r])
                BY <1>11, <4>3
            <4>5. CallEffect(h[i], calls[r][i], h[i + 1])
                BY <1>1, <2>3, <4>1, <4>4 DEF Ledger
            <4> QED BY <1>7, <3>2, <4>1, <4>4, <4>5
        <3> QED BY <3>1, <3>2
    <2> QED BY <1>1, <2>1, <2>2, <2>3 DEF Ledger
<1> QED BY <1>12, <1>13 DEF LockInv

\* What a caller has received only grows along the ledger.
LEMMA EffectGrows ==
    ASSUME NEW b \in Base, NEW cmd \in Commands, NEW b2 \in Base, CallEffect(b, cmd, b2)
    PROVE  Longer(b.out, b2.out)
<1>1. Num(cmd) \in Nat /\ Len(b.out) \in Nat
    BY NumFacts DEF Base
<1> QED BY <1>1 DEF CallEffect, Longer

\* A ledger may be continued by the effect of one more call.
LEMMA AppendLedger ==
    ASSUME NEW h \in Seq(Base), NEW cmd \in Commands, NEW x \in Base,
           Len(h) > 0, CallEffect(h[Len(h)], cmd, x),
           \A i, j \in 1..Len(h) : i <= j => Longer(h[i].out, h[j].out)
    PROVE  LET t == Append(h, x)
           IN  /\ t \in Seq(Base) /\ Len(t) = Len(h) + 1 /\ t[Len(h) + 1] = x
               /\ \A i \in 1..Len(h) : t[i] = h[i]
               /\ \A i, j \in 1..Len(t) : i <= j => Longer(t[i].out, t[j].out)
<1> DEFINE t == Append(h, x)
           n == Len(h)
<1>1. /\ t \in Seq(Base) /\ Len(t) = n + 1 /\ t[n + 1] = x /\ n \in Nat /\ n > 0
      /\ \A i \in 1..n : t[i] = h[i]
    OBVIOUS
<1>2. h[n] \in Base /\ Longer(h[n].out, x.out)
    BY <1>1, EffectGrows
<1>3. ASSUME NEW i \in 1..(n + 1), NEW j \in 1..(n + 1), i <= j
      PROVE  Longer(t[i].out, t[j].out)
    <2>1. CASE j <= n
        BY <1>1, <1>3, <2>1
    <2>2. CASE i = n + 1 /\ j = n + 1
        <3>1. x.out \in Seq(Block)
            BY DEF Base
        <3> QED BY <1>1, <2>2, <3>1 DEF Longer
    <2>3. CASE i <= n /\ j = n + 1
        <3> DEFINE u == h[i].out
                   v == h[n].out
                   w == x.out
        <3>1. /\ t[i].out = u /\ t[j].out = w /\ Longer(u, v) /\ Longer(v, w)
            BY <1>1, <1>2, <2>3
        <3>2. h[i] \in Base /\ u \in Seq(Block) /\ v \in Seq(Block) /\ w \in Seq(Block)
            <4>1. h[i] \in Base
                BY <1>1, <2>3
            <4> QED BY <1>2, <4>1 DEF Base
        <3> HIDE DEF u, v, w, t
        <3>3. Longer(u, w)
            BY <3>1, <3>2 DEF Longer
        <3> QED BY <3>1, <3>3
    <2> QED BY <1>1, <1>3, <2>1, <2>2, <2>3
<1> HIDE DEF t
<1> QED BY <1>1, <1>3 DEF t

(* A call that returns leads to the next state of the ledger: the one that the
   other party has already reached, or a new one. *)
LEMMA ReturnLock ==
    ASSUME IndInv, LockInv, NEW p \in Party, Return(p)
    PROVE  LockInv'
<1>1. PICK h \in Seq(Base) : Ledger(h)
    BY DEF LockInv
<1>2. PICK k \in Nat : k = Len(calls[p])
    BY DEF LockInv, SameCalls
<1>3. /\ calls \in [Party -> Seq(Commands)] /\ pc[p] = "rounds" /\ k > 0
      /\ Returned(p) = k - 1 /\ k \in 1..Len(h) /\ Len(h) \in Nat
      /\ calls' = calls /\ pc'[p] = "idle"
    <2>1. /\ calls \in [Party -> Seq(Commands)] /\ pc[p] = "rounds" /\ Len(h) \in Nat
          /\ calls' = calls /\ pc'[p] = "idle" /\ k > 0
        BY <1>2, Typing DEF LockInv, SameCalls, Return
    <2>2. Returned(p) = k - 1 /\ Returned(p) + 1 <= Len(h)
        BY <1>1, <1>2, <2>1 DEF Returned, Ledger
    <2> QED BY <2>1, <2>2
<1>4. PICK b \in Base : b = h[k]
    BY <1>3
<1>5. PICK cmd \in Commands : cmd = calls[p][k]
    BY <1>2, <1>3
<1>6. Serving(b, cmd, call[p], data[p], otUsed[p], otData[p], ext[p], out[p])
    <2>1. k - 1 + 1 = k
        OBVIOUS
    <2>2. Stands(p, b)
        BY <1>1, <1>3, <1>4, <2>1 DEF Ledger
    <2> QED BY <1>2, <1>3, <1>5, <2>2 DEF Stands
<1>7. PICK x \in Base : /\ CallEffect(b, cmd, x)
                        /\ AtRest(x, otUsed[p], otData[p], ext[p], out'[p])
    BY <1>6, ReturnEnds
<1>8. Stands(p, x)' /\ Returned(p)' = k
    BY <1>2, <1>3, <1>7 DEF Stands, Return, Returned
<1>9. ASSUME NEW q \in Party, q # p
      PROVE  /\ pc'[q] = pc[q] /\ Returned(q)' = Returned(q)
             /\ \A y : Stands(q, y) => Stands(q, y)'
    <2>1. /\ pc'[q] = pc[q] /\ call'[q] = call[q] /\ data'[q] = data[q]
          /\ otUsed'[q] = otUsed[q] /\ otData'[q] = otData[q] /\ ext'[q] = ext[q]
          /\ out'[q] = out[q] /\ calls'[q] = calls[q]
        BY <1>3, <1>9, OtherKept
    <2> QED BY <2>1 DEF Returned, Stands
<1>10. SameCalls'
    <2>1. \A q \in Party : pc'[q] # "idle" => Len(calls[q]) > 0
        BY <1>3, <1>9 DEF LockInv, SameCalls
    <2> QED BY <1>3, <2>1 DEF LockInv, SameCalls
<1>11. \A q \in Party : k <= Len(calls[q]) => calls[q][k] = cmd
    BY <1>2, <1>3, <1>5 DEF LockInv, SameCalls
<1>12. CASE k < Len(h)
    <2>1. h[k + 1] = x
        <3>1. CallEffect(b, cmd, h[k + 1]) /\ h[k + 1] \in Base
            <4>1. k \in 1..Len(calls[p]) /\ k + 1 \in 1..Len(h)
                BY <1>2, <1>3, <1>12
            <4>2. CallEffect(h[k], calls[p][k], h[k + 1])
                BY <1>1, <1>12, <4>1 DEF Ledger
            <4> QED BY <1>4, <1>5, <4>1, <4>2
        <3> QED BY <1>7, <3>1, SameEffect
    <2>2. Ledger(h)'
        <3>1. \A q \in Party : Returned(q)' + 1 <= Len(h)
            <4>1. \A q \in Party : Returned(q) + 1 <= Len(h)
                BY <1>1 DEF Ledger
            <4>2. Returned(p)' + 1 <= Len(h)
                BY <1>3, <1>8, <1>12
            <4>3. \A q \in Party : q # p => Returned(q)' + 1 <= Len(h)
                BY <1>9, <4>1
            <4> QED BY <4>2, <4>3
        <3>2. ASSUME NEW q \in Party PROVE Stands(q, h[Returned(q) + 1])'
            <4>1. CASE q = p
                BY <1>8, <2>1, <4>1
            <4>2. CASE q # p
                BY <1>1, <1>9, <4>2 DEF Ledger
            <4> QED BY <4>1, <4>2
        <3>3. \E q \in Party : Returned(q)' + 1 = Len(h)
            <4>1. PICK q \in Party : Returned(q) + 1 = Len(h)
                BY <1>1 DEF Ledger
            <4>2. q # p
                BY <1>3, <1>12, <4>1
            <4> QED BY <1>9, <4>1, <4>2
        <3> QED BY <1>1, <1>3, <3>1, <3>2, <3>3 DEF Ledger
    <2> QED BY <1>10, <2>2 DEF LockInv
<1>13. CASE k = Len(h)
    <2> DEFINE t == Append(h, x)
    <2>1. /\ t \in Seq(Base) /\ Len(t) = k + 1 /\ t[k + 1] = x
          /\ \A i \in 1..k : t[i] = h[i]
          /\ \A i, j \in 1..Len(t) : i <= j => Longer(t[i].out, t[j].out)
        <3>1. \A i, j \in 1..Len(h) : i <= j => Longer(h[i].out, h[j].out)
            BY <1>1 DEF Ledger
        <3>2. Len(h) = k /\ Len(h) > 0
            BY <1>3, <1>13
        <3>3. CallEffect(h[Len(h)], cmd, x)
            BY <1>4, <1>7, <3>2
        <3> QED BY <1>3, <3>1, <3>2, <3>3, AppendLedger
    <2> HIDE DEF t
    <2>2. Ledger(t)'
        <3>1. ASSUME NEW q \in Party, q # p
              PROVE  Returned(q) + 1 \in 1..k
            <4>1. Returned(q) \in Nat /\ Returned(q) + 1 <= k
                <5>1. Returned(q) + 1 <= Len(h)
                    BY <1>1 DEF Ledger
                <5>2. Len(calls[q]) \in Nat /\ (pc[q] # "idle" => Len(calls[q]) > 0)
                    BY <1>3 DEF LockInv, SameCalls
                <5> QED BY <1>13, <5>1, <5>2 DEF Returned
            <4> QED BY <4>1
        <3>2. \A q \in Party : Returned(q)' + 1 <= Len(t)
            BY <1>8, <1>9, <2>1, <3>1
        <3>3. ASSUME NEW q \in Party PROVE Stands(q, t[Returned(q) + 1])'
            <4>1. CASE q = p
                BY <1>8, <2>1, <4>1
            <4>2. CASE q # p
                <5>1. t[Returned(q) + 1] = h[Returned(q) + 1] /\ Stands(q, h[Returned(q) + 1])
                    BY <1>1, <2>1, <3>1, <4>2 DEF Ledger
                <5> QED BY <1>9, <4>2, <5>1
            <4> QED BY <4>1, <4>2
        <3>4. \E q \in Party : Returned(q)' + 1 = Len(t)
            BY <1>8, <2>1
        <3>5. ASSUME NEW q \in Party, NEW i \in 1..Len(calls[q]), i < k + 1
              PROVE  CallEffect(t[i], calls[q][i], t[i + 1])
            <4>1. CASE i < k
                <5>1. i \in 1..k /\ i + 1 \in 1..k /\ t[i] = h[i] /\ t[i + 1] = h[i + 1]
                    BY <1>3, <2>1, <3>5, <4>1
                <5>2. CallEffect(h[i], calls[q][i], h[i + 1])
                    BY <1>1, <1>13, <3>5, <4>1 DEF Ledger
                <5> QED BY <5>1, <5>2
            <4>2. CASE i = k
                <5>1. k \in 1..k /\ k <= Len(calls[q])
                    BY <1>3, <3>5, <4>2
                <5>2. t[i] = b /\ t[i + 1] = x /\ calls[q][i] = cmd
                    BY <1>4, <1>11, <2>1, <4>2, <5>1
                <5> QED BY <1>7, <5>2
            <4> QED BY <1>3, <3>5, <4>1, <4>2
        <3> QED BY <1>3, <2>1, <3>2, <3>3, <3>4, <3>5 DEF Ledger
    <2> QED BY <1>10, <2>1, <2>2 DEF LockInv
<1> QED BY <1>3, <1>12, <1>13

\* The steps inside a call leave the ledger alone.
LEMMA RoundLock ==
    ASSUME IndInv, LockInv, NEW p \in Party, Begins(p) \/ Produces(p)
    PROVE  LockInv'
<1>1. PICK h \in Seq(Base) : Ledger(h)
    BY DEF LockInv
<1>2. /\ calls \in [Party -> Seq(Commands)] /\ calls' = calls
      /\ pc[p] # "idle" /\ pc'[p] # "idle"
    BY Typing DEF LockInv, SameCalls, Begins, Produces, FinishExtension
<1>3. ASSUME NEW x, NEW cmd, x \in Base,
             Serving(x, cmd, call[p], data[p], otUsed[p], otData[p], ext[p], out[p])
      PROVE  Serving(x, cmd, call'[p], data'[p], otUsed'[p], otData'[p], ext'[p], out'[p])
    <2>1. CASE Begins(p)
        BY <1>3, <2>1 DEF Begins
    <2>2. CASE Produces(p)
        BY <1>3, <2>2, RoundServing
    <2> QED BY <2>1, <2>2
<1>4. ASSUME NEW q \in Party
      PROVE  /\ (pc'[q] = "idle") = (pc[q] = "idle") /\ Returned(q)' = Returned(q)
             /\ \A x \in Base : Stands(q, x) => Stands(q, x)'
    <2>1. CASE q = p
        BY <1>2, <1>3, <2>1 DEF Returned, Stands
    <2>2. CASE q # p
        <3>1. /\ pc'[q] = pc[q] /\ call'[q] = call[q] /\ data'[q] = data[q]
              /\ otUsed'[q] = otUsed[q] /\ otData'[q] = otData[q] /\ ext'[q] = ext[q]
              /\ out'[q] = out[q] /\ calls'[q] = calls[q]
            BY <1>2, <2>2, OtherKept
        <3> QED BY <3>1 DEF Returned, Stands
    <2> QED BY <2>1, <2>2
<1>5. SameCalls'
    BY <1>2, <1>4 DEF LockInv, SameCalls
<1>6. Ledger(h)'
    <2>1. ASSUME NEW q \in Party PROVE Stands(q, h[Returned(q) + 1])'
        <3>1. Returned(q) \in Nat /\ Returned(q) + 1 <= Len(h) /\ Len(h) \in Nat
            BY <1>1, <1>2 DEF Ledger, Returned, LockInv, SameCalls
        <3>2. h[Returned(q) + 1] \in Base /\ Stands(q, h[Returned(q) + 1])
            BY <1>1, <3>1 DEF Ledger
        <3> QED BY <1>4, <3>2
    <2> QED BY <1>1, <1>2, <1>4, <2>1 DEF Ledger
<1> QED BY <1>5, <1>6 DEF LockInv

\* Every step keeps the two parties on one ledger.
LEMMA LockStep == IndInv /\ ProtocolInv /\ LockInv /\ [Next]_vars => LockInv'
<1> SUFFICES ASSUME IndInv, ProtocolInv, LockInv, [Next]_vars PROVE LockInv'
    OBVIOUS
<1>1. CASE UNCHANGED vars
    <2> USE <1>1 DEF vars
    <2>1. SameCalls'
        BY DEF LockInv, SameCalls
    <2>2. PICK h \in Seq(Base) : Ledger(h)
        BY DEF LockInv
    <2>3. \A q \in Party : Returned(q)' = Returned(q) /\ \A x : Stands(q, x) => Stands(q, x)'
        BY DEF Returned, Stands
    <2>4. Ledger(h)'
        BY <2>2, <2>3 DEF Ledger
    <2> QED BY <2>1, <2>4 DEF LockInv
<1>2. CASE Next
    BY <1>2, StepKinds, CallLock, ReturnLock, RoundLock
<1> QED BY <1>1, <1>2

(* When the two callers make the same calls, the i-th block that ALICE's caller
   receives is correlated with the i-th that BOB's caller receives, for any
   mixture of rcot and rcot_inplace and however far one party is ahead. *)
THEOREM SameCallsAgree == Lockstep /\ Spec => []OutputsAgree
<1>1. ASSUME IndInv, LockInv PROVE OutputsAgree
    <2>1. PICK h \in Seq(Base) : Ledger(h)
        BY <1>1 DEF LockInv
    <2>2. ASSUME NEW p \in Party
          PROVE  /\ Returned(p) + 1 \in 1..Len(h) /\ h[Returned(p) + 1] \in Base
                 /\ out[p] = h[Returned(p) + 1].out
        <3>1. Returned(p) \in Nat /\ Returned(p) + 1 <= Len(h) /\ Len(h) \in Nat
            BY <1>1, <2>1 DEF Ledger, Returned, LockInv, SameCalls
        <3>2. Stands(p, h[Returned(p) + 1])
            BY <2>1 DEF Ledger
        <3> QED BY <3>1, <3>2 DEF Stands, AtRest, Serving
    <2> DEFINE s == out["ALICE"]
               t == out["BOB"]
    <2>3. Longer(s, t) \/ Longer(t, s)
        <3>1. PICK i \in 1..Len(h) : i = Returned("ALICE") + 1
            BY <2>2, <1>1, Typing
        <3>2. PICK j \in 1..Len(h) : j = Returned("BOB") + 1
            BY <2>2, <1>1, Typing
        <3>3. s = h[i].out /\ t = h[j].out
            BY <2>2, <3>1, <3>2, <1>1, Typing
        <3>4. i <= j \/ j <= i
            BY <3>1, <3>2
        <3> QED BY <2>1, <3>3, <3>4 DEF Ledger
    <2>4. s \in Seq(Block) /\ t \in Seq(Block)
        BY <1>1, Typing, Stored
    <2>5. DOMAIN s = 1..Len(s) /\ DOMAIN t = 1..Len(t) /\ Len(s) \in Nat /\ Len(t) \in Nat
        BY <2>4
    <2> SUFFICES ASSUME NEW i \in (DOMAIN s) \cap (DOMAIN t) PROVE s[i] = t[i]
        BY DEF OutputsAgree
    <2> HIDE DEF s, t
    <2> QED BY <2>3, <2>5 DEF Longer
<1> QED BY <1>1, InitLock, LockStep, Invariance, InStep, PTL DEF Spec

(*---------------------- callers that use rcot alone ---------------------*)
(* Between two calls of rcot alone: the caller has everything up to ot_used of
   the last extension, in the order of the extensions. *)
OnStream(b) ==
    /\ Len(b.out) + (OtLimit - b.used) = b.ext * OtLimit
    /\ b.used < OtLimit => b.run = b.ext
    /\ \A i \in 1..Len(b.out) : Usable(b.out[i]) /\ Pos(b.out[i]) = OtLimit + (i - 1)

\* Every call began, or may begin, at a place of the stream.
StreamInv ==
    /\ Needs = {} /\ calls \in [Party -> Seq(Commands)]
    /\ \A p \in Party : pc[p] # "idle" => Len(calls[p]) > 0
    /\ \A p \in Party : \E b \in Base : OnStream(b) /\ Stands(p, b)

\* Where a call of rcot stops.
LEMMA StreamStops ==
    ASSUME NEW lw \in Nat, NEW n \in Nat, NEW l \in Nat, NEW el \in Int, NEW fl \in Int,
           NEW gl \in Int, NEW v \in Int, NEW lim \in Int,
           lw + l = el, gl = fl - el, n - l = gl - (lim - v)
    PROVE  (lw + n) + (lim - v) = fl
OBVIOUS

\* The block after the k-th new one of a call is the next one of the stream.
LEMMA StreamNext ==
    ASSUME NEW lw \in Nat, NEW l \in Nat, NEW el \in Int, NEW lim \in Int, NEW k \in Int,
           lw + l = el
    PROVE  (el + lim) + (k - l) = lim + ((lw + (k + 1)) - 1)
OBVIOUS

\* A call of rcot takes the next blocks of the stream and stops at their end.
LEMMA EffectOnStream ==
    ASSUME NEW b \in Base, NEW cmd \in Commands, NEW b2 \in Base,
           cmd[1] = "rcot", CallEffect(b, cmd, b2), OnStream(b)
    PROVE  OnStream(b2) /\ Len(b2.out) >= Len(b.out)
<1> USE ParamFacts
<1> DEFINE n == Num(cmd)
           w == b.out
           t == b2.out
           u == b.used
           v == b2.used
           l == OtLimit - u
           e == b.ext
           f == b2.ext
           s == b.run
           lw == Len(w)
           el == e * OtLimit
           fl == f * OtLimit
           gl == (f - e) * OtLimit
           x == (e + 1) * OtLimit
<1>1. /\ n \in Nat /\ w \in Seq(Block) /\ t \in Seq(Block) /\ lw \in Nat
      /\ u \in 0..OtLimit /\ v \in 0..OtLimit /\ e \in Nat /\ f \in Nat
      /\ l = Left(b, "rcot") /\ l \in Nat /\ s \in Nat
    BY NumFacts DEF Base, Left
<1>2. el \in Int /\ fl \in Int /\ gl = fl - el /\ x = el + OtLimit
    <2>1. e \in Int /\ f \in Int /\ OtLimit \in Int
        BY <1>1
    <2> HIDE DEF e, f
    <2> QED BY <2>1, Distribute
<1>3. /\ lw + l = el /\ (u < OtLimit => s = e)
      /\ \A i \in 1..lw : Usable(w[i]) /\ Pos(w[i]) = OtLimit + (i - 1)
    BY DEF OnStream
<1>4. /\ Len(t) = lw + n
      /\ \A i \in 1..lw : t[i] = w[i]
      /\ \A k \in 0..(n - 1) : Served(b, "rcot", k, t[lw + (k + 1)])
    BY DEF CallEffect
<1>5. \/ n <= l /\ f = e /\ v = u + n /\ b2.run = s
      \/ n > l /\ n - l = gl - (OtLimit - v) /\ b2.run = f
    <2>1. Moves(b, "rcot", n, f, v, b2.run)
        BY DEF CallEffect
    <2> HIDE DEF n, f, v, gl
    <2> QED BY <1>1, <2>1 DEF Moves, gl
<1>6. (Len(t) + (OtLimit - v) = fl) /\ (v < OtLimit => b2.run = f)
    <2>1. CASE n <= l /\ f = e /\ v = u + n /\ b2.run = s
        <3>1. fl = el
            BY <2>1
        <3>2. l = OtLimit - u
            OBVIOUS
        <3> HIDE DEF n, w, t, u, v, l, e, f, s, lw, el, fl, gl, x
        <3>3. /\ lw \in Int /\ n \in Int /\ u \in Int /\ v \in Int /\ OtLimit \in Int
              /\ Len(t) = lw + n /\ lw + l = el /\ v = u + n
            BY <1>1, <1>3, <1>4, <2>1
        <3>4. Len(t) + (OtLimit - v) = fl
            BY <3>1, <3>2, <3>3
        <3>5. v < OtLimit => u < OtLimit
            BY <1>1, <2>1
        <3> QED BY <1>3, <2>1, <3>4, <3>5
    <2>2. CASE n > l /\ n - l = gl - (OtLimit - v) /\ b2.run = f
        <3> HIDE DEF n, w, t, u, v, l, e, f, s, lw, el, fl, gl, x
        <3>1. gl \in Int /\ v \in Int /\ OtLimit \in Int /\ lw \in Int
            BY <1>1, <1>2
        <3>2. (lw + n) + (OtLimit - v) = fl
            BY <1>1, <1>2, <1>3, <2>2, <3>1, StreamStops
        <3> QED BY <1>4, <2>2, <3>2
    <2> QED BY <1>5, <2>1, <2>2
<1>7. ASSUME NEW i \in 1..Len(t)
      PROVE  Usable(t[i]) /\ Pos(t[i]) = OtLimit + (i - 1)
    <2> HIDE DEF n, w, t, lw
    <2>0. i \in 1..(lw + n) /\ lw \in Nat /\ n \in Nat
        BY <1>1, <1>4
    <2>1. CASE i <= lw
        <3>1. i \in 1..lw
            BY <2>0, <2>1
        <3> QED BY <1>3, <1>4, <3>1
    <2>2. CASE i > lw
        <3> DEFINE k == i - lw - 1
        <3>1. k \in 0..(n - 1) /\ lw + (k + 1) = i
            BY <2>0, <2>2
        <3>2. Served(b, "rcot", k, t[i])
            <4> HIDE DEF k
            <4> QED BY <1>4, <3>1
        <3>3. CASE k < l
            <4>1. t[i] = <<s, u + k>>
                <5> HIDE DEF k, l
                <5> QED BY <1>1, <3>2, <3>3 DEF Served
            <4>2. l = OtLimit - u
                OBVIOUS
            <4> HIDE DEF k, e, f, u, v, s, el, fl, gl, x, l
            <4>3. s = e /\ u + k \in 0..(OtLimit - 1)
                BY <1>1, <1>3, <3>1, <3>3, <4>2
            <4>4. Usable(t[i]) /\ Pos(t[i]) = el + (u + k)
                BY <4>1, <4>3 DEF Usable, Pos, el
            <4>5. el + (u + k) = OtLimit + (i - 1)
                BY <1>1, <1>2, <1>3, <3>1, <4>2
            <4> QED BY <4>4, <4>5
        <3>4. CASE ~(k < l)
            <4> HIDE DEF k, e, f, u, v, s, el, fl, gl, l
            <4>1. Usable(t[i]) /\ Pos(t[i]) = x + (k - l)
                BY <1>1, <3>2, <3>4 DEF Served, e
            <4> HIDE DEF x
            <4>2. x + (k - l) = OtLimit + (i - 1)
                <5>1. /\ lw \in Nat /\ l \in Nat /\ el \in Int /\ OtLimit \in Int
                      /\ k \in Int /\ lw + l = el
                    BY <1>1, <1>2, <1>3, <3>1
                <5> HIDE ParamFacts
                <5>2. (el + OtLimit) + (k - l) = OtLimit + ((lw + (k + 1)) - 1)
                    BY <5>1, StreamNext
                <5> QED BY <1>2, <3>1, <5>2
            <4> QED BY <4>1, <4>2
        <3> QED BY <1>1, <3>1, <3>3, <3>4
    <2> QED BY <1>1, <2>1, <2>2
<1>8. Len(t) >= lw
    <2> HIDE DEF n, w, t, lw
    <2> QED BY <1>1, <1>4
<1> QED BY <1>6, <1>7, <1>8 DEF OnStream

\* The first blocks of the stream are what a party on the stream has received.
LEMMA StreamPrefix ==
    ASSUME NEW b \in Base, OnStream(b)
    PROVE  b.out = Stream!Prefix(Len(b.out))
<1> USE ParamFacts
<1> DEFINE w == b.out
           n == Len(w)
<1>1. w \in Seq(Block) /\ n \in Nat /\ \A i \in 1..n : w[i] \in Block
    BY DEF Base
<1>2. ASSUME NEW i \in 1..n PROVE w[i] = Stream!At(i)
    <2> DEFINE a == i - 1
               q == a \div OtLimit
               m == a % OtLimit
    <2>1. a \in Nat /\ q \in Nat /\ m \in 0..(OtLimit - 1) /\ q * OtLimit + m = a
        <3> DEFINE d == OtLimit
        <3>1. a \in Nat /\ d \in Nat \ {0}
            BY <1>1
        <3> HIDE DEF a, d
        <3>2. a \div d \in Nat /\ a % d \in 0..(d - 1) /\ (a \div d) * d + (a % d) = a
            BY <3>1
        <3> QED BY <3>2 DEF d, a
    <2>2. Stream!At(i) = <<1 + q, m>>
        BY DEF Stream!At
    <2>3. Usable(w[i]) /\ Pos(w[i]) = OtLimit + a /\ w[i] \in Block
        BY <1>1 DEF OnStream
    <2> HIDE DEF a, q, m, w
    <2>4. (1 + q) * OtLimit = OtLimit + q * OtLimit /\ q * OtLimit \in Int
        BY <2>1, Distribute
    <2>5. <<1 + q, m>> \in Block /\ Usable(<<1 + q, m>>) /\ Pos(<<1 + q, m>>) = OtLimit + a
        BY <2>1, <2>4 DEF Block, Usable, Pos
    <2> QED BY <2>2, <2>3, <2>5, SamePlace
<1>3. w = [i \in 1..n |-> Stream!At(i)]
    BY <1>1, <1>2
<1> QED BY <1>3 DEF Stream!Prefix

\* After setup every caller is at the beginning of the stream.
LEMMA InitStream == Needs = {} /\ Init => StreamInv
<1> SUFFICES ASSUME Needs = {}, Init PROVE StreamInv
    OBVIOUS
<1> USE ParamFacts
<1> DEFINE b == [run |-> 0, used |-> OtLimit, ext |-> 0, out |-> <<>>]
<1>1. b \in Base /\ b.used = OtLimit /\ b.ext = 0 /\ b.out = <<>>
    BY DEF Base
<1> HIDE DEF b
<1>2. OnStream(b)
    BY <1>1 DEF OnStream
<1>3. ASSUME NEW p \in Party PROVE Stands(p, b)
    BY <1>1 DEF Init, AtRest, Stands
<1>4. calls \in [Party -> Seq(Commands)] /\ \A p \in Party : pc[p] = "idle"
    BY DEF Init
<1> QED BY <1>1, <1>2, <1>3, <1>4 DEF StreamInv

\* The step of another party does not move a caller.
LEMMA OtherStands ==
    ASSUME IndInv, calls \in [Party -> Seq(Commands)], NEW p \in Party, NEW q \in Party, q # p,
           Call(p) \/ Return(p) \/ Begins(p) \/ Produces(p)
    PROVE  /\ pc'[q] = pc[q] /\ calls'[q] = calls[q] /\ out'[q] = out[q]
           /\ \A x : Stands(q, x) => Stands(q, x)'
<1>1. /\ pc'[q] = pc[q] /\ call'[q] = call[q] /\ data'[q] = data[q]
      /\ otUsed'[q] = otUsed[q] /\ otData'[q] = otData[q] /\ ext'[q] = ext[q]
      /\ out'[q] = out[q] /\ calls'[q] = calls[q]
    BY OtherKept
<1> QED BY <1>1 DEF Stands

\* A call begins where the caller stands.
LEMMA CallStream ==
    ASSUME IndInv, StreamInv, NEW p \in Party, Call(p)
    PROVE  StreamInv'
<1>1. calls \in [Party -> Seq(Commands)] /\ pc[p] = "idle"
    BY DEF StreamInv, Call, Issue
<1>2. PICK b \in Base : OnStream(b) /\ Stands(p, b)
    BY DEF StreamInv
<1>3. AtRest(b, otUsed[p], otData[p], ext[p], out[p])
    BY <1>1, <1>2 DEF Stands
<1>4. PICK cmd \in Commands : Starts(p, b, cmd)
    BY <1>1, <1>3, CallStarts
<1>5. /\ calls' \in [Party -> Seq(Commands)] /\ calls'[p] = Append(calls[p], cmd)
      /\ pc'[p] = "rounds" /\ Len(calls'[p]) > 0 /\ calls'[p][Len(calls'[p])] = cmd
    BY <1>1, <1>4, Typing DEF Starts
<1>6. Stands(p, b)'
    BY <1>4, <1>5 DEF Stands, Starts
<1>7. ASSUME NEW q \in Party
      PROVE  /\ pc'[q] # "idle" => Len(calls'[q]) > 0
             /\ \E x \in Base : OnStream(x) /\ Stands(q, x)'
    <2>1. CASE q = p
        BY <1>2, <1>5, <1>6, <2>1
    <2>2. CASE q # p
        BY <1>1, <2>2, OtherStands DEF StreamInv
    <2> QED BY <2>1, <2>2
<1> QED BY <1>5, <1>7 DEF StreamInv

\* The steps inside a call leave the place where it began.
LEMMA RoundStream ==
    ASSUME IndInv, StreamInv, NEW p \in Party, Begins(p) \/ Produces(p)
    PROVE  StreamInv' /\ UNCHANGED out
<1>1. /\ calls \in [Party -> Seq(Commands)] /\ calls' = calls
      /\ pc[p] # "idle" /\ pc'[p] # "idle" /\ UNCHANGED out
    BY Typing DEF StreamInv, Begins, Produces, FinishExtension
<1>2. PICK b \in Base : OnStream(b) /\ Stands(p, b)
    BY DEF StreamInv
<1>3. Stands(p, b)'
    <2> DEFINE cmd == calls[p][Len(calls[p])]
    <2>1. Serving(b, cmd, call[p], data[p], otUsed[p], otData[p], ext[p], out[p])
        BY <1>1, <1>2 DEF Stands
    <2>2. CASE Begins(p)
        BY <1>1, <2>1, <2>2 DEF Begins, Stands
    <2>3. CASE Produces(p)
        <3> HIDE DEF cmd
        <3>1. Serving(b, cmd, call'[p], data'[p], otUsed'[p], otData'[p], ext'[p], out'[p])
            BY <2>1, <2>3, RoundServing
        <3> QED BY <1>1, <3>1 DEF Stands, cmd
    <2> QED BY <2>2, <2>3
<1>4. ASSUME NEW q \in Party
      PROVE  /\ pc'[q] # "idle" => Len(calls'[q]) > 0
             /\ \E x \in Base : OnStream(x) /\ Stands(q, x)'
    <2>1. CASE q = p
        BY <1>1, <1>2, <1>3, <2>1 DEF StreamInv
    <2>2. CASE q # p
        BY <1>1, <2>2, OtherStands DEF StreamInv
    <2> QED BY <2>1, <2>2
<1> QED BY <1>1, <1>4 DEF StreamInv

\* A call that returns hands out the next blocks of the stream.
LEMMA ReturnStream ==
    ASSUME IndInv, StreamInv, NEW p \in Party, Return(p)
    PROVE  StreamInv' /\ Stream!Deliver(p)
<1>1. /\ calls \in [Party -> Seq(Commands)] /\ pc[p] = "rounds" /\ Len(calls[p]) > 0
      /\ calls' = calls /\ pc'[p] = "idle" /\ Needs = {}
    BY Typing DEF StreamInv, Return
<1>2. PICK b \in Base : OnStream(b) /\ Stands(p, b)
    BY DEF StreamInv
<1>3. PICK cmd \in Commands : cmd = calls[p][Len(calls[p])]
    BY <1>1
<1>4. Serving(b, cmd, call[p], data[p], otUsed[p], otData[p], ext[p], out[p])
    BY <1>1, <1>2, <1>3 DEF Stands
<1>5. PICK x \in Base : /\ CallEffect(b, cmd, x)
                        /\ AtRest(x, otUsed[p], otData[p], ext[p], out'[p])
    BY <1>4, ReturnEnds
<1>6. cmd[1] = "rcot"
    BY <1>1 DEF Commands
<1>7. OnStream(x) /\ Len(x.out) >= Len(b.out)
    BY <1>2, <1>5, <1>6, EffectOnStream
<1>8. x.out = out'[p] /\ b.out = out[p]
    BY <1>4, <1>5 DEF AtRest, Serving
<1>9. Stands(p, x)'
    BY <1>1, <1>5 DEF Stands, Return
<1>10. ASSUME NEW q \in Party
       PROVE  /\ pc'[q] # "idle" => Len(calls'[q]) > 0
              /\ \E y \in Base : OnStream(y) /\ Stands(q, y)'
    <2>1. CASE q = p
        BY <1>1, <1>7, <1>9, <2>1
    <2>2. CASE q # p
        BY <1>1, <2>2, OtherStands DEF StreamInv
    <2> QED BY <2>1, <2>2
<1>11. StreamInv'
    BY <1>1, <1>10 DEF StreamInv
<1>12. Stream!Deliver(p)
    <2>1. out'[p] = Stream!Prefix(Len(out'[p]))
        BY <1>7, <1>8, StreamPrefix
    <2>2. Len(out'[p]) \in Nat /\ Len(out'[p]) >= Len(out[p])
        BY <1>7, <1>8 DEF Base
    <2>3. out' = [out EXCEPT ![p] = out'[p]]
        <3>1. out \in [Party -> Seq(Block)]
            BY DEF IndInv, TypeOK
        <3>2. PICK s : out' = [out EXCEPT ![p] = s]
            BY DEF Return
        <3> QED BY <3>1, <3>2
    <2> QED BY <2>1, <2>2, <2>3 DEF Stream!Deliver
<1> QED BY <1>11, <1>12

\* Every step leaves the callers on the stream and is a step of it.
LEMMA StreamStep ==
    IndInv /\ ProtocolInv /\ StreamInv /\ [Next]_vars => StreamInv' /\ [Stream!Next]_out
<1> SUFFICES ASSUME IndInv, ProtocolInv, StreamInv, [Next]_vars
             PROVE  StreamInv' /\ [Stream!Next]_out
    OBVIOUS
<1>1. CASE UNCHANGED vars
    <2> USE <1>1 DEF vars
    <2>1. \A p \in Party : \A x : Stands(p, x) => Stands(p, x)'
        BY DEF Stands
    <2> QED BY <2>1 DEF StreamInv
<1>2. ASSUME NEW p \in Party, Call(p) PROVE StreamInv' /\ [Stream!Next]_out
    BY <1>2, CallStream DEF Call, Issue
<1>3. ASSUME NEW p \in Party, Return(p) PROVE StreamInv' /\ [Stream!Next]_out
    BY <1>3, ReturnStream DEF Stream!Next
<1>4. ASSUME NEW p \in Party, Begins(p) \/ Produces(p) PROVE StreamInv' /\ [Stream!Next]_out
    BY <1>4, RoundStream
<1> QED BY <1>1, <1>2, <1>3, <1>4, StepKinds

(* Callers that use rcot alone receive the stream of RcotStream, for every cut
   of it into calls, every interleaving of the two parties and every number of
   extensions that one of them is ahead. *)
THEOREM RefinesStream == Needs = {} /\ Spec => StreamSpec
<1>1. Init => Stream!Init
    BY DEF Init, Stream!Init
<1> QED BY <1>1, InitStream, StreamStep, Invariance, InStep, PTL
        DEF Spec, StreamSpec, Stream!Spec

(* The two callers need not make the same calls: with rcot alone the i-th
   block that one receives is correlated with the i-th of the other. *)
THEOREM StreamsAgree == Needs = {} /\ Spec => []OutputsAgree
<1>1. ASSUME StreamInv PROVE OutputsAgree
    <2>1. ASSUME NEW p \in Party
          PROVE  \A i \in DOMAIN out[p] : out[p][i] = Stream!At(i)
        <3>1. PICK b \in Base : OnStream(b) /\ Stands(p, b)
            BY <1>1 DEF StreamInv
        <3>2. out[p] = b.out
            BY <3>1 DEF Stands, AtRest, Serving
        <3>3. out[p] = Stream!Prefix(Len(b.out))
            BY <3>1, <3>2, StreamPrefix
        <3> QED BY <3>3 DEF Stream!Prefix
    <2> QED BY <2>1, Typing DEF OutputsAgree, Party
<1> QED BY <1>1, InitStream, StreamStep, Invariance, InStep, PTL DEF Spec
=============================================================================
