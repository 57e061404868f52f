---------------------------------- MODULE Cot ----------------------------------
(***************************************************************************)
(* The OTs of cot.h over each of the three sources of correlated rows: the *)
(* extension of iknp.h, the same inside BaseCot (ferret/base_cot.h), and   *)
(* the rows of FerretCOT (online_sender, online_recver).  ALICE sends, BOB *)
(* receives; both make the same calls, each at its own pace.               *)
(*                                                                         *)
(* A hash is named by its input, its seed and its key.  A one-of-n key is  *)
(* the set of the key blocks that are added up in it.  The stream of       *)
(* FerretCOT::rcot is that of RcotStream: both parties take the next rows. *)
(***************************************************************************)
EXTENDS Iknp

CONSTANTS Batch,       \* ot_bsize
          Providers,   \* bound: of "iknp", "base", "ferret"
          Secrets,     \* bound: the bits s of each set-up, and at 0 those of FerretCOT's Delta
          Calls,       \* bound: the calls that a program makes
          Drawn,       \* bound: the sets of indices whose random bit is 1
          MaxCalls     \* bound: calls, besides the set-up of BaseCot

ASSUME CotAssumption ==
    /\ Batch \in Nat \ {0} /\ MaxCalls \in Nat
    /\ Providers \subseteq {"iknp", "base", "ferret"}
    /\ Secrets \subseteq [0..(MaxCalls + 1) -> Vector]

vars == <<conf, calls, me, pend, net>>

(*-------------------------------- the calls -----------------------------*)
\* maxChoiceBitLength, the natural logarithm of n > 1 rounded up, for n < 55
KeyBits(n) == IF n < 3 THEN 1 ELSE IF n < 8 THEN 2 ELSE IF n < 21 THEN 3 ELSE 4
BitOf(i, j) == (i \div 2^j) % 2 = 1

CallOf(kind, n, r, given) ==
    [kind |-> kind, len |-> n, r |-> r, given |-> given, items |-> 0, item |-> 0]

\* Calls of the API of cot.h, of BaseCot::cot_gen, of setup_send / setup_recv
Ots(kind, n, ones) == CallOf(kind, n, Bits(n, ones), TRUE)
Gen(n, ones, given) == CallOf("gen", n, Bits(n, ones), given)
Setup(given) == CallOf("setup", 0, <<>>, given)
OneOf(n, i) == [CallOf("not", KeyBits(n), [j \in 0..(KeyBits(n) - 1) |-> BitOf(i, j)], TRUE)
                   EXCEPT !.items = n, !.item = i]

\* A set-up makes no rows, any other call some.
ASSUME CallAssumption ==
    \A c \in Calls :
        /\ c.kind \in {"setup", "gen", "cot", "rot", "ot", "not"}
        /\ c.len \in Nat /\ (c.len = 0 <=> c.kind = "setup")
        /\ c.r \in [0..(c.len - 1) -> BOOLEAN] /\ c.given \in BOOLEAN
        /\ c.kind = "not" =>
              /\ c.items \in Nat /\ c.item \in 0..(c.items - 1)
              /\ \A b \in DOMAIN c.r : c.r[b] = BitOf(c.item, b)

\* FerretCOT generates base COTs after cot_gen_pre only.
Offered(c, epoch) ==
    CASE conf.provider = "iknp"   -> c.kind # "gen"
      [] conf.provider = "base"   -> c.kind = (IF epoch = 0 THEN "setup" ELSE "gen")
                                     /\ (c.kind = "setup" => ~c.given)
      [] conf.provider = "ferret" -> c.kind \notin {"gen", "setup"}

NextCall(p, c) ==
    IF me[p].cnt < Len(calls) THEN c = calls[me[p].cnt + 1] /\ UNCHANGED calls
    ELSE /\ Len(calls) < MaxCalls + (IF conf.provider = "base" THEN 1 ELSE 0)
         /\ Offered(c, me[p].epoch)
         /\ calls' = Append(calls, c)

(* setup_send and setup_recv up to the base OTs.  ALICE draws s anew; if the
   caller passes the keys and s, nothing is left to be done. *)
SetUp(p, rec, given) ==
    LET s == conf.s[rec.epoch + 1]
        begun == [rec EXCEPT !.epoch = @ + 1, !.s = IF p = "ALICE" THEN s ELSE @]
    IN  IF given THEN NewDelta([begun EXCEPT !.pos = 0, !.key = KeysOf(begun.epoch, s)])
        ELSE begun

(* The head of a call, up to its first message.  The first call over IKNP sets
   up.  The choice bits of cot_gen are the caller's in semi-honest mode only. *)
Begin(p) ==
    /\ me[p].pc = "idle"
    /\ \E c \in Calls, ones \in Drawn :
         LET own == c.kind = "gen" /\ (conf.malicious \/ ~c.given)
             rec == [me[p] EXCEPT !.cnt = @ + 1, !.call = c,
                                  !.r = IF own THEN Bits(c.len, ones) ELSE c.r,
                                  !.data = [i \in 0..(c.len - 1) |-> Junk]]
         IN  /\ NextCall(p, c)
             /\ (own /\ p = "BOB") \/ ones = CHOOSE x \in Drawn : TRUE
             /\ me' = [me EXCEPT ![p] =
                  IF conf.provider = "ferret" THEN Goto(rec, "rcot")
                  ELSE IF c.kind = "setup" /\ c.given THEN Goto(SetUp(p, rec, TRUE), "return")
                  ELSE IF c.kind = "setup" \/ rec.epoch = 0 THEN Goto(SetUp(p, rec, FALSE), "base")
                  ELSE Goto(rec, "pre")]
    /\ Silent /\ UNCHANGED conf

\* The call returns, and the Delta of that moment is the caller's to use.
Finish(p, rec, out) ==
    Become(p, Goto([rec EXCEPT !.out = Append(@, out), !.deltas = Append(@, rec.delta)], "idle"))

(*------------------ COTs from the stream of FerretCOT -------------------*)
\* BOB's row has a random least bit, and Delta in it if that bit is 1.
Correlation(k, x) == [row |-> <<0, k>>, plus |-> Times(x, conf.s[0]), own |-> FALSE]
Rcot(rec, bits) == [rec EXCEPT !.data = [i \in DOMAIN @ |-> Correlation(rec.pos + i, bits[i])],
                               !.pos = @ + rec.call.len]

\* bo[i], the choice bit masked with the least bit of the block
OnlineBit(r, x) == r # x.plus[0]

\* rcot and online_recver, whose bits are not flushed
BobOnline(ones) ==
    LET rec == Rcot(B, Bits(B.call.len, ones))
    IN  /\ B.pc = "rcot"
        /\ Write("BOB", <<[i \in DOMAIN rec.data |-> OnlineBit(B.r[i], rec.data[i])]>>)
        /\ Become("BOB", Goto(rec, AfterCot(B.call.kind)))

AliceRcot ==
    /\ A.pc = "rcot"
    /\ Become("ALICE", Goto(Rcot(A, Bits(A.call.len, {})), "bits"))
    /\ Silent

\* online_sender
AliceOnline ==
    /\ A.pc = "bits" /\ CanRead("ALICE")
    /\ Read("ALICE")
    /\ Become("ALICE", Goto([A EXCEPT !.data = Corrected(@, Incoming("ALICE"))],
                            AfterCot(A.call.kind)))

(*-------------------------- BaseCot::cot_gen ----------------------------*)
\* ot_data[i] & minusone, with the bit b put in
LeastBit(x, b) == [x EXCEPT !.own = FALSE, !.plus[0] = b]

AliceTidy ==
    /\ A.pc = "tidy"
    /\ Send("ALICE", <<>>)
    /\ Finish("ALICE", A, [i \in DOMAIN A.data |-> LeastBit(A.data[i], FALSE)])

BobTidy ==
    /\ B.pc = "tidy"
    /\ Finish("BOB", B, [i \in DOMAIN B.data |-> LeastBit(B.data[i], B.r[i])])
    /\ Silent

(*----------------------------- the OTs of cot.h -------------------------*)
Batches(n) == (n + Batch - 1) \div Batch

\* Mutant: a short last batch uses up as many keys as it has items.
KeysUsedShort(n, g) == IF (g + 1) * Batch > n THEN n % Batch ELSE Batch

\* Keys that the hash of batch g uses up, the last batch perhaps short
KeysUsed(n, g) == Batch

\* Item i of a batch is hashed under key gid + i of the seed start.
Hash(rec, x, i) == [of |-> x, start |-> rec.start, gid |-> rec.gid + i]
InBatch(rec) == {i \in 0..(rec.call.len - 1) : i \div Batch = rec.at}

\* The messages of a call; the key blocks of a one-of-n call are always the same.
Message(rec, i, side) ==
    [call |-> IF rec.call.kind = "not" THEN 0 ELSE rec.cnt, index |-> i, side |-> side]

\* A COT, or a set-up, has nothing more to do.
ReturnCot(p) ==
    /\ me[p].pc = "return"
    /\ Finish(p, me[p], me[p].data)
    /\ Silent

Stage(kind) == IF kind = "not" THEN "ot" ELSE kind

\* send / send_rot: a new seed for the hash, and a flush
AliceSendKey ==
    /\ A.pc = "key"
    /\ Send("ALICE", <<A.cnt>>)
    /\ Become("ALICE", Goto([A EXCEPT !.start = A.cnt], Stage(A.call.kind)))

BobRecvKey ==
    /\ B.pc = "key" /\ CanRead("BOB")
    /\ Read("BOB")
    /\ Become("BOB", Goto([B EXCEPT !.start = Incoming("BOB")], Stage(B.call.kind)))

\* The loops of send_rot and recv_rot over their batches
AllKeys(rec) == [rec EXCEPT !.gid = @ + Batch * Batches(rec.call.len)]

AliceRot ==
    /\ A.pc = "rot"
    /\ Finish("ALICE", AllKeys(A), [i \in DOMAIN A.data |->
                  <<Hash(A, A.data[i], i), Hash(A, XorDelta(A.data[i]), i)>>])
    /\ Silent

BobRot ==
    /\ B.pc = "rot"
    /\ Finish("BOB", AllKeys(B), [i \in DOMAIN B.data |-> Hash(B, B.data[i], i)])
    /\ Silent

Pad(i, x, side) == [pad |-> Hash(A, x, i % Batch), text |-> Message(A, i, side)]

\* One batch of send: the pads are hashed under new keys and written, not flushed.
AliceBatch ==
    /\ A.pc = "ot" /\ A.at < Batches(A.call.len)
    /\ Write("ALICE", <<[i \in InBatch(A) |-> <<Pad(i, A.data[i], FALSE),
                                                Pad(i, XorDelta(A.data[i]), TRUE)>>]>>)
    /\ Become("ALICE", [Loop(A) EXCEPT !.gid = @ + KeysUsed(A.call.len, A.at)])

\* One batch of recv: res[2j + r] is opened with the hash of BOB's row.
BobBatch ==
    LET res == Incoming("BOB")
        open(i) == LET c == res[i][IF B.r[i] THEN 2 ELSE 1]
                   IN  IF c.pad = Hash(B, B.data[i], i % Batch) THEN c.text ELSE Junk
    IN  /\ B.pc = "ot" /\ B.at < Batches(B.call.len) /\ CanRead("BOB")
        /\ Read("BOB")
        /\ Become("BOB", [Loop(B) EXCEPT
              !.data = [i \in DOMAIN @ |-> IF i \in DOMAIN res THEN open(i) ELSE @[i]],
              !.gid = @ + Batch])

ReturnOt(p) ==
    /\ me[p].pc = "ot" /\ me[p].at = Batches(me[p].call.len) /\ me[p].call.kind = "ot"
    /\ Finish(p, me[p], me[p].data)
    /\ Silent

(*-------------------------- one-of-n, cot.h:117 -------------------------*)
\* The key of item i is the sum of one key block for each of its bits.
ItemKey(i) == {Message(A, j, BitOf(i, j)) : j \in DOMAIN A.data}

\* send_not: after the OTs of the key blocks, the items, not flushed
AliceItems ==
    LET items == [i \in 0..(A.call.items - 1) |-> [key |-> ItemKey(i), item |-> i]]
    IN  /\ A.pc = "ot" /\ A.at = Batches(A.call.len) /\ A.call.kind = "not"
        /\ Write("ALICE", <<items>>)
        /\ Finish("ALICE", A, items)

\* recv_not: item r is opened with the sum of the blocks received.
BobItem ==
    LET sealed == Incoming("BOB")[B.call.item]
    IN  /\ B.pc = "ot" /\ B.at = Batches(B.call.len) /\ B.call.kind = "not" /\ CanRead("BOB")
        /\ Read("BOB")
        /\ Finish("BOB", B, IF sealed.key = {B.data[j] : j \in DOMAIN B.data}
                            THEN sealed.item ELSE -1)

(*------------------------------ specification ---------------------------*)
Reading(p) ==
    LET rec == me[p]
    IN  IF p = "ALICE" THEN rec.pc \in {"base", "keys", "pre", "check", "sum", "bits"}
        ELSE \/ rec.pc = "points" /\ rec.at < BaseN
             \/ rec.pc = "key"
             \/ rec.pc = "ot" /\ (rec.at < Batches(rec.call.len) \/ rec.call.kind = "not")

\* A read flushes first; between two calls the caller flushes.
Flush(p) ==
    /\ Reading(p) \/ me[p].pc = "idle"
    /\ pend[p] # <<>>
    /\ Send(p, <<>>)
    /\ UNCHANGED <<conf, calls, me>>

\* FerretCOT has its Delta, the others get it with their first set-up.
Start(p) ==
         [pc |-> "idle", at |-> 0, cnt |-> 0, call |-> Setup(FALSE), r |-> <<>>,
          epoch |-> 0, key |-> <<>>, pos |-> 0, data |-> <<>>,
          local |-> [k \in Slot |-> Junk], localR |-> Bits(CheckRows, {}), chi |-> 0,
          start |-> 0, gid |-> 0, out |-> <<>>, s |-> Zero, deltas |-> <<>>,
          delta |-> IF p = "ALICE" /\ conf.provider = "ferret" THEN conf.s[0] ELSE Zero]

\* The least bit of the Delta that FerretCOT or cot_gen_pre chooses is 1.
Init ==
    /\ conf \in [provider : Providers, malicious : BOOLEAN, s : Secrets]
    /\ conf.provider # "iknp" => \A e \in DOMAIN conf.s : conf.s[e][0]
    /\ conf.provider = "ferret" => ~conf.malicious
    /\ calls = <<>> /\ me = [p \in Party |-> Start(p)]
    /\ pend = Quiet /\ net = Quiet

Alice == \/ AliceSendPoints \/ AliceRecvKey \/ AlicePreBlock \/ AliceCheckSeed
         \/ AliceCheckSum \/ AliceRcot \/ AliceOnline \/ AliceTidy \/ AliceSendKey
         \/ AliceRot \/ AliceBatch \/ AliceItems
         \/ ReturnCot("ALICE") \/ ReturnOt("ALICE") \/ Flush("ALICE")
Bob == \/ BobSendA \/ BobRecvPoint \/ BobSendKeys
       \/ \E ones \in Drawn \cup {{}} : BobPreBlock(Bits(CheckRows, ones))
       \/ BobCheckSeed \/ BobCheckSum \/ BobTidy
       \/ \E ones \in Drawn : BobOnline(ones)
       \/ BobRecvKey \/ BobRot \/ BobBatch \/ BobItem
       \/ ReturnCot("BOB") \/ ReturnOt("BOB") \/ Flush("BOB")

Next == Alice \/ Bob \/ \E p \in Party : Begin(p)
Spec == Init /\ [][Next]_vars

(* Both parties keep running, and a caller makes the call that its peer has
   already begun. *)
FairSpec ==
    /\ Spec /\ WF_vars(Alice) /\ WF_vars(Bob)
    /\ \A p \in Party : WF_vars(Begin(p) /\ me[p].cnt < Len(calls))

(*------------------------------- properties -----------------------------*)
(* The loop counters stay within their loops, rows are drawn from the PRGs in
   whole transfer units, and each call has left one result. *)
TypeOK ==
    \A p \in Party :
        LET rec == me[p]
        IN  /\ rec.cnt \in 0..Len(calls) /\ rec.epoch \in Nat
            /\ conf.provider # "ferret" => rec.pos % Width = 0
            /\ rec.gid % Batch = 0
            /\ \A k \in Slot : rec.local[k].plus \in Vector
            /\ rec.pc = "pre" => rec.at < Rounds(rec.call.len)
            /\ rec.pc = "ot" => rec.at <= Batches(rec.call.len)
            /\ Len(rec.out) = rec.cnt - (IF rec.pc = "idle" THEN 0 ELSE 1)

\* Two rows are correlated: they differ by delta when r is 1.
Correlated(a, b, r, delta) ==
    a.row # Junk.row /\ b = IF r THEN [a EXCEPT !.plus = Xor(@, delta)] ELSE a

(* What ALICE's and BOB's n-th calls returned belongs together (cot.h:19-179,
   base_cot.h:53-103, test.h:222-243, 264-283).  A COT differs, where the choice
   bit is 1, by the Delta that ALICE had when her call returned, and every set-up
   makes a new one.  The base COTs of Ferret carry the choice bit in BOB's least
   bit and 0 in ALICE's, and it is the caller's bit in semi-honest mode.  A random
   OT gives BOB the chosen one of ALICE's two, an OT the chosen message of that
   call.  A one-of-n OT gives him the item he asked for. *)
Belongs(c, n) ==
    LET a == me["ALICE"].out[n]
        b == me["BOB"].out[n]
        delta == A.deltas[n]
    IN  CASE c.kind = "setup" -> TRUE
          [] c.kind = "not" -> b = c.item
          [] OTHER -> \A i \in 0..(c.len - 1) :
               CASE c.kind = "cot" -> Correlated(a[i], b[i], c.r[i], delta)
                 [] c.kind = "gen" -> /\ ~a[i].own /\ ~a[i].plus[0] /\ ~b[i].own
                                      /\ Correlated(a[i], b[i], b[i].plus[0], delta)
                                      /\ c.given /\ ~conf.malicious => b[i].plus[0] = c.r[i]
                 [] c.kind = "rot" -> /\ b[i].of.row # Junk.row
                                      /\ b[i] = a[i][IF c.r[i] THEN 2 ELSE 1]
                 [] c.kind = "ot"  -> b[i] = [call |-> n, index |-> i, side |-> c.r[i]]

OutputsMatch ==
    \A n \in 1..Len(calls) :
        (\A p \in Party : n <= Len(me[p].out)) => Belongs(calls[n], n)

(* After the same number of calls both parties have drawn as much from the PRGs
   of the extension, and used as many keys of the hash, whatever the calls and
   lengths were; nothing in the code checks it (iknp.h:86-189,
   cot.h:19-115). *)
InStep ==
    A.cnt = B.cnt /\ A.pc = "idle" /\ B.pc = "idle" =>
        A.pos = B.pos /\ A.gid = B.gid /\ A.epoch = B.epoch

(* The check of the extension passes between honest parties, although the rows
   left in local_out by the remainder are overwritten by the check rows
   (iknp.h:94-100, 149-160, 209-283). *)
NoFalseAlarm == A.pc # "error"

(* A call that a party has begun returns, although the last messages of a call
   are not flushed by the code (cot.h:46, 147, co.h:59, iknp.h:281-282,
   hpp:268). *)
CallsReturn == \A p \in Party : me[p].pc # "idle" ~> me[p].pc = "idle"
=============================================================================
