# emp-ot in TLA+

TLA+ models of emp-ot: the Ferret correlated OT (`src/emp-ot/ferret`), the IKNP OT
extension with its base OTs (`iknp.h`, `co.h`), the OTs that `cot.h` builds on
either, the Naor-Pinkas OT (`np.h`) and the re-implementations `my*.h`. TLC checks the
models on small instances; TLAPS proves the results in the `*Proofs` modules for
all values of the constants. Paths below are relative to `src/emp-ot/`; `hpp` is
`ferret/ferret_cot.hpp`.

## The system

Two processes, ALICE (sender, holds `Delta`) and BOB (receiver), are joined by one
TCP channel per thread. The library computes, block for block, `a[i]` at ALICE and
`b[i] = a[i] xor LSB(b[i]) * Delta` at BOB.

| Component | State | Operations | What makes it correct |
|---|---|---|---|
| `FerretCOT` buffer (hpp:58-75, 145-188, 223-250) | `ot_data`, `ot_used`, `ot_pre_data`, the caller's buffer | `rcot`, `rcot_inplace`, `extend_f2k` | no write past a buffer, no seed or stale block given out, no block given out twice, the two outputs correlated for any mix of calls |
| `FerretCOT` setup and state (hpp:1-54, 83-143, 190-221, 284-322) | `ot_pre_data`, two files, what `assemble_state` gave the program | constructor, `setup`, destructor, `assemble_state`, `disassemble_state` | data is used for one extension only, the two ends hold matching data, the two ends never wait for each other |
| `MpcotReg`, `OTPre` (`mpcot_reg.h`, `preot.h`) | tree shares, channels, OT counter and bits | `mpcot`, the consistency check | every thread owns its channel, trees meet the right OTs, join before check, honest check passes |
| SPCOT (`spcot_*.h`, `twokeyprp.h`) | the GGM tree in place, `m`, `to_fill_idx` | `compute`, `send_f2k` / `recv_f2k`, check messages | trees agree but for one leaf that differs by Delta |
| `LpnF2` (`lpn_f2.h`) | the output array, the LPN seed | `compute`, `seed_gen` | every row once, no two threads on a row, the same matrix at both ends |
| `IKNP` (`iknp.h`) | base keys, PRG streams, `local_out`, `local_r` | `send_cot`, `recv_cot`, check | rows and choice bits stay aligned, streams stay in step over calls |
| `COT` (`cot.h`) | hash seed and key counter | `send`, `recv`, `send_rot`, `recv_rot`, `send_not`, `recv_not` | the receiver gets the chosen message of that call |
| `FerretCOT` as a `COT` (hpp:252-282) | | `send_cot`, `recv_cot` | the correction bits meet the rows they were made for |
| `BaseCot` (`base_cot.h`) | its IKNP object | `cot_gen_pre`, `cot_gen` | least bits are the choice bits at BOB and 0 at ALICE |
| `OTCO` (`co.h`), `OTNP` (`np.h`) | exponents, points | `send`, `recv` | the receiver gets the chosen one of two messages |
| `my*.h` | base OT, IKNP, ROT and one-of-n objects with flags, PRGs and a hash each | one method per message | rows, PRGs and hash keys stay in step though nothing but the program ties the two objects |
| `OTIdeal`, `not.h` | | | not modelled, see below |

Interactions: `FerretCOT` calls `MpcotReg` (which runs SPCOT over `OTPre`), then
`LpnF2`; `setup` runs the same with `BaseCot` over IKNP over `OTCO`. `COT` runs over IKNP or over
`FerretCOT`. A program calls the API on both sides; nothing but the order of the calls
keeps the sides together. What is hard: two processes at their own pace over
buffered channels, threads that share channels and arrays, state that has to stay in
step over calls without any check, files that outlive crashes, data that moves
between memory, files and programs, and the index arithmetic of buffers that are
extended into in place.

## Modules

**RcotStream** is what `rcot` promises: one endless stream of correlations of which
each call takes the next ones.

**FerretCOT** models `FerretCOT` after setup. A block is a pair of the extension it
comes from and its place there, so "correlated" is equality. `RcotHit` and
`RcotMiss` are the two ways through `rcot` up to its loops; `call` holds the plan
(`round_inplace`, `round_memcpy`, `last_round_ot`), and each later step completes one
extension of the plan (`InplaceRound`, `MemcpyRound`, `LastRound`, and `UserRound` for
`rcot_inplace`). Around them stands the two-party protocol: one message of trees,
and in malicious mode `x_prime` and the digest. What the receiver computes from
trees is right only if they were masked under the data it holds itself;
otherwise its blocks are garbage. The integer division is that of C++.
**MCFerretCOT** instantiates the stream for the refinement check.
**FerretCOTProofs** (buffers, messages, nothing given out twice) and **FerretStreamProofs**
(what a call returns, and the refinement) hold the proofs.

**FerretSession** abstracts `ot_pre_data` to its identity (session, parameters,
extensions since, whether all of them agreed with the peer, and whether a file has all
of it) and models the program runs: the exchange of `hasfile`, loading and then removing
the file or generating new data, extensions, `assemble_state`, a restore in a later run
or in an object that has been set up (refused when the parameters differ, with
`ot_pre_data` already replaced by fresh memory), and the destructor, which does nothing
without data and ends in `error()` when the object has no file name (hpp:192-194 with
the empty string). It writes in three steps: `Truncate`, `WriteHead` (party, Delta,
parameters) and `Save` (the blocks); the writes of the head are one step, since a file that ends
within the head is compared like an empty one. A process may die at any step, and one
that waits for a dead peer is ended from outside. A conversation is a list of turns.
What emp-tool's FileIO does at the end of a file is outside the repository, and
hpp:204-221 does not ask for it, so all three outcomes are there: old values of the
variables fail the comparison (`LoadError`), they pass or were read and the missing
blocks stay as the memory was (`LoadShort`), or the read never returns (`LoadStuck`).
`mishaps` is a history variable: a file was cut short by a crash, a refused restore
is going to be saved, or a process died in a run whose programs take data out of objects
or back, so that only one of them may keep what it took. Assumed of the programs: both are run with the same parameters,
take the data from the same place and do the same with the object in the end, and a
state that has been restored is not restored again. **FerretSessionProofs** holds the proofs.

**LpnF2** models `compute` with its tasks; `how[j]` records which function touched row
`j` from which counter. `task` uses different functions for the rows taken four at a
time and for the last ones, so the split matters for the result. The constructor's loop
that widens `mask` is an action, and no row is computed before it ends; a word of
random bits is any number below `Words` (2^32 in the code), of which `Index4` and
`Index1` take an index.
**LpnF2Proofs** holds the proofs.

**Spcot** runs one sender and one receiver on symbolic blocks: a block is a set of
atoms under XOR for its upper bits and another for its least bit, and AES is a free
function of the node. The layers are expanded in place, in the code's groups.

**FerretExtend** models consecutive extensions with threads and channels:
`Begin` fixes the OTs; `InitTrees` gives each tree its choice bits from `OTPre`'s running
`count`, which `reset` starts over for the next extension (the sender's `count` is never
read and is left out); `Fork` puts tasks on the pool, every
thread sends or receives its trees on its channel, `Join` waits for all, then
the check and the LPN seed use channel 0. Writes are buffered per channel until a
flush. **FerretExtendProofs** holds the proofs.

**Channel** is the buffered connection as the code uses it. A read flushes the reader's
own writes first: the code needs that (`co.h:41-49` writes a point and reads without
a flush), and emp-tool does it.

**Iknp** models both parties from the base OTs through the rows of the extension to
its check. A row is named by its place in the PRG streams, with the vector of bits that
was added to it: `s`, Delta, or a least bit in place of its own. Every set-up takes the
next entry of `conf.s`, the bits that it draws; keys, streams and Delta are made of it
one after the other, as in `setup_send`. Diffie-Hellman values are named by
their exponents. Linear combinations with random coefficients are equal when all
their terms are.

**Cot** extends Iknp with everything that is built on correlated rows: `send`, `send_rot` and
`send_not` with their receivers, over IKNP, over the rows of FerretCOT (`online_sender`,
`online_recver`; `rcot` gives both sides the next rows of the stream, which is what RcotStream
states and FerretStream checks), and `BaseCot::cot_gen`. A hash is named by its
input, its seed and its key number. **MCCot** holds the calls of the runs, **CotProofs** the
proofs about Iknp and Cot.

**IdealOt** is what an OT promises (`ot.h:8-10`). **NaorPinkas** models `np.h` in a group
of **ExpGroup**, where a point is its exponent, and implements IdealOt. Each loop that
only reads, or only writes, is one step: its messages are sent by one flush.
**NaorPinkasProofs** holds the proofs.

**MyOt** models the classes of `mybaseOT.h`, `myIKNP.h`, `myROT.h` and `myNOT.h`. They have
no channel: a method returns what the program carries to the other object. In each
round the two programs call the methods in the order of `test.h`; a round may leave
out the seed, the set-up or the rows, whose effect lasts from an earlier round.
**MCMyOt** holds the rounds, **MyOtProofs** the proofs.

## Runs

| Run | Instance | Shows |
|---|---|---|
| FerretLockstep | malicious, n = 7, M = 3, ot_limit = 4, three calls of rcot(1, 3, 6, 11) and rcot_inplace for 1 and 5 | bounds of all writes, no seed delivered, nothing served twice, outputs agree, no false alarm, calls return |
| FerretStream | semi-honest, n = 6, ot_limit = M = 3, three calls of different lengths on each side | rcot implements RcotStream |
| FerretInplaceN | one or two rcot_inplace | *violation*: `README.md:141` promises n outputs, the code gives a multiple of ot_limit |
| SessionRuns | malicious, two parameter sets, three runs of up to one extension, ending with the destructor, `assemble_state` or a restore of an earlier state, one crash anywhere | no data seeds two extensions; without a crash both ends hold the same, correlated data; a crash that cuts no file short does not get one old file alone loaded; runs end |
| SessionStaleFile | semi-honest, three runs, two crashes | *violation*: two whole files of different sessions are accepted and the outputs are not correlated (`README.md:150`, `test.h:374-378`) |
| LpnThreads | 0, 2, 5, 9, 19, 26 rows on 1 to 4 threads, k = 1, 2, 3, 5, 8 | every row once, no shared row, the code of a row is fixed, indices stay in `kk` and reach all of it |
| SpcotTrees | heights 3, 4, 5, all choices | in-place expansion, recovery, the single point, check messages |
| Extend | two extensions: 3 trees of 2 OTs on 2 threads and 5 trees on 3 threads in malicious mode, 4 trees on 3 threads in semi-honest mode | channels are not shared, trees are good, the check passes, the LPN seed is that of the extension although the sender may be an extension ahead, extensions end |
| CotCalls | three calls over the three providers, both modes, lengths 1, 6, 9 with blocks of 6, transfers of 2, 4 check rows, batches of 4; 5 items, of which two share a key; set-ups with keys given or from base OTs, secret bits that change from one to the next | outputs match, streams in step, no false alarm, calls return |
| NaorPinkas | two calls of lengths 1 and 2 | the OT implements IdealOt |
| MyOt | three rounds of lengths 3 to 7 with blocks of 4, transfers of 2 and batches of 2; 3 and 8 items | outputs right, objects in step, no false error |
| MyRot | one round | *violation*: recvROT never returns the pads of `myROT.h:131-132` |

Why the bounds are enough. In FerretCOT the lengths lie on either side of
`ot_limit`, `M` and `M + ot_limit`, so that each of the three kinds of round, none of
them, and all of them occur, after every value of `ot_used`; FerretStream takes the
extreme case `ot_limit = M`. Three calls let a call meet leftovers of a call
that met leftovers. Two extensions, or two IKNP calls, let state of the first meet the
second. The row counts of LpnThreads hit every remainder modulo four, stretches
shorter than four and more threads than rows; its lengths of `kk` are equal
to a mask (1, 3), between two masks (2, 5) and one more than a mask (8). Tree height 5 is the first with
two groups of four and with a group that overwrites another's parents; nothing depends on the height
beyond that. In CotCalls and MyOt the lengths give a short block, a full one, and a full one with
a remainder, and a short batch, alone or after full ones; a later call meets the streams
and counters of an earlier one of another kind or of another set-up, and a third one comes
after two set-ups, so that a stale first Delta would show. In SessionRuns
three runs let data be made, kept and used again, with a crash or changed
parameters at each of the three; one crash is enough for a file to be old, and two are what it
takes for two old files (SessionStaleFile).

Mutants. Each module defines, next to the definition it changes, forms of it with a
plausible mistake (marked `Mutant`); with any of them one of the properties
fails. They document what each property is sensitive to.

## Fairness

A party inside an operation keeps running (weak fairness of its steps and of
each thread); the code has no step that it may decline to take. A caller makes the
call its peer has already begun: the API is only meaningful when called on
both sides, as all tests do. Between calls the caller flushes (`test.h:232`,
`test.h:274`), which the code relies on; in Cot and NaorPinkas that flush is a fair
step of its own, so that the liveness properties hold only if it, or a read, comes
to every unflushed message. In FerretSession a process whose peer is gone is killed in
the end; with that, a run ends. No fairness is put on beginning new calls, runs,
or on crashes. MyOt has no liveness: its classes do not communicate. Runs may stop
when the bounds are reached, so deadlock is not checked; the liveness properties say
that nobody is stuck inside an operation.

## Refinement

FerretStream: the buffers, plans and messages of FerretCOT implement RcotStream, where a
call takes the next correlations of a stream. NaorPinkas: two messages each way,
unflushed writes and calls at each party's own pace implement IdealOt, including its
promise that a call of the receiver returns once the sender has begun its own. What
BOB's bits choose is found by comparing points of the group, so that the mapping
holds only if both ways to a key lead to the same point.

## Proofs

Each module of proofs states an inductive invariant, shows with one lemma per kind of
step that it is preserved, and derives the properties of the runs from it.

*FerretCOTProofs*, from `ParamAssumption` (n, k, pre_ot->n and the check size are
natural, k > 0, and `M <= ot_limit`) and `CallAssumption`:
`Invariance`, and from it `TypeCorrect`, `NoOverrun` and `SeedNeverDelivered`. The code does not
check `M <= ot_limit`; the three shipped parameter sets satisfy it. `WritesInBounds`
and `NoSeedDelivered` are not inductive: the first needs that a plan always adds
up to the caller's buffer and that the rounds after the in-place ones cover the
seed that these leave behind (`PlanInv`), the second that the blocks before `pt` are
final and that stored blocks keep their places (`BlocksInv`). `IndInv` is the
conjunction of these with the types. The arithmetic of the plan is in `RoundsFacts`;
all steps go through `UpdateParty`, which reduces a step of one party to facts about that party.

The second half of the module is about messages, on top of `IndInv`. `ProtocolInv` lists where the two parties can be
in the messages of an extension: in malicious mode five situations, in
semi-honest mode any number of extensions that the sender is ahead, each with its
trees on the wire. From it `CheckSucceeds` (the digest that arrives is always the one
expected, although `ot_pre_data` is overwritten in between). `ServedInv` says that the
blocks given out differ, come from completed extensions, and lie before `ot_used` where
they come from the extension in `ot_data`. The last part fails while a call that extends is
running, since it has taken all of `ot_data`; `KeepsLeftover` tells the two apart. From it
`ServedOnce`.

*FerretStreamProofs* describes what a call returns as a function of where the party
stood when the call began (`Served`, `CallEffect`). `SameCallsAgree`: callers that make the same
calls, `rcot_inplace` included, receive the same blocks; the ledger in `LockInv` is needed
because the parties are in different calls most of the time, and only the effect of
the calls that both have completed can be compared. `RefinesStream`: without `rcot_inplace`
every step of FerretCOT is a step or a stutter of RcotStream, in both modes and for
calls cut differently on the two sides, and so `StreamsAgree`. The block number
`extension * ot_limit + place` is unique (`SamePlace`), by division with remainder.

*FerretSessionProofs*, for any number of runs, extensions and crashes.
`SessInv` is a statement about each party alone: at most one of memory, file and
blob holds data of a generation, except between the reading of a file and its removal,
and what they hold is ahead of everything that has seeded an extension. Data that were
spoilt, by a file cut short or a refused restore, count for what they took the place of.
`NoReplay` follows (`NoReuse`), whatever crashes; it is not inductive alone since it does not
say that a copy in memory and one in a file never both exist. `LockInv` is about the pair
while no process has crashed and no refused restore waits to be saved: a run began with the same `F` in both files and the
same `L` in both blobs, each party is at a stage that these determine (`Stage`),
and the messages on their way are exactly the turns by which one party is ahead of the
other (`Chain`). From it `EndsAgree` and `StaysCorrelated`. That a process waits for one
that is gone, which would end it and with it the agreement, is excluded by the same
invariant (`NoKill`). After a crash or such a restore `LockInv` says nothing; the
run SessionStaleFile shows that after crashes it could not.

*FerretExtendProofs*, for any numbers of trees, levels, threads and extensions:
`ExtInv` gives the messages of each channel an order of their own, made of places (which
extension, which tree, which message), and says that what is on its way on a channel is the
stretch of that order between where BOB reads and where ALICE writes (`Linked`). No
interleaving of the threads changes the order of one channel, since every thread owns
its channel. `Shares` is the arithmetic of the split: the shares of the threads are
disjoint and cover the trees also if `threads` does not divide them. From `ExtInv`:
`TypeCorrect`, `OwnChannels`, `TreesRebuilt`, `CheckSucceeds` and `SameSeed`.

*LpnF2Proofs*, for every number of rows and threads: `Stretches` (the stretches of the
threads are disjoint and cover the rows), the invariant, and from it `TypeCorrect`, `NoRace`,
`Complete` and `IndicesInRange`. For the last the invariant says `mask < 2 * k`, which every
widening preserves since it happens only while `mask < k`; the assumption is that
an `int` is at most half of a word (`WordAssumption`). `SameMatrix` needs `CodeInv`: a
thread has done all its groups of four rows, or a whole number of them.

*CotProofs*, for any providers, `Delta`, calls in any order and number, block, transfer, check
and batch sizes that the assumptions of Iknp and Cot allow. Two calls of one pair
may be far apart: ALICE may have left a call that BOB has not begun, with all its
messages unread. `IndInv` therefore says that there is a history of the calls
made so far, which no variable holds: for each call the place it begins at and the place
it ends at (set-ups, rows drawn, keys used, messages written each way), and what BOB
chose in it. The place a call ends at is computed from where it begins (`After`), so it is the
same for both. Each party then is at a place of its call of the history (`InCall`) or
at the end of one (`Between`), all its data are those that the call gives it there
(`DataAt`, `KeyAt`), its results are those of the calls (`OutOf`), and what is on its way is
the stretch of the messages of all calls between where the reader and the
writer are (`Stretch`). BOB's draws are the one part that is not known when ALICE enters a call
first: the history may be changed in what BOB has not yet shown to ALICE
(`Rechosen`, and `NotAhead`: she has not read what he has not drawn). From `IndInv`: `StaysInStep`,
since both parties' counters are those of the same place; `CheckSucceeds`; and `OutputsBelong`, since
of the two rows of an index one is the other with `Delta` added where the choice
bit is 1 (`RowsDiffer`), through the PRG keys that the base OTs hand out, the padded
blocks and remainders, or the correction bits of `online_sender`. `CallAssumption` is what the
proofs need of a program's calls: a set-up has no rows, any other call has some, choice bits are as many as
the call is long, and those of a one-of-n call are the bits of its choice (`cot.h:157-162`). How many they
are is left open, so that the theorems also hold for the numbers of items of which some share
a key. Since each set-up draws `s` anew, the history gives every call the secret bits of its last set-up
(`Sec`), and an output belongs with the Delta that ALICE had when the call returned.

*NaorPinkasProofs*, for any order of the group, draws, lengths, bits and number of calls.
`IndInv` lists the places where ALICE and BOB can be together in a call of BOB's, with what is
on its way each way, ALICE up to one message into the next call. The key of the chosen
message is the same at both ends by the laws of the group (`KeyOfM0`, `KeyOfM1`), which are proved from
arithmetic modulo `Order`; nothing but `Order > 0` is assumed. From it `TypeCorrect`, which says
that the channel is empty between calls, and `ImplementsIdeal`: every step is a step or a
stutter of IdealOt. That is the safety part of the refinement; the rest of `IdealSpec`, that a call
returns, is liveness and stays with TLC.

*MyOtProofs*, for any base OTs, columns, block, transfer and batch sizes, draws, lengths, bits and
number of rounds that the two assumptions of MyOt allow. A program may be rounds ahead of the other, its
results unread, so that `IndInv` again speaks of a history, here of rounds: `h[n]` is the place
at which round n begins for both objects (seed and keys of the hash, set-ups, position of the
PRGs, the round whose rows are in use, results returned by each side), and `h[n + 1]` follows from
it and the plan of the round alone (`PlaceAt`). Each object is at one of nine stages of its round
(`Staged`), its data are those of the place it has reached (`DataAt`, `DataOfR`, `DataOfS`),
and the result with a given number that is on its way is the one its round and stage call for
(`Good`, `Mailed`). Only in the base OTs does one program wait for the other, and only there
does a result depend on what the other side holds at that moment (`GoodA`, `GoodB`, `GoodE`); that the
key which S opens is the one it chose comes from the group (`KeyChosen`). In the middle of a
round the rows of S may be of an older Delta than the one just drawn; `Renews` excepts the stages from
the drawing of a new `s` to the new rows. That it covers all of them is `PlanAssumption`: a program that sets
up anew also makes new rows. Each method has a lemma of its own (`SSetSKeeps` to `RNotKeeps`);
`BeginKeeps` extends the history by a round and `RefuseKeeps` is the step of `error()`. From
`IndInv`: `StaysInStep`, `RefusedForAReason` (the flags are set if and only if the place says that rows
have been made and an item chosen) and `OutputsBelong`, also where rows are used again in later rounds or
only some of them are. `RotAgrees` is false, see the findings.

`IndInv` of FerretCOT, `SessInv` and the invariants of LpnF2 were model-checked on the runs
before they were proved. `Linked`, `Chain` and `LockInv` quantify over
sequences and over all data; TLC checked them in a form that unfolds the order of the
messages from one end to the other and draws `F` and `L` from what the parties hold. The histories
of Cot and MyOt are no part of a state, so TLC checked there only what the invariants imply.

Only model-checked, and why:

- All liveness: `CallsReturn`, `RunsEnd`, `Finishes`, `ChecksMatch`, and the part of `IdealSpec` that says
  that a call returns. The provers have no rules for fairness and `ENABLED`.
- Spcot (`LayerInOrder`, `OneNodeUnknown`, `SinglePoint`, `ChecksMatch`): its trees have `2^h` nodes, a
  layer is expanded by a fold over its groups, and a sum is a set of atoms that occur an odd number of
  times. The provers know nothing of powers, and facts about folds and parities for trees
  of any height need induction.

## Observations not turned into properties

- A file that lacks blocks, after a crash in the destructor, passes the comparison of its
  head. If FileIO gives up at the end of the file, what the memory held before takes their
  place and the data are not the peer's (`LoadShort`); if it insists on the bytes it is asked
  for, `setup` hangs (`LoadStuck`). FileIO is not in the repository, so no run claims either:
  `Correlated` without the condition on `mishaps` fails in this way in the
  instance of SessionRuns, and `NoReplay` and `RunsEnd` hold all the same.
- A restore that `disassemble_state` refuses leaves uninitialised memory in the object
  (hpp:303-310). If the object has been set up before, the destructor saves it as a state
  with a good head, which the next `setup` accepts (hpp:30-33, 204-221). SessionRuns has these
  runs; `Correlated` does not hold in them, and nothing documents what a program may do after -1.
- `ot_pre_data[0 .. pre_ot->n)` masks the trees and `[0 .. 128)` serves the check,
  although M counts them apart (hpp:50, 63, 70; `mpcot_reg.h:177`).
- Both sides need the same `threads`: it decides the channel of a tree and the LPN
  function of a row. With more threads than trees all trees go to the last one.
- A file with another party or other parameters ends every later setup
  until it is removed by hand, since `error()` comes before `std::remove` (hpp:209-219).
- A file replaces the `Delta` that the caller passed to `setup` (hpp:85, 115).
- An object restored by `disassemble_state` has no file name; its destructor ends the
  process in `error()` unless `assemble_state` was called again (hpp:93, 194).
- Trees of height 2 would overrun `m` at the sender (`spcot_sender.h:67-69`).
- `std::ceil(log(n))` is a natural logarithm (`cot.h:118`, `myNOT.h:45`): for some numbers
  of choices, 5 to 7 and 9 to 20 among them, there are fewer key bits than the
  choices need, and two items get the same key. Nothing in the repository claims more than that
  the receiver gets its item, which `OutputsMatch` says of a call with 5 items too.
- `recv_not` keeps all key blocks in the caller's array before the one block it
  returns (`cot.h:163`).
- `setS` does not reset the key counter of the hash, so the counters of the two sides
  need only be equal, which `InStep` says.

## Findings

1. `README.md:141` says `rcot_inplace` yields `ferretcot->n`; it yields a multiple of `ot_limit`
   (run FerretInplaceN).
2. After crashes two files of different sessions are accepted by `setup` and the outputs
   are not correlated, against `README.md:150` (run SessionStaleFile).
3. `myROTReceiver::recvROT` returns blocks of zeros instead of the pads that its comments
   at `myROT.h:131-132` describe; the tests use `recvOT` (run MyRot).

## Not modelled

- `ideal.h`: no communication and no state but a counter; nothing uses it. Its
  `send_cot` fills one block whatever the length.
- `not.h`: both operations pass an uninitialized `AES_KEY` pointer on, so that no call
  has a defined meaning; the uses are commented out.
- AES in `lpn_f2.h`: the words that the indices of a row are taken from are one free
  function of the counter and the seed. `bench` is `compute` without a new seed, the
  same steps. The timing code of the tests is left out.
- An LPN seed given to `setup` or `rcot_inplace`: an input that both ends share.
- Checks of argument lengths that end in `error()`, in `my*.h` and `rcot_inplace`: the callers
  in the models keep to them, as the tests do.
- The debugging aid `check_cot` (`base_cot.h:105-127`), printing, and emp-tool itself, of which
  Channel and ExpGroup say what the models need.

Cryptographic strength is not a subject of these models: PRGs and hashes are free
functions.

## Plan

Order of the work, the most important behaviour first:

1. Done: RcotStream, FerretCOT with proofs, FerretSession, LpnF2 with proofs,
   Spcot, FerretExtend.
2. Done: Iknp and Cot (Ferret and BaseCot as providers, one-of-n OT), states taken out
   of an object and restored in FerretSession, NaorPinkas against IdealOt, MyOt.
3. Done: proofs of all invariants of FerretCOT, FerretSession, FerretExtend and LpnF2, and of
   the refinement of RcotStream.
4. Done: proofs of all invariants of Cot, NaorPinkas and MyOt, and of the safety part of the
   refinement of IdealOt.
