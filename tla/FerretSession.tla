---------------------------- MODULE FerretSession ----------------------------
(***************************************************************************)
(* The life of the pre-computed data of a FerretCOT pair over several      *)
(* program runs: setup loads it from a file or generates it, extensions    *)
(* replace it, the destructor writes it back (ferret_cot.hpp:28-143,       *)
(* 190-221), or the program takes it out of one object and puts it into    *)
(* another of a later run (assemble_state and disassemble_state, 284-317). *)
(* The blocks are abstracted to the identity of the data: the run whose    *)
(* base OTs produced it, its parameters, the number of extensions applied  *)
(* since, whether they all used what the peer used, and whether a file has *)
(* all of it.  The two ends are correlated when both hold the same         *)
(* identity, and it is good.                                               *)
(***************************************************************************)
EXTENDS Naturals, Sequences

CONSTANTS Malicious,    \* is_malicious
          Params,       \* the parameter sets the programs are run with
          Ends,         \* what the programs may do with their objects in the end
          MaxSessions,  \* bound: program runs
          MaxExt,       \* bound: extensions in one run
          MaxCrashes    \* bound: processes that die without destructor

ASSUME SessionAssumption ==
    /\ Malicious \in BOOLEAN /\ Params \subseteq Nat \ {0}
    /\ Ends \subseteq {"assemble", "destroy", "reload"}
    /\ MaxSessions \in Nat /\ MaxExt \in Nat /\ MaxCrashes \in Nat

VARIABLES proc,     \* the process and the FerretCOT object of p
          file,     \* the file of p
          blob,     \* what the program of p keeps of assemble_state
          wire,     \* wire[p]: messages on their way to p
          plan,     \* what the two programs of this run do with their objects
          session,  \* runs started
          crashes,  \* processes crashed
          spent,    \* history: data that p has used as the seed of an extension
          mishaps   \* history: a file cut short, a refused restore to be saved, a
                    \* crash in a run that takes data out of objects or back

vars == <<proc, file, blob, wire, plan, session, crashes, spent, mishaps>>

Party == {"ALICE", "BOB"}
Peer(p) == IF p = "ALICE" THEN "BOB" ELSE "ALICE"

(*----------------------------- pre-computed data ------------------------*)
Data(gen, n) ==
    [gen |-> gen, param |-> plan.param, ext |-> n, good |-> TRUE, all |-> TRUE]
NoParam == 0
Blank(good) ==
    [gen |-> 0, param |-> NoParam, ext |-> 0, good |-> good, all |-> TRUE]
None == Blank(TRUE)         \* no file, no blob, a null pointer
Uninit == Blank(FALSE)      \* fresh memory

\* A file of d that ends before the parameters, one that ends after them.
Torn(d) == [d EXCEPT !.param = NoParam, !.all = FALSE]
Short(d) == [d EXCEPT !.all = FALSE]

\* Fresh memory in the place of d: what it holds has never been d's.
Spoilt(d) == [d EXCEPT !.good = FALSE]

Extended(d, good) == [d EXCEPT !.ext = @ + 1, !.good = @ /\ good]

(*------------------------------ conversations ---------------------------*)
\* setup, the exchange of hasfile: ALICE speaks first
HelloTurns == <<"ALICE", "BOB">>

(* setup without files: OTCO with BOB as its sender, after which BOB sends
   the IKNP matrices and, in malicious mode, what their check needs; then the
   trees of the first extension and, in malicious mode, their check. *)
GenTurns == IF Malicious THEN <<"BOB", "ALICE", "BOB", "ALICE", "BOB", "ALICE">>
                         ELSE <<"BOB", "ALICE", "BOB", "ALICE">>

\* extend_f2k
ExtendTurns == IF Malicious THEN <<"ALICE", "BOB", "ALICE">> ELSE <<"ALICE">>

Turns(s) == CASE s = "hello" -> HelloTurns
              [] s = "gen" -> GenTurns
              [] s = "up" -> ExtendTurns
              [] OTHER -> <<>>

\* An object: what its process is doing, messages of that conversation dealt
\* with, what the last one said, ot_pre_data, extensions done.
Object(s) == [st |-> s, pos |-> 0, heard |-> None, mem |-> None, done |-> 0]

At(p, s) == proc[p].st = s
Spoken(p) == proc[p].pos = Len(Turns(proc[p].st))

\* p is inside a conversation; an extension begins only when one is asked for.
Talking(p) == /\ proc[p].pos < Len(Turns(proc[p].st))
              /\ At(p, "up") => proc[p].done < plan.ext

\* Mutant: in the exchange of hasfile both sides receive first.
TurnListenFirst(p) == IF At(p, "hello") THEN Peer(p)
                      ELSE Turns(proc[p].st)[proc[p].pos + 1]

Turn(p) == Turns(proc[p].st)[proc[p].pos + 1]

\* What a message means: hasfile, or the data that masks its content.
Says(p) == IF At(p, "hello") THEN file[p] ELSE proc[p].mem

Spend(p) == spent' = [spent EXCEPT ![p] = @ \cup
                        (IF At(p, "up") THEN {proc[p].mem} ELSE {})]

Speak(p) ==
    /\ Talking(p) /\ Turn(p) = p
    /\ wire' = [wire EXCEPT ![Peer(p)] = Append(@, Says(p))]
    /\ proc' = [proc EXCEPT ![p].pos = @ + 1]
    /\ Spend(p)
    /\ UNCHANGED <<file, blob, plan, session, crashes, mishaps>>

Listen(p) ==
    /\ Talking(p) /\ Turn(p) = Peer(p)
    /\ wire[p] # <<>>
    /\ wire' = [wire EXCEPT ![p] = Tail(@)]
    /\ proc' = [proc EXCEPT ![p].heard = Head(wire[p]), ![p].pos = @ + 1]
    /\ Spend(p)
    /\ UNCHANGED <<file, blob, plan, session, crashes, mishaps>>

(*--------------------------------- setup --------------------------------*)
\* Mutant: the place in the conversation is not reset.
EnterKeepPos(me, s, d) == [me EXCEPT !.st = s, !.mem = d]

Enter(me, s, d) == [me EXCEPT !.st = s, !.pos = 0, !.mem = d]

\* p goes on to s with d in ot_pre_data and touches nothing else.
Becomes(p, s, d) ==
    /\ proc' = [proc EXCEPT ![p] = Enter(@, s, d)]
    /\ UNCHANGED <<blob, wire, plan, session, crashes, spent, mishaps>>

\* Both know both values of hasfile (hpp:114); ot_pre_data is allocated.
Decide(p) ==
    /\ At(p, "hello") /\ Spoken(p)
    /\ Becomes(p, IF file[p] # None /\ proc[p].heard # None THEN "load" ELSE "gen",
               Uninit)
    /\ UNCHANGED file

\* What the checks of a head that is there let through.
Readable(d) == d.param = plan.param

(* Nothing looks at the length of the file.  What is missing of the head is
   whatever the variables compared with held before. *)
MayPass(d) == ~d.all /\ d.param \in {plan.param, NoParam}

\* read_pre_data128_from_file fills ot_pre_data ...
Load(p) ==
    /\ At(p, "load") /\ Readable(file[p]) /\ file[p].all
    /\ Becomes(p, "loaded", file[p])
    /\ UNCHANGED file

(* ... of a file that ends too early in part or not at all: if FileIO gives
   up at the end of the file, it leaves the memory as it was ... *)
LoadShort(p) ==
    /\ At(p, "load") /\ MayPass(file[p])
    /\ Becomes(p, "loaded",
               [Spoilt(file[p]) EXCEPT !.param = plan.param, !.all = TRUE])
    /\ UNCHANGED file

\* ... and if it insists on the bytes it was asked for, it never returns.
LoadStuck(p) ==
    /\ At(p, "load") /\ MayPass(file[p])
    /\ Becomes(p, "stuck", Uninit)
    /\ UNCHANGED file


\* The file is removed once it has been read.
Remove(p) ==
    /\ At(p, "loaded")
    /\ file' = [file EXCEPT ![p] = None]
    /\ Becomes(p, "up", proc[p].mem)

\* error("wrong party") or error("wrong parameters") ends the process.
LoadError(p) ==
    /\ At(p, "load") /\ ~Readable(file[p])
    /\ Becomes(p, "down", None)
    /\ UNCHANGED file

\* The first extension, from base COTs, fills ot_pre_data; a file is left as it is.
Generate(p) ==
    /\ At(p, "gen") /\ Spoken(p)
    /\ Becomes(p, "up", Data(session, 0))
    /\ UNCHANGED file

\* pre_ot_filename is set by setup only.
HasName == plan.start = "hello"

(* disassemble_state, in an object without setup or, to go back to a state
   kept earlier, in one that has its data: these are leaked.  The program
   drops a blob that it has restored. *)
Restore(p) ==
    /\ At(p, "restore") /\ Readable(blob[p])
    /\ proc' = [proc EXCEPT ![p] = Enter(@, "up", blob[p])]
    /\ blob' = [blob EXCEPT ![p] = None]
    /\ UNCHANGED <<file, wire, plan, session, crashes, spent, mishaps>>

(* It returns -1, with ot_pre_data allocated anew, and the program gives up.
   The destructor of an object that has a name is going to save that. *)
RestoreRefused(p) ==
    /\ At(p, "restore") /\ ~Readable(blob[p])
    /\ proc' = [proc EXCEPT ![p] = Enter(@, "over", Spoilt(@.mem))]
    /\ mishaps' = mishaps \cup (IF HasName THEN {"refused"} ELSE {})
    /\ UNCHANGED <<file, blob, wire, plan, session, crashes, spent>>

(*------------------------------- extensions -----------------------------*)
\* Mutant: the receiver does not copy the seed of the next extension.
NextSeedSenderOnly(p) ==
    IF p = "ALICE" THEN Extended(proc[p].mem, TRUE)
    ELSE [proc[p].mem EXCEPT !.good = @ /\ proc[p].heard = proc[p].mem]

(* The sender's result depends on its own data only; the receiver's is
   right only if the trees were masked with the data it has itself. *)
NextSeed(p) == Extended(proc[p].mem, p = "ALICE" \/ proc[p].heard = proc[p].mem)

Extend(p) ==
    /\ At(p, "up") /\ Spoken(p)
    /\ proc' = [proc EXCEPT ![p] = [Enter(proc[p], "up", NextSeed(p)) EXCEPT !.done = @ + 1]]
    /\ UNCHANGED <<file, blob, wire, plan, session, crashes, spent, mishaps>>

(*------------------------ assemble_state, destructor --------------------*)
Finished(p) == At(p, "up") /\ proc[p].pos = 0 /\ proc[p].done = plan.ext

\* Mutant: assemble_state leaves the data in the object.
FreedNot(d) == d

\* assemble_state deletes ot_pre_data and clears the pointer.
Freed(d) == None

Assemble(p) ==
    /\ Finished(p) /\ plan.end = "assemble"
    /\ blob' = [blob EXCEPT ![p] = proc[p].mem]
    /\ proc' = [proc EXCEPT ![p] = Enter(@, "over", Freed(proc[p].mem))]
    /\ UNCHANGED <<file, wire, plan, session, crashes, spent, mishaps>>

\* The program of p goes back to what it kept in an earlier run.
Reload(p) ==
    /\ Finished(p) /\ plan.end = "reload" /\ blob[p] # None
    /\ Becomes(p, "restore", proc[p].mem)
    /\ UNCHANGED file

Destroyed(p) == \/ At(p, "over")
                \/ Finished(p) /\ plan.end = "destroy"
                \/ Finished(p) /\ plan.end = "reload" /\ blob[p] = None

\* Nothing to write, or std::ofstream("") cannot be opened and error() ends
\* the process.
DestroyUnsaved(p) ==
    /\ Destroyed(p) /\ (proc[p].mem = None \/ ~HasName)
    /\ Becomes(p, "down", None)
    /\ UNCHANGED file

\* std::ofstream truncates the file ...
Truncate(p) ==
    /\ Destroyed(p) /\ proc[p].mem # None /\ HasName
    /\ file' = [file EXCEPT ![p] = Torn(proc[p].mem)]
    /\ Becomes(p, "closing", proc[p].mem)

\* ... FileIO writes the party, Delta and the parameters ...
WriteHead(p) ==
    /\ At(p, "closing")
    /\ file' = [file EXCEPT ![p] = Short(proc[p].mem)]
    /\ Becomes(p, "writing", proc[p].mem)

\* Mutant: the receiver opens its file and does not write the data.
WrittenSenderOnly(p) == IF p = "ALICE" THEN proc[p].mem ELSE file[p]

Written(p) == proc[p].mem

\* ... and at last the blocks.
Save(p) ==
    /\ At(p, "writing")
    /\ file' = [file EXCEPT ![p] = Written(p)]
    /\ Becomes(p, "down", None)

(*----------------------------- processes ending -------------------------*)
Die(p) ==
    /\ proc' = [proc EXCEPT ![p] = Enter(@, "down", None)]
    /\ UNCHANGED <<file, blob, wire, plan, session, spent>>

Saving(p) == At(p, "closing") \/ At(p, "writing")

Crash(p) ==
    /\ ~At(p, "down") /\ crashes < MaxCrashes
    /\ crashes' = crashes + 1
    /\ mishaps' = mishaps \cup (IF Saving(p) THEN {"cut"} ELSE {})
                          \cup (IF plan.start = "restore" \/ plan.end # "destroy"
                                THEN {"uneven"} ELSE {})
    /\ Die(p)

\* A process that waits for a peer that is gone, or for the rest of a file, is
\* ended from outside.
Kill(p) ==
    /\ \/ At(p, "stuck")
       \/ At(Peer(p), "down") /\ Talking(p) /\ Turn(p) = Peer(p) /\ wire[p] = <<>>
    /\ Die(p)
    /\ UNCHANGED <<crashes, mishaps>>

\* Both programs are started and connect.  They agree on the parameters, on
\* where the data come from and on what is done with them in the end.
Connect ==
    /\ \A p \in Party : At(p, "down")
    /\ session < MaxSessions
    /\ session' = session + 1
    /\ plan' \in [param : Params, start : {"hello", "restore"}, ext : 0..MaxExt,
                  end : Ends]
    /\ plan'.start = "restore" \/ plan'.end = "reload" =>
           \A p \in Party : blob[p] # None
    /\ plan'.end = "reload" => plan'.start = "hello"
    /\ proc' = [p \in Party |-> Object(plan'.start)]
    /\ wire' = [p \in Party |-> <<>>]
    /\ UNCHANGED <<file, blob, crashes, spent, mishaps>>

(*------------------------------ specification ---------------------------*)
Init ==
    /\ proc = [p \in Party |-> Object("down")]
    /\ file = [p \in Party |-> None]
    /\ blob = [p \in Party |-> None]
    /\ wire = [p \in Party |-> <<>>]
    /\ plan = [param |-> NoParam, start |-> "hello", ext |-> 0, end |-> "destroy"]
    /\ session = 0
    /\ crashes = 0
    /\ spent = [p \in Party |-> {}]
    /\ mishaps = {}

Step(p) == \/ Speak(p) \/ Listen(p)
           \/ Decide(p) \/ Load(p) \/ LoadShort(p) \/ LoadStuck(p) \/ LoadError(p)
           \/ Remove(p) \/ Generate(p) \/ Extend(p)
           \/ Restore(p) \/ RestoreRefused(p) \/ Assemble(p) \/ Reload(p)
           \/ DestroyUnsaved(p) \/ Truncate(p) \/ WriteHead(p) \/ Save(p)

Next == \/ Connect
        \/ \E p \in Party : Step(p) \/ Crash(p) \/ Kill(p)

Spec == Init /\ [][Next]_vars

\* A process that can take a step takes it; a hanging one is ended some day.
FairSpec == Spec /\ \A p \in Party : WF_vars(Step(p)) /\ WF_vars(Kill(p))

(*------------------------------- properties -----------------------------*)
DataType == [gen : Nat, param : Params \cup {NoParam}, ext : Nat,
             good : BOOLEAN, all : BOOLEAN]

(* The variables have their types. *)
TypeOK ==
    /\ proc \in [Party -> [st : {"down", "hello", "load", "loaded", "stuck", "gen",
                                 "restore", "up", "over", "closing", "writing"},
                           pos : Nat, heard : DataType, mem : DataType, done : Nat]]
    /\ \A p \in Party : ~At(p, "down") => proc[p].pos <= Len(Turns(proc[p].st))
    /\ file \in [Party -> DataType] /\ blob \in [Party -> DataType]
    /\ wire \in [Party -> Seq(DataType)]
    /\ session \in Nat /\ crashes \in Nat
    /\ spent \in [Party -> SUBSET DataType]
    /\ mishaps \subseteq {"cut", "refused", "uneven"}

(* Every extension of the receiver starts from the data its sender used, so
   that the correlation of README.md:150 and test.h:374-378 holds for its
   output; nothing else is ever saved.  A file cut short by a crash breaks it
   when its blocks are not there to be read (hpp:192-201, 204-221). *)
Correlated ==
    \A p \in Party : /\ At(p, "up") => proc[p].mem.good
                     /\ file[p].good /\ blob[p].good

(* The same of programs none of which dies before its destructor, whatever
   they do with their objects: refused loads and restores included, but for a
   refused restore in an object that will be saved. *)
CorrelatedUntilCrash == crashes = 0 /\ mishaps = {} => Correlated


(* Pre-computed data seeds one extension at most, across runs, crashes and
   objects: neither what memory holds for the next extension nor what a file
   or a blob would bring back has been used before (hpp:73, 219, 31-32, 296). *)
NoReplay ==
    \A p \in Party :
        /\ file[p] \notin spent[p] /\ blob[p] \notin spent[p]
        /\ At(p, "up") /\ proc[p].pos = 0 => proc[p].mem \notin spent[p]

(* Between runs that all ended without a crash the two ends kept the same
   data, in their files and in what the programs took out of the objects
   (hpp:28-33, 114, 284-317). *)
EndsMatch ==
    crashes = 0 /\ mishaps = {} /\ (\A p \in Party : At(p, "down")) =>
        file["ALICE"] = file["BOB"] /\ blob["ALICE"] = blob["BOB"]

(* Every run comes to its end: the two ends never wait for each other, and
   one whose peer is gone, or whose file ends too early, can be ended. *)
RunsEnd == (\E p \in Party : ~At(p, "down")) ~> (\A p \in Party : At(p, "down"))
=============================================================================
