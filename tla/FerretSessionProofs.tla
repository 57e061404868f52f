-------------------------- MODULE FerretSessionProofs --------------------------
(***************************************************************************)
(* Proofs about FerretSession, for any number of runs, extensions and      *)
(* crashes and any set of parameters.  Two invariants carry them: one of a *)
(* single party, that what memory, file and blob hold is ahead of all that *)
(* has seeded an extension, and one of the pair while nobody has crashed,  *)
(* that both ends walk through the same turns and what is on its way is    *)
(* the stretch of turns between them.                                      *)
(***************************************************************************)
EXTENDS FerretSession, TLAPS

(*-------------------------- the invariant of a party --------------------*)
St == {"down", "hello", "load", "loaded", "stuck", "gen", "restore", "up", "over",
       "closing", "writing"}
Obj == [st : St, pos : Nat, heard : DataType, mem : DataType, done : Nat]
Plan == [param : Params \cup {NoParam}, start : {"hello", "restore"}, ext : Nat,
         end : Ends \cup {"destroy"}]

TypeInv ==
    /\ proc \in [Party -> Obj]
    /\ \A p \in Party : ~At(p, "down") => /\ proc[p].pos <= Len(Turns(proc[p].st))
                                          /\ plan.param \in Params /\ session > 0
    /\ file \in [Party -> DataType] /\ blob \in [Party -> DataType]
    /\ wire \in [Party -> Seq(DataType)]
    /\ plan \in Plan
    /\ session \in Nat /\ crashes \in Nat
    /\ spent \in [Party -> SUBSET DataType]
    /\ mishaps \subseteq {"cut", "refused", "uneven"}

\* Every extension that used data of the generation of d used an earlier state of it.
Fresh(d, used) == \A s \in used : s.gen = d.gen => s.ext < d.ext

\* What no generation has made is a null pointer, or no file or blob.
Real(d) == d.gen = 0 => d = None

(* At most one of memory, file and blob holds data of a generation, but for the
   moments in which the file has been read and not removed, or is being written;
   what they hold is ahead of all that has been used. *)
OwnData(st, pos, mem, f, b, used, n, named) ==
    /\ \A s \in used : 0 < s.gen /\ s.gen <= n
    /\ Real(f) /\ Real(b) /\ f.gen <= n /\ b.gen <= n /\ mem.gen <= n
    /\ f.gen # 0 => f.gen # b.gen
    /\ Fresh(f, used) /\ Fresh(b, used)
    /\ st \in {"hello", "gen"} => f.gen < n /\ b.gen < n /\ \A s \in used : s.gen < n
    /\ st = "loaded" => mem.gen = f.gen /\ mem.ext = f.ext /\ f.gen # 0
    /\ st \in {"up", "closing", "writing"} => mem.gen # 0
    /\ st \in {"up", "restore", "over"} /\ mem.gen # 0 =>
          mem.gen # f.gen /\ mem.gen # b.gen
    /\ st \in {"closing", "writing"} => mem.gen # b.gen
    /\ st \in {"restore", "over", "closing", "writing"} \/ (st = "up" /\ pos = 0) =>
          Fresh(mem, used)
    /\ st = "up" => \A s \in used : s.gen = mem.gen => s.ext <= mem.ext
    /\ st = "over" /\ named => mem.gen # 0 \/ mem = None
    /\ st = "restore" /\ named => mem.gen # 0

OwnInv(p) == OwnData(proc[p].st, proc[p].pos, proc[p].mem, file[p], blob[p], spent[p],
                     session, HasName)
SessInv == TypeInv /\ \A p \in Party : OwnInv(p)

(*------------------------- lemmas about the operators -------------------*)
\* A conversation is a short sequence of parties.
LEMMA TurnFacts ==
    /\ Len(HelloTurns) = 2 /\ HelloTurns[1] = "ALICE" /\ HelloTurns[2] = "BOB"
    /\ Len(GenTurns) \in {4, 6} /\ Len(ExtendTurns) \in {1, 3}
    /\ ExtendTurns[1] = "ALICE"
    /\ Len(ExtendTurns) = 3 => ExtendTurns[2] = "BOB" /\ ExtendTurns[3] = "ALICE"
    /\ Turns("hello") = HelloTurns /\ Turns("gen") = GenTurns /\ Turns("up") = ExtendTurns
    /\ \A s : s \notin {"hello", "gen", "up"} => Turns(s) = <<>>
    /\ \A s : Len(Turns(s)) \in Nat
<1>1. /\ Len(HelloTurns) = 2 /\ HelloTurns[1] = "ALICE" /\ HelloTurns[2] = "BOB"
    BY DEF HelloTurns
<1>2. Len(GenTurns) \in {4, 6}
    BY DEF GenTurns
<1>3. /\ Len(ExtendTurns) \in {1, 3} /\ ExtendTurns[1] = "ALICE"
      /\ Len(ExtendTurns) = 3 => ExtendTurns[2] = "BOB" /\ ExtendTurns[3] = "ALICE"
    BY DEF ExtendTurns
<1>4. /\ Turns("hello") = HelloTurns /\ Turns("gen") = GenTurns /\ Turns("up") = ExtendTurns
    BY DEF Turns
<1>5. ASSUME NEW s, s \notin {"hello", "gen", "up"} PROVE Turns(s) = <<>>
    BY <1>5 DEF Turns
<1>6. ASSUME NEW s PROVE Len(Turns(s)) \in Nat
    <2>1. CASE s \in {"hello", "gen", "up"}
        BY <1>1, <1>2, <1>3, <1>4, <2>1
    <2>2. CASE s \notin {"hello", "gen", "up"}
        BY <1>5, <2>2
    <2> QED BY <2>1, <2>2
<1> QED BY <1>1, <1>2, <1>3, <1>4, <1>5, <1>6

\* What an object becomes when it goes on to s with d in ot_pre_data
LEMMA Entered ==
    ASSUME NEW me \in Obj, NEW s \in St, NEW d \in DataType
    PROVE  /\ Enter(me, s, d) \in Obj
           /\ Enter(me, s, d).st = s /\ Enter(me, s, d).pos = 0 /\ Enter(me, s, d).mem = d
           /\ Enter(me, s, d).done = me.done /\ Enter(me, s, d).heard = me.heard
BY DEF Enter, Obj

\* The markers are data without generation, and differ.
LEMMA Markers ==
    /\ None \in DataType /\ Uninit \in DataType
    /\ None.gen = 0 /\ Uninit.gen = 0 /\ None.param = NoParam
    /\ Real(None) /\ None.good = TRUE /\ None.all = TRUE
    /\ None # Uninit
BY DEF None, Uninit, Blank, DataType, NoParam, Real

\* What is left of data in a file cut short or in fresh memory
LEMMA Damaged ==
    ASSUME NEW d \in DataType, NEW q \in Params \cup {NoParam}
    PROVE  /\ Torn(d) \in DataType /\ Torn(d).gen = d.gen /\ Torn(d).ext = d.ext
           /\ Torn(d).good = d.good
           /\ Short(d) \in DataType /\ Short(d).gen = d.gen /\ Short(d).ext = d.ext
           /\ Short(d).good = d.good
           /\ Spoilt(d) \in DataType /\ Spoilt(d).gen = d.gen /\ Spoilt(d).ext = d.ext
           /\ [Spoilt(d) EXCEPT !.param = q, !.all = TRUE] \in DataType
           /\ [Spoilt(d) EXCEPT !.param = q, !.all = TRUE].gen = d.gen
           /\ [Spoilt(d) EXCEPT !.param = q, !.all = TRUE].ext = d.ext
<1>1. Torn(d) \in DataType /\ Torn(d).gen = d.gen /\ Torn(d).ext = d.ext
      /\ Torn(d).good = d.good
    BY DEF Torn, DataType
<1>2. Short(d) \in DataType /\ Short(d).gen = d.gen /\ Short(d).ext = d.ext
      /\ Short(d).good = d.good
    BY DEF Short, DataType
<1>3. Spoilt(d) \in DataType /\ Spoilt(d).gen = d.gen /\ Spoilt(d).ext = d.ext
    BY DEF Spoilt, DataType
<1>4. PICK e \in DataType : e = Spoilt(d)
    BY <1>3
<1>5. /\ [e EXCEPT !.param = q, !.all = TRUE] \in DataType
      /\ [e EXCEPT !.param = q, !.all = TRUE].gen = e.gen
      /\ [e EXCEPT !.param = q, !.all = TRUE].ext = e.ext
    BY DEF DataType
<1> QED BY <1>1, <1>2, <1>3, <1>4, <1>5

\* Parameters are not zero; data carry those of the run that generated them.
LEMMA DataFacts ==
    ASSUME NEW n \in Nat, TypeInv
    PROVE  /\ \A q \in Params : q \in Nat /\ q # NoParam
           /\ Data(session, n) \in DataType
           /\ Data(session, n).gen = session /\ Data(session, n).ext = n
           /\ Data(session, n).param = plan.param
           /\ Data(session, n).good = TRUE /\ Data(session, n).all = TRUE
<1>1. plan.param \in Params \cup {NoParam} /\ session \in Nat
    BY DEF TypeInv, Plan
<1>2. \A q \in Params : q \in Nat /\ q # NoParam
    BY SessionAssumption DEF NoParam
<1> QED BY <1>1, <1>2 DEF Data, DataType

\* An extension counts one more.
LEMMA ExtendedFacts ==
    ASSUME NEW d \in DataType, NEW good \in BOOLEAN
    PROVE  /\ Extended(d, good) \in DataType
           /\ Extended(d, good).gen = d.gen /\ Extended(d, good).param = d.param
           /\ Extended(d, good).ext = d.ext + 1
           /\ Extended(d, good).good = (d.good /\ good)
           /\ d.ext \in Nat /\ d.gen \in Nat
<1>1. PICK n \in Nat : n = d.ext + 1
    BY DEF DataType
<1>2. PICK g \in BOOLEAN : g = (d.good /\ good)
    BY DEF DataType
<1>3. Extended(d, good) = [d EXCEPT !.ext = n, !.good = g]
    BY <1>1, <1>2 DEF Extended, DataType
<1>4. d.ext \in Nat /\ d.gen \in Nat
    BY DEF DataType
<1> QED BY <1>1, <1>2, <1>3, <1>4 DEF DataType

\* The parties, and the types of what p has
LEMMA Typing ==
    ASSUME TypeInv, NEW p \in Party
    PROVE  /\ "ALICE" \in Party /\ "BOB" \in Party
           /\ p = "ALICE" \/ p = "BOB"
           /\ Peer(p) \in Party /\ Peer(p) # p /\ Peer(Peer(p)) = p
           /\ proc[p] \in Obj /\ proc[p].st \in St /\ proc[p].pos \in Nat
           /\ proc[p].heard \in DataType /\ proc[p].mem \in DataType /\ proc[p].done \in Nat
           /\ file[p] \in DataType /\ blob[p] \in DataType
           /\ wire[p] \in Seq(DataType) /\ spent[p] \in SUBSET DataType
BY DEF TypeInv, Obj, Party, Peer

(* A step of p that leaves the run as it is keeps the invariant when it does so
   for p itself. *)
LEMMA Replaces ==
    ASSUME SessInv, NEW p \in Party, NEW me \in Obj, NEW f \in DataType, NEW b \in DataType,
           NEW used \in SUBSET DataType,
           proc' = [proc EXCEPT ![p] = me], file' = [file EXCEPT ![p] = f],
           blob' = [blob EXCEPT ![p] = b], spent' = [spent EXCEPT ![p] = used],
           wire' \in [Party -> Seq(DataType)],
           plan' = plan, session' = session, crashes' \in Nat,
           mishaps' \subseteq {"cut", "refused", "uneven"},
           me.st # "down" => ~At(p, "down") /\ me.pos <= Len(Turns(me.st)),
           OwnData(me.st, me.pos, me.mem, f, b, used, session, HasName)
    PROVE  SessInv'
<1> USE DEF SessInv
<1>1. /\ proc \in [Party -> Obj] /\ file \in [Party -> DataType]
      /\ blob \in [Party -> DataType] /\ spent \in [Party -> SUBSET DataType]
      /\ plan \in Plan /\ session \in Nat
    BY DEF TypeInv
<1>2. /\ proc' \in [Party -> Obj] /\ file' \in [Party -> DataType]
      /\ blob' \in [Party -> DataType] /\ spent' \in [Party -> SUBSET DataType]
    BY <1>1
<1>3. /\ proc'[p] = me /\ file'[p] = f /\ blob'[p] = b /\ spent'[p] = used
      /\ \A q \in Party : q # p => /\ proc'[q] = proc[q] /\ file'[q] = file[q]
                                   /\ blob'[q] = blob[q] /\ spent'[q] = spent[q]
    BY <1>1
<1>4. HasName' = HasName
    BY DEF HasName
<1>5. ASSUME NEW q \in Party, ~At(q, "down")'
      PROVE  proc'[q].pos <= Len(Turns(proc'[q].st)) /\ plan.param \in Params /\ session > 0
    <2>1. CASE q = p
        BY <1>3, <1>5, <2>1 DEF At, TypeInv
    <2>2. CASE q # p
        <3>1. proc'[q] = proc[q]
            BY <1>3, <2>2
        <3> QED BY <1>5, <3>1 DEF At, TypeInv
    <2> QED BY <2>1, <2>2
<1>6. TypeInv'
    BY <1>1, <1>2, <1>5 DEF TypeInv
<1>7. ASSUME NEW q \in Party PROVE OwnInv(q)'
    <2>1. CASE q = p
        <3>1. OwnData(proc'[q].st, proc'[q].pos, proc'[q].mem, file'[q], blob'[q], spent'[q],
                      session, HasName)
            BY <1>3, <2>1
        <3> QED BY <1>4, <3>1 DEF OwnInv
    <2>2. CASE q # p
        <3>1. OwnData(proc'[q].st, proc'[q].pos, proc'[q].mem, file'[q], blob'[q], spent'[q],
                      session, HasName)
            BY <1>3, <2>2 DEF OwnInv
        <3> QED BY <1>4, <3>1 DEF OwnInv
    <2> QED BY <2>1, <2>2
<1> QED BY <1>6, <1>7

\* p goes on to s with d, and may remember a mishap.
Goes(p, s, d) ==
    /\ proc' = [proc EXCEPT ![p] = Enter(proc[p], s, d)]
    /\ UNCHANGED <<blob, wire, plan, session, crashes, spent>>
    /\ mishaps' \subseteq {"cut", "refused", "uneven"}

LEMMA BecomesGoes ==
    ASSUME TypeInv, NEW p, NEW s, NEW d, Becomes(p, s, d)
    PROVE  Goes(p, s, d)
BY DEF Becomes, Goes, TypeInv

\* The same of a step that replaces the state, the memory and the file only
LEMMA BecomesKeeps ==
    ASSUME SessInv, NEW p \in Party, NEW s \in St, NEW d \in DataType, NEW f \in DataType,
           Becomes(p, s, d) \/ Goes(p, s, d), file' = [file EXCEPT ![p] = f],
           s # "down" => ~At(p, "down"),
           OwnData(s, 0, d, f, blob[p], spent[p], session, HasName)
    PROVE  SessInv'
<1> DEFINE me == Enter(proc[p], s, d)
<1>1. TypeInv /\ file \in [Party -> DataType] /\ blob \in [Party -> DataType]
      /\ spent \in [Party -> SUBSET DataType] /\ wire \in [Party -> Seq(DataType)]
      /\ crashes \in Nat
    BY DEF SessInv, TypeInv
<1>2. me \in Obj /\ me.st = s /\ me.pos = 0 /\ me.mem = d
    BY <1>1, Entered, Typing
<1>3. proc' = [proc EXCEPT ![p] = me] /\ UNCHANGED <<blob, wire, plan, session, crashes, spent>>
      /\ mishaps' \subseteq {"cut", "refused", "uneven"}
    BY <1>1, BecomesGoes DEF Goes
<1> HIDE DEF me
<1>4. blob' = [blob EXCEPT ![p] = blob[p]] /\ spent' = [spent EXCEPT ![p] = spent[p]]
    BY <1>1, <1>3
<1>5. blob[p] \in DataType /\ spent[p] \in SUBSET DataType
    BY <1>1
<1>6. me.pos <= Len(Turns(me.st))
    BY <1>2, TurnFacts
<1> QED BY <1>1, <1>2, <1>3, <1>4, <1>5, <1>6, Replaces

(*------------------------- steps of a single party ----------------------*)
\* A turn of a conversation, and what an extension spends
LEMMA TalkStep ==
    ASSUME SessInv, NEW p \in Party, Speak(p) \/ Listen(p)
    PROVE  SessInv'
<1> DEFINE old == proc[p]
           used == spent[p] \cup (IF old.st = "up" THEN {old.mem} ELSE {})
<1>1. /\ TypeInv /\ old \in Obj /\ old.st \in St /\ old.pos \in Nat /\ old.mem \in DataType
      /\ file[p] \in DataType /\ blob[p] \in DataType /\ spent[p] \in SUBSET DataType
      /\ Peer(p) \in Party
      /\ wire \in [Party -> Seq(DataType)] /\ file \in [Party -> DataType]
      /\ blob \in [Party -> DataType] /\ crashes \in Nat
    BY Typing DEF SessInv, TypeInv
<1>2. PICK h \in DataType :
         /\ proc' = [proc EXCEPT ![p] = [old EXCEPT !.heard = h, !.pos = old.pos + 1]]
         /\ wire' \in [Party -> Seq(DataType)]
    <2>1. CASE Speak(p)
        <3>1. old.heard \in DataType /\ Says(p) \in DataType
            BY <1>1, Typing DEF Says
        <3>2. proc' = [proc EXCEPT ![p] = [old EXCEPT !.heard = old.heard, !.pos = old.pos + 1]]
            <4>1. proc' = [proc EXCEPT ![p] = [old EXCEPT !.pos = old.pos + 1]]
                BY <2>1 DEF Speak
            <4>2. old = [old EXCEPT !.heard = old.heard]
                BY <1>1 DEF Obj
            <4> QED BY <1>1, <4>1, <4>2 DEF Obj
        <3>3. Append(wire[Peer(p)], Says(p)) \in Seq(DataType)
            BY <1>1, <3>1
        <3>4. wire' = [wire EXCEPT ![Peer(p)] = Append(wire[Peer(p)], Says(p))]
            BY <2>1 DEF Speak
        <3>5. wire' \in [Party -> Seq(DataType)]
            BY <1>1, <3>3, <3>4
        <3> QED BY <3>1, <3>2, <3>5
    <2>2. CASE Listen(p)
        <3>1. wire[p] \in Seq(DataType) /\ wire[p] # <<>>
            BY <1>1, <2>2 DEF Listen
        <3>2. Head(wire[p]) \in DataType /\ Tail(wire[p]) \in Seq(DataType)
            BY <3>1
        <3>3. /\ proc' = [proc EXCEPT ![p] = [old EXCEPT !.heard = Head(wire[p]),
                                                         !.pos = old.pos + 1]]
              /\ wire' = [wire EXCEPT ![p] = Tail(wire[p])]
            BY <2>2 DEF Listen
        <3> QED BY <1>1, <3>2, <3>3
    <2> QED BY <2>1, <2>2
<1>3. /\ Talking(p) /\ UNCHANGED <<file, blob, plan, session, crashes, mishaps>>
      /\ spent' = [spent EXCEPT ![p] = used]
    BY DEF Speak, Listen, Spend, At
<1>4. old.pos < Len(Turns(old.st)) /\ Len(Turns(old.st)) \in Nat
    BY <1>3, TurnFacts DEF Talking
<1>5. ~At(p, "down")
    <2>1. Len(Turns("down")) = 0
        BY TurnFacts
    <2> QED BY <1>1, <1>4, <2>1 DEF At
<1> DEFINE me == [old EXCEPT !.heard = h, !.pos = old.pos + 1]
<1>6. me \in Obj /\ me.st = old.st /\ me.pos = old.pos + 1 /\ me.mem = old.mem
    <2>1. PICK n \in Nat : n = old.pos + 1
        BY <1>1
    <2> QED BY <1>1, <2>1 DEF Obj
<1>7. OwnData(old.st, old.pos, old.mem, file[p], blob[p], spent[p], session, HasName)
    BY DEF SessInv, OwnInv
<1>8. used \in SUBSET DataType
    BY <1>1
<1>9. OwnData(me.st, me.pos, me.mem, file[p], blob[p], used, session, HasName)
    <2>1. file[p].gen \in Nat /\ blob[p].gen \in Nat /\ old.mem.gen \in Nat
          /\ old.mem.ext \in Nat /\ session \in Nat
        BY <1>1 DEF DataType, TypeInv
    <2>2. CASE old.st = "up"
        <3>1. \A s \in used : s \in spent[p] \/ s = old.mem
            BY <2>2
        <3> HIDE DEF used, me
        <3> QED BY <1>1, <1>6, <1>7, <2>1, <2>2, <3>1 DEF OwnData, Fresh
    <2>3. CASE old.st # "up"
        <3>1. used = spent[p] /\ old.st \in {"hello", "gen"}
            <4>1. Len(<<>>) = 0
                OBVIOUS
            <4> QED BY <1>1, <1>4, <2>3, <4>1, TurnFacts
        <3> HIDE DEF used, me
        <3> QED BY <1>6, <1>7, <2>3, <3>1 DEF OwnData
    <2> QED BY <2>2, <2>3
<1>10. me.pos <= Len(Turns(me.st))
    BY <1>1, <1>4, <1>6
<1>11. /\ proc' = [proc EXCEPT ![p] = me] /\ file' = [file EXCEPT ![p] = file[p]]
       /\ blob' = [blob EXCEPT ![p] = blob[p]]
    BY <1>1, <1>2, <1>3
<1>12. /\ spent' = [spent EXCEPT ![p] = used] /\ plan' = plan /\ session' = session
       /\ crashes' \in Nat /\ mishaps' \subseteq {"cut", "refused", "uneven"}
    BY <1>1, <1>3 DEF TypeInv
<1>13. file[p] \in DataType /\ blob[p] \in DataType
    BY <1>1
<1> HIDE DEF me, used
<1> QED BY <1>2, <1>5, <1>6, <1>8, <1>9, <1>10, <1>11, <1>12, <1>13, Replaces

\* What the invariant says of p, with its types
LEMMA OwnFacts ==
    ASSUME SessInv, NEW p \in Party
    PROVE  /\ TypeInv /\ session \in Nat
           /\ OwnData(proc[p].st, proc[p].pos, proc[p].mem, file[p], blob[p], spent[p],
                      session, HasName)
           /\ file[p] \in DataType /\ blob[p] \in DataType /\ proc[p].mem \in DataType
           /\ file \in [Party -> DataType]
           /\ spent[p] \in SUBSET DataType
           /\ file[p].gen \in Nat /\ blob[p].gen \in Nat /\ proc[p].mem.gen \in Nat
           /\ file' = file => file' = [file EXCEPT ![p] = file[p]]
           /\ plan.param \in Params \cup {NoParam}
           /\ mishaps \subseteq {"cut", "refused", "uneven"}
           /\ ~At(p, "down") => /\ plan.param \in Params /\ session > 0
                                /\ plan.param # NoParam
<1>1. TypeInv /\ OwnInv(p) /\ plan \in Plan
    BY DEF SessInv, TypeInv
<1>2. plan.param \in Params \cup {NoParam} /\ \A q \in Params : q # NoParam
    BY <1>1, SessionAssumption DEF Plan, NoParam
<1>3. /\ file[p].gen \in Nat /\ blob[p].gen \in Nat /\ proc[p].mem.gen \in Nat
    BY <1>1, Typing DEF DataType
<1> QED BY <1>1, <1>2, <1>3, Typing DEF OwnInv, TypeInv

\* The steps of setup
LEMMA SetupStep ==
    ASSUME SessInv, NEW p \in Party,
           \/ Decide(p) \/ Load(p) \/ LoadShort(p) \/ LoadStuck(p) \/ Remove(p)
           \/ LoadError(p) \/ Generate(p)
    PROVE  SessInv'
<1> DEFINE old == proc[p]
<1> USE Markers
<1>1. CASE Decide(p)
    <2>1. PICK s \in {"load", "gen"} : Becomes(p, s, Uninit) /\ file' = file /\ old.st = "hello"
        BY <1>1 DEF Decide, At
    <2>2. OwnData(s, 0, Uninit, file[p], blob[p], spent[p], session, HasName)
        BY <2>1, OwnFacts DEF OwnData
    <2>3. s \in St /\ s # "down" /\ ~At(p, "down")
        BY <2>1 DEF St, At
    <2> QED BY <2>1, <2>2, <2>3, OwnFacts, BecomesKeeps
<1>2. CASE Load(p)
    <2>1. Becomes(p, "loaded", file[p]) /\ file' = file /\ old.st = "load" /\ Readable(file[p])
        BY <1>2 DEF Load, At
    <2>2. ~At(p, "down") /\ "loaded" \in St
        BY <2>1 DEF At, St
    <2>3. file[p].gen # 0
        BY <2>1, <2>2, OwnFacts DEF OwnData, Real, Readable
    <2>4. OwnData("loaded", 0, file[p], file[p], blob[p], spent[p], session, HasName)
        BY <2>3, OwnFacts DEF OwnData
    <2> QED BY <2>1, <2>2, <2>4, OwnFacts, BecomesKeeps
<1>3. CASE Remove(p)
    <2>1. Becomes(p, "up", old.mem) /\ file' = [file EXCEPT ![p] = None] /\ old.st = "loaded"
        BY <1>3 DEF Remove, At
    <2>2. ~At(p, "down") /\ "up" \in St
        BY <2>1 DEF At, St
    <2>3. old.mem.gen = file[p].gen /\ old.mem.ext = file[p].ext /\ file[p].gen # 0
        BY <2>1, OwnFacts DEF OwnData
    <2>4. OwnData("up", 0, old.mem, None, blob[p], spent[p], session, HasName)
        <3>1. \A s \in spent[p] : s.gen \in Nat /\ s.ext \in Nat
            BY OwnFacts DEF DataType
        <3>2. file[p].ext \in Nat
            BY OwnFacts DEF DataType
        <3> HIDE DEF old
        <3> QED BY <2>3, <3>1, <3>2, OwnFacts DEF OwnData, Fresh
    <2> QED BY <2>1, <2>2, <2>4, OwnFacts, BecomesKeeps
<1>4. CASE LoadError(p)
    <2>1. Becomes(p, "down", None) /\ file' = file
        BY <1>4 DEF LoadError
    <2>2. OwnData("down", 0, None, file[p], blob[p], spent[p], session, HasName)
        BY OwnFacts DEF OwnData
    <2> QED BY <2>1, <2>2, OwnFacts, BecomesKeeps DEF St
<1>5. CASE Generate(p)
    <2>1. Becomes(p, "up", Data(session, 0)) /\ file' = file /\ old.st = "gen"
        BY <1>5 DEF Generate, At
    <2>2. ~At(p, "down") /\ "up" \in St
        BY <2>1 DEF At, St
    <2>3. PICK d \in DataType : d = Data(session, 0)
        BY OwnFacts, DataFacts
    <2>4. d.gen = session /\ d.param = plan.param
        <3>1. 0 \in Nat
            OBVIOUS
        <3> QED BY <2>3, <3>1, OwnFacts, DataFacts
    <2>5. OwnData("up", 0, d, file[p], blob[p], spent[p], session, HasName)
        <3>1. /\ file[p].gen < session /\ blob[p].gen < session
              /\ \A s \in spent[p] : s.gen < session
            BY <2>1, OwnFacts DEF OwnData
        <3>2. session \in Nat /\ session > 0 /\ file[p].gen \in Nat /\ blob[p].gen \in Nat
            BY <2>2, OwnFacts
        <3>3. \A s \in spent[p] : s.gen \in Nat /\ s.gen # session
            BY <3>1, <3>2, OwnFacts DEF DataType
        <3>4. Fresh(d, spent[p]) /\ \A s \in spent[p] : s.gen = d.gen => s.ext <= d.ext
            BY <2>4, <3>3 DEF Fresh
        <3>5. d.gen # 0 /\ d.gen # file[p].gen /\ d.gen # blob[p].gen /\ d.gen <= session
            BY <2>4, <3>1, <3>2
        <3> QED BY <3>4, <3>5, OwnFacts DEF OwnData
    <2> QED BY <2>1, <2>2, <2>3, <2>5, OwnFacts, BecomesKeeps
<1>6. CASE LoadShort(p)
    <2>1. PICK d : d = [Spoilt(file[p]) EXCEPT !.param = plan.param, !.all = TRUE]
        OBVIOUS
    <2>2. Becomes(p, "loaded", d) /\ file' = file /\ old.st = "load" /\ MayPass(file[p])
        BY <1>6, <2>1 DEF LoadShort, At
    <2>3. ~At(p, "down") /\ "loaded" \in St
        BY <2>2 DEF At, St
    <2>4. d \in DataType /\ d.gen = file[p].gen /\ d.ext = file[p].ext
        <3>1. file[p] \in DataType
            BY OwnFacts
        <3>2. plan.param \in Params \cup {NoParam}
            BY OwnFacts
        <3> QED BY ONLY <2>1, <3>1, <3>2, Damaged
    <2>5. file[p].gen # 0
        BY <2>2, OwnFacts DEF OwnData, Real, MayPass
    <2>6. OwnData("loaded", 0, d, file[p], blob[p], spent[p], session, HasName)
        BY <2>4, <2>5, OwnFacts DEF OwnData
    <2> QED BY <2>2, <2>3, <2>4, <2>6, OwnFacts, BecomesKeeps
<1>7. CASE LoadStuck(p)
    <2>1. Becomes(p, "stuck", Uninit) /\ file' = file /\ old.st = "load"
        BY <1>7 DEF LoadStuck, At
    <2>2. ~At(p, "down") /\ "stuck" \in St
        BY <2>1 DEF At, St
    <2>3. OwnData("stuck", 0, Uninit, file[p], blob[p], spent[p], session, HasName)
        BY <2>1, OwnFacts DEF OwnData
    <2> QED BY <2>1, <2>2, <2>3, OwnFacts, BecomesKeeps
<1> QED BY <1>1, <1>2, <1>3, <1>4, <1>5, <1>6, <1>7

\* The destructor, and processes that end
LEMMA EndStep ==
    ASSUME SessInv, NEW p \in Party,
           \/ DestroyUnsaved(p) \/ Truncate(p) \/ WriteHead(p) \/ Save(p)
           \/ RestoreRefused(p) \/ Reload(p)
    PROVE  SessInv'
<1> DEFINE old == proc[p]
<1> USE Markers
<1>1. CASE DestroyUnsaved(p)
    <2>1. Becomes(p, "down", None) /\ file' = file
        BY <1>1 DEF DestroyUnsaved
    <2>2. OwnData("down", 0, None, file[p], blob[p], spent[p], session, HasName)
        BY OwnFacts DEF OwnData
    <2> QED BY <2>1, <2>2, OwnFacts, BecomesKeeps DEF St
<1>2. CASE Truncate(p)
    <2>1. PICK d \in DataType : d = old.mem
        BY OwnFacts
    <2>2. PICK f \in DataType : f = Torn(d) /\ f.gen = d.gen /\ f.ext = d.ext
        BY Damaged
    <2>3. /\ Becomes(p, "closing", d) /\ file' = [file EXCEPT ![p] = f]
          /\ d # None /\ HasName
          /\ old.st = "over" \/ (old.st = "up" /\ old.pos = 0)
        BY <1>2, <2>1, <2>2 DEF Truncate, Destroyed, Finished, At
    <2>4. d.gen # 0 /\ d.gen # blob[p].gen /\ Fresh(d, spent[p])
        BY <2>1, <2>3, OwnFacts DEF OwnData
    <2>5. ~At(p, "down") /\ "closing" \in St
        BY <2>3 DEF At, St
    <2>6. OwnData("closing", 0, d, f, blob[p], spent[p], session, HasName)
        BY <2>1, <2>2, <2>4, OwnFacts DEF OwnData, Fresh, Real
    <2> QED BY <2>3, <2>5, <2>6, OwnFacts, BecomesKeeps
<1>3. CASE WriteHead(p)
    <2>1. PICK d \in DataType : d = old.mem
        BY OwnFacts
    <2>2. PICK f \in DataType : f = Short(d) /\ f.gen = d.gen /\ f.ext = d.ext
        BY Damaged
    <2>3. /\ Becomes(p, "writing", d) /\ file' = [file EXCEPT ![p] = f]
          /\ old.st = "closing"
        BY <1>3, <2>1, <2>2 DEF WriteHead, At
    <2>4. d.gen # 0 /\ d.gen # blob[p].gen /\ Fresh(d, spent[p])
        BY <2>1, <2>3, OwnFacts DEF OwnData
    <2>5. ~At(p, "down") /\ "writing" \in St
        BY <2>3 DEF At, St
    <2>6. OwnData("writing", 0, d, f, blob[p], spent[p], session, HasName)
        BY <2>1, <2>2, <2>4, OwnFacts DEF OwnData, Fresh, Real
    <2> QED BY <2>3, <2>5, <2>6, OwnFacts, BecomesKeeps
<1>4. CASE Save(p)
    <2>1. PICK d \in DataType : d = old.mem
        BY OwnFacts
    <2>2. /\ Becomes(p, "down", None) /\ file' = [file EXCEPT ![p] = d]
          /\ old.st = "writing"
        BY <1>4, <2>1 DEF Save, Written, At
    <2>3. /\ d.gen # 0 /\ d.gen # blob[p].gen /\ Fresh(d, spent[p])
          /\ d.gen <= session
        BY <2>1, <2>2, OwnFacts DEF OwnData
    <2>4. Real(d)
        BY <2>3 DEF Real
    <2> HIDE DEF old
    <2>5. OwnData("down", 0, None, d, blob[p], spent[p], session, HasName)
        BY <2>3, <2>4, OwnFacts DEF OwnData
    <2> QED BY <2>2, <2>5, OwnFacts, BecomesKeeps DEF St
<1>5. CASE RestoreRefused(p)
    <2>1. PICK d \in DataType : d = Spoilt(old.mem) /\ d.gen = old.mem.gen /\ d.ext = old.mem.ext
        BY OwnFacts, Damaged
    <2>2. Goes(p, "over", d) /\ file' = file /\ old.st = "restore"
        <3>1. /\ proc' = [proc EXCEPT ![p] = Enter(proc[p], "over", Spoilt(proc[p].mem))]
              /\ UNCHANGED <<file, blob, wire, plan, session, crashes, spent>>
              /\ mishaps' = mishaps \cup (IF HasName THEN {"refused"} ELSE {})
              /\ old.st = "restore"
            BY <1>5 DEF RestoreRefused, At
        <3> QED BY <2>1, <3>1, OwnFacts DEF Goes
    <2>3. ~At(p, "down") /\ "over" \in St
        BY <2>2 DEF At, St
    <2>4. OwnData("over", 0, d, file[p], blob[p], spent[p], session, HasName)
        BY <2>1, <2>2, OwnFacts DEF OwnData, Fresh
    <2> QED BY <2>2, <2>3, <2>4, OwnFacts, BecomesKeeps
<1>6. CASE Reload(p)
    <2>1. /\ Becomes(p, "restore", old.mem) /\ file' = file
          /\ old.st = "up" /\ old.pos = 0
        BY <1>6 DEF Reload, Finished, At
    <2>2. ~At(p, "down") /\ "restore" \in St
        BY <2>1 DEF At, St
    <2>3. OwnData("restore", 0, old.mem, file[p], blob[p], spent[p], session, HasName)
        BY <2>1, OwnFacts DEF OwnData
    <2> QED BY <2>1, <2>2, <2>3, OwnFacts, BecomesKeeps
<1> QED BY <1>1, <1>2, <1>3, <1>4, <1>5, <1>6

\* The steps that change the blob or count an extension
LEMMA DataStep ==
    ASSUME SessInv, NEW p \in Party, Restore(p) \/ Extend(p) \/ Assemble(p)
    PROVE  SessInv'
<1> DEFINE old == proc[p]
<1> USE Markers
<1>1. /\ TypeInv /\ old \in Obj /\ file \in [Party -> DataType] /\ blob \in [Party -> DataType]
      /\ spent \in [Party -> SUBSET DataType] /\ wire \in [Party -> Seq(DataType)]
      /\ crashes \in Nat /\ mishaps \subseteq {"cut", "refused", "uneven"}
    BY Typing DEF SessInv, TypeInv
<1>2. /\ file' = file => file' = [file EXCEPT ![p] = file[p]]
      /\ blob' = blob => blob' = [blob EXCEPT ![p] = blob[p]]
      /\ spent' = spent => spent' = [spent EXCEPT ![p] = spent[p]]
    BY <1>1
<1>3. CASE Restore(p)
    <2> DEFINE me == Enter(old, "up", blob[p])
    <2>1. /\ old.st = "restore" /\ Readable(blob[p])
          /\ proc' = [proc EXCEPT ![p] = me] /\ blob' = [blob EXCEPT ![p] = None]
          /\ UNCHANGED <<file, wire, plan, session, crashes, spent, mishaps>>
        BY <1>3 DEF Restore, At
    <2>2. ~At(p, "down") /\ "up" \in St
        BY <2>1 DEF At, St
    <2>3. me \in Obj /\ me.st = "up" /\ me.pos = 0 /\ me.mem = blob[p]
        BY <1>1, <2>2, OwnFacts, Entered
    <2> HIDE DEF me
    <2>4. blob[p].gen # 0
        BY <2>1, <2>2, OwnFacts DEF OwnData, Real, Readable
    <2>5. OwnData(me.st, me.pos, me.mem, file[p], None, spent[p], session, HasName)
        <3>1. \A s \in spent[p] : s.gen \in Nat /\ s.ext \in Nat
            BY OwnFacts DEF DataType
        <3>2. blob[p].ext \in Nat
            BY OwnFacts DEF DataType
        <3> HIDE DEF old
        <3> QED BY <2>3, <2>4, <3>1, <3>2, OwnFacts DEF OwnData, Fresh
    <2>6. me.pos <= Len(Turns(me.st))
        BY <2>3, TurnFacts
    <2>7. file' = [file EXCEPT ![p] = file[p]] /\ spent' = [spent EXCEPT ![p] = spent[p]]
        BY <1>2, <2>1
    <2> QED BY <1>1, <2>1, <2>2, <2>3, <2>5, <2>6, <2>7, OwnFacts, Replaces
<1>4. CASE Extend(p)
    <2>1. PICK d \in DataType : d = NextSeed(p)
        <3>1. (p = "ALICE" \/ old.heard = old.mem) \in BOOLEAN
            OBVIOUS
        <3> QED BY <3>1, OwnFacts, ExtendedFacts DEF NextSeed
    <2>2. /\ d.gen = old.mem.gen /\ d.param = old.mem.param /\ d.ext = old.mem.ext + 1
          /\ old.mem.ext \in Nat
        <3>1. PICK good \in BOOLEAN : good = (p = "ALICE" \/ old.heard = old.mem)
            OBVIOUS
        <3>2. d = Extended(old.mem, good)
            BY <2>1, <3>1 DEF NextSeed
        <3> QED BY <3>2, OwnFacts, ExtendedFacts
    <2> DEFINE new == Enter(old, "up", d)
               me == [new EXCEPT !.done = @ + 1]
    <2>3. /\ old.st = "up" /\ proc' = [proc EXCEPT ![p] = me]
          /\ UNCHANGED <<file, blob, wire, plan, session, crashes, spent, mishaps>>
        <3>1. /\ old.st = "up"
              /\ UNCHANGED <<file, blob, wire, plan, session, crashes, spent, mishaps>>
            BY <1>4 DEF Extend, At
        <3>2. proc' = [proc EXCEPT ![p] = [Enter(proc[p], "up", NextSeed(p)) EXCEPT !.done = @ + 1]]
            BY <1>4 DEF Extend
        <3>3. PICK e : e = Enter(old, "up", NextSeed(p))
            OBVIOUS
        <3>4. e = new
            BY <2>1, <3>3
        <3>5. proc' = [proc EXCEPT ![p] = [e EXCEPT !.done = @ + 1]]
            BY <3>2, <3>3
        <3> QED BY <3>1, <3>4, <3>5
    <2>4. ~At(p, "down") /\ "up" \in St
        BY <2>3 DEF At, St
    <2>5. new \in Obj /\ new.st = "up" /\ new.pos = 0 /\ new.mem = d /\ new.done = old.done
        <3>1. old \in Obj
            BY <1>1
        <3> QED BY <2>4, <3>1, Entered
    <2> HIDE DEF new
    <2>6. me \in Obj /\ me.st = "up" /\ me.pos = 0 /\ me.mem = d
        <3>1. PICK k \in Nat : k = new.done + 1
            BY <2>5 DEF Obj
        <3>2. me = [new EXCEPT !.done = k]
            BY <3>1
        <3> QED BY <2>5, <3>1, <3>2 DEF Obj
    <2> HIDE DEF me
    <2>7. OwnData(me.st, me.pos, me.mem, file[p], blob[p], spent[p], session, HasName)
        <3>1. \A s \in spent[p] : s.gen \in Nat /\ s.ext \in Nat
            BY OwnFacts DEF DataType
        <3>2. \A s \in spent[p] : s.gen = d.gen => s.ext < d.ext
            BY <2>2, <2>3, <3>1, OwnFacts DEF OwnData
        <3>3. \A s \in spent[p] : s.gen = d.gen => s.ext <= d.ext
            BY <2>2, <3>1, <3>2
        <3> HIDE DEF old
        <3> QED BY <2>2, <2>3, <2>6, <3>2, <3>3, OwnFacts DEF OwnData, Fresh, old
    <2>8. me.pos <= Len(Turns(me.st))
        BY <2>6, TurnFacts
    <2>9. /\ file' = [file EXCEPT ![p] = file[p]] /\ spent' = [spent EXCEPT ![p] = spent[p]]
          /\ blob' = [blob EXCEPT ![p] = blob[p]]
        BY <1>2, <2>3
    <2>10. /\ wire' \in [Party -> Seq(DataType)] /\ plan' = plan /\ session' = session
           /\ crashes' \in Nat /\ file[p] \in DataType /\ spent[p] \in SUBSET DataType
           /\ blob[p] \in DataType /\ mishaps' \subseteq {"cut", "refused", "uneven"}
        BY <1>1, <2>3, OwnFacts
    <2>11. proc' = [proc EXCEPT ![p] = me]
        BY <2>3
    <2> HIDE DEF old
    <2> QED BY <2>4, <2>6, <2>7, <2>8, <2>9, <2>10, <2>11, Replaces
<1>5. CASE Assemble(p)
    <2> DEFINE me == Enter(old, "over", None)
    <2>1. /\ old.st = "up" /\ old.pos = 0
          /\ proc' = [proc EXCEPT ![p] = me] /\ blob' = [blob EXCEPT ![p] = old.mem]
          /\ UNCHANGED <<file, wire, plan, session, crashes, spent, mishaps>>
        BY <1>5 DEF Assemble, Finished, Freed, At
    <2>2. ~At(p, "down") /\ "over" \in St
        BY <2>1 DEF At, St
    <2>3. me \in Obj /\ me.st = "over" /\ me.pos = 0 /\ me.mem = None
        BY <1>1, <2>2, Entered
    <2> HIDE DEF me
    <2>4. OwnData(me.st, me.pos, me.mem, file[p], old.mem, spent[p], session, HasName)
        BY <2>1, <2>3, OwnFacts DEF OwnData, Fresh, Real
    <2>5. me.pos <= Len(Turns(me.st))
        BY <2>3, TurnFacts
    <2>6. file' = [file EXCEPT ![p] = file[p]] /\ spent' = [spent EXCEPT ![p] = spent[p]]
        BY <1>2, <2>1
    <2>7. /\ wire' \in [Party -> Seq(DataType)] /\ plan' = plan /\ session' = session
          /\ crashes' \in Nat /\ file[p] \in DataType /\ spent[p] \in SUBSET DataType
          /\ old.mem \in DataType /\ mishaps' \subseteq {"cut", "refused", "uneven"}
        BY <1>1, <2>1, OwnFacts
    <2>8. proc' = [proc EXCEPT ![p] = me] /\ blob' = [blob EXCEPT ![p] = old.mem]
        BY <2>1
    <2> HIDE DEF old
    <2> QED BY <2>2, <2>3, <2>4, <2>5, <2>6, <2>7, <2>8, Replaces
<1> QED BY <1>3, <1>4, <1>5

\* A process that dies leaves what is on disk.
LEMMA DieStep ==
    ASSUME SessInv, NEW p \in Party, Crash(p) \/ Kill(p)
    PROVE  SessInv'
<1> DEFINE me == Enter(proc[p], "down", None)
<1> USE Markers
<1>1. /\ TypeInv /\ proc[p] \in Obj /\ file \in [Party -> DataType]
      /\ blob \in [Party -> DataType] /\ spent \in [Party -> SUBSET DataType]
      /\ wire \in [Party -> Seq(DataType)] /\ crashes \in Nat
    BY Typing DEF SessInv, TypeInv
<1>2. /\ proc' = [proc EXCEPT ![p] = me] /\ crashes' \in Nat
      /\ UNCHANGED <<file, blob, wire, plan, session, spent>>
      /\ mishaps' \subseteq {"cut", "refused", "uneven"}
    <2>1. crashes' = crashes \/ crashes' = crashes + 1
        BY DEF Crash, Kill
    <2>2. crashes' \in Nat
        BY <1>1, <2>1
    <2>3. /\ mishaps \subseteq {"cut", "refused", "uneven"}
          /\ mishaps' \subseteq mishaps \cup {"cut", "uneven"}
        BY OwnFacts DEF Crash, Kill
    <2> QED BY <2>2, <2>3 DEF Crash, Kill, Die
<1>3. me \in Obj /\ me.st = "down" /\ me.pos = 0 /\ me.mem = None
    <2>1. "down" \in St
        BY DEF St
    <2> QED BY <1>1, <2>1, Entered
<1> HIDE DEF me
<1>4. OwnData(me.st, me.pos, me.mem, file[p], blob[p], spent[p], session, HasName)
    BY <1>3, OwnFacts DEF OwnData
<1>5. /\ file' = [file EXCEPT ![p] = file[p]] /\ spent' = [spent EXCEPT ![p] = spent[p]]
      /\ blob' = [blob EXCEPT ![p] = blob[p]]
    BY <1>1, <1>2
<1>6. file[p] \in DataType /\ blob[p] \in DataType /\ spent[p] \in SUBSET DataType
    BY <1>1
<1>7. wire' \in [Party -> Seq(DataType)] /\ plan' = plan /\ session' = session
    BY <1>1, <1>2
<1>8. proc' = [proc EXCEPT ![p] = me] /\ crashes' \in Nat /\ mishaps' \subseteq {"cut", "refused", "uneven"}
    BY <1>2
<1> QED BY <1>3, <1>4, <1>5, <1>6, <1>7, <1>8, Replaces

\* A new run begins with a generation that nobody has.
LEMMA ConnectStep ==
    ASSUME SessInv, Connect
    PROVE  SessInv'
<1> USE Markers
<1>1. /\ TypeInv /\ file \in [Party -> DataType] /\ blob \in [Party -> DataType]
      /\ spent \in [Party -> SUBSET DataType] /\ session \in Nat /\ crashes \in Nat
      /\ MaxExt \in Nat /\ mishaps \subseteq {"cut", "refused", "uneven"}
    BY SessionAssumption DEF SessInv, TypeInv
<1>2. /\ session' = session + 1 /\ UNCHANGED <<file, blob, crashes, spent, mishaps>>
      /\ plan' \in [param : Params, start : {"hello", "restore"}, ext : 0..MaxExt, end : Ends]
      /\ proc' = [p \in Party |-> Object(plan'.start)]
      /\ wire' = [p \in Party |-> <<>>]
    BY DEF Connect
<1>3. PICK k : k = session'
    OBVIOUS
<1>4. k \in Nat /\ k = session + 1 /\ k > 0
    BY <1>1, <1>2, <1>3
<1>5. /\ plan' \in Plan /\ plan'.param \in Params /\ plan'.start \in {"hello", "restore"}
    BY <1>1, <1>2 DEF Plan
<1>6. PICK st \in {"hello", "restore"} : st = plan'.start
    BY <1>5
<1>7. Object(st) \in Obj /\ Object(st).st = st /\ Object(st).pos = 0 /\ Object(st).mem = None
    BY DEF Object, Obj, St
<1>8. /\ \A p \in Party : proc'[p] = Object(st)
      /\ proc' \in [Party -> Obj] /\ wire' \in [Party -> Seq(DataType)]
    BY <1>2, <1>6, <1>7
<1>9. TypeInv'
    <2>1. ASSUME NEW p \in Party
          PROVE  proc'[p].pos <= Len(Turns(proc'[p].st)) /\ plan'.param \in Params /\ session' > 0
        BY <1>3, <1>4, <1>5, <1>7, <1>8, TurnFacts
    <2> QED BY <1>1, <1>2, <1>3, <1>4, <1>5, <1>8, <2>1 DEF TypeInv
<1>10. ASSUME NEW p \in Party PROVE OwnInv(p)'
    <2>1. OwnData(st, 0, None, file[p], blob[p], spent[p], k, st = "hello")
        <3>1. \A s \in spent[p] : s.gen \in Nat
            BY OwnFacts DEF SessInv, DataType
        <3> QED BY <1>4, <1>6, <3>1, OwnFacts DEF OwnData, Fresh
    <2>2. HasName' = (st = "hello")
        BY <1>6 DEF HasName
    <2>3. /\ proc'[p].st = st /\ proc'[p].pos = 0 /\ proc'[p].mem = None
          /\ file'[p] = file[p] /\ blob'[p] = blob[p] /\ spent'[p] = spent[p]
        BY <1>2, <1>7, <1>8
    <2> QED BY <1>3, <2>1, <2>2, <2>3 DEF OwnInv
<1> QED BY <1>9, <1>10 DEF SessInv

\* Before the first run there is nothing.
LEMMA InitSess == Init => SessInv
<1> SUFFICES ASSUME Init PROVE SessInv
    OBVIOUS
<1> USE Markers
<1>1. /\ proc = [p \in Party |-> Object("down")] /\ session = 0 /\ crashes = 0
      /\ file = [p \in Party |-> None] /\ blob = [p \in Party |-> None]
      /\ wire = [p \in Party |-> <<>>] /\ spent = [p \in Party |-> {}] /\ mishaps = {}
      /\ plan = [param |-> NoParam, start |-> "hello", ext |-> 0, end |-> "destroy"]
    BY DEF Init
<1>2. Object("down") \in Obj /\ Object("down").st = "down" /\ Object("down").mem = None
    BY DEF Object, Obj, St
<1>3. plan \in Plan
    BY <1>1 DEF Plan, NoParam
<1>4. TypeInv
    BY <1>1, <1>2, <1>3 DEF TypeInv, At
<1>5. \A p \in Party : OwnInv(p)
    BY <1>1, <1>2 DEF OwnInv, OwnData, Fresh
<1> QED BY <1>4, <1>5 DEF SessInv

\* The invariant of the parties holds in every reachable state.
THEOREM Invariance == Spec => []SessInv
<1>1. Init => SessInv
    BY InitSess
<1>2. SessInv /\ [Next]_vars => SessInv'
    <2> SUFFICES ASSUME SessInv, [Next]_vars PROVE SessInv'
        OBVIOUS
    <2>1. CASE Connect
        BY <2>1, ConnectStep
    <2>2. ASSUME NEW p \in Party, Step(p) PROVE SessInv'
        BY <2>2, TalkStep, SetupStep, DataStep, EndStep DEF Step
    <2>3. ASSUME NEW p \in Party, Crash(p) \/ Kill(p) PROVE SessInv'
        BY <2>3, DieStep
    <2>4. CASE UNCHANGED vars
        BY <2>4 DEF vars, SessInv, TypeInv, OwnInv, OwnData, Fresh, Real, HasName, At
    <2> QED BY <2>1, <2>2, <2>3, <2>4 DEF Next
<1> QED BY <1>1, <1>2, PTL DEF Spec

\* The variables keep their types, and no conversation goes past its end.
THEOREM TypeCorrect == Spec => []TypeOK
<1>1. SessInv => TypeOK
    BY DEF SessInv, TypeInv, TypeOK, Obj, St
<1> QED BY <1>1, Invariance, PTL

(* No pre-computed data seed two extensions, in this run or in a later one,
   whatever crashes: what memory, file or blob would bring back has never been
   used by this party. *)
THEOREM NoReuse == Spec => []NoReplay
<1>1. SessInv => NoReplay
    <2> SUFFICES ASSUME SessInv, NEW p \in Party
                 PROVE  /\ file[p] \notin spent[p] /\ blob[p] \notin spent[p]
                        /\ At(p, "up") /\ proc[p].pos = 0 => proc[p].mem \notin spent[p]
        BY DEF NoReplay
    <2>1. ASSUME NEW d \in DataType, Fresh(d, spent[p]) PROVE d \notin spent[p]
        <3>1. d.ext \in Nat
            BY DEF DataType
        <3> QED BY <2>1, <3>1 DEF Fresh
    <2> QED BY <2>1, OwnFacts DEF OwnData, At
<1> QED BY <1>1, Invariance, PTL

(*---------------------- the invariant of the two ends -------------------*)
(* A run begins with F in the file and L in the blob of both ends.  What the
   data of the run are before its first extension, and after e of them *)
Origin(F, L) == IF HasName THEN IF F # None THEN F ELSE Data(session, 0) ELSE L
After(F, L, e) == [Origin(F, L) EXCEPT !.ext = @ + e]

\* The run gets as far as its extensions.
Fits(F, L) == IF HasName THEN F = None \/ Readable(F) ELSE Readable(L)

\* What the data leave behind where they were
LeftFile(F) == IF HasName THEN None ELSE F
LeftBlob(L) == IF HasName THEN L ELSE None

\* What a run that goes back to L in the end writes and keeps
Reloads == HasName /\ plan.end = "reload"
Final(F, L) == IF Reloads /\ L # None THEN L ELSE After(F, L, plan.ext)
KeptBlob(L) == IF Reloads THEN None ELSE LeftBlob(L)

\* What p has, with me, f and b, at its place in such a run without a mishap
Stage(p, me, f, b, F, L) ==
    /\ me.st # "stuck"
    /\ me.st \in {"hello", "load", "loaded", "gen"} =>
          f = F /\ b = L /\ me.done = 0 /\ HasName
    /\ me.st = "hello" /\ (me.pos = 2 \/ (me.pos = 1 /\ p = "BOB")) => me.heard = F
    /\ me.st \in {"load", "loaded"} => F # None
    /\ me.st = "loaded" => Readable(F) /\ me.mem = F
    /\ me.st = "gen" => F = None /\ me.mem = Uninit
    /\ me.st = "restore" =>
          \/ ~HasName /\ f = F /\ b = L /\ me.done = 0
          \/ /\ Reloads /\ L # None /\ Fits(F, L)
             /\ f = LeftFile(F) /\ b = L /\ me.done = plan.ext
    /\ me.st = "up" =>
          /\ Fits(F, L) /\ f = LeftFile(F) /\ me.done <= plan.ext
          /\ \/ b = LeftBlob(L) /\ me.mem = After(F, L, me.done)
             \/ /\ Reloads /\ L # None /\ b = None /\ me.mem = L
                /\ me.done = plan.ext /\ me.pos = 0
          /\ me.pos > 0 => me.done < plan.ext /\ (p = "BOB" => me.heard = me.mem)
    /\ me.st \in {"closing", "writing"} =>
          /\ HasName /\ Fits(F, L) /\ plan.end # "assemble"
          /\ b = KeptBlob(L) /\ me.mem = Final(F, L)
    /\ me.st = "closing" => f = Torn(me.mem)
    /\ me.st = "writing" => f = Short(me.mem)
    /\ me.st = "over" =>
          \/ ~HasName /\ ~Fits(F, L) /\ f = F /\ b = L
          \/ /\ Fits(F, L) /\ plan.end = "assemble" /\ me.mem = None
             /\ f = LeftFile(F) /\ b = After(F, L, plan.ext)
    /\ me.st = "down" =>
          /\ f = IF ~Fits(F, L) THEN F
                 ELSE IF HasName /\ plan.end # "assemble" THEN Final(F, L)
                 ELSE LeftFile(F)
          /\ b = IF ~Fits(F, L) THEN L
                 ELSE IF plan.end = "assemble" THEN After(F, L, plan.ext)
                 ELSE KeptBlob(L)

(* The turns of a run in order: <<0, 0, k>> is turn k of the exchange of
   hasfile, <<1, 0, k>> of the generation, <<2, e, k>> of extension e. *)
TurnPlace == {0, 1, 2} \X Nat \X Nat
TurnsOf(ph) == IF ph = 0 THEN HelloTurns ELSE IF ph = 1 THEN GenTurns ELSE ExtendTurns
BehindHello(F) == IF F = None THEN <<1, 0, 0>> ELSE <<2, 0, 0>>

\* The place of the next turn of a party
PlaceOf(me, F, L) ==
    CASE me.st = "hello" -> IF me.pos < Len(HelloTurns) THEN <<0, 0, me.pos>> ELSE BehindHello(F)
      [] me.st = "gen" -> IF me.pos < Len(GenTurns) THEN <<1, 0, me.pos>> ELSE <<2, 0, 0>>
      [] me.st = "up" -> IF me.pos < Len(ExtendTurns) THEN <<2, me.done, me.pos>>
                                                      ELSE <<2, me.done + 1, 0>>
      [] me.st \in {"load", "loaded"} -> <<2, 0, 0>>
      [] me.st = "restore" -> <<2, me.done, 0>>
      [] OTHER -> <<2, IF Fits(F, L) THEN plan.ext ELSE 0, 0>>

Speaker(x) == TurnsOf(x[1])[x[3] + 1]
NextTurn(x, F) ==
    IF x[3] + 1 < Len(TurnsOf(x[1])) THEN <<x[1], x[2], x[3] + 1>>
    ELSE IF x[1] = 0 THEN BehindHello(F)
    ELSE IF x[1] = 1 THEN <<2, 0, 0>> ELSE <<2, x[2] + 1, 0>>
SaidAt(x, F, L) == IF x[1] = 0 THEN F ELSE IF x[1] = 1 THEN Uninit ELSE After(F, L, x[2])

Before(x, y) ==
    x[1] < y[1] \/ (x[1] = y[1] /\ (x[2] < y[2] \/ (x[2] = y[2] /\ x[3] < y[3])))

\* The turns from x up to y are all p's, and q is what p says in them.
Chain(p, x, y, q, F, L) ==
    \E s \in Seq(TurnPlace) :
        /\ Len(s) = Len(q) + 1 /\ s[1] = x /\ s[Len(q) + 1] = y
        /\ \A i \in 1..Len(q) : /\ s[i + 1] = NextTurn(s[i], F) /\ Speaker(s[i]) = p
                                /\ q[i] = SaidAt(s[i], F, L) /\ Before(s[i], y)

PlaceIn(p, F, L) == PlaceOf(proc[p], F, L)

\* One of the two ends is ahead by turns of its own only.
Ahead(p, F, L) ==
    /\ wire[p] = <<>>
    /\ Chain(p, PlaceIn(Peer(p), F, L), PlaceIn(p, F, L), wire[Peer(p)], F, L)

Whole(d) == d.good /\ d.all

Pair(F, L) ==
    /\ F \in DataType /\ L \in DataType /\ Whole(F) /\ Whole(L)
    /\ \A p \in Party : Stage(p, proc[p], file[p], blob[p], F, L)
    /\ \E p \in Party : Ahead(p, F, L)

LockInv == crashes = 0 /\ mishaps = {} => \E F, L \in DataType : Pair(F, L)

(*------------------------ lemmas about the turns ------------------------*)
\* In a run its parameters stay, and what follows from them.
LEMMA RunRigid ==
    ASSUME plan' = plan, session' = session
    PROVE  /\ HasName' = HasName
           /\ \A F, L : Fits(F, L)' = Fits(F, L) /\ Origin(F, L)' = Origin(F, L)
           /\ \A F, L, e : After(F, L, e)' = After(F, L, e)
           /\ \A F : LeftFile(F)' = LeftFile(F) /\ LeftBlob(F)' = LeftBlob(F)
           /\ Reloads' = Reloads
           /\ \A F, L : Final(F, L)' = Final(F, L) /\ KeptBlob(L)' = KeptBlob(L)
<1>1. HasName' = HasName
    BY DEF HasName
<1>2. \A F, L : Fits(F, L)' = Fits(F, L)
    BY <1>1 DEF Fits, Readable
<1>3. \A F, L : Origin(F, L)' = Origin(F, L)
    BY <1>1 DEF Origin, Data
<1>4. \A F, L, e : After(F, L, e)' = After(F, L, e)
    BY <1>3 DEF After
<1>5. \A F : LeftFile(F)' = LeftFile(F) /\ LeftBlob(F)' = LeftBlob(F)
    BY <1>1 DEF LeftFile, LeftBlob
<1>6. Reloads' = Reloads
    BY <1>1 DEF Reloads
<1>7. \A F, L : Final(F, L)' = Final(F, L) /\ KeptBlob(L)' = KeptBlob(L)
    BY <1>4, <1>5, <1>6 DEF Final, KeptBlob
<1> QED BY <1>1, <1>2, <1>3, <1>4, <1>5, <1>6, <1>7

\* So do the places and stages.
LEMMA StageRigid ==
    ASSUME plan' = plan, session' = session, NEW F, NEW L
    PROVE  /\ \A p, me, f, b : Stage(p, me, f, b, F, L)' = Stage(p, me, f, b, F, L)
           /\ \A me : PlaceOf(me, F, L)' = PlaceOf(me, F, L)
           /\ \A x : SaidAt(x, F, L)' = SaidAt(x, F, L)
<1>1. \A p, me, f, b : Stage(p, me, f, b, F, L)' = Stage(p, me, f, b, F, L)
    BY RunRigid DEF Stage, Readable
<1>2. \A me : PlaceOf(me, F, L)' = PlaceOf(me, F, L)
    BY RunRigid DEF PlaceOf
<1>3. \A x : SaidAt(x, F, L)' = SaidAt(x, F, L)
    BY RunRigid DEF SaidAt
<1> QED BY <1>1, <1>2, <1>3

\* The data of a run, after any number of extensions
LEMMA AfterFacts ==
    ASSUME TypeInv, NEW F \in DataType, NEW L \in DataType, Whole(F), Whole(L), NEW e \in Nat
    PROVE  /\ After(F, L, e) \in DataType /\ Whole(After(F, L, e))
           /\ After(F, L, 0) = Origin(F, L)
           /\ Extended(After(F, L, e), TRUE) = After(F, L, e + 1)
<1>1. PICK d \in DataType : d = Origin(F, L) /\ Whole(d)
    <2>1. 0 \in Nat
        OBVIOUS
    <2>2. Data(session, 0) \in DataType /\ Whole(Data(session, 0))
        BY <2>1, DataFacts DEF Whole
    <2> QED BY <2>2 DEF Origin
<1>2. PICK n \in Nat : n = d.ext
    BY DEF DataType
<1>3. d \in [gen : Nat, param : Params \cup {NoParam}, ext : Nat, good : BOOLEAN,
             all : BOOLEAN]
    BY DEF DataType
<1>4. d.good = TRUE /\ d.all = TRUE
    BY <1>1, <1>3 DEF Whole
<1>5. \A k \in Nat : /\ [d EXCEPT !.ext = n + k] \in DataType
                     /\ [d EXCEPT !.ext = n + k].good = TRUE
                     /\ [d EXCEPT !.ext = n + k].all = TRUE
                     /\ [d EXCEPT !.ext = n + k].ext = n + k
    <2> TAKE k \in Nat
    <2>1. n + k \in Nat
        OBVIOUS
    <2> QED BY <1>3, <1>4, <2>1 DEF DataType
<1>6. \A k \in Nat : After(F, L, k) = [d EXCEPT !.ext = n + k]
    BY <1>1, <1>2 DEF After
<1>7. After(F, L, 0) = d
    <2>1. n + 0 = n /\ 0 \in Nat
        OBVIOUS
    <2>2. [d EXCEPT !.ext = n] = d
        BY <1>2, <1>3
    <2>3. After(F, L, 0) = [d EXCEPT !.ext = n + 0]
        BY <1>6, <2>1
    <2> QED BY <2>1, <2>2, <2>3
<1>8. Extended([d EXCEPT !.ext = n + e], TRUE) = [d EXCEPT !.ext = n + (e + 1)]
    <2>1. Extended([d EXCEPT !.ext = n + e], TRUE) = [d EXCEPT !.ext = (n + e) + 1]
        BY <1>3, <1>4, <1>5 DEF Extended
    <2>2. (n + e) + 1 = n + (e + 1)
        OBVIOUS
    <2> QED BY <2>1, <2>2
<1>9. e + 1 \in Nat
    OBVIOUS
<1> QED BY <1>1, <1>5, <1>6, <1>7, <1>8, <1>9 DEF Whole

\* Every turn comes before the next one.
LEMMA NextTurnAfter ==
    ASSUME NEW x \in TurnPlace, NEW F
    PROVE  NextTurn(x, F) \in TurnPlace /\ Before(x, NextTurn(x, F))
<1>1. /\ x[1] \in {0, 1, 2} /\ x[2] \in Nat /\ x[3] \in Nat
      /\ x = <<x[1], x[2], x[3]>>
    BY DEF TurnPlace
<1>2. CASE x[3] + 1 < Len(TurnsOf(x[1]))
    <2>1. NextTurn(x, F) = <<x[1], x[2], x[3] + 1>>
        BY <1>2 DEF NextTurn
    <2> QED BY <1>1, <2>1 DEF TurnPlace, Before
<1>3. CASE ~(x[3] + 1 < Len(TurnsOf(x[1])))
    <2>1. NextTurn(x, F) = IF x[1] = 0 THEN BehindHello(F)
                           ELSE IF x[1] = 1 THEN <<2, 0, 0>> ELSE <<2, x[2] + 1, 0>>
        BY <1>3 DEF NextTurn
    <2> QED BY <1>1, <2>1 DEF TurnPlace, Before, BehindHello
<1> QED BY <1>2, <1>3

\* The order of the turns is transitive.
LEMMA BeforeTrans ==
    ASSUME NEW x \in TurnPlace, NEW y \in TurnPlace, NEW z \in TurnPlace,
           Before(x, y), Before(y, z)
    PROVE  Before(x, z)
<1>1. /\ x[1] \in Nat /\ y[1] \in Nat /\ z[1] \in Nat /\ x[2] \in Nat /\ y[2] \in Nat
      /\ z[2] \in Nat /\ x[3] \in Nat /\ y[3] \in Nat /\ z[3] \in Nat
    BY DEF TurnPlace
<1> QED BY <1>1 DEF Before

\* Nothing is on its way between parties at the same place.
LEMMA ChainEmpty ==
    ASSUME NEW p, NEW x \in TurnPlace, NEW F, NEW L
    PROVE  Chain(p, x, x, <<>>, F, L) /\ Chain(p, x, x, <<>>, F, L)'
<1> DEFINE s == <<x>>
<1>1. s \in Seq(TurnPlace) /\ Len(s) = 1 /\ s[1] = x
    OBVIOUS
<1> HIDE DEF s
<1>2. Chain(p, x, x, <<>>, F, L)
    BY <1>1 DEF Chain
<1>3. Chain(p, x, x, <<>>, F, L)'
    BY <1>1 DEF Chain
<1> QED BY <1>2, <1>3

\* Where the two ends of a chain are
LEMMA ChainEnds ==
    ASSUME NEW p, NEW x, NEW y, NEW q \in Seq(DataType), NEW F, NEW L,
           Chain(p, x, y, q, F, L)
    PROVE  x = y \/ (q # <<>> /\ Before(x, y) /\ Speaker(x) = p)
<1>1. PICK s \in Seq(TurnPlace) :
        /\ Len(s) = Len(q) + 1 /\ s[1] = x /\ s[Len(q) + 1] = y
        /\ \A i \in 1..Len(q) : Speaker(s[i]) = p /\ Before(s[i], y)
    BY DEF Chain
<1>2. CASE q = <<>>
    BY <1>1, <1>2
<1>3. CASE q # <<>>
    <2>1. 1 \in 1..Len(q)
        BY <1>3
    <2> QED BY <1>1, <1>3, <2>1
<1> QED BY <1>2, <1>3

\* An empty chain ends where it begins, the head of another is from its first turn.
LEMMA ChainTail ==
    ASSUME NEW p, NEW x, NEW y, NEW q \in Seq(DataType), NEW F, NEW L,
           Chain(p, x, y, q, F, L)
    PROVE  /\ q = <<>> => x = y
           /\ q # <<>> => /\ Speaker(x) = p /\ Head(q) = SaidAt(x, F, L)
                          /\ Chain(p, NextTurn(x, F), y, Tail(q), F, L)
<1> DEFINE n == Len(q)
           w == Tail(q)
<1>1. PICK s \in Seq(TurnPlace) :
        /\ Len(s) = n + 1 /\ s[1] = x /\ s[n + 1] = y
        /\ \A i \in 1..n : /\ s[i + 1] = NextTurn(s[i], F) /\ Speaker(s[i]) = p
                           /\ q[i] = SaidAt(s[i], F, L) /\ Before(s[i], y)
    BY DEF Chain
<1>2. CASE q = <<>>
    BY <1>1, <1>2
<1>3. CASE q # <<>>
    <2> DEFINE t == Tail(s)
    <2>1. /\ n \in Nat /\ n > 0 /\ Len(w) = n - 1 /\ Head(q) = q[1]
          /\ \A i \in 1..(n - 1) : w[i] = q[i + 1]
        BY <1>3
    <2>2. /\ t \in Seq(TurnPlace) /\ Len(t) = n /\ \A i \in 1..n : t[i] = s[i + 1]
        BY <1>1, <2>1
    <2> HIDE DEF n, w, t
    <2>3. /\ Speaker(x) = p /\ Head(q) = SaidAt(x, F, L)
          /\ t[1] = NextTurn(x, F) /\ t[n] = y
        <3>1. 1 \in 1..n /\ n \in 1..n
            BY <2>1
        <3> QED BY <1>1, <2>1, <2>2, <3>1
    <2>4. ASSUME NEW i \in 1..(n - 1)
          PROVE  /\ t[i + 1] = NextTurn(t[i], F) /\ Speaker(t[i]) = p
                 /\ w[i] = SaidAt(t[i], F, L) /\ Before(t[i], y)
        <3>1. i \in 1..n /\ i + 1 \in 1..n
            BY <2>1
        <3>2. t[i] = s[i + 1] /\ t[i + 1] = s[(i + 1) + 1] /\ w[i] = q[i + 1]
            BY <2>1, <2>2, <3>1
        <3> QED BY <1>1, <3>1, <3>2
    <2>5. Len(t) = Len(w) + 1 /\ t[Len(w) + 1] = y
        BY <2>1, <2>2, <2>3
    <2>6. Chain(p, NextTurn(x, F), y, w, F, L)
        BY <2>1, <2>2, <2>3, <2>4, <2>5 DEF Chain
    <2> QED BY <1>3, <2>3, <2>6 DEF w
<1> QED BY <1>2, <1>3

\* The next thing p says makes the chain longer.
LEMMA ChainAppend ==
    ASSUME NEW p, NEW x, NEW y \in TurnPlace, NEW q \in Seq(DataType), NEW F, NEW L,
           Chain(p, x, y, q, F, L), Speaker(y) = p, NEW m \in DataType,
           m = SaidAt(y, F, L)
    PROVE  Chain(p, x, NextTurn(y, F), Append(q, m), F, L)
<1> DEFINE n == Len(q)
           z == NextTurn(y, F)
           w == Append(q, m)
<1>1. PICK s \in Seq(TurnPlace) :
        /\ Len(s) = n + 1 /\ s[1] = x /\ s[n + 1] = y
        /\ \A i \in 1..n : /\ s[i + 1] = NextTurn(s[i], F) /\ Speaker(s[i]) = p
                           /\ q[i] = SaidAt(s[i], F, L) /\ Before(s[i], y)
    BY DEF Chain
<1>2. z \in TurnPlace /\ Before(y, z)
    BY NextTurnAfter
<1> DEFINE t == Append(s, z)
<1>3. /\ n \in Nat /\ Len(w) = n + 1 /\ w[n + 1] = m /\ \A i \in 1..n : w[i] = q[i]
    OBVIOUS
<1> HIDE DEF z
<1>4. /\ t \in Seq(TurnPlace) /\ Len(t) = n + 2 /\ t[n + 2] = z
      /\ \A i \in 1..(n + 1) : t[i] = s[i] /\ s[i] \in TurnPlace
    BY <1>1, <1>2, <1>3
<1> HIDE DEF t, n, w
<1>5. ASSUME NEW i \in 1..(n + 1)
      PROVE  /\ t[i + 1] = NextTurn(t[i], F) /\ Speaker(t[i]) = p
             /\ w[i] = SaidAt(t[i], F, L) /\ Before(t[i], z)
    <2>1. CASE i <= n
        <3>1. i \in 1..n /\ i + 1 \in 1..(n + 1) /\ i \in 1..(n + 1)
            BY <1>3, <2>1
        <3>2. t[i + 1] = s[i + 1] /\ t[i] = s[i] /\ w[i] = q[i] /\ s[i] \in TurnPlace
            BY <1>3, <1>4, <3>1
        <3>3. Before(s[i], z)
            BY <1>1, <1>2, <3>1, <3>2, BeforeTrans
        <3> QED BY <1>1, <3>1, <3>2, <3>3
    <2>2. CASE i = n + 1
        <3>1. t[i] = y /\ t[i + 1] = z /\ w[i] = m
            BY <1>1, <1>3, <1>4, <2>2
        <3> QED BY <1>2, <3>1 DEF z
    <2> QED BY <1>3, <2>1, <2>2
<1>6. t[1] = x /\ Len(w) + 1 = n + 2 /\ t[Len(w) + 1] = z
    BY <1>1, <1>3, <1>4
<1> QED BY <1>3, <1>4, <1>5, <1>6 DEF Chain, w, z

(*---------------------- steps of the two ends together ------------------*)
\* What has been said in a run stays right.
LEMMA ChainRigid ==
    ASSUME plan' = plan, session' = session, NEW p, NEW x, NEW y, NEW q, NEW F, NEW L,
           Chain(p, x, y, q, F, L)
    PROVE  Chain(p, x, y, q, F, L)'
<1>1. PICK s \in Seq(TurnPlace) :
        /\ Len(s) = Len(q) + 1 /\ s[1] = x /\ s[Len(q) + 1] = y
        /\ \A i \in 1..Len(q) : /\ s[i + 1] = NextTurn(s[i], F) /\ Speaker(s[i]) = p
                                /\ q[i] = SaidAt(s[i], F, L) /\ Before(s[i], y)
    BY DEF Chain
<1>2. \A i \in 1..Len(q) : q[i] = SaidAt(s[i], F, L)'
    BY <1>1, StageRigid
<1> QED BY <1>1, <1>2 DEF Chain

\* Every party is at a turn.
LEMMA PlaceType ==
    ASSUME TypeInv, NEW me \in Obj, NEW F, NEW L
    PROVE  PlaceOf(me, F, L) \in TurnPlace
<1>1. me.pos \in Nat /\ me.done \in Nat /\ me.done + 1 \in Nat /\ plan.ext \in Nat
    BY DEF Obj, TypeInv, Plan
<1> QED BY <1>1 DEF PlaceOf, TurnPlace, BehindHello

(* A step in which p says and hears nothing keeps the pair together when p comes
   to a stage of the run and stays at its turn. *)
LEMMA QuietKeeps ==
    ASSUME SessInv, NEW F, NEW L, Pair(F, L), NEW p \in Party,
           NEW me, NEW f, NEW b,
           proc' = [proc EXCEPT ![p] = me], file' = [file EXCEPT ![p] = f],
           blob' = [blob EXCEPT ![p] = b], UNCHANGED <<wire, plan, session>>,
           Stage(p, me, f, b, F, L), PlaceOf(me, F, L) = PlaceIn(p, F, L)
    PROVE  Pair(F, L)'
<1>1. /\ proc'[p] = me /\ file'[p] = f /\ blob'[p] = b
      /\ \A q \in Party : q # p => /\ proc'[q] = proc[q] /\ file'[q] = file[q]
                                   /\ blob'[q] = blob[q]
    BY DEF SessInv, TypeInv
<1>2. ASSUME NEW q \in Party
      PROVE  /\ Stage(q, proc'[q], file'[q], blob'[q], F, L)
             /\ PlaceOf(proc'[q], F, L) = PlaceIn(q, F, L)
    <2>1. CASE q = p
        BY <1>1, <2>1
    <2>2. CASE q # p
        BY <1>1, <2>2 DEF Pair, PlaceIn
    <2> QED BY <2>1, <2>2
<1>3. \A q \in Party : Stage(q, proc[q], file[q], blob[q], F, L)'
    BY <1>2, StageRigid
<1>4. \A q \in Party : PlaceIn(q, F, L)' = PlaceIn(q, F, L)
    BY <1>2, StageRigid DEF PlaceIn
<1>5. PICK q \in Party : Ahead(q, F, L)
    BY DEF Pair
<1>6. Ahead(q, F, L)'
    <2>1. PICK x : x = PlaceIn(Peer(q), F, L)
        OBVIOUS
    <2>2. PICK y : y = PlaceIn(q, F, L)
        OBVIOUS
    <2>3. PICK w : w = wire[Peer(q)]
        OBVIOUS
    <2>4. PlaceIn(Peer(q), F, L)' = x /\ PlaceIn(q, F, L)' = y /\ wire'[Peer(q)] = w
        BY <1>4, <2>1, <2>2, <2>3, Typing DEF SessInv
    <2>5. Chain(q, x, y, w, F, L)
        BY <1>5, <2>1, <2>2, <2>3 DEF Ahead
    <2>6. Chain(q, x, y, w, F, L)'
        BY <2>5, ChainRigid
    <2>7. Chain(q, PlaceIn(Peer(q), F, L), PlaceIn(q, F, L), wire[Peer(q)], F, L)'
        BY <2>4, <2>6
    <2> QED BY <1>5, <2>7 DEF Ahead
<1> QED BY <1>3, <1>6 DEF Pair

\* The object of p after a step that replaces its state and its memory
LEMMA Becoming ==
    ASSUME SessInv, NEW p \in Party, NEW s \in St, NEW d \in DataType,
           Becomes(p, s, d) \/ Goes(p, s, d)
    PROVE  \E me \in Obj :
              /\ me.st = s /\ me.pos = 0 /\ me.mem = d /\ me.done = proc[p].done
              /\ proc' = [proc EXCEPT ![p] = me] /\ blob' = [blob EXCEPT ![p] = blob[p]]
              /\ UNCHANGED <<wire, plan, session>>
<1>1. TypeInv /\ proc[p] \in Obj /\ blob \in [Party -> DataType]
    BY Typing DEF SessInv, TypeInv
<1>2. PICK me : me = Enter(proc[p], s, d)
    OBVIOUS
<1>3. me \in Obj /\ me.st = s /\ me.pos = 0 /\ me.mem = d /\ me.done = proc[p].done
    BY <1>1, <1>2, Entered
<1>4. proc' = [proc EXCEPT ![p] = me] /\ blob' = [blob EXCEPT ![p] = blob[p]]
      /\ UNCHANGED <<wire, plan, session>>
    BY <1>1, <1>2, BecomesGoes DEF Goes
<1> QED BY <1>3, <1>4

\* What the pair says of p, with its types
LEMMA PairFacts ==
    ASSUME SessInv, NEW F, NEW L, Pair(F, L), NEW p \in Party
    PROVE  /\ TypeInv /\ F \in DataType /\ L \in DataType /\ Whole(F) /\ Whole(L)
           /\ Stage(p, proc[p], file[p], blob[p], F, L)
           /\ proc[p] \in Obj /\ proc[p].st \in St /\ proc[p].pos \in Nat
           /\ proc[p].done \in Nat /\ plan.ext \in Nat
           /\ proc[p].mem \in DataType /\ file[p] \in DataType /\ blob[p] \in DataType
           /\ file' = file => file' = [file EXCEPT ![p] = file[p]]
           /\ plan.start \in {"hello", "restore"}
           /\ After(F, L, 0) = Origin(F, L)
           /\ ~At(p, "down") => proc[p].pos <= Len(Turns(proc[p].st))
<1>1. TypeInv /\ F \in DataType /\ L \in DataType /\ Whole(F) /\ Whole(L)
      /\ Stage(p, proc[p], file[p], blob[p], F, L)
    BY DEF SessInv, Pair
<1>2. After(F, L, 0) = Origin(F, L)
    <2>1. 0 \in Nat
        OBVIOUS
    <2> QED BY <1>1, <2>1, AfterFacts
<1>3. plan.ext \in Nat /\ plan.start \in {"hello", "restore"}
    BY <1>1 DEF TypeInv, Plan
<1>4. file' = file => file' = [file EXCEPT ![p] = file[p]]
    BY <1>1 DEF TypeInv
<1>5. ~At(p, "down") => proc[p].pos <= Len(Turns(proc[p].st))
    BY <1>1 DEF TypeInv
<1> QED BY <1>1, <1>2, <1>3, <1>4, <1>5, Typing

\* Both ends take the same way through setup.
LEMMA SetupPair ==
    ASSUME SessInv, NEW F, NEW L, Pair(F, L), NEW p \in Party,
           \/ Decide(p) \/ Load(p) \/ LoadShort(p) \/ LoadStuck(p) \/ Remove(p)
           \/ LoadError(p) \/ Generate(p)
    PROVE  Pair(F, L)'
<1> DEFINE old == proc[p]
<1>1. CASE Decide(p)
    <2>1. /\ old.st = "hello" /\ old.pos = 2 /\ file' = file
          /\ Becomes(p, IF file[p] # None /\ old.heard # None THEN "load" ELSE "gen", Uninit)
        BY <1>1, TurnFacts DEF Decide, At, Spoken
    <2>2. file[p] = F /\ blob[p] = L /\ old.heard = F /\ old.done = 0 /\ HasName
        BY <2>1, PairFacts DEF Stage
    <2>3. PICK s \in {"load", "gen"} : Becomes(p, s, Uninit) /\ (s = "load" <=> F # None)
        BY <2>1, <2>2
    <2>4. PlaceIn(p, F, L) = BehindHello(F)
        BY <2>1, TurnFacts DEF PlaceIn, PlaceOf
    <2>5. s \in St /\ Uninit \in DataType
        BY Markers DEF St
    <2>6. PICK me \in Obj :
             /\ me.st = s /\ me.pos = 0 /\ me.mem = Uninit /\ me.done = old.done
             /\ proc' = [proc EXCEPT ![p] = me] /\ blob' = [blob EXCEPT ![p] = blob[p]]
             /\ UNCHANGED <<wire, plan, session>>
        BY <2>1, <2>3, <2>5, PairFacts, Becoming
    <2>7. Stage(p, me, file[p], blob[p], F, L) /\ PlaceOf(me, F, L) = PlaceIn(p, F, L)
        <3>1. Stage(p, me, file[p], blob[p], F, L)
            BY <2>2, <2>3, <2>6 DEF Stage
        <3>2. PlaceOf(me, F, L) = BehindHello(F)
            <4>1. CASE s = "load"
                BY <2>3, <2>6, <4>1 DEF PlaceOf, BehindHello
            <4>2. CASE s = "gen"
                <5>1. F = None /\ 0 < Len(GenTurns)
                    <6>1. F = None
                        BY <2>3, <4>2
                    <6>2. Len(GenTurns) \in {4, 6}
                        BY TurnFacts
                    <6> QED BY <6>1, <6>2
                <5> QED BY <2>6, <4>2, <5>1 DEF PlaceOf, BehindHello
            <4> QED BY <4>1, <4>2
        <3> QED BY <2>4, <3>1, <3>2
    <2> QED BY <2>1, <2>3, <2>6, <2>7, PairFacts, QuietKeeps
<1>2. CASE Load(p)
    <2>1. Becomes(p, "loaded", file[p]) /\ file' = file /\ old.st = "load" /\ Readable(file[p])
        BY <1>2 DEF Load, At
    <2>2. file[p] = F /\ blob[p] = L /\ old.done = 0 /\ HasName /\ F # None
        BY <2>1, PairFacts DEF Stage
    <2>3. "loaded" \in St
        BY DEF St
    <2>4. PICK me \in Obj :
             /\ me.st = "loaded" /\ me.pos = 0 /\ me.mem = file[p] /\ me.done = old.done
             /\ proc' = [proc EXCEPT ![p] = me] /\ blob' = [blob EXCEPT ![p] = blob[p]]
             /\ UNCHANGED <<wire, plan, session>>
        BY <2>1, <2>3, PairFacts, Becoming
    <2>5. Stage(p, me, file[p], blob[p], F, L) /\ PlaceOf(me, F, L) = PlaceIn(p, F, L)
        <3>1. Stage(p, me, file[p], blob[p], F, L)
            BY <2>1, <2>2, <2>4 DEF Stage
        <3>2. PlaceOf(me, F, L) = PlaceIn(p, F, L)
            BY <2>1, <2>4 DEF PlaceOf, PlaceIn
        <3> QED BY <3>1, <3>2
    <2> QED BY <2>1, <2>4, <2>5, PairFacts, QuietKeeps
<1>3. CASE Remove(p)
    <2>1. PICK d \in DataType :
             /\ Becomes(p, "up", d) /\ file' = [file EXCEPT ![p] = None]
             /\ old.st = "loaded" /\ d = old.mem
        BY <1>3, PairFacts DEF Remove, At
    <2>2. Stage(p, old, file[p], blob[p], F, L)
        BY PairFacts
    <2>3. /\ blob[p] = L /\ old.done = 0 /\ HasName /\ F # None
          /\ Readable(F) /\ d = F
        BY <2>1, <2>2 DEF Stage
    <2>4. Fits(F, L) /\ LeftFile(F) = None /\ LeftBlob(L) = L
        BY <2>3 DEF Fits, LeftFile, LeftBlob
    <2>5. After(F, L, 0) = d
        <3>1. Origin(F, L) = F
            BY <2>3 DEF Origin
        <3> QED BY <2>3, <3>1, PairFacts
    <2>6. 0 <= plan.ext
        BY PairFacts
    <2>7. "up" \in St /\ None \in DataType
        BY Markers DEF St
    <2>8. PICK me \in Obj :
             /\ me.st = "up" /\ me.pos = 0 /\ me.mem = d /\ me.done = old.done
             /\ proc' = [proc EXCEPT ![p] = me] /\ blob' = [blob EXCEPT ![p] = blob[p]]
             /\ UNCHANGED <<wire, plan, session>>
        BY <2>1, <2>7, PairFacts, Becoming
    <2>9. Stage(p, me, None, blob[p], F, L) /\ PlaceOf(me, F, L) = PlaceIn(p, F, L)
        <3>1. me.done = 0
            BY <2>3, <2>8
        <3>2. me.mem = After(F, L, me.done)
            BY <2>5, <2>8, <3>1
        <3>3. Stage(p, me, None, blob[p], F, L)
            BY <2>3, <2>4, <2>6, <2>8, <3>1, <3>2 DEF Stage
        <3>4. PlaceOf(me, F, L) = <<2, 0, 0>>
            BY <2>8, <3>1, TurnFacts DEF PlaceOf
        <3>5. PlaceIn(p, F, L) = <<2, 0, 0>>
            BY <2>1 DEF PlaceOf, PlaceIn
        <3> QED BY <3>3, <3>4, <3>5
    <2> QED BY <2>1, <2>8, <2>9, QuietKeeps
<1>4. CASE LoadError(p)
    <2>1. Becomes(p, "down", None) /\ file' = file /\ old.st = "load" /\ ~Readable(file[p])
        BY <1>4 DEF LoadError, At
    <2>2. /\ file[p] = F /\ blob[p] = L /\ HasName /\ F # None
        BY <2>1, PairFacts DEF Stage
    <2>3. ~Fits(F, L)
        BY <2>1, <2>2 DEF Fits
    <2>4. "down" \in St /\ None \in DataType
        BY Markers DEF St
    <2>5. PICK me \in Obj :
             /\ me.st = "down" /\ me.pos = 0 /\ me.mem = None /\ me.done = old.done
             /\ proc' = [proc EXCEPT ![p] = me] /\ blob' = [blob EXCEPT ![p] = blob[p]]
             /\ UNCHANGED <<wire, plan, session>>
        BY <2>1, <2>4, PairFacts, Becoming
    <2>6. Stage(p, me, file[p], blob[p], F, L) /\ PlaceOf(me, F, L) = PlaceIn(p, F, L)
        <3>1. Stage(p, me, file[p], blob[p], F, L)
            BY <2>2, <2>3, <2>5 DEF Stage
        <3>2. PlaceOf(me, F, L) = PlaceIn(p, F, L)
            BY <2>1, <2>3, <2>5 DEF PlaceOf, PlaceIn
        <3> QED BY <3>1, <3>2
    <2> QED BY <2>1, <2>5, <2>6, PairFacts, QuietKeeps
<1>5. CASE Generate(p)
    <2>1. PICK d \in DataType : d = Data(session, 0)
        <3>1. 0 \in Nat
            OBVIOUS
        <3> QED BY <3>1, PairFacts, DataFacts
    <2>2. /\ Becomes(p, "up", d) /\ file' = file
          /\ old.st = "gen" /\ old.pos = Len(GenTurns)
        BY <1>5, <2>1, TurnFacts DEF Generate, At, Spoken
    <2>3. Stage(p, old, file[p], blob[p], F, L)
        BY PairFacts
    <2>4. file[p] = F /\ blob[p] = L /\ old.done = 0 /\ HasName /\ F = None
        BY <2>2, <2>3 DEF Stage
    <2>5. Fits(F, L) /\ LeftFile(F) = F /\ LeftBlob(L) = L
        BY <2>4 DEF Fits, LeftFile, LeftBlob
    <2>6. After(F, L, 0) = d
        <3>1. Origin(F, L) = d
            BY <2>1, <2>4 DEF Origin
        <3> QED BY <3>1, PairFacts
    <2>7. 0 <= plan.ext /\ file' = [file EXCEPT ![p] = file[p]] /\ file[p] \in DataType
        BY <2>2, PairFacts
    <2>8. PlaceIn(p, F, L) = <<2, 0, 0>>
        BY <2>2, TurnFacts DEF PlaceOf, PlaceIn
    <2>9. "up" \in St
        BY DEF St
    <2>10. PICK me \in Obj :
             /\ me.st = "up" /\ me.pos = 0 /\ me.mem = d /\ me.done = old.done
             /\ proc' = [proc EXCEPT ![p] = me] /\ blob' = [blob EXCEPT ![p] = blob[p]]
             /\ UNCHANGED <<wire, plan, session>>
        BY <2>2, <2>7, <2>9, PairFacts, Becoming
    <2>11. Stage(p, me, file[p], blob[p], F, L) /\ PlaceOf(me, F, L) = PlaceIn(p, F, L)
        <3>1. me.done = 0
            BY <2>4, <2>10
        <3>2. me.mem = After(F, L, me.done)
            BY <2>6, <2>10, <3>1
        <3>3. Stage(p, me, file[p], blob[p], F, L)
            BY <2>4, <2>5, <2>7, <2>10, <3>1, <3>2 DEF Stage
        <3>4. PlaceOf(me, F, L) = <<2, 0, 0>>
            BY <2>10, <3>1, TurnFacts DEF PlaceOf
        <3> QED BY <2>8, <3>3, <3>4
    <2> QED BY <2>2, <2>7, <2>10, <2>11, QuietKeeps
<1>6. CASE LoadShort(p) \/ LoadStuck(p)
    <2>1. old.st = "load" /\ ~file[p].all
        BY <1>6 DEF LoadShort, LoadStuck, MayPass, At
    <2>2. file[p] = F
        BY <2>1, PairFacts DEF Stage
    <2> QED BY <2>1, <2>2, PairFacts DEF Whole
<1> QED BY <1>1, <1>2, <1>3, <1>4, <1>5, <1>6

\* Both ends leave the same behind.
LEMMA EndPair ==
    ASSUME SessInv, NEW F, NEW L, Pair(F, L), NEW p \in Party,
           \/ DestroyUnsaved(p) \/ Truncate(p) \/ WriteHead(p) \/ Save(p)
           \/ RestoreRefused(p) /\ ~HasName
           \/ Reload(p)
    PROVE  Pair(F, L)'
<1> DEFINE old == proc[p]
<1>1. CASE DestroyUnsaved(p)
    <2>1. /\ Becomes(p, "down", None) /\ file' = file
          /\ \/ old.st = "over"
             \/ /\ old.st = "up" /\ old.pos = 0 /\ old.done = plan.ext
                /\ plan.end # "assemble" /\ (old.mem = None \/ ~HasName)
        BY <1>1 DEF DestroyUnsaved, Destroyed, Finished, At
    <2>2. old.st = "up" => ~HasName /\ plan.end # "assemble"
        <3>1. old.st = "up" => old.mem.gen # 0
            BY OwnFacts DEF OwnData
        <3> QED BY <2>1, <3>1, Markers
    <2>3. "down" \in St /\ None \in DataType
        BY Markers DEF St
    <2>4. PICK me \in Obj :
             /\ me.st = "down" /\ me.pos = 0 /\ me.mem = None /\ me.done = old.done
             /\ proc' = [proc EXCEPT ![p] = me] /\ blob' = [blob EXCEPT ![p] = blob[p]]
             /\ UNCHANGED <<wire, plan, session>>
        BY <2>1, <2>3, PairFacts, Becoming
    <2>5. Stage(p, me, file[p], blob[p], F, L) /\ PlaceOf(me, F, L) = PlaceIn(p, F, L)
        <3>1. CASE old.st = "over"
            <4>1. Stage(p, me, file[p], blob[p], F, L)
                BY <2>4, <3>1, PairFacts DEF Stage
            <4>2. PlaceOf(me, F, L) = PlaceIn(p, F, L)
                BY <2>4, <3>1 DEF PlaceOf, PlaceIn
            <4> QED BY <4>1, <4>2
        <3>2. CASE old.st = "up"
            <4>1. ~Reloads /\ KeptBlob(L) = LeftBlob(L)
                BY <2>2, <3>2 DEF Reloads, KeptBlob
            <4>2. Fits(F, L) /\ file[p] = LeftFile(F) /\ blob[p] = LeftBlob(L)
                BY <3>2, <4>1, PairFacts DEF Stage
            <4>3. Stage(p, me, file[p], blob[p], F, L)
                BY <2>2, <2>4, <3>2, <4>1, <4>2 DEF Stage
            <4>4. PlaceOf(me, F, L) = PlaceIn(p, F, L)
                BY <2>1, <2>4, <3>2, <4>2, TurnFacts DEF PlaceOf, PlaceIn
            <4> QED BY <4>3, <4>4
        <3> QED BY <2>1, <3>1, <3>2
    <2> QED BY <2>1, <2>4, <2>5, PairFacts, QuietKeeps
<1>2. CASE Truncate(p)
    <2>1. PICK d \in DataType : d = old.mem
        BY PairFacts
    <2>2. PICK t \in DataType : t = Torn(d)
        BY Damaged
    <2>3. /\ Becomes(p, "closing", d) /\ file' = [file EXCEPT ![p] = t]
          /\ d # None /\ HasName
          /\ \/ old.st = "over"
             \/ /\ old.st = "up" /\ old.pos = 0 /\ old.done = plan.ext
                /\ \/ plan.end = "destroy"
                   \/ plan.end = "reload" /\ blob[p] = None
        BY <1>2, <2>1, <2>2 DEF Truncate, Destroyed, Finished, At
    <2>4. Stage(p, old, file[p], blob[p], F, L)
        BY PairFacts
    <2>5. /\ old.st = "up" /\ old.pos = 0 /\ old.done = plan.ext
          /\ plan.end = "destroy" \/ (Reloads /\ blob[p] = None)
        BY <2>1, <2>3, <2>4 DEF Stage, Reloads
    <2>6. Fits(F, L)
        BY <2>4, <2>5 DEF Stage
    <2>7. d = Final(F, L) /\ blob[p] = KeptBlob(L)
        <3>1. CASE plan.end = "destroy"
            <4>1. ~Reloads
                BY <3>1 DEF Reloads
            <4>2. blob[p] = LeftBlob(L) /\ d = After(F, L, plan.ext)
                BY <2>1, <2>4, <2>5, <4>1 DEF Stage
            <4> QED BY <4>1, <4>2 DEF Final, KeptBlob
        <3>2. CASE Reloads /\ blob[p] = None
            <4>1. LeftBlob(L) = L /\ KeptBlob(L) = None
                BY <2>3, <3>2 DEF LeftBlob, KeptBlob
            <4>2. \/ L = None /\ d = After(F, L, plan.ext)
                  \/ L # None /\ d = L
                BY <2>1, <2>4, <2>5, <3>2, <4>1 DEF Stage
            <4> QED BY <3>2, <4>1, <4>2 DEF Final
        <3> QED BY <2>5, <3>1, <3>2
    <2>8. PlaceIn(p, F, L) = <<2, plan.ext, 0>>
        BY <2>5, TurnFacts DEF PlaceOf, PlaceIn
    <2>9. "closing" \in St
        BY DEF St
    <2>10. PICK me \in Obj :
             /\ me.st = "closing" /\ me.pos = 0 /\ me.mem = d /\ me.done = old.done
             /\ proc' = [proc EXCEPT ![p] = me] /\ blob' = [blob EXCEPT ![p] = blob[p]]
             /\ UNCHANGED <<wire, plan, session>>
        BY <2>3, <2>9, PairFacts, Becoming
    <2>11. Stage(p, me, t, blob[p], F, L)
        <3>1. plan.end # "assemble"
            BY <2>5 DEF Reloads
        <3> QED BY <2>2, <2>3, <2>6, <2>7, <2>10, <3>1 DEF Stage
    <2>12. PlaceOf(me, F, L) = PlaceIn(p, F, L)
        <3>1. PlaceOf(me, F, L) = <<2, plan.ext, 0>>
            BY <2>6, <2>10 DEF PlaceOf
        <3> QED BY <2>8, <3>1
    <2> QED BY <2>3, <2>10, <2>11, <2>12, QuietKeeps
<1>3. CASE WriteHead(p)
    <2>1. PICK d \in DataType : d = old.mem
        BY PairFacts
    <2>2. PICK t \in DataType : t = Short(d)
        BY Damaged
    <2>3. /\ Becomes(p, "writing", d) /\ file' = [file EXCEPT ![p] = t] /\ old.st = "closing"
        BY <1>3, <2>1, <2>2 DEF WriteHead, At
    <2>4. /\ HasName /\ Fits(F, L) /\ plan.end # "assemble"
          /\ blob[p] = KeptBlob(L) /\ d = Final(F, L)
        <3>1. Stage(p, old, file[p], blob[p], F, L)
            BY PairFacts
        <3> QED BY <2>1, <2>3, <3>1 DEF Stage
    <2>5. "writing" \in St
        BY DEF St
    <2>6. PICK me \in Obj :
             /\ me.st = "writing" /\ me.pos = 0 /\ me.mem = d /\ me.done = old.done
             /\ proc' = [proc EXCEPT ![p] = me] /\ blob' = [blob EXCEPT ![p] = blob[p]]
             /\ UNCHANGED <<wire, plan, session>>
        BY <2>3, <2>5, PairFacts, Becoming
    <2>7. Stage(p, me, t, blob[p], F, L)
        BY <2>2, <2>4, <2>6 DEF Stage
    <2>8. PlaceOf(me, F, L) = PlaceIn(p, F, L)
        BY <2>3, <2>6 DEF PlaceOf, PlaceIn
    <2> QED BY <2>3, <2>6, <2>7, <2>8, QuietKeeps
<1>4. CASE Save(p)
    <2>1. PICK d \in DataType :
             /\ Becomes(p, "down", None) /\ file' = [file EXCEPT ![p] = d]
             /\ d = old.mem /\ old.st = "writing"
        BY <1>4, PairFacts DEF Save, Written, At
    <2>2. /\ HasName /\ Fits(F, L) /\ plan.end # "assemble"
          /\ blob[p] = KeptBlob(L) /\ d = Final(F, L)
        <3>1. Stage(p, old, file[p], blob[p], F, L)
            BY PairFacts
        <3> QED BY <2>1, <3>1 DEF Stage
    <2>3. "down" \in St /\ None \in DataType
        BY Markers DEF St
    <2>4. PICK me \in Obj :
             /\ me.st = "down" /\ me.pos = 0 /\ me.mem = None /\ me.done = old.done
             /\ proc' = [proc EXCEPT ![p] = me] /\ blob' = [blob EXCEPT ![p] = blob[p]]
             /\ UNCHANGED <<wire, plan, session>>
        BY <2>1, <2>3, PairFacts, Becoming
    <2>5. Stage(p, me, d, blob[p], F, L)
        BY <2>2, <2>4 DEF Stage
    <2>6. PlaceOf(me, F, L) = PlaceIn(p, F, L)
        BY <2>1, <2>4 DEF PlaceOf, PlaceIn
    <2> QED BY <2>1, <2>4, <2>5, <2>6, QuietKeeps
<1>5. CASE RestoreRefused(p) /\ ~HasName
    <2>1. PICK d \in DataType : d = Spoilt(old.mem)
        BY PairFacts, Damaged
    <2>2. /\ Goes(p, "over", d) /\ file' = file /\ old.st = "restore"
          /\ ~Readable(blob[p])
        <3>1. /\ proc' = [proc EXCEPT ![p] = Enter(proc[p], "over", Spoilt(proc[p].mem))]
              /\ UNCHANGED <<file, blob, wire, plan, session, crashes, spent>>
              /\ mishaps' = mishaps \cup (IF HasName THEN {"refused"} ELSE {})
              /\ old.st = "restore" /\ ~Readable(blob[p])
            BY <1>5 DEF RestoreRefused, At
        <3> QED BY <2>1, <3>1, OwnFacts DEF Goes
    <2>3. file[p] = F /\ blob[p] = L /\ ~HasName /\ ~Fits(F, L) /\ old.done = 0
        BY <1>5, <2>2, PairFacts DEF Stage, Fits, Reloads
    <2>4. "over" \in St
        BY DEF St
    <2>5. PICK me \in Obj :
             /\ me.st = "over" /\ me.pos = 0 /\ me.mem = d /\ me.done = old.done
             /\ proc' = [proc EXCEPT ![p] = me] /\ blob' = [blob EXCEPT ![p] = blob[p]]
             /\ UNCHANGED <<wire, plan, session>>
        BY <2>2, <2>4, PairFacts, Becoming
    <2>6. Stage(p, me, file[p], blob[p], F, L) /\ PlaceOf(me, F, L) = PlaceIn(p, F, L)
        <3>1. Stage(p, me, file[p], blob[p], F, L)
            BY <2>3, <2>5 DEF Stage
        <3>2. PlaceOf(me, F, L) = PlaceIn(p, F, L)
            BY <2>2, <2>3, <2>5 DEF PlaceOf, PlaceIn
        <3> QED BY <3>1, <3>2
    <2> QED BY <2>2, <2>5, <2>6, PairFacts, QuietKeeps
<1>6. CASE Reload(p)
    <2>1. PICK d \in DataType : d = old.mem
        BY PairFacts
    <2>2. /\ Becomes(p, "restore", d) /\ file' = file /\ old.st = "up" /\ old.pos = 0
          /\ old.done = plan.ext /\ plan.end = "reload" /\ blob[p] # None
        BY <1>6, <2>1 DEF Reload, Finished, At
    <2>3. Fits(F, L) /\ file[p] = LeftFile(F) /\ blob[p] = LeftBlob(L)
        BY <2>2, PairFacts DEF Stage
    <2>4. Reloads /\ blob[p] = L /\ L # None
        BY <2>2, <2>3 DEF LeftBlob, Reloads
    <2>5. "restore" \in St
        BY DEF St
    <2>6. PICK me \in Obj :
             /\ me.st = "restore" /\ me.pos = 0 /\ me.mem = d /\ me.done = old.done
             /\ proc' = [proc EXCEPT ![p] = me] /\ blob' = [blob EXCEPT ![p] = blob[p]]
             /\ UNCHANGED <<wire, plan, session>>
        BY <2>2, <2>5, PairFacts, Becoming
    <2>7. Stage(p, me, file[p], blob[p], F, L)
        BY <2>2, <2>3, <2>4, <2>6 DEF Stage
    <2>8. PlaceOf(me, F, L) = PlaceIn(p, F, L)
        <3>1. PlaceIn(p, F, L) = <<2, plan.ext, 0>>
            BY <2>2, TurnFacts DEF PlaceOf, PlaceIn
        <3>2. PlaceOf(me, F, L) = <<2, plan.ext, 0>>
            BY <2>2, <2>6 DEF PlaceOf
        <3> QED BY <3>1, <3>2
    <2> QED BY <2>2, <2>6, <2>7, <2>8, PairFacts, QuietKeeps
<1> QED BY <1>1, <1>2, <1>3, <1>4, <1>5, <1>6

\* Both ends extend the same data.
LEMMA DataPair ==
    ASSUME SessInv, NEW F, NEW L, Pair(F, L), NEW p \in Party,
           Restore(p) \/ Extend(p) \/ Assemble(p)
    PROVE  Pair(F, L)'
<1> DEFINE old == proc[p]
<1>1. Stage(p, old, file[p], blob[p], F, L)
    BY PairFacts
<1>2. CASE Restore(p)
    <2>1. PICK d \in DataType : d = blob[p]
        BY PairFacts
    <2>2. /\ old.st = "restore" /\ Readable(d) /\ file' = file
          /\ proc' = [proc EXCEPT ![p] = Enter(old, "up", d)]
          /\ blob' = [blob EXCEPT ![p] = None] /\ UNCHANGED <<wire, plan, session>>
        BY <1>2, <2>1 DEF Restore, At
    <2>3. PICK me : me = Enter(old, "up", d)
        OBVIOUS
    <2>4. /\ me \in Obj /\ me.st = "up" /\ me.pos = 0 /\ me.mem = d /\ me.done = old.done
        <3>1. "up" \in St
            BY DEF St
        <3> QED BY <2>3, <3>1, PairFacts, Entered
    <2>5. /\ d = L
          /\ \/ file[p] = F /\ old.done = 0 /\ ~HasName
             \/ /\ Reloads /\ L # None /\ Fits(F, L)
                /\ file[p] = LeftFile(F) /\ old.done = plan.ext
        BY <1>1, <2>1, <2>2 DEF Stage
    <2>6. Stage(p, me, file[p], None, F, L)
        <3>1. CASE file[p] = F /\ old.done = 0 /\ ~HasName
            <4>1. Fits(F, L) /\ LeftFile(F) = F /\ LeftBlob(L) = None
                BY <2>2, <2>5, <3>1 DEF Fits, LeftFile, LeftBlob
            <4>2. After(F, L, 0) = d
                <5>1. Origin(F, L) = d
                    BY <2>5, <3>1 DEF Origin
                <5> QED BY <5>1, PairFacts
            <4>3. me.mem = After(F, L, me.done) /\ me.done <= plan.ext
                BY <2>4, <3>1, <4>2, PairFacts
            <4> QED BY <2>4, <3>1, <4>1, <4>3 DEF Stage
        <3>2. CASE /\ Reloads /\ L # None /\ Fits(F, L)
                   /\ file[p] = LeftFile(F) /\ old.done = plan.ext
            <4>1. me.done <= plan.ext
                BY <2>4, <3>2, PairFacts
            <4> QED BY <2>4, <2>5, <3>2, <4>1 DEF Stage
        <3> QED BY <2>5, <3>1, <3>2
    <2>7. PlaceOf(me, F, L) = PlaceIn(p, F, L)
        <3>1. PlaceOf(me, F, L) = <<2, old.done, 0>>
            BY <2>4, TurnFacts DEF PlaceOf
        <3>2. PlaceIn(p, F, L) = <<2, old.done, 0>>
            BY <2>2 DEF PlaceOf, PlaceIn
        <3> QED BY <3>1, <3>2
    <2>8. proc' = [proc EXCEPT ![p] = me] /\ file' = [file EXCEPT ![p] = file[p]]
        BY <2>2, <2>3, PairFacts
    <2> QED BY <2>2, <2>6, <2>7, <2>8, QuietKeeps
<1>3. CASE Extend(p)
    <2>1. PICK e \in Nat : e = old.done
        BY PairFacts
    <2>2. /\ old.st = "up" /\ old.pos = Len(ExtendTurns) /\ UNCHANGED <<file, blob>>
          /\ proc' = [proc EXCEPT ![p] =
                         [Enter(old, "up", NextSeed(p)) EXCEPT !.done = @ + 1]]
          /\ UNCHANGED <<wire, plan, session>>
        BY <1>3, TurnFacts DEF Extend, At, Spoken
    <2>3. /\ Fits(F, L) /\ file[p] = LeftFile(F) /\ blob[p] = LeftBlob(L)
          /\ old.mem = After(F, L, e) /\ e < plan.ext
          /\ p = "BOB" => old.heard = old.mem
        <3>1. old.pos > 0
            BY <2>2, TurnFacts
        <3> QED BY <1>1, <2>1, <2>2, <3>1 DEF Stage
    <2>4. PICK d \in DataType : d = After(F, L, e + 1) /\ d = NextSeed(p)
        <3>1. TypeInv /\ F \in DataType /\ L \in DataType /\ Whole(F) /\ Whole(L) /\ e + 1 \in Nat
            BY PairFacts
        <3>2. /\ Extended(After(F, L, e), TRUE) = After(F, L, e + 1)
              /\ After(F, L, e + 1) \in DataType
            BY <3>1, AfterFacts
        <3>3. (p = "ALICE" \/ old.heard = old.mem) = TRUE
            BY <2>3, PairFacts, Typing
        <3>4. NextSeed(p) = Extended(old.mem, TRUE)
            BY <3>3 DEF NextSeed
        <3> QED BY <2>3, <3>2, <3>4
    <2>5. PICK n \in Nat : n = e + 1
        OBVIOUS
    <2>6. PICK me : me = [Enter(old, "up", d) EXCEPT !.done = n]
        OBVIOUS
    <2>7. /\ me \in Obj /\ me.st = "up" /\ me.pos = 0 /\ me.mem = d /\ me.done = n
          /\ me = [Enter(old, "up", d) EXCEPT !.done = @ + 1]
        <3>1. "up" \in St
            BY DEF St
        <3>2. /\ Enter(old, "up", d) \in Obj /\ Enter(old, "up", d).st = "up"
              /\ Enter(old, "up", d).pos = 0 /\ Enter(old, "up", d).mem = d
              /\ Enter(old, "up", d).done = e
            BY <2>1, <3>1, PairFacts, Entered
        <3> HIDE DEF old
        <3> QED BY <2>5, <2>6, <3>2 DEF Obj
    <2>8. Stage(p, me, file[p], blob[p], F, L)
        <3>1. me.mem = After(F, L, me.done)
            BY <2>4, <2>5, <2>7
        <3>2. me.done <= plan.ext
            BY <2>3, <2>5, <2>7, PairFacts
        <3> QED BY <2>3, <2>7, <3>1, <3>2 DEF Stage
    <2>9. PlaceOf(me, F, L) = PlaceIn(p, F, L)
        <3>1. PlaceOf(me, F, L) = <<2, n, 0>>
            BY <2>7, TurnFacts DEF PlaceOf
        <3>2. PlaceIn(p, F, L) = <<2, old.done + 1, 0>>
            BY <2>2, TurnFacts DEF PlaceOf, PlaceIn
        <3> QED BY <2>1, <2>5, <3>1, <3>2
    <2>10. /\ proc' = [proc EXCEPT ![p] = me] /\ file' = [file EXCEPT ![p] = file[p]]
           /\ blob' = [blob EXCEPT ![p] = blob[p]] /\ UNCHANGED <<wire, plan, session>>
        <3>1. proc' = [proc EXCEPT ![p] = me]
            BY <2>2, <2>4, <2>7
        <3> QED BY <2>2, <3>1, PairFacts DEF TypeInv
    <2> QED BY <2>8, <2>9, <2>10, QuietKeeps
<1>4. CASE Assemble(p)
    <2>1. PICK d \in DataType : d = old.mem
        BY PairFacts
    <2>2. /\ old.st = "up" /\ old.pos = 0 /\ old.done = plan.ext /\ plan.end = "assemble"
          /\ proc' = [proc EXCEPT ![p] = Enter(old, "over", None)]
          /\ blob' = [blob EXCEPT ![p] = d] /\ UNCHANGED <<file, wire, plan, session>>
        BY <1>4, <2>1 DEF Assemble, Finished, Freed, At
    <2>3. Fits(F, L) /\ file[p] = LeftFile(F) /\ d = After(F, L, plan.ext)
        <3>1. ~Reloads
            BY <2>2 DEF Reloads
        <3>2. Fits(F, L) /\ file[p] = LeftFile(F) /\ d = After(F, L, old.done)
            BY <1>1, <2>1, <2>2, <3>1 DEF Stage
        <3> QED BY <2>2, <3>2
    <2>4. PICK me : me = Enter(old, "over", None)
        OBVIOUS
    <2>5. me \in Obj /\ me.st = "over" /\ me.mem = None
        <3>1. "over" \in St
            BY DEF St
        <3>2. old \in Obj /\ None \in DataType
            BY PairFacts, Markers
        <3> QED BY <2>4, <3>1, <3>2, Entered, Zenon
    <2>6. Stage(p, me, file[p], d, F, L)
        BY <2>2, <2>3, <2>5 DEF Stage
    <2>7. PlaceOf(me, F, L) = PlaceIn(p, F, L)
        <3>1. PlaceOf(me, F, L) = <<2, plan.ext, 0>>
            BY <2>3, <2>5 DEF PlaceOf
        <3>2. PlaceIn(p, F, L) = <<2, plan.ext, 0>>
            BY <2>2, TurnFacts DEF PlaceOf, PlaceIn
        <3> QED BY <3>1, <3>2
    <2>8. proc' = [proc EXCEPT ![p] = me] /\ file' = [file EXCEPT ![p] = file[p]]
        BY <2>2, <2>4, PairFacts
    <2> QED BY <2>2, <2>6, <2>7, <2>8, QuietKeeps
<1> QED BY <1>2, <1>3, <1>4

(*------------------------- the steps of a conversation ------------------*)
\* A party in a conversation is at a turn, and would say there what it should.
LEMMA AtTurn ==
    ASSUME SessInv, NEW F, NEW L, Pair(F, L), NEW p \in Party, Talking(p)
    PROVE  /\ proc[p].st \in {"hello", "gen", "up"}
           /\ PlaceIn(p, F, L) = << CASE proc[p].st = "hello" -> 0 [] proc[p].st = "gen" -> 1
                                      [] OTHER -> 2,
                                    IF proc[p].st = "up" THEN proc[p].done ELSE 0,
                                    proc[p].pos >>
           /\ Speaker(PlaceIn(p, F, L)) = Turn(p)
           /\ Says(p) = SaidAt(PlaceIn(p, F, L), F, L)
<1> DEFINE old == proc[p]
<1>1. old.pos < Len(Turns(old.st)) /\ old.pos \in Nat /\ Stage(p, old, file[p], blob[p], F, L)
    BY PairFacts DEF Talking
<1>2. old.st \in {"hello", "gen", "up"}
    <2>1. Len(<<>>) = 0
        OBVIOUS
    <2> QED BY <1>1, <2>1, TurnFacts
<1>3. CASE old.st = "hello"
    <2>1. PlaceIn(p, F, L) = <<0, 0, old.pos>> /\ Turn(p) = HelloTurns[old.pos + 1]
        BY <1>1, <1>3, TurnFacts DEF PlaceIn, PlaceOf, Turn
    <2>2. Speaker(PlaceIn(p, F, L)) = Turn(p)
        BY <2>1 DEF Speaker, TurnsOf
    <2>3. Says(p) = F
        BY <1>1, <1>3 DEF Says, At, Stage
    <2>4. SaidAt(PlaceIn(p, F, L), F, L) = F
        BY <2>1 DEF SaidAt
    <2> QED BY <1>3, <2>1, <2>2, <2>3, <2>4
<1>4. CASE old.st = "gen"
    <2>1. PlaceIn(p, F, L) = <<1, 0, old.pos>> /\ Turn(p) = GenTurns[old.pos + 1]
        BY <1>1, <1>4, TurnFacts DEF PlaceIn, PlaceOf, Turn
    <2>2. Speaker(PlaceIn(p, F, L)) = Turn(p)
        BY <2>1 DEF Speaker, TurnsOf
    <2>3. Says(p) = Uninit
        BY <1>1, <1>4 DEF Says, At, Stage
    <2>4. SaidAt(PlaceIn(p, F, L), F, L) = Uninit
        BY <2>1 DEF SaidAt
    <2> QED BY <1>4, <2>1, <2>2, <2>3, <2>4
<1>5. CASE old.st = "up"
    <2>1. PlaceIn(p, F, L) = <<2, old.done, old.pos>> /\ Turn(p) = ExtendTurns[old.pos + 1]
        BY <1>1, <1>5, TurnFacts DEF PlaceIn, PlaceOf, Turn
    <2>2. Speaker(PlaceIn(p, F, L)) = Turn(p)
        BY <2>1 DEF Speaker, TurnsOf
    <2>3. Says(p) = After(F, L, old.done)
        <3>1. old.done < plan.ext /\ old.done \in Nat /\ plan.ext \in Nat
            BY <1>5, PairFacts DEF Talking, At
        <3>2. old.done # plan.ext
            BY <3>1
        <3> QED BY <1>1, <1>5, <3>2 DEF Says, At, Stage
    <2>4. SaidAt(PlaceIn(p, F, L), F, L) = After(F, L, old.done)
        BY <2>1 DEF SaidAt
    <2> QED BY <1>5, <2>1, <2>2, <2>3, <2>4
<1> QED BY <1>2, <1>3, <1>4, <1>5

\* One message later it is at the next turn.
LEMMA NextPlace ==
    ASSUME SessInv, NEW F, NEW L, Pair(F, L), NEW p \in Party, Talking(p), NEW me \in Obj,
           me.st = proc[p].st, me.done = proc[p].done, me.pos = proc[p].pos + 1
    PROVE  PlaceOf(me, F, L) = NextTurn(PlaceIn(p, F, L), F)
<1> DEFINE old == proc[p]
<1>1. PICK k \in Nat : k = old.pos + 1
    BY PairFacts
<1>2. me.pos = k /\ k <= Len(Turns(old.st)) /\ k \in Nat
    BY <1>1, PairFacts, TurnFacts DEF Talking
<1>3. CASE old.st = "hello"
    <2>1. PlaceIn(p, F, L) = <<0, 0, old.pos>>
        BY <1>3, AtTurn
    <2>2. NextTurn(PlaceIn(p, F, L), F) = IF k < Len(HelloTurns) THEN <<0, 0, k>>
                                          ELSE BehindHello(F)
        BY <1>1, <2>1 DEF NextTurn, TurnsOf
    <2>3. PlaceOf(me, F, L) = IF k < Len(HelloTurns) THEN <<0, 0, k>> ELSE BehindHello(F)
        BY <1>2, <1>3 DEF PlaceOf
    <2> QED BY <2>2, <2>3
<1>4. CASE old.st = "gen"
    <2>1. PlaceIn(p, F, L) = <<1, 0, old.pos>>
        BY <1>4, AtTurn
    <2>2. NextTurn(PlaceIn(p, F, L), F) = IF k < Len(GenTurns) THEN <<1, 0, k>>
                                          ELSE <<2, 0, 0>>
        BY <1>1, <2>1 DEF NextTurn, TurnsOf
    <2>3. PlaceOf(me, F, L) = IF k < Len(GenTurns) THEN <<1, 0, k>> ELSE <<2, 0, 0>>
        BY <1>2, <1>4 DEF PlaceOf
    <2> QED BY <2>2, <2>3
<1>5. CASE old.st = "up"
    <2>1. PlaceIn(p, F, L) = <<2, old.done, old.pos>>
        BY <1>5, AtTurn
    <2>2. NextTurn(PlaceIn(p, F, L), F) = IF k < Len(ExtendTurns) THEN <<2, old.done, k>>
                                          ELSE <<2, old.done + 1, 0>>
        BY <1>1, <2>1 DEF NextTurn, TurnsOf
    <2>3. PlaceOf(me, F, L) = IF k < Len(ExtendTurns) THEN <<2, old.done, k>>
                              ELSE <<2, old.done + 1, 0>>
        BY <1>2, <1>5 DEF PlaceOf
    <2> QED BY <2>2, <2>3
<1> QED BY <1>3, <1>4, <1>5, AtTurn

\* A turn of p moves p.
LEMMA OneMoves ==
    ASSUME SessInv, NEW F, NEW L, Pair(F, L), NEW p \in Party, NEW me,
           proc' = [proc EXCEPT ![p] = me], UNCHANGED <<file, blob, plan, session>>,
           Stage(p, me, file[p], blob[p], F, L)
    PROVE  /\ \A q \in Party : Stage(q, proc[q], file[q], blob[q], F, L)'
           /\ PlaceIn(p, F, L)' = PlaceOf(me, F, L)
           /\ PlaceIn(Peer(p), F, L)' = PlaceIn(Peer(p), F, L)
<1>1. proc'[p] = me /\ \A q \in Party : q # p => proc'[q] = proc[q]
    BY DEF SessInv, TypeInv
<1>2. ASSUME NEW q \in Party PROVE Stage(q, proc'[q], file'[q], blob'[q], F, L)
    <2>1. CASE q = p
        BY <1>1, <2>1
    <2>2. CASE q # p
        BY <1>1, <2>2 DEF Pair
    <2> QED BY <2>1, <2>2
<1>3. \A q \in Party : Stage(q, proc[q], file[q], blob[q], F, L)'
    BY <1>2, StageRigid
<1>4. PlaceIn(p, F, L)' = PlaceOf(me, F, L)
    BY <1>1, StageRigid DEF PlaceIn
<1>5. PlaceIn(Peer(p), F, L)' = PlaceIn(Peer(p), F, L)
    <2>1. proc'[Peer(p)] = proc[Peer(p)]
        BY <1>1, Typing DEF SessInv
    <2> QED BY <2>1, StageRigid DEF PlaceIn
<1> QED BY <1>3, <1>4, <1>5

\* Who speaks or hears its turn stays where the other expects it.
LEMMA TalkStage ==
    ASSUME SessInv, NEW F, NEW L, Pair(F, L), NEW p \in Party, Talking(p), NEW me \in Obj,
           me.st = proc[p].st, me.done = proc[p].done, me.pos = proc[p].pos + 1,
           me.mem = proc[p].mem,
           \/ Turn(p) = p /\ me.heard = proc[p].heard
           \/ Turn(p) = Peer(p) /\ me.heard = Says(p)
    PROVE  Stage(p, me, file[p], blob[p], F, L)
<1> DEFINE old == proc[p]
<1>1. /\ Stage(p, old, file[p], blob[p], F, L) /\ old.pos \in Nat
      /\ old.pos < Len(Turns(old.st)) /\ old.st \in {"hello", "gen", "up"}
      /\ p = "ALICE" \/ p = "BOB"
      /\ "ALICE" # "BOB"
    BY PairFacts, AtTurn, Typing DEF Talking
<1>2. Turn(p) = Turns(old.st)[old.pos + 1]
    BY DEF Turn
<1>3. CASE old.st = "hello"
    <2>1. file[p] = F /\ blob[p] = L /\ old.done = 0 /\ HasName /\ Says(p) = F
        BY <1>1, <1>3 DEF Stage, Says, At
    <2>2. (me.pos = 2 \/ (me.pos = 1 /\ p = "BOB")) => me.heard = F
        <3>1. CASE Turn(p) = p /\ me.heard = old.heard
            <4>1. old.pos = 0 => p = "ALICE"
                BY <1>2, <1>3, <3>1, TurnFacts
            <4>2. old.pos = 1 => p = "BOB"
                BY <1>2, <1>3, <3>1, TurnFacts
            <4> QED BY <1>1, <1>3, <3>1, <4>1, <4>2 DEF Stage
        <3>2. CASE Turn(p) = Peer(p) /\ me.heard = Says(p)
            BY <2>1, <3>2
        <3> QED BY <3>1, <3>2
    <2> QED BY <1>3, <2>1, <2>2 DEF Stage
<1>4. CASE old.st = "gen"
    <2>1. file[p] = F /\ blob[p] = L /\ old.done = 0 /\ HasName /\ F = None /\ old.mem = Uninit
        BY <1>1, <1>4 DEF Stage
    <2> QED BY <1>4, <2>1 DEF Stage
<1>5. CASE old.st = "up"
    <2>1. /\ Fits(F, L) /\ file[p] = LeftFile(F) /\ blob[p] = LeftBlob(L)
          /\ old.mem = After(F, L, old.done) /\ old.done <= plan.ext
          /\ old.pos > 0 => (p = "BOB" => old.heard = old.mem)
        <3>1. old.done < plan.ext /\ old.done \in Nat /\ plan.ext \in Nat
            BY <1>5, PairFacts DEF Talking, At
        <3>2. old.done # plan.ext
            BY <3>1
        <3> QED BY <1>1, <1>5, <3>2 DEF Stage
    <2>2. old.done < plan.ext /\ Says(p) = old.mem
        BY <1>5 DEF Talking, At, Says
    <2>3. p = "BOB" => me.heard = me.mem
        <3>1. CASE Turn(p) = p /\ me.heard = old.heard
            <4>1. old.pos = 0 => p = "ALICE"
                BY <1>2, <1>5, <3>1, TurnFacts
            <4> QED BY <1>1, <2>1, <3>1, <4>1
        <3>2. CASE Turn(p) = Peer(p) /\ me.heard = Says(p)
            BY <2>2, <3>2
        <3> QED BY <3>1, <3>2
    <2>4. me.mem = After(F, L, me.done)
        BY <2>1
    <2> QED BY <1>5, <2>1, <2>2, <2>3, <2>4 DEF Stage
<1> QED BY <1>1, <1>3, <1>4, <1>5

\* What p says is appended to what is on its way.
LEMMA SpeakPair ==
    ASSUME SessInv, NEW F, NEW L, Pair(F, L), NEW p \in Party, Speak(p)
    PROVE  Pair(F, L)'
<1> DEFINE old == proc[p]
<1>1. /\ Talking(p) /\ Turn(p) = p
      /\ wire' = [wire EXCEPT ![Peer(p)] = Append(wire[Peer(p)], Says(p))]
      /\ proc' = [proc EXCEPT ![p] = [old EXCEPT !.pos = old.pos + 1]]
      /\ UNCHANGED <<file, blob, plan, session>>
    BY DEF Speak
<1>2. /\ Peer(p) \in Party /\ Peer(p) # p /\ Peer(Peer(p)) = p
      /\ wire \in [Party -> Seq(DataType)] /\ F \in DataType /\ L \in DataType
      /\ p = "ALICE" \/ p = "BOB"
    BY PairFacts, Typing DEF SessInv, TypeInv
<1>3. PICK me \in Obj :
         /\ proc' = [proc EXCEPT ![p] = me]
         /\ me.st = old.st /\ me.done = old.done /\ me.pos = old.pos + 1
         /\ me.mem = old.mem /\ me.heard = old.heard
    <2>1. PICK n \in Nat : n = old.pos + 1
        BY PairFacts
    <2>2. old \in Obj
        BY PairFacts
    <2>3. PICK me : me = [old EXCEPT !.pos = n]
        OBVIOUS
    <2>4. me \in Obj /\ me.st = old.st /\ me.done = old.done /\ me.pos = n
          /\ me.mem = old.mem /\ me.heard = old.heard
        BY <2>1, <2>2, <2>3 DEF Obj
    <2>5. proc' = [proc EXCEPT ![p] = me]
        BY <1>1, <2>1, <2>3
    <2> QED BY <2>1, <2>4, <2>5
<1>4. PICK x \in TurnPlace : x = PlaceIn(p, F, L)
    BY PairFacts, PlaceType DEF PlaceIn
<1>5. PICK y : y = PlaceIn(Peer(p), F, L)
    OBVIOUS
<1>6. PICK m \in DataType : m = Says(p)
    BY PairFacts DEF Says
<1>7. Speaker(x) = p /\ m = SaidAt(x, F, L)
    BY <1>1, <1>4, <1>6, AtTurn
<1>8. PICK q \in Seq(DataType) : q = wire[Peer(p)]
    BY <1>2
<1>9. wire[p] = <<>> /\ Chain(p, y, x, q, F, L)
    <2>1. PICK r \in Party : Ahead(r, F, L)
        BY DEF Pair
    <2>2. CASE r = p
        BY <1>4, <1>5, <1>8, <2>1, <2>2 DEF Ahead
    <2>3. CASE r # p
        <3>1. r = Peer(p)
            BY <1>2, <2>3 DEF Party, Peer
        <3>2. q = <<>> /\ Chain(Peer(p), x, y, wire[p], F, L)
            BY <1>2, <1>4, <1>5, <1>8, <2>1, <3>1 DEF Ahead
        <3>3. PICK w \in Seq(DataType) : w = wire[p]
            BY <1>2
        <3>4. w = <<>> /\ x = y
            <4>1. Chain(Peer(p), x, y, w, F, L)
                BY <3>2, <3>3
            <4>2. w # <<>> => Speaker(x) = Peer(p)
                BY <4>1, ChainTail
            <4>3. w = <<>> => x = y
                BY <4>1, ChainTail
            <4> QED BY <1>2, <1>7, <4>2, <4>3
        <3>5. Chain(p, x, x, <<>>, F, L)
            BY ChainEmpty
        <3> QED BY <3>2, <3>3, <3>4, <3>5
    <2> QED BY <2>2, <2>3
<1>10. Chain(p, y, NextTurn(x, F), Append(q, m), F, L)
    BY <1>7, <1>9, ChainAppend
<1>11. Stage(p, me, file[p], blob[p], F, L)
    BY <1>1, <1>3, TalkStage
<1>12. PlaceOf(me, F, L) = NextTurn(x, F)
    BY <1>1, <1>3, <1>4, NextPlace
<1>13. /\ \A r \in Party : Stage(r, proc[r], file[r], blob[r], F, L)'
       /\ PlaceIn(p, F, L)' = NextTurn(x, F) /\ PlaceIn(Peer(p), F, L)' = y
    <2>1. proc' = [proc EXCEPT ![p] = me]
        BY <1>3
    <2>2. UNCHANGED <<file, blob, plan, session>>
        BY <1>1
    <2>3. /\ \A r \in Party : Stage(r, proc[r], file[r], blob[r], F, L)'
          /\ PlaceIn(p, F, L)' = PlaceOf(me, F, L)
          /\ PlaceIn(Peer(p), F, L)' = PlaceIn(Peer(p), F, L)
        BY <1>11, <2>1, <2>2, OneMoves
    <2> QED BY <1>5, <1>12, <2>3
<1>14. wire'[p] = <<>> /\ wire'[Peer(p)] = Append(q, m)
    BY <1>1, <1>2, <1>6, <1>8, <1>9
<1>15. Ahead(p, F, L)'
    <2>1. PICK w : w = Append(q, m)
        OBVIOUS
    <2>2. PICK z : z = NextTurn(x, F)
        OBVIOUS
    <2>3. Chain(p, y, z, w, F, L)
        BY <1>10, <2>1, <2>2
    <2>4. Chain(p, y, z, w, F, L)'
        BY <1>1, <2>3, ChainRigid
    <2>5. Chain(p, PlaceIn(Peer(p), F, L), PlaceIn(p, F, L), wire[Peer(p)], F, L)'
        BY <1>13, <1>14, <2>1, <2>2, <2>4
    <2> QED BY <1>14, <2>5 DEF Ahead
<1> QED BY <1>13, <1>15, PairFacts DEF Pair

\* What p hears is what it would have said itself.
LEMMA ListenPair ==
    ASSUME SessInv, NEW F, NEW L, Pair(F, L), NEW p \in Party, Listen(p)
    PROVE  Pair(F, L)'
<1> DEFINE old == proc[p]
<1>1. /\ Talking(p) /\ Turn(p) = Peer(p) /\ wire[p] # <<>>
      /\ wire' = [wire EXCEPT ![p] = Tail(wire[p])]
      /\ proc' = [proc EXCEPT ![p] = [old EXCEPT !.heard = Head(wire[p]), !.pos = old.pos + 1]]
      /\ UNCHANGED <<file, blob, plan, session>>
    BY DEF Listen
<1>2. /\ Peer(p) \in Party /\ Peer(p) # p /\ Peer(Peer(p)) = p
      /\ wire \in [Party -> Seq(DataType)] /\ F \in DataType /\ L \in DataType
      /\ p = "ALICE" \/ p = "BOB"
    BY PairFacts, Typing DEF SessInv, TypeInv
<1>3. PICK q \in Seq(DataType) : q = wire[p]
    BY <1>2
<1>4. PICK m \in DataType : m = Head(q)
    BY <1>1, <1>3
<1>5. PICK me \in Obj :
         /\ proc' = [proc EXCEPT ![p] = me]
         /\ me.st = old.st /\ me.done = old.done /\ me.pos = old.pos + 1
         /\ me.mem = old.mem /\ me.heard = m
    <2>1. PICK n \in Nat : n = old.pos + 1
        BY PairFacts
    <2>2. old \in Obj
        BY PairFacts
    <2>3. PICK me : me = [old EXCEPT !.heard = m, !.pos = n]
        OBVIOUS
    <2>4. me \in Obj /\ me.st = old.st /\ me.done = old.done /\ me.pos = n
          /\ me.mem = old.mem /\ me.heard = m
        BY <2>1, <2>2, <2>3 DEF Obj
    <2>5. proc' = [proc EXCEPT ![p] = me]
        BY <1>1, <1>3, <1>4, <2>1, <2>3
    <2> QED BY <2>1, <2>4, <2>5
<1>6. PICK x \in TurnPlace : x = PlaceIn(p, F, L)
    BY PairFacts, PlaceType DEF PlaceIn
<1>7. PICK y : y = PlaceIn(Peer(p), F, L)
    OBVIOUS
<1>8. wire[Peer(p)] = <<>> /\ Chain(Peer(p), x, y, q, F, L)
    <2>1. PICK r \in Party : Ahead(r, F, L)
        BY DEF Pair
    <2>2. r # p
        BY <1>1, <2>1 DEF Ahead
    <2>3. r = Peer(p)
        BY <1>2, <2>2 DEF Party, Peer
    <2> QED BY <1>2, <1>3, <1>6, <1>7, <2>1, <2>3 DEF Ahead
<1>9. m = SaidAt(x, F, L) /\ Chain(Peer(p), NextTurn(x, F), y, Tail(q), F, L)
    <2>1. q # <<>>
        BY <1>1, <1>3
    <2> QED BY <1>4, <1>8, <2>1, ChainTail
<1>10. m = Says(p)
    BY <1>1, <1>6, <1>9, AtTurn
<1>11. Stage(p, me, file[p], blob[p], F, L)
    BY <1>1, <1>5, <1>10, TalkStage
<1>12. PlaceOf(me, F, L) = NextTurn(x, F)
    BY <1>1, <1>5, <1>6, NextPlace
<1>13. /\ \A r \in Party : Stage(r, proc[r], file[r], blob[r], F, L)'
       /\ PlaceIn(p, F, L)' = NextTurn(x, F) /\ PlaceIn(Peer(p), F, L)' = y
    <2>1. proc' = [proc EXCEPT ![p] = me]
        BY <1>5
    <2>2. UNCHANGED <<file, blob, plan, session>>
        BY <1>1
    <2>3. /\ \A r \in Party : Stage(r, proc[r], file[r], blob[r], F, L)'
          /\ PlaceIn(p, F, L)' = PlaceOf(me, F, L)
          /\ PlaceIn(Peer(p), F, L)' = PlaceIn(Peer(p), F, L)
        BY <1>11, <2>1, <2>2, OneMoves
    <2> QED BY <1>7, <1>12, <2>3
<1>14. wire'[Peer(p)] = <<>> /\ wire'[p] = Tail(q)
    BY <1>1, <1>2, <1>3, <1>8
<1>15. Ahead(Peer(p), F, L)'
    <2>1. PICK w : w = Tail(q)
        OBVIOUS
    <2>2. PICK z : z = NextTurn(x, F)
        OBVIOUS
    <2>3. PICK r \in Party : r = Peer(p) /\ Peer(r) = p
        BY <1>2
    <2>4. Chain(r, z, y, w, F, L)
        BY <1>9, <2>1, <2>2, <2>3
    <2>5. Chain(r, z, y, w, F, L)'
        BY <1>1, <2>4, ChainRigid
    <2>6. /\ PlaceIn(Peer(r), F, L)' = z /\ PlaceIn(r, F, L)' = y
          /\ wire'[Peer(r)] = w /\ wire'[r] = <<>>
        BY <1>13, <1>14, <2>1, <2>2, <2>3
    <2>7. Chain(r, PlaceIn(Peer(r), F, L), PlaceIn(r, F, L), wire[Peer(r)], F, L)'
        BY <2>5, <2>6
    <2>8. Ahead(r, F, L)'
        BY <2>6, <2>7 DEF Ahead
    <2> QED BY <2>3, <2>8
<1> QED BY <1>2, <1>13, <1>15, PairFacts DEF Pair

\* While nobody crashes no party waits for one that is gone.
LEMMA NoKill ==
    ASSUME SessInv, NEW F, NEW L, Pair(F, L), NEW p \in Party, Kill(p)
    PROVE  FALSE
<1> DEFINE old == proc[p]
           other == proc[Peer(p)]
<1>1. /\ Talking(p) /\ Turn(p) = Peer(p) /\ wire[p] = <<>> /\ other.st = "down"
      /\ Peer(p) \in Party /\ Peer(p) # p /\ Peer(Peer(p)) = p
      /\ wire[Peer(p)] \in Seq(DataType)
    <2>1. ~At(p, "stuck")
        BY PairFacts DEF Stage, At
    <2> QED BY <2>1, Typing DEF Kill, SessInv, TypeInv, At
<1>2. PICK x : x = PlaceIn(p, F, L)
    OBVIOUS
<1>3. PICK y : y = PlaceIn(Peer(p), F, L)
    OBVIOUS
<1>4. y = <<2, IF Fits(F, L) THEN plan.ext ELSE 0, 0>>
    BY <1>1, <1>3 DEF PlaceIn, PlaceOf
<1>5. ~Before(y, x) /\ x # y
    <2>1. CASE old.st \in {"hello", "gen"}
        <3>1. x[1] = 0 \/ x[1] = 1
            BY <1>1, <1>2, <2>1, AtTurn
        <3> QED BY <1>4, <3>1 DEF Before
    <2>2. CASE old.st = "up"
        <3>1. x = <<2, old.done, old.pos>> /\ old.done \in Nat /\ plan.ext \in Nat
            BY <1>1, <1>2, <2>2, AtTurn, PairFacts
        <3>2. old.done < plan.ext
            BY <1>1, <2>2 DEF Talking, At
        <3>3. Fits(F, L)
            BY <2>2, PairFacts DEF Stage
        <3>4. y = <<2, plan.ext, 0>>
            BY <1>4, <3>3
        <3> HIDE DEF old
        <3> QED BY <3>1, <3>2, <3>4 DEF Before
    <2> QED BY <1>1, <2>1, <2>2, AtTurn
<1>6. PICK r \in Party : Ahead(r, F, L)
    BY DEF Pair
<1>7. CASE r = p
    <2>1. PICK q \in Seq(DataType) : q = wire[Peer(p)]
        BY <1>1
    <2>2. Chain(p, y, x, q, F, L)
        BY <1>2, <1>3, <1>6, <1>7, <2>1 DEF Ahead
    <2> QED BY <1>5, <2>2, ChainEnds
<1>8. CASE r # p
    <2>1. r = Peer(p)
        BY <1>1, <1>8 DEF Party, Peer
    <2>2. Chain(r, x, y, <<>>, F, L)
        BY <1>1, <1>2, <1>3, <1>6, <2>1 DEF Ahead
    <2>3. <<>> \in Seq(DataType)
        OBVIOUS
    <2> QED BY <1>5, <2>2, <2>3, ChainTail
<1> QED BY <1>7, <1>8

\* When both ends are through, they have left the same.
LEMMA BothLeave ==
    ASSUME SessInv, NEW F, NEW L, Pair(F, L), \A p \in Party : At(p, "down")
    PROVE  file["ALICE"] = file["BOB"] /\ blob["ALICE"] = blob["BOB"]
<1>1. "ALICE" \in Party /\ "BOB" \in Party
    BY DEF Party
<1>2. \A p \in Party : Stage(p, proc[p], file[p], blob[p], F, L) /\ proc[p].st = "down"
    BY DEF Pair, At
<1>3. \A p \in Party :
         /\ file[p] = IF ~Fits(F, L) THEN F
                      ELSE IF HasName /\ plan.end # "assemble" THEN Final(F, L)
                      ELSE LeftFile(F)
         /\ blob[p] = IF ~Fits(F, L) THEN L
                      ELSE IF plan.end = "assemble" THEN After(F, L, plan.ext)
                      ELSE KeptBlob(L)
    BY <1>2 DEF Stage
<1> QED BY <1>1, <1>3

\* What a party has at any stage is good.
LEMMA GoodStage ==
    ASSUME SessInv, NEW F, NEW L, Pair(F, L), NEW p \in Party
    PROVE  /\ file[p].good /\ Whole(blob[p])
           /\ proc[p].st = "up" => proc[p].mem.good
           /\ proc[p].st = "down" => Whole(file[p])
<1> DEFINE old == proc[p]
<1>1. /\ Stage(p, old, file[p], blob[p], F, L) /\ old.st \in St
      /\ F \in DataType /\ L \in DataType /\ Whole(F) /\ Whole(L) /\ TypeInv
      /\ old.done \in Nat /\ plan.ext \in Nat /\ old.mem \in DataType
    BY PairFacts
<1>2. Whole(After(F, L, plan.ext)) /\ Whole(After(F, L, old.done)) /\ Whole(Final(F, L))
    BY <1>1, AfterFacts DEF Final
<1>3. Whole(LeftFile(F)) /\ Whole(LeftBlob(L)) /\ Whole(KeptBlob(L)) /\ Whole(None)
    BY <1>1, Markers DEF LeftFile, LeftBlob, KeptBlob, Whole
<1>4. \/ old.st \in {"closing", "writing"} /\ old.mem = Final(F, L)
         /\ file[p] \in {Torn(old.mem), Short(old.mem)}
      \/ /\ old.st \notin {"closing", "writing"}
         /\ file[p] \in {F, LeftFile(F), Final(F, L)}
    BY <1>1 DEF Stage, St
<1>5. blob[p] \in {L, LeftBlob(L), KeptBlob(L), None, After(F, L, plan.ext)}
    BY <1>1 DEF Stage, St
<1>6. old.st = "up" => old.mem \in {L, After(F, L, old.done)}
    BY <1>1 DEF Stage
<1>7. Torn(old.mem).good = old.mem.good /\ Short(old.mem).good = old.mem.good
    BY <1>1, OwnFacts, Damaged
<1>8. file[p].good /\ (old.st = "down" => Whole(file[p]))
    BY <1>1, <1>2, <1>3, <1>4, <1>7 DEF Whole
<1> QED BY <1>1, <1>2, <1>3, <1>5, <1>6, <1>8 DEF Whole

\* A run begins with what the last one left, the same at both ends.
LEMMA ConnectPair ==
    ASSUME SessInv, NEW F, NEW L, Pair(F, L), Connect
    PROVE  \E G, M \in DataType : Pair(G, M)'
<1>1. /\ \A p \in Party : At(p, "down")
      /\ UNCHANGED <<file, blob>> /\ plan'.start \in {"hello", "restore"}
      /\ proc' = [p \in Party |-> Object(plan'.start)] /\ wire' = [p \in Party |-> <<>>]
    BY DEF Connect
<1>2. "ALICE" \in Party /\ "BOB" \in Party /\ Peer("ALICE") = "BOB"
    BY DEF Party, Peer
<1>3. PICK G \in DataType : G = file["ALICE"] /\ Whole(G)
    BY <1>1, <1>2, GoodStage, PairFacts DEF At
<1>4. PICK M \in DataType : M = blob["ALICE"] /\ Whole(M)
    BY <1>2, GoodStage, PairFacts
<1>5. PICK st \in {"hello", "restore"} : st = plan'.start
    BY <1>1
<1>6. PICK me : me = Object(st)
    OBVIOUS
<1>7. me.st = st /\ me.pos = 0 /\ me.done = 0
    BY <1>6 DEF Object
<1>8. ASSUME NEW p \in Party
      PROVE  proc'[p] = me /\ file'[p] = G /\ blob'[p] = M /\ wire'[p] = <<>>
    <2>1. file[p] = G /\ blob[p] = M
        BY <1>1, <1>3, <1>4, BothLeave DEF Party
    <2> QED BY <1>1, <1>5, <1>6, <2>1
<1>9. HasName' = (st = "hello")
    BY <1>5 DEF HasName
<1>10. ASSUME NEW p \in Party PROVE Stage(p, proc[p], file[p], blob[p], G, M)'
    <2>1. Stage(p, me, G, M, G, M)'
        <3>1. CASE me.st = "hello"
            <4>1. HasName' = TRUE
                BY <1>7, <1>9, <3>1
            <4> QED BY <1>7, <3>1, <4>1 DEF Stage
        <3>2. CASE me.st = "restore"
            <4>1. HasName' = FALSE
                BY <1>7, <1>9, <3>2
            <4> QED BY <1>7, <3>2, <4>1 DEF Stage
        <3> QED BY <1>5, <1>7, <3>1, <3>2
    <2> QED BY <1>8, <2>1
<1>11. PICK x \in TurnPlace : \A p \in Party : PlaceIn(p, G, M)' = x
    <2>1. CASE st = "hello"
        <3>1. \A p \in Party : PlaceIn(p, G, M)' = <<0, 0, 0>>
            BY <1>7, <1>8, <2>1, TurnFacts DEF PlaceIn, PlaceOf
        <3> QED BY <3>1 DEF TurnPlace
    <2>2. CASE st = "restore"
        <3>1. \A p \in Party : PlaceIn(p, G, M)' = <<2, 0, 0>>
            BY <1>7, <1>8, <2>2 DEF PlaceIn, PlaceOf
        <3> QED BY <3>1 DEF TurnPlace
    <2> QED BY <1>5, <2>1, <2>2
<1>12. Ahead("ALICE", G, M)'
    <2>1. Chain("ALICE", x, x, <<>>, G, M)'
        BY ChainEmpty
    <2>2. Chain("ALICE", PlaceIn(Peer("ALICE"), G, M), PlaceIn("ALICE", G, M),
                wire[Peer("ALICE")], G, M)'
        BY <1>2, <1>8, <1>11, <2>1
    <2> QED BY <1>2, <1>8, <2>2 DEF Ahead
<1>13. Pair(G, M)'
    BY <1>2, <1>3, <1>4, <1>10, <1>12 DEF Pair
<1> QED BY <1>13

\* Before the first run both ends have nothing.
LEMMA InitPair == Init => LockInv
<1> SUFFICES ASSUME Init PROVE LockInv
    OBVIOUS
<1>1. TypeInv
    BY InitSess DEF SessInv
<1>2. /\ proc = [p \in Party |-> Object("down")] /\ wire = [p \in Party |-> <<>>]
      /\ file = [p \in Party |-> None] /\ blob = [p \in Party |-> None] /\ session = 0
      /\ plan.param = NoParam /\ plan.start = "hello" /\ plan.ext = 0 /\ plan.end = "destroy"
    BY DEF Init
<1>3. PICK n \in DataType : n = None /\ Whole(n)
    BY Markers DEF Whole
<1>4. HasName /\ Fits(n, n) /\ LeftFile(n) = n /\ LeftBlob(n) = n /\ ~Reloads
    BY <1>2, <1>3 DEF HasName, Fits, LeftFile, LeftBlob, Reloads
<1>5. After(n, n, 0) = n
    <2>1. Origin(n, n) = Data(session, 0)
        BY <1>3, <1>4 DEF Origin
    <2>2. Data(session, 0) = None
        BY <1>2 DEF Data, None, Blank
    <2>3. 0 \in Nat
        OBVIOUS
    <2> QED BY <1>1, <1>3, <2>1, <2>2, <2>3, AfterFacts
<1>6. PICK me : me = Object("down")
    OBVIOUS
<1>7. me.st = "down"
    BY <1>6 DEF Object
<1>8. ASSUME NEW p \in Party
      PROVE  /\ proc[p] = me /\ file[p] = n /\ blob[p] = n /\ wire[p] = <<>>
             /\ Stage(p, proc[p], file[p], blob[p], n, n)
             /\ PlaceIn(p, n, n) = <<2, 0, 0>>
    <2>1. proc[p] = me /\ file[p] = n /\ blob[p] = n /\ wire[p] = <<>>
        BY <1>2, <1>3, <1>6
    <2>2. Stage(p, me, n, n, n, n)
        BY <1>2, <1>4, <1>5, <1>7 DEF Stage, Final, KeptBlob
    <2>3. PlaceOf(me, n, n) = <<2, 0, 0>>
        BY <1>2, <1>4, <1>7 DEF PlaceOf
    <2> QED BY <2>1, <2>2, <2>3 DEF PlaceIn
<1>9. "ALICE" \in Party /\ Peer("ALICE") \in Party
    BY DEF Party, Peer
<1>10. Ahead("ALICE", n, n)
    <2>1. PICK x \in TurnPlace : x = <<2, 0, 0>>
        BY DEF TurnPlace
    <2>2. Chain("ALICE", x, x, <<>>, n, n)
        BY ChainEmpty
    <2> QED BY <1>8, <1>9, <2>1, <2>2 DEF Ahead
<1>11. Pair(n, n)
    BY <1>3, <1>8, <1>9, <1>10 DEF Pair
<1> QED BY <1>11 DEF LockInv

\* A step that changes nothing
LEMMA StillPair ==
    ASSUME SessInv, NEW F, NEW L, Pair(F, L), UNCHANGED vars
    PROVE  Pair(F, L)'
<1>1. PICK p \in Party : TRUE
    BY DEF Party
<1>2. PICK me : me = proc[p]
    OBVIOUS
<1>3. /\ proc' = [proc EXCEPT ![p] = me] /\ file' = [file EXCEPT ![p] = file[p]]
      /\ blob' = [blob EXCEPT ![p] = blob[p]] /\ UNCHANGED <<wire, plan, session>>
    BY <1>2 DEF vars, SessInv, TypeInv
<1>4. Stage(p, me, file[p], blob[p], F, L) /\ PlaceOf(me, F, L) = PlaceIn(p, F, L)
    BY <1>2, PairFacts DEF PlaceIn
<1> QED BY <1>3, <1>4, QuietKeeps

(* As long as no process has died and no refused restore is saved, the two ends go through the same turns from
   the same data, whatever is on its way between them. *)
THEOREM Lockstep == Spec => []LockInv
<1>1. Init => LockInv
    BY InitPair
<1>2. SessInv /\ LockInv /\ [Next]_vars => LockInv'
    <2> SUFFICES ASSUME SessInv, LockInv, [Next]_vars, crashes' = 0, mishaps' = {}
                 PROVE  \E F, L \in DataType : Pair(F, L)'
        BY DEF LockInv
    <2>1. /\ crashes = 0 /\ mishaps = {}
          /\ \A p \in Party : ~Crash(p) /\ (RestoreRefused(p) => ~HasName)
        <3>1. crashes \in Nat
            BY DEF SessInv, TypeInv
        <3>2. /\ crashes' = crashes \/ crashes' = crashes + 1
              /\ mishaps \subseteq mishaps'
            BY DEF Next, Connect, Step, Speak, Listen, Decide, Load, LoadShort, LoadStuck,
                   Remove, LoadError, Generate, Restore, RestoreRefused, Extend, Assemble,
                   Reload, DestroyUnsaved, Truncate, WriteHead, Save, Becomes, Crash, Kill,
                   vars
        <3>3. \A p \in Party : Crash(p) => crashes' = crashes + 1
            BY DEF Crash
        <3>4. \A p \in Party : RestoreRefused(p) /\ HasName => "refused" \in mishaps'
            BY DEF RestoreRefused
        <3> QED BY <3>1, <3>2, <3>3, <3>4
    <2>2. PICK F \in DataType, L \in DataType : Pair(F, L)
        BY <2>1 DEF LockInv
    <2>3. CASE Connect
        BY <2>2, <2>3, ConnectPair
    <2>4. ASSUME NEW p \in Party, Step(p) PROVE Pair(F, L)'
        BY <2>1, <2>2, <2>4, SpeakPair, ListenPair, SetupPair, DataPair, EndPair DEF Step
    <2>5. ASSUME NEW p \in Party, Kill(p) PROVE FALSE
        BY <2>2, <2>5, NoKill
    <2>6. ASSUME UNCHANGED vars PROVE Pair(F, L)'
        BY <2>2, <2>6, StillPair
    <2> QED BY <2>1, <2>3, <2>4, <2>5, <2>6 DEF Next
<1> QED BY <1>1, <1>2, Invariance, PTL DEF Spec

(* Between runs without a crash the two ends hold the same data, in their files
   and in what the programs keep. *)
THEOREM EndsAgree == Spec => []EndsMatch
<1>1. SessInv /\ LockInv => EndsMatch
    <2> SUFFICES ASSUME SessInv, LockInv, crashes = 0, mishaps = {},
                        \A p \in Party : At(p, "down")
                 PROVE  file["ALICE"] = file["BOB"] /\ blob["ALICE"] = blob["BOB"]
        BY DEF EndsMatch
    <2>1. PICK F \in DataType, L \in DataType : Pair(F, L)
        BY DEF LockInv
    <2> QED BY <2>1, BothLeave
<1> QED BY <1>1, Invariance, Lockstep, PTL

(* Without a crash every extension starts from the same data at both ends, and
   only such data are saved: the correlation of the outputs survives any number
   of runs, of refused loads and of restored objects. *)
THEOREM StaysCorrelated == Spec => []CorrelatedUntilCrash
<1>1. SessInv /\ LockInv => CorrelatedUntilCrash
    <2> SUFFICES ASSUME SessInv, LockInv, crashes = 0, mishaps = {}, NEW p \in Party
                 PROVE  /\ At(p, "up") => proc[p].mem.good
                        /\ file[p].good /\ blob[p].good
        BY DEF CorrelatedUntilCrash, Correlated
    <2>1. PICK F \in DataType, L \in DataType : Pair(F, L)
        BY DEF LockInv
    <2> QED BY <2>1, GoodStage DEF At, Whole
<1> QED BY <1>1, Invariance, Lockstep, PTL
=============================================================================
