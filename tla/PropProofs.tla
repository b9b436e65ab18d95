----------------------------- MODULE PropProofs -----------------------------
(***************************************************************************)
(* Proofs about DeadProperties, for any number of requests, paths and      *)
(* names and bodies of any length.                                         *)
(***************************************************************************)
EXTENDS DeadProperties, SequenceTheorems, TLAPS

Idle == {"idle", "patch", "list", "get"}
PCs == Idle \cup {"done", "gone"}

LEMMA SecondHalf ==
    ASSUME NEW m \in Nat, NEW n \in Nat, NEW i \in 1 .. m + n, ~(i <= m)
    PROVE  i - m \in 1 .. n
OBVIOUS

LEMMA Halves ==
    ASSUME NEW m \in Nat, NEW n \in Nat
    PROVE  /\ \A j \in 1 .. m : j \in 1 .. m + n /\ j <= m
           /\ \A j \in 1 .. n : m + j \in 1 .. m + n /\ ~(m + j <= m) /\ (m + j) - m = j
OBVIOUS

(* A body is a sequence of instructions, and one that sets has a value. *)
LEMMA OpsType ==
    ASSUME NEW c \in Calls
    PROVE  /\ ParsePropPatch(c) \in Seq(Instruction)
           /\ \A i \in DOMAIN ParsePropPatch(c) :
                 ParsePropPatch(c)[i].remove \/ ParsePropPatch(c)[i].value \in Values
<1> DEFINE ops == ParsePropPatch(c)
<1>1. c.sets \in Seq(Sets) /\ c.removes \in Seq(Removes)
  BY CallsAssumption DEF Call
<1>2. c.sets \in Seq(Instruction) /\ c.removes \in Seq(Instruction)
  BY <1>1 DEF Sets, Removes
<1>3. /\ ops \in Seq(Instruction) /\ Len(ops) = Len(c.sets) + Len(c.removes)
      /\ \A i \in 1 .. Len(c.sets) + Len(c.removes) :
            ops[i] = IF i <= Len(c.sets) THEN c.sets[i]
                     ELSE c.removes[i - Len(c.sets)]
  BY <1>2, ConcatProperties DEF ParsePropPatch
<1>4. DOMAIN ops = 1 .. Len(c.sets) + Len(c.removes)
  BY <1>3, LenProperties
<1>5. Len(c.sets) \in Nat /\ Len(c.removes) \in Nat
  BY <1>1, LenProperties
<1> HIDE DEF ops
<1>6. ASSUME NEW i \in 1 .. Len(c.sets) + Len(c.removes)
      PROVE  ops[i].remove \/ ops[i].value \in Values
  <2>1. CASE i <= Len(c.sets)
    <3>1. i \in 1 .. Len(c.sets)
      BY <1>5, <2>1
    <3>3. ops[i] = c.sets[i]
      BY <1>3, <2>1
    <3>2. ops[i] \in Sets
      BY <1>1, <3>1, <3>3, ElementOfSeq
    <3> QED BY <3>2 DEF Sets, Instruction
  <2>2. CASE ~(i <= Len(c.sets))
    <3>1. i - Len(c.sets) \in 1 .. Len(c.removes)
      BY <1>5, <2>2, SecondHalf
    <3>3. ops[i] = c.removes[i - Len(c.sets)]
      BY <1>3, <2>2
    <3>2. ops[i] \in Removes
      BY <1>1, <3>1, <3>3, ElementOfSeq
    <3> QED BY <3>2 DEF Removes
  <2> QED BY <2>1, <2>2
<1> QED BY <1>3, <1>4, <1>6 DEF ops

LEMMA NamesType ==
    ASSUME NEW c \in Calls PROVE c.names \in Seq(Names)
BY CallsAssumption DEF Call

(* Where the two loops can leave a request, and with what answer. *)
PatchLeads(r, c, i) ==
    /\ pc' \in [Requests -> PCs] /\ at' \in [Requests -> Nat \ {0}]
    /\ answer' \in [Requests -> Answers]
    /\ \A q \in Requests \ {r} : /\ pc'[q] = pc[q] /\ at'[q] = at[q]
                                 /\ answer'[q] = answer[q]
    /\ pc'[r] \in {"patch", "done"}
    /\ answer'[r].shown \in {{}, answer[r].shown}
    /\ pc'[r] = "patch" => /\ at'[r] = i /\ answer' = answer
                           /\ i \in DOMAIN ParsePropPatch(c)
                           /\ ParsePropPatch(c)[i].name.ns # "DAV:"
    /\ (pc'[r] = "done" /\ answer'[r].status = 207) => i > Len(ParsePropPatch(c))

LEMMA PatchFromType ==
    ASSUME NEW r \in Requests, NEW c \in Calls, NEW i \in Nat \ {0},
           pc \in [Requests -> PCs], at \in [Requests -> Nat \ {0}],
           answer \in [Requests -> Answers], PatchFrom(r, c, i)
    PROVE  PatchLeads(r, c, i)
<1>1. Len(ParsePropPatch(c)) \in Nat /\ DOMAIN ParsePropPatch(c) = 1 .. Len(ParsePropPatch(c))
  BY OpsType
<1>2. \A s \in {207, 403} : [NoAnswer EXCEPT !.status = s] \in Answers
  BY DEF NoAnswer, Answers
<1>3. \A s : [NoAnswer EXCEPT !.status = s].shown = {} /\ [NoAnswer EXCEPT !.status = s].status = s
  BY DEF NoAnswer
<1>4. \/ i > Len(ParsePropPatch(c)) /\ ReplyStatus(r, 207)
      \/ ReplyStatus(r, 403)
      \/ /\ i <= Len(ParsePropPatch(c)) /\ Continue(r, "patch", i)
         /\ ParsePropPatch(c)[i].name.ns # "DAV:"
  BY DEF PatchFrom
<1>5. CASE i > Len(ParsePropPatch(c)) /\ ReplyStatus(r, 207)
  BY <1>2, <1>3, <1>5 DEF PatchLeads, ReplyStatus, Reply, PCs, Idle
<1>6. CASE ReplyStatus(r, 403)
  BY <1>2, <1>3, <1>6 DEF PatchLeads, ReplyStatus, Reply, PCs, Idle
<1>7. CASE /\ i <= Len(ParsePropPatch(c)) /\ Continue(r, "patch", i)
           /\ ParsePropPatch(c)[i].name.ns # "DAV:"
  BY <1>1, <1>7 DEF PatchLeads, Continue, PCs, Idle
<1> QED BY <1>4, <1>5, <1>6, <1>7

LEMMA ContactAnswerType ==
    ASSUME NEW c \in Calls,
           NEW d \in [shown : SUBSET (Names \X Values), missing : SUBSET Names]
    PROVE  /\ ContactAnswer(c, d) \in Answers
           /\ ContactAnswer(c, d).shown = d.shown
<1>1. RequestedProps(c) \subseteq Names
  BY NamesType DEF RequestedProps
<1> QED BY <1>1 DEF ContactAnswer, Answers, Hit, Miss

LEMMA LookUpFromType ==
    ASSUME NEW r \in Requests, NEW c \in Calls, NEW i \in Nat \ {0},
           NEW d \in [shown : SUBSET (Names \X Values), missing : SUBSET Names],
           pc \in [Requests -> PCs], at \in [Requests -> Nat \ {0}],
           answer \in [Requests -> Answers], LookUpFrom(r, c, i, d)
    PROVE  /\ pc' \in [Requests -> PCs] /\ at' \in [Requests -> Nat \ {0}]
           /\ answer' \in [Requests -> Answers]
           /\ \A q \in Requests \ {r} : /\ pc'[q] = pc[q] /\ at'[q] = at[q]
                                        /\ answer'[q] = answer[q]
           /\ pc'[r] \in {"get", "done"}
           /\ answer'[r].shown \in {d.shown, answer[r].shown}
           /\ pc'[r] = "get" => at'[r] \in DOMAIN c.names /\ answer' = answer
<1>1. PICK j \in i .. Len(c.names) + 1 :
        \/ j > Len(c.names) /\ Reply(r, ContactAnswer(c, d))
        \/ j <= Len(c.names) /\ Continue(r, "get", j)
  BY DEF LookUpFrom
<1>2. /\ Len(c.names) \in Nat /\ DOMAIN c.names = 1 .. Len(c.names)
      /\ j \in Nat \ {0}
  BY NamesType
<1>3. CASE j > Len(c.names) /\ Reply(r, ContactAnswer(c, d))
  BY <1>2, <1>3, ContactAnswerType DEF Reply, PCs, Idle
<1>4. CASE j <= Len(c.names) /\ Continue(r, "get", j)
  BY <1>2, <1>4 DEF Continue, PCs, Idle
<1> QED BY <1>1, <1>3, <1>4

-----------------------------------------------------------------------------
(* Types *)

LEMMA RowTypes ==
    ASSUME NEW p \in Resources, properties \in [Resources -> Rows]
    PROVE  ListProperties(p) \subseteq Names \X Values
BY DEF ListProperties, Rows

LEMMA CallTypes ==
    ASSUME NEW c \in Calls
    PROVE  /\ c # Absent /\ c.path \in Resources
           /\ \A i \in DOMAIN ParsePropPatch(c) :
                 /\ ParsePropPatch(c)[i] \in Instruction
                 /\ ParsePropPatch(c)[i].name \in Names
<1>1. c # Absent /\ c.path \in Resources
  BY CallsAssumption DEF Call
<1>2. ASSUME NEW i \in DOMAIN ParsePropPatch(c)
      PROVE  ParsePropPatch(c)[i] \in Instruction
  BY OpsType, LenProperties, ElementOfSeq
<1> QED BY <1>1, <1>2 DEF Instruction

LEMMA InitInv == Init => Inv
<1> SUFFICES ASSUME Init PROVE Inv
  OBVIOUS
<1>1. TypeOK
  <2>1. Nothing \in [shown : SUBSET (Names \X Values), missing : SUBSET Names]
    BY DEF Nothing
  <2>2. NoAnswer \in Answers
    BY DEF NoAnswer, Answers
  <2> QED BY <2>1, <2>2, SeedAssumption DEF Init, TypeOK, Rows
<1>2. OnlyDeadStored
  BY SeedAssumption DEF Init, OnlyDeadStored
<1>3. Ready
  BY DEF Init, Ready
<1>4. SetsSoFar
  BY DEF Init, SetsSoFar
<1>5. OnlyWhatWasSet
  BY DEF Init, OnlyWhatWasSet, WasSet, Nothing, NoAnswer
<1> QED BY <1>1, <1>2, <1>3, <1>4, <1>5 DEF Inv

(* What the lemmas about the loops assume. *)
LEMMA TypeParts ==
    ASSUME TypeOK
    PROVE  /\ properties \in [Resources -> Rows] /\ pc \in [Requests -> PCs]
           /\ call \in [Requests -> Calls \cup {Absent}]
           /\ at \in [Requests -> Nat \ {0}] /\ answer \in [Requests -> Answers]
           /\ part \in [Requests -> [shown : SUBSET (Names \X Values),
                                     missing : SUBSET Names]]
           /\ \A r \in Requests : pc[r] # "idle" => call[r] \in Calls
BY DEF TypeOK, PCs, Idle

(* The part of the type that a request's own step can disturb. *)
LEMMA ArriveTypes ==
    ASSUME TypeOK, NEW r \in Requests, NEW c \in Calls, Arrive(r, c),
           pc' \in [Requests -> PCs], pc'[r] # "idle",
           at' \in [Requests -> Nat \ {0}], answer' \in [Requests -> Answers],
           \A q \in Requests \ {r} : pc'[q] = pc[q] /\ at'[q] = at[q],
           pc'[r] = "patch" => at'[r] \in DOMAIN ParsePropPatch(c),
           pc'[r] = "get" => at'[r] \in DOMAIN c.names
    PROVE  TypeOK'
<1>1. call' \in [Requests -> Calls \cup {Absent}] /\ call'[r] = c
      /\ \A q \in Requests \ {r} : call'[q] = call[q]
  BY DEF Arrive, TypeOK
<1>2. before' \in [Requests -> Rows]
  BY CallTypes DEF Arrive, TypeOK
<1>3. /\ properties' \in [Resources -> Rows] /\ alone' \in [Requests -> BOOLEAN]
      /\ part' \in [Requests -> [shown : SUBSET (Names \X Values),
                                 missing : SUBSET Names]]
  BY DEF Arrive, TypeOK
<1>4. \A q \in Requests : (pc'[q] = "idle") <=> (call'[q] = Absent)
  BY <1>1, CallTypes DEF TypeOK
<1>5. \A q \in Requests : pc'[q] = "patch" => at'[q] \in DOMAIN ParsePropPatch(call'[q])
  BY <1>1 DEF TypeOK
<1>6. \A q \in Requests : pc'[q] = "get" => at'[q] \in DOMAIN call'[q].names
  BY <1>1 DEF TypeOK
<1> QED BY <1>1, <1>2, <1>3, <1>4, <1>5, <1>6 DEF TypeOK, PCs, Idle

LEMMA LaterTypes ==
    ASSUME TypeOK, NEW r \in Requests, pc[r] # "idle", call' = call,
           properties' \in [Resources -> Rows], alone' \in [Requests -> BOOLEAN],
           part' \in [Requests -> [shown : SUBSET (Names \X Values),
                                   missing : SUBSET Names]],
           pc' \in [Requests -> PCs], pc'[r] # "idle",
           at' \in [Requests -> Nat \ {0}], answer' \in [Requests -> Answers],
           \A q \in Requests \ {r} : pc'[q] = pc[q] /\ at'[q] = at[q],
           pc'[r] = "patch" => at'[r] \in DOMAIN ParsePropPatch(call[r]),
           pc'[r] = "get" => at'[r] \in DOMAIN call[r].names, UNCHANGED before
    PROVE  TypeOK'
<1>1. \A q \in Requests : (pc'[q] = "idle") <=> (call'[q] = Absent)
  BY DEF TypeOK
<1>2. \A q \in Requests : pc'[q] = "patch" => at'[q] \in DOMAIN ParsePropPatch(call'[q])
  BY DEF TypeOK
<1>3. \A q \in Requests : pc'[q] = "get" => at'[q] \in DOMAIN call'[q].names
  BY DEF TypeOK
<1> QED BY <1>1, <1>2, <1>3 DEF TypeOK, PCs, Idle

(* An answer without rows. *)
LEMMA ReplyTypes ==
    ASSUME TypeOK, NEW r \in Requests, NEW s \in {400, 403, 404, 500},
           ReplyStatus(r, s)
    PROVE  /\ pc' \in [Requests -> PCs] /\ pc'[r] = "done"
           /\ at' \in [Requests -> Nat \ {0}] /\ answer' \in [Requests -> Answers]
           /\ \A q \in Requests \ {r} : /\ pc'[q] = pc[q] /\ at'[q] = at[q]
                                        /\ answer'[q] = answer[q]
           /\ answer'[r].shown = {} /\ answer'[r].status # 207
<1>1. /\ [NoAnswer EXCEPT !.status = s] \in Answers
      /\ [NoAnswer EXCEPT !.status = s].shown = {}
      /\ [NoAnswer EXCEPT !.status = s].status # 207
  BY DEF NoAnswer, Answers
<1> QED BY <1>1, TypeParts DEF ReplyStatus, Reply, PCs, Idle

-----------------------------------------------------------------------------
(* What a step of r does, as far as the invariant can see. *)
Outcome(r) ==
    /\ \A q \in Requests \ {r} :
          /\ pc'[q] = pc[q] /\ at'[q] = at[q] /\ answer'[q] = answer[q]
          /\ part'[q] = part[q] /\ call'[q] = call[q]
    /\ call'[r] \in Calls /\ (call[r] # Absent => call'[r] = call[r])
    /\ pc'[r] # "idle" /\ pc[r] # "done"
    /\ pc'[r] = "patch" => /\ call'[r].op = "PROPPATCH"
                           /\ ParsePropPatch(call'[r])[at'[r]].name.ns # "DAV:"
    /\ pc'[r] \in {"list", "get"} => call'[r].op = "PROPFIND"
    /\ pc'[r] # "done" => answer'[r] = answer[r]
    /\ call'[r].op = "PROPPATCH" =>
          \A i \in Past(r)' :
             (call[r] # Absent /\ i \in Past(r)) \/ (PatchOp(r) /\ i = at[r])
    /\ part'[r].shown \cup answer'[r].shown
          \subseteq part[r].shown \cup answer[r].shown \cup ListProperties(call'[r].path)
    /\ properties' = properties \/ PatchOp(r)

LEMMA PropPatchOutcome ==
    ASSUME Inv, NEW r \in Requests, PropPatch(r)
    PROVE  TypeOK' /\ Outcome(r)
<1> USE DEF Inv
<1>1. PICK c \in Calls :
        /\ c.op = "PROPPATCH" /\ Arrive(r, c)
        /\ ReplyStatus(r, 400) \/ PatchFrom(r, c, 1)
  BY DEF PropPatch
<1>2. /\ call' = [call EXCEPT ![r] = c] /\ pc[r] = "idle" /\ call[r] = Absent
      /\ part' = part /\ properties' = properties /\ call'[r] = c
  BY <1>1 DEF Arrive, TypeOK
<1>3. answer[r] = NoAnswer /\ answer[r].shown = {}
  BY <1>2 DEF Ready, NoAnswer
<1>4. CASE ReplyStatus(r, 400)
  <2>1. TypeOK'
    BY <1>1, <1>4, ReplyTypes, ArriveTypes
  <2>2. Past(r)' = {}
    BY <1>4, ReplyTypes DEF Past
  <2> QED BY <1>1, <1>2, <1>3, <1>4, <2>1, <2>2, ReplyTypes, TypeParts DEF Outcome
<1>5. CASE PatchFrom(r, c, 1)
  <2>0. 1 \in Nat \ {0}
    OBVIOUS
  <2>1. PatchLeads(r, c, 1)
    BY <1>5, <2>0, TypeParts, PatchFromType
  <2>2. TypeOK'
    BY <1>1, <2>1, ArriveTypes DEF PatchLeads
  <2>3. Past(r)' = {}
    <3>1. Len(ParsePropPatch(c)) \in Nat
          /\ DOMAIN ParsePropPatch(c) = 1 .. Len(ParsePropPatch(c))
      BY OpsType, LenProperties
    <3>2. pc'[r] = "patch" => answer'[r].status # 207
      BY <1>3, <2>1 DEF NoAnswer, PatchLeads
    <3> QED BY <1>2, <2>1, <3>1, <3>2 DEF Past, PatchLeads
  <2> QED BY <1>1, <1>2, <1>3, <2>1, <2>2, <2>3, TypeParts DEF Outcome, PatchLeads
<1> QED BY <1>1, <1>4, <1>5

LEMMA NothingType ==
    /\ Nothing \in [shown : SUBSET (Names \X Values), missing : SUBSET Names]
    /\ Nothing.shown = {}
BY DEF Nothing

LEMMA ContactPropfindOutcome ==
    ASSUME Inv, NEW r \in Requests, ContactPropfind(r)
    PROVE  TypeOK' /\ Outcome(r)
<1> USE DEF Inv
<1>1. PICK c \in Calls :
        /\ c.op = "PROPFIND" /\ Arrive(r, c)
        /\ \/ \E s \in {400, 403, 404, 500} : ReplyStatus(r, s)
           \/ Continue(r, "list", 1)
           \/ LookUpFrom(r, c, 1, Nothing)
  BY DEF ContactPropfind
<1>2. /\ call' = [call EXCEPT ![r] = c] /\ pc[r] = "idle" /\ call[r] = Absent
      /\ part' = part /\ properties' = properties /\ call'[r] = c
  BY <1>1 DEF Arrive, TypeOK
<1>3. answer[r] = NoAnswer /\ answer[r].shown = {}
  BY <1>2 DEF Ready, NoAnswer
<1>4. ASSUME NEW s \in {400, 403, 404, 500}, ReplyStatus(r, s)
      PROVE  TypeOK' /\ Outcome(r)
  <2>1. TypeOK'
    BY <1>1, <1>4, ReplyTypes, ArriveTypes
  <2> QED BY <1>1, <1>2, <1>3, <1>4, <2>1, ReplyTypes, TypeParts DEF Outcome
<1>5. CASE Continue(r, "list", 1)
  <2>1. /\ pc' \in [Requests -> PCs] /\ at' \in [Requests -> Nat \ {0}]
        /\ answer' = answer /\ pc'[r] = "list"
        /\ \A q \in Requests \ {r} : pc'[q] = pc[q] /\ at'[q] = at[q]
    BY <1>5, TypeParts DEF Continue, PCs, Idle
  <2>2. TypeOK'
    BY <1>1, <2>1, TypeParts, ArriveTypes
  <2> QED BY <1>1, <1>2, <1>3, <2>1, <2>2, TypeParts DEF Outcome
<1>6. CASE LookUpFrom(r, c, 1, Nothing)
  <2>0. 1 \in Nat \ {0}
    OBVIOUS
  <2>1. /\ pc' \in [Requests -> PCs] /\ at' \in [Requests -> Nat \ {0}]
        /\ answer' \in [Requests -> Answers]
        /\ \A q \in Requests \ {r} : /\ pc'[q] = pc[q] /\ at'[q] = at[q]
                                     /\ answer'[q] = answer[q]
        /\ pc'[r] \in {"get", "done"}
        /\ answer'[r].shown \in {Nothing.shown, answer[r].shown}
        /\ pc'[r] = "get" => at'[r] \in DOMAIN c.names /\ answer' = answer
    BY <1>6, <2>0, TypeParts, NothingType, LookUpFromType
  <2>2. TypeOK'
    BY <1>1, <2>1, ArriveTypes
  <2> QED BY <1>1, <1>2, <1>3, <2>1, <2>2, NothingType, TypeParts DEF Outcome
<1> QED BY <1>1, <1>4, <1>5, <1>6

LEMMA AddressBookPropfindOutcome ==
    ASSUME Inv, NEW r \in Requests, AddressBookPropfind(r)
    PROVE  TypeOK' /\ Outcome(r)
<1> USE DEF Inv
<1>1. PICK c \in Calls :
        /\ c.op = "PROPFIND" /\ Arrive(r, c)
        /\ \/ \E s \in {400, 403, 404, 500} : ReplyStatus(r, s)
           \/ Reply(r, BookAnswer(c))
  BY DEF AddressBookPropfind
<1>2. /\ call' = [call EXCEPT ![r] = c] /\ pc[r] = "idle" /\ call[r] = Absent
      /\ part' = part /\ properties' = properties /\ call'[r] = c
  BY <1>1 DEF Arrive, TypeOK
<1>3. answer[r] = NoAnswer /\ answer[r].shown = {}
  BY <1>2 DEF Ready, NoAnswer
<1>4. ASSUME NEW s \in {400, 403, 404, 500}, ReplyStatus(r, s)
      PROVE  TypeOK' /\ Outcome(r)
  <2>1. TypeOK'
    BY <1>1, <1>4, ReplyTypes, ArriveTypes
  <2> QED BY <1>1, <1>2, <1>3, <1>4, <2>1, ReplyTypes, TypeParts DEF Outcome
<1>5. CASE Reply(r, BookAnswer(c))
  <2>1. BookAnswer(c) \in Answers /\ BookAnswer(c).shown = {}
    <3>1. RequestedProps(c) \subseteq Names
      BY NamesType DEF RequestedProps
    <3> QED BY <3>1 DEF BookAnswer, Answers, Hit, Miss
  <2>2. /\ pc' \in [Requests -> PCs] /\ at' \in [Requests -> Nat \ {0}]
        /\ answer' \in [Requests -> Answers] /\ pc'[r] = "done"
        /\ answer'[r].shown = {}
        /\ \A q \in Requests \ {r} : /\ pc'[q] = pc[q] /\ at'[q] = at[q]
                                     /\ answer'[q] = answer[q]
    BY <1>5, <2>1, TypeParts DEF Reply, PCs, Idle
  <2>3. TypeOK'
    BY <1>1, <2>2, ArriveTypes
  <2> QED BY <1>1, <1>2, <1>3, <2>2, <2>3, TypeParts DEF Outcome
<1> QED BY <1>1, <1>4, <1>5

LEMMA StoreErrorOutcome ==
    ASSUME Inv, NEW r \in Requests, StoreError(r)
    PROVE  TypeOK' /\ Outcome(r)
<1> USE DEF Inv
<1>1. /\ pc[r] \in {"patch", "list", "get"} /\ ReplyStatus(r, 500)
      /\ UNCHANGED <<properties, call, part, history>> /\ call[r] \in Calls
  BY TypeParts DEF StoreError, InFlight
<1>2. TypeOK'
  <2>1. /\ properties' \in [Resources -> Rows] /\ alone' \in [Requests -> BOOLEAN]
        /\ part' \in [Requests -> [shown : SUBSET (Names \X Values),
                                   missing : SUBSET Names]]
    BY <1>1 DEF TypeOK, history
  <2> QED BY <1>1, <2>1, ReplyTypes, LaterTypes DEF history
<1>3. Past(r)' = {}
  BY <1>1, ReplyTypes DEF Past
<1> QED BY <1>1, <1>2, <1>3, ReplyTypes DEF Outcome

LEMMA ListDeadOutcome ==
    ASSUME Inv, NEW r \in Requests, ListDead(r)
    PROVE  TypeOK' /\ Outcome(r)
<1> USE DEF Inv
<1> DEFINE d == [shown |-> ListProperties(call[r].path), missing |-> {}]
<1>1. /\ pc[r] = "list" /\ Reply(r, ContactAnswer(call[r], d))
      /\ UNCHANGED <<properties, call, part, history>> /\ call[r] \in Calls
      /\ call[r].op = "PROPFIND" /\ call[r].path \in Resources
  BY TypeParts, CallTypes DEF ListDead, Ready
<1>2. /\ d \in [shown : SUBSET (Names \X Values), missing : SUBSET Names]
      /\ d.shown = ListProperties(call[r].path)
  BY <1>1, TypeParts, RowTypes
<1> HIDE DEF d
<1>3. /\ pc' \in [Requests -> PCs] /\ at' \in [Requests -> Nat \ {0}]
      /\ answer' \in [Requests -> Answers] /\ pc'[r] = "done"
      /\ answer'[r].shown = ListProperties(call[r].path)
      /\ \A q \in Requests \ {r} : /\ pc'[q] = pc[q] /\ at'[q] = at[q]
                                   /\ answer'[q] = answer[q]
  BY <1>1, <1>2, TypeParts, ContactAnswerType DEF Reply, PCs, Idle
<1>4. TypeOK'
  <2>1. /\ properties' \in [Resources -> Rows] /\ alone' \in [Requests -> BOOLEAN]
        /\ part' \in [Requests -> [shown : SUBSET (Names \X Values),
                                   missing : SUBSET Names]]
    BY <1>1 DEF TypeOK, history
  <2> QED BY <1>1, <1>3, <2>1, LaterTypes DEF history
<1> QED BY <1>1, <1>3, <1>4 DEF Outcome

LEMMA GetDeadOutcome ==
    ASSUME Inv, NEW r \in Requests, GetDead(r)
    PROVE  TypeOK' /\ Outcome(r)
<1> USE DEF Inv
<1> DEFINE c == call[r]
           name == c.names[at[r]]
           d == LookUp(part[r], c.path, name)
<1>1. /\ pc[r] = "get" /\ part' = [part EXCEPT ![r] = d]
      /\ LookUpFrom(r, c, at[r] + 1, part'[r])
      /\ UNCHANGED <<properties, call, history>>
      /\ c \in Calls /\ c.op = "PROPFIND" /\ c.path \in Resources
  BY TypeParts, CallTypes DEF GetDead, Ready
<1>2. name \in Names
  BY <1>1, NamesType, LenProperties, ElementOfSeq DEF TypeOK
<1>3. /\ d \in [shown : SUBSET (Names \X Values), missing : SUBSET Names]
      /\ d.shown \subseteq part[r].shown \cup ListProperties(c.path)
  <2>1. properties[c.path][name] \in Values \cup {Absent}
    BY <1>1, <1>2, TypeParts DEF Rows
  <2> HIDE DEF name
  <2> QED BY <1>1, <1>2, <2>1, TypeParts DEF LookUp, GetProperty, ListProperties
<1> HIDE DEF d
<1>4. /\ part'[r] = d /\ \A q \in Requests \ {r} : part'[q] = part[q]
      /\ part' \in [Requests -> [shown : SUBSET (Names \X Values),
                                 missing : SUBSET Names]]
  BY <1>1, <1>3, TypeParts
<1>5. at[r] + 1 \in Nat \ {0}
  BY TypeParts
<1>6. /\ pc' \in [Requests -> PCs] /\ at' \in [Requests -> Nat \ {0}]
      /\ answer' \in [Requests -> Answers]
      /\ \A q \in Requests \ {r} : /\ pc'[q] = pc[q] /\ at'[q] = at[q]
                                   /\ answer'[q] = answer[q]
      /\ pc'[r] \in {"get", "done"}
      /\ answer'[r].shown \in {d.shown, answer[r].shown}
      /\ pc'[r] = "get" => at'[r] \in DOMAIN c.names /\ answer' = answer
  BY <1>1, <1>3, <1>4, <1>5, TypeParts, LookUpFromType
<1>7. TypeOK'
  <2>1. properties' \in [Resources -> Rows] /\ alone' \in [Requests -> BOOLEAN]
    BY <1>1 DEF TypeOK, history
  <2> QED BY <1>1, <1>4, <1>6, <2>1, LaterTypes DEF history
<1> QED BY <1>1, <1>3, <1>4, <1>6, <1>7 DEF Outcome

LEMMA PatchOpOutcome ==
    ASSUME Inv, NEW r \in Requests, PatchOp(r)
    PROVE  TypeOK' /\ Outcome(r)
<1> USE DEF Inv
<1> DEFINE c == call[r]
           op == ParsePropPatch(c)[at[r]]
<1>1. /\ pc[r] = "patch" /\ c \in Calls /\ c \in Call
      /\ c.path \in Resources /\ at[r] \in DOMAIN ParsePropPatch(c)
      /\ at[r] \in Nat \ {0} /\ at[r] + 1 \in Nat \ {0}
  BY TypeParts, CallTypes, CallsAssumption DEF PatchOp, TypeOK
<1>2. /\ properties' = Stored(c.path, op.name,
                              IF op.remove THEN Absent ELSE op.value)
      /\ PatchFrom(r, c, at[r] + 1)
      /\ alone' = [q \in Requests |->
                      alone[q] /\ (q = r \/ q \notin InFlight
                                         \/ call[q].path # c.path)]
      /\ UNCHANGED <<call, part, before>>
  BY DEF PatchOp
<1>3. /\ op.name \in Names
      /\ (IF op.remove THEN Absent ELSE op.value) \in Values \cup {Absent}
  BY <1>1, CallTypes, OpsType
<1>4. /\ Len(ParsePropPatch(c)) \in Nat
      /\ DOMAIN ParsePropPatch(c) = 1 .. Len(ParsePropPatch(c))
  BY <1>1, OpsType, LenProperties
<1> HIDE DEF op
<1>5. PatchLeads(r, c, at[r] + 1)
  BY <1>1, <1>2, TypeParts, PatchFromType
<1>6. TypeOK'
  <2>1. properties' \in [Resources -> Rows]
    BY <1>1, <1>2, <1>3, TypeParts DEF Stored, Rows
  <2>2. alone' \in [Requests -> BOOLEAN]
    BY <1>2 DEF TypeOK
  <2>3. part' \in [Requests -> [shown : SUBSET (Names \X Values),
                                missing : SUBSET Names]]
    BY <1>2, TypeParts
  <2> QED BY <1>1, <1>2, <1>5, <2>1, <2>2, <2>3, LaterTypes DEF PatchLeads
<1>7. c.op = "PROPPATCH" => \A i \in Past(r)' : i \in Past(r) \/ i = at[r]
  BY <1>1, <1>2, <1>4, <1>5, TypeParts DEF Past, PatchLeads, Ready, NoAnswer
<1>8. c.op = "PROPPATCH" /\ c # Absent
  BY <1>1, CallTypes DEF Ready
<1> QED BY <1>1, <1>2, <1>5, <1>6, <1>7, <1>8 DEF Outcome, PatchLeads

LEMMA StepOutcome ==
    ASSUME Inv, NEW r \in Requests, Step(r)
    PROVE  TypeOK' /\ Outcome(r)
BY PropPatchOutcome, ContactPropfindOutcome, AddressBookPropfindOutcome,
   PatchOpOutcome, ListDeadOutcome, GetDeadOutcome, StoreErrorOutcome DEF Step

-----------------------------------------------------------------------------
(* Each part of the invariant is kept *)

(* What a client asked for is never forgotten. *)
LEMMA InstructionsStay ==
    ASSUME Inv, NEW r \in Requests, Outcome(r), NEW q \in Requests,
           NEW p \in Resources
    PROVE  InstructionsOf(q, p) \subseteq InstructionsOf(q, p)'
BY DEF Outcome, InstructionsOf

LEMMA PatchFacts ==
    ASSUME Inv, NEW r \in Requests, PatchOp(r)
    PROVE  LET c == call[r]
               op == ParsePropPatch(c)[at[r]]
           IN  /\ c.path \in Resources /\ op.name \in Names
               /\ op.name.ns # "DAV:" /\ op \in InstructionsOf(r, c.path)
               /\ op.remove \/ (op.value \in Values /\ op.value # Absent)
               /\ properties' = Stored(c.path, op.name,
                                       IF op.remove THEN Absent ELSE op.value)
               /\ call' = call
<1> USE DEF Inv
<1>1. /\ pc[r] = "patch" /\ call[r] \in Calls /\ at[r] \in DOMAIN ParsePropPatch(call[r])
      /\ call[r].op = "PROPPATCH" /\ ParsePropPatch(call[r])[at[r]].name.ns # "DAV:"
  BY TypeParts DEF PatchOp, TypeOK, Ready
<1> QED BY <1>1, CallTypes, OpsType, ValuesAssumption DEF PatchOp, InstructionsOf

(* A row is removed only for a client that asked for it. *)
LEMMA RowsStay ==
    ASSUME Inv, NEW r \in Requests, Outcome(r), NEW p \in Resources, NEW n \in Names,
           properties[p][n] # Absent \/ Removed(p, n)
    PROVE  (properties[p][n] # Absent \/ Removed(p, n))'
<1>1. CASE Removed(p, n)
  BY <1>1, InstructionsStay DEF Removed
<1>2. CASE properties[p][n] # Absent /\ properties' = properties
  BY <1>2
<1>3. CASE properties[p][n] # Absent /\ PatchOp(r)
  <2> DEFINE c == call[r]
             op == ParsePropPatch(c)[at[r]]
  <2>1. /\ c.path \in Resources /\ op.name \in Names
        /\ op \in InstructionsOf(r, c.path)
        /\ op.remove \/ (op.value \in Values /\ op.value # Absent)
        /\ properties' = Stored(c.path, op.name,
                                IF op.remove THEN Absent ELSE op.value)
        /\ call' = call
    BY <1>3, PatchFacts
  <2> HIDE DEF c, op
  <2>2. properties \in [Resources -> Rows]
    BY DEF Inv, TypeOK
  <2>3. CASE c.path = p /\ op.name = n /\ op.remove
    <3>1. InstructionsOf(r, p)' = InstructionsOf(r, p)
      BY <2>1 DEF InstructionsOf
    <3> QED BY <2>1, <2>3, <3>1 DEF Removed
  <2>4. CASE ~(c.path = p /\ op.name = n /\ op.remove)
    BY <1>3, <2>1, <2>2, <2>4 DEF Stored, Rows
  <2> QED BY <2>3, <2>4
<1> QED BY <1>1, <1>2, <1>3 DEF Outcome

LEMMA WasSetStays ==
    ASSUME Inv, NEW r \in Requests, Outcome(r), NEW p \in Resources, NEW n, NEW v,
           WasSet(p, n, v)
    PROVE  WasSet(p, n, v)'
BY InstructionsStay DEF WasSet

LEMMA StepDead ==
    ASSUME Inv, NEW r \in Requests, Outcome(r) PROVE OnlyDeadStored'
<1>1. CASE properties' = properties
  BY <1>1 DEF Inv, OnlyDeadStored
<1>2. CASE PatchOp(r)
  <2> DEFINE c == call[r]
             op == ParsePropPatch(c)[at[r]]
             value == IF op.remove THEN Absent ELSE op.value
  <2>1. /\ c.path \in Resources /\ op.name \in Names /\ op.name.ns # "DAV:"
        /\ properties' = Stored(c.path, op.name, value)
    BY <1>2, PatchFacts
  <2> HIDE DEF c, op, value
  <2>2. properties \in [Resources -> Rows]
    BY DEF Inv, TypeOK
  <2> QED BY <2>1, <2>2 DEF Inv, OnlyDeadStored, Stored, Rows
<1> QED BY <1>1, <1>2 DEF Outcome

LEMMA StepReady ==
    ASSUME Inv, NEW r \in Requests, Outcome(r) PROVE Ready'
<1>1. ASSUME NEW q \in Requests, q # r
      PROVE  /\ pc'[q] = pc[q] /\ at'[q] = at[q] /\ answer'[q] = answer[q]
             /\ part'[q] = part[q] /\ call'[q] = call[q]
  BY <1>1 DEF Outcome
<1>2. \A q \in Requests : pc'[q] = "patch" =>
         /\ call'[q].op = "PROPPATCH"
         /\ ParsePropPatch(call'[q])[at'[q]].name.ns # "DAV:"
  BY <1>1 DEF Inv, Ready, Outcome
<1>3. \A q \in Requests : pc'[q] \in {"list", "get"} => call'[q].op = "PROPFIND"
  BY <1>1 DEF Inv, Ready, Outcome
<1>4. \A q \in Requests : pc'[q] # "done" => answer'[q] = NoAnswer
  BY <1>1 DEF Inv, Ready, Outcome
<1>5. \A q \in Requests : pc'[q] = "idle" => part'[q] = Nothing
  BY <1>1 DEF Inv, Ready, Outcome
<1> QED BY <1>2, <1>3, <1>4, <1>5 DEF Ready

LEMMA StepSets ==
    ASSUME Inv, NEW r \in Requests, Outcome(r) PROVE SetsSoFar'
<1> SUFFICES ASSUME NEW q \in Requests, call'[q] # Absent,
                    call'[q].op = "PROPPATCH", NEW i \in Past(q)'
             PROVE  (\/ properties[call[q].path][ParsePropPatch(call[q])[i].name] # Absent
                     \/ Removed(call[q].path, ParsePropPatch(call[q])[i].name))'
  BY DEF SetsSoFar
<1>1. \/ call[q] # Absent /\ call'[q] = call[q] /\ i \in Past(q)
      \/ q = r /\ PatchOp(r) /\ i = at[r]
  BY DEF Outcome, Past
<1>2. CASE call[q] # Absent /\ call'[q] = call[q] /\ i \in Past(q)
  <2>1. PICK p \in Resources, n \in Names :
            p = call[q].path /\ n = ParsePropPatch(call[q])[i].name
    BY <1>2, CallTypes DEF Inv, TypeOK, Past
  <2>2. properties[p][n] # Absent \/ Removed(p, n)
    BY <1>2, <2>1 DEF Inv, SetsSoFar
  <2>3. (properties[p][n] # Absent \/ Removed(p, n))'
    BY <2>2, RowsStay
  <2> QED BY <1>2, <2>1, <2>3
<1>3. CASE q = r /\ PatchOp(r) /\ i = at[r]
  <2> DEFINE c == call[r]
             op == ParsePropPatch(c)[at[r]]
  <2>1. /\ c.path \in Resources /\ op.name \in Names
        /\ op \in InstructionsOf(r, c.path)
        /\ op.remove \/ (op.value \in Values /\ op.value # Absent)
        /\ properties' = Stored(c.path, op.name,
                                IF op.remove THEN Absent ELSE op.value)
        /\ call' = call
    BY <1>3, PatchFacts
  <2>2. op \in InstructionsOf(r, c.path)'
    BY <2>1 DEF InstructionsOf
  <2>3. properties \in [Resources -> Rows]
    BY DEF Inv, TypeOK
  <2>4. CASE op.remove
    BY <1>3, <2>1, <2>2, <2>4 DEF Removed
  <2>5. CASE ~op.remove
    <3> HIDE DEF c, op
    <3>1. properties'[c.path][op.name] = op.value
      BY <2>1, <2>3, <2>5 DEF Stored, Rows
    <3> QED BY <1>3, <2>1, <2>5, <3>1 DEF c, op
  <2> QED BY <2>4, <2>5
<1> QED BY <1>1, <1>2, <1>3

LEMMA StepWasSet ==
    ASSUME Inv, NEW r \in Requests, Outcome(r) PROVE OnlyWhatWasSet'
<1>1. ASSUME NEW p \in Resources, NEW n \in Names, properties'[p][n] # Absent
      PROVE  WasSet(p, n, properties[p][n])'
  <2>1. CASE properties'[p][n] = properties[p][n]
    BY <1>1, <2>1, WasSetStays DEF Inv, OnlyWhatWasSet
  <2>2. CASE properties'[p][n] # properties[p][n] /\ PatchOp(r)
    <3> DEFINE c == call[r]
               op == ParsePropPatch(c)[at[r]]
    <3>1. /\ c.path \in Resources /\ op.name \in Names
          /\ op \in InstructionsOf(r, c.path)
          /\ properties' = Stored(c.path, op.name,
                                  IF op.remove THEN Absent ELSE op.value)
          /\ call' = call
      BY <2>2, PatchFacts
    <3> HIDE DEF c, op
    <3>3. properties \in [Resources -> Rows]
      BY DEF Inv, TypeOK
    <3>4. p = c.path /\ n = op.name /\ properties'[p][n] = op.value
      BY <1>1, <2>2, <3>1, <3>3 DEF Stored, Rows
    <3>5. op \in InstructionsOf(r, p)'
      BY <3>1, <3>4 DEF InstructionsOf
    <3> QED BY <3>4, <3>5 DEF WasSet
  <2> QED BY <2>1, <2>2 DEF Outcome
<1>2. ASSUME NEW q \in Requests, call[q] = Absent
      PROVE  part[q].shown \cup answer[q].shown = {}
  BY <1>2 DEF Inv, TypeOK, Ready, Nothing, NoAnswer
<1>3. ASSUME NEW q \in Requests, call[q] # Absent,
             NEW pair \in part[q].shown \cup answer[q].shown
      PROVE  WasSet(call[q].path, pair[1], pair[2])'
  <2>1. PICK p \in Resources : p = call[q].path
    BY <1>3, CallTypes DEF Inv, TypeOK
  <2>2. WasSet(p, pair[1], pair[2])
    BY <1>3, <2>1 DEF Inv, OnlyWhatWasSet
  <2>3. call'[q] = call[q]
    BY <1>3 DEF Outcome
  <2> QED BY <2>1, <2>2, <2>3, WasSetStays
<1>4. ASSUME NEW pair \in ListProperties(call'[r].path)
      PROVE  WasSet(call[r].path, pair[1], pair[2])'
  <2>1. PICK p \in Resources : p = call'[r].path
    BY CallTypes DEF Outcome
  <2>2. PICK n \in Names : /\ pair = <<n, properties[p][n]>>
                           /\ properties[p][n] # Absent
    BY <1>4, <2>1 DEF ListProperties
  <2>3. WasSet(p, pair[1], pair[2])
    BY <2>2 DEF Inv, OnlyWhatWasSet
  <2> QED BY <2>1, <2>3, WasSetStays
<1>5. ASSUME NEW q \in Requests, NEW pair \in (part[q].shown \cup answer[q].shown)'
      PROVE  WasSet(call[q].path, pair[1], pair[2])'
  <2>1. CASE q # r
    <3>1. pair \in part[q].shown \cup answer[q].shown
      BY <1>5, <2>1 DEF Outcome
    <3> QED BY <1>2, <1>3, <3>1
  <2>2. CASE q = r
    BY <1>2, <1>3, <1>4, <1>5, <2>2 DEF Outcome
  <2> QED BY <2>1, <2>2
<1> QED BY <1>1, <1>5 DEF OnlyWhatWasSet

(* A crash forgets requests, not rows nor answers. *)
LEMMA CrashInv == ASSUME Inv, Crash PROVE Inv'
<1>1. /\ pc' = [r \in Requests |-> IF r \in InFlight THEN "gone" ELSE pc[r]]
      /\ properties' = properties /\ call' = call /\ at' = at
      /\ part' = part /\ answer' = answer /\ before' = before /\ alone' = alone
  BY DEF Crash, history
<1>2. \A r \in Requests : pc'[r] = pc[r] \/ (pc[r] # "idle" /\ pc[r] # "done" /\ pc'[r] = "gone")
  BY <1>1 DEF InFlight
<1>3. pc' \in [Requests -> PCs]
  BY <1>1, TypeParts DEF Inv, PCs
<1>4. TypeOK'
  BY <1>1, <1>2, <1>3 DEF Inv, TypeOK, PCs, Idle
<1>5. OnlyDeadStored'
  BY <1>1 DEF Inv, OnlyDeadStored
<1>6. Ready'
  BY <1>1, <1>2 DEF Inv, Ready
<1>7. \A p, n : Removed(p, n)' <=> Removed(p, n)
  BY <1>1 DEF Removed, InstructionsOf
<1>8. \A r \in Requests : Past(r)' \subseteq Past(r)
  BY <1>1, <1>2 DEF Past
<1>9. SetsSoFar'
  BY <1>1, <1>7, <1>8 DEF Inv, SetsSoFar
<1>10. \A p, n, v : WasSet(p, n, v)' <=> WasSet(p, n, v)
  BY <1>1 DEF WasSet, InstructionsOf
<1>11. OnlyWhatWasSet'
  BY <1>1, <1>10 DEF Inv, OnlyWhatWasSet
<1> QED BY <1>4, <1>5, <1>6, <1>9, <1>11 DEF Inv

LEMMA NextInv == Inv /\ [Next]_vars => Inv'
<1> SUFFICES ASSUME Inv, [Next]_vars PROVE Inv'
  OBVIOUS
<1>1. CASE Crash
  BY <1>1, CrashInv
<1>2. ASSUME NEW r \in Requests, Step(r) PROVE Inv'
  BY <1>2, StepOutcome, StepDead, StepReady, StepSets, StepWasSet DEF Inv
<1>3. CASE UNCHANGED vars
  BY <1>3 DEF vars, local, history, Inv, TypeOK, OnlyDeadStored, Ready, SetsSoFar,
              OnlyWhatWasSet, Past, Removed, WasSet, InstructionsOf
<1> QED BY <1>1, <1>2, <1>3 DEF Next, Quiet

-----------------------------------------------------------------------------
(* How far the two loops have come *)

LEMMA WrittenNone ==
    ASSUME NEW c \in Calls, NEW rows, NEW n
    PROVE  Written(c, rows, 1, n, rows[n])
<1>1. Len(ParsePropPatch(c)) \in Nat /\ DOMAIN ParsePropPatch(c) = 1 .. Len(ParsePropPatch(c))
  BY OpsType, LenProperties
<1> QED BY <1>1 DEF Written

LEMMA WrittenNext ==
    ASSUME NEW c \in Calls, NEW rows, NEW i \in DOMAIN ParsePropPatch(c), NEW n, NEW v,
           Written(c, rows, i, n, v)
    PROVE  Written(c, rows, i + 1, n,
                   IF ParsePropPatch(c)[i].name = n THEN ClearedOr(ParsePropPatch(c)[i])
                   ELSE v)
<1> DEFINE ops == ParsePropPatch(c)
           on(k) == {j \in DOMAIN ops : j < k /\ ops[j].name = n}
<1>1. Len(ops) \in Nat /\ DOMAIN ops = 1 .. Len(ops)
  BY OpsType, LenProperties
<1> HIDE DEF ops
<1>2. CASE ops[i].name = n
  <2>1. i \in on(i + 1) /\ \A k \in on(i + 1) : k <= i
    BY <1>1, <1>2 DEF ops
  <2> QED BY <1>2, <2>1 DEF Written, ops
<1>3. CASE ops[i].name # n
  <2>1. on(i + 1) = on(i)
    BY <1>1, <1>3 DEF ops
  <2> QED BY <1>3, <2>1 DEF Written, ops
<1> QED BY <1>2, <1>3

(* The last instruction on a name: a removal if there is one, and else the *)
(* last set.                                                               *)
LEMMA WrittenAll ==
    ASSUME NEW c \in Calls, NEW rows, NEW i \in Nat, i > Len(ParsePropPatch(c)),
           NEW n \in Names, NEW v, Written(c, rows, i, n, v)
    PROVE  v = Reference(c, rows)[n]
<1> DEFINE ops == ParsePropPatch(c)
           m == Len(c.sets)
           l == Len(c.removes)
           places == {j \in DOMAIN c.sets : c.sets[j].name = n}
           last == CHOOSE j \in places : \A k \in places : k <= j
           removed == \E j \in DOMAIN c.removes : c.removes[j].name = n
           on == {j \in DOMAIN ops : j < i /\ ops[j].name = n}
<1>1. /\ c.sets \in Seq(Sets) /\ c.removes \in Seq(Removes)
      /\ m \in Nat /\ l \in Nat
      /\ DOMAIN c.sets = 1 .. m /\ DOMAIN c.removes = 1 .. l
  <2>1. c.sets \in Seq(Sets) /\ c.removes \in Seq(Removes)
    BY CallsAssumption DEF Call
  <2> QED BY <2>1, LenProperties
<1>2. /\ DOMAIN ops = 1 .. m + l /\ Len(ops) = m + l
      /\ \A j \in DOMAIN ops : ops[j] = IF j <= m THEN c.sets[j] ELSE c.removes[j - m]
  <2>1. c.sets \in Seq(Instruction) /\ c.removes \in Seq(Instruction)
    BY <1>1 DEF Sets, Removes
  <2>2. /\ ops \in Seq(Instruction) /\ Len(ops) = m + l
        /\ \A j \in 1 .. m + l :
              ops[j] = IF j <= m THEN c.sets[j] ELSE c.removes[j - m]
    BY <2>1, ConcatProperties DEF ParsePropPatch
  <2> QED BY <2>2, LenProperties
<1>3. /\ \A j \in 1 .. m : ~c.sets[j].remove
      /\ \A j \in 1 .. l : c.removes[j].remove
  <2>1. \A j \in 1 .. m : c.sets[j] \in Sets
    BY <1>1, ElementOfSeq
  <2>2. \A j \in 1 .. l : c.removes[j] \in Removes
    BY <1>1, ElementOfSeq
  <2> QED BY <2>1, <2>2 DEF Sets, Removes
<1> HIDE DEF ops, m, l
<1>4. on = {j \in DOMAIN ops : ops[j].name = n}
  <2>1. PICK top \in Nat : top = m + l
    BY <1>1
  <2>2. DOMAIN ops = 1 .. top /\ i > top
    BY <1>2, <2>1 DEF ops
  <2>3. \A j \in 1 .. top : j < i
    BY <2>2
  <2> QED BY <2>2, <2>3
<1>5. \/ on = {} /\ v = rows[n]
      \/ \E j \in on : (\A k \in on : k <= j) /\ v = ClearedOr(ops[j])
  BY DEF Written, ops
<1>6. Reference(c, rows)[n] = IF removed THEN Absent
                              ELSE IF places # {} THEN c.sets[last].value ELSE rows[n]
  BY DEF Reference
<1>7. /\ \A j \in DOMAIN c.removes : m + j \in DOMAIN ops /\ ops[m + j] = c.removes[j]
      /\ \A j \in DOMAIN c.sets : j \in DOMAIN ops /\ ops[j] = c.sets[j]
  BY <1>1, <1>2, Halves
<1> HIDE DEF places, last, removed, on
<1>8. CASE on = {} /\ v = rows[n]
  <2>1. ~removed /\ places = {}
    BY <1>4, <1>7, <1>8 DEF removed, places
  <2> QED BY <1>6, <1>8, <2>1
<1>9. ASSUME NEW j \in on, \A k \in on : k <= j, v = ClearedOr(ops[j])
      PROVE  v = Reference(c, rows)[n]
  <2>1. j \in DOMAIN ops /\ j \in Nat /\ ops[j].name = n
    BY <1>1, <1>2, <1>4
  <2>2. CASE ~(j <= m)
    <3>1. j - m \in 1 .. l /\ ops[j] = c.removes[j - m]
      BY <1>1, <1>2, <2>1, <2>2, SecondHalf
    <3>2. removed
      BY <1>1, <2>1, <3>1 DEF removed
    <3> QED BY <1>3, <1>6, <1>9, <3>1, <3>2 DEF ClearedOr
  <2>3. CASE j <= m
    <3>1. j \in 1 .. m /\ ops[j] = c.sets[j]
      BY <1>1, <1>2, <2>1, <2>3
    <3>2. ~removed
      <4> SUFFICES ASSUME NEW k \in DOMAIN c.removes, c.removes[k].name = n PROVE FALSE
        BY DEF removed
      <4>1. m + k \in on
        BY <1>4, <1>7
      <4> QED BY <1>1, <1>9, <2>1, <2>3, <4>1
    <3>3. j \in places /\ \A k \in places : k <= j
      BY <1>1, <1>4, <1>7, <1>9, <2>1, <3>1 DEF places
    <3>4. last = j
      <4>1. last \in places /\ \A k \in places : k <= last
        BY <3>3 DEF last
      <4>2. last \in Nat /\ j \in Nat /\ last <= j /\ j <= last
        BY <1>1, <3>3, <4>1 DEF places
      <4> QED BY <4>2
    <3> QED BY <1>3, <1>6, <1>9, <3>1, <3>2, <3>3, <3>4 DEF ClearedOr
  <2> QED BY <2>2, <2>3
<1> QED BY <1>5, <1>8, <1>9

LEMMA LoopInit == Init => IInv
<1> SUFFICES ASSUME Init PROVE IInv
  OBVIOUS
<1>1. PatchedSoFar /\ HeardSoFar
  BY DEF Init, PatchedSoFar, HeardSoFar
<1>2. EveryNameAnswered
  BY DEF Init, EveryNameAnswered, NoAnswer
<1> QED BY <1>1, <1>2, InitInv DEF IInv

(* The rows of a path change under a request in flight only if it is the   *)
(* one that writes, or is told.                                            *)
LEMMA StepLeavesAlone ==
    ASSUME Inv, NEW r \in Requests, Step(r), NEW q \in Requests, q # r
    PROVE  /\ before'[q] = before[q]
           /\ alone'[q] => alone[q]
           /\ (pc[q] = "patch" /\ alone'[q])
              => properties'[call[q].path] = properties[call[q].path]
<1>1. CASE PatchOp(r)
  <2>1. /\ alone' = [x \in Requests |->
                        alone[x] /\ (x = r \/ x \notin InFlight
                                           \/ call[x].path # call[r].path)]
        /\ before' = before
    BY <1>1 DEF PatchOp
  <2>2. \E n, v : properties' = [properties EXCEPT ![call[r].path][n] = v]
    BY <1>1, PatchFacts DEF Stored
  <2>3. pc[q] = "patch" => q \in InFlight
    BY DEF InFlight
  <2>4. pc[q] = "patch" => call[q].path \in Resources /\ properties \in [Resources -> Rows]
    BY TypeParts, CallTypes DEF Inv
  <2>5. alone'[q] = (alone[q] /\ (q = r \/ q \notin InFlight \/ call[q].path # call[r].path))
    BY <2>1
  <2> QED BY <2>1, <2>2, <2>3, <2>4, <2>5
<1>2. CASE \E c \in Calls : Arrive(r, c)
  BY <1>2 DEF Arrive, Inv, TypeOK
<1>3. CASE UNCHANGED <<properties, history>>
  BY <1>3 DEF history
<1> QED BY <1>1, <1>2, <1>3 DEF Step, PropPatch, ContactPropfind,
           AddressBookPropfind, ListDead, GetDead, StoreError

LEMMA PatchOpWrites ==
    ASSUME IInv, NEW r \in Requests, PatchOp(r), alone[r], NEW n \in Names
    PROVE  Written(call[r], before[r], at[r] + 1, n, properties'[call[r].path][n])
<1>1. /\ pc[r] = "patch" /\ at[r] \in DOMAIN ParsePropPatch(call[r]) /\ call[r] \in Calls
      /\ properties \in [Resources -> Rows]
  BY TypeParts DEF PatchOp, IInv, Inv, TypeOK
<1>2. Written(call[r], before[r], at[r], n, properties[call[r].path][n])
  BY <1>1 DEF IInv, PatchedSoFar
<1>3. properties'[call[r].path][n]
         = IF ParsePropPatch(call[r])[at[r]].name = n
           THEN ClearedOr(ParsePropPatch(call[r])[at[r]])
           ELSE properties[call[r].path][n]
  <2> DEFINE v == ClearedOr(ParsePropPatch(call[r])[at[r]])
  <2>1. PICK p \in Resources, m \in Names :
           /\ p = call[r].path /\ m = ParsePropPatch(call[r])[at[r]].name
           /\ properties' = [properties EXCEPT ![p][m] = v]
    <3> DEFINE op == ParsePropPatch(call[r])[at[r]]
    <3>1. /\ call[r].path \in Resources /\ op.name \in Names
          /\ properties' = Stored(call[r].path, op.name, ClearedOr(op))
      BY PatchFacts DEF IInv, ClearedOr
    <3> HIDE DEF op
    <3>2. properties' = [properties EXCEPT ![call[r].path][op.name] = ClearedOr(op)]
      BY <3>1 DEF Stored
    <3> QED BY <3>1, <3>2 DEF op
  <2> HIDE DEF v
  <2>2. properties'[p][n] = IF m = n THEN v ELSE properties[p][n]
    BY <1>1, <2>1 DEF Rows
  <2> QED BY <2>1, <2>2 DEF v
<1> QED BY <1>1, <1>2, <1>3, WrittenNext

LEMMA StepPatched ==
    ASSUME IInv, NEW r \in Requests, Step(r), Outcome(r) PROVE PatchedSoFar'
<1> SUFFICES ASSUME NEW q \in Requests, pc'[q] = "patch", alone'[q], NEW n \in Names
             PROVE  Written(call'[q], before'[q], at'[q], n, properties'[call'[q].path][n])
  BY DEF PatchedSoFar
<1>1. Inv
  BY DEF IInv
<1>2. CASE q # r
  <2>1. pc[q] = "patch" /\ at'[q] = at[q] /\ call'[q] = call[q]
    BY <1>2 DEF Outcome
  <2>2. /\ before'[q] = before[q] /\ alone[q]
        /\ properties'[call[q].path] = properties[call[q].path]
    BY <1>1, <1>2, <2>1, StepLeavesAlone
  <2> QED BY <2>1, <2>2 DEF IInv, PatchedSoFar
<1>3. CASE q = r /\ PropPatch(r)
  <2>1. PICK c \in Calls : Arrive(r, c) /\ (ReplyStatus(r, 400) \/ PatchFrom(r, c, 1))
    BY <1>3 DEF PropPatch
  <2>2. ~ReplyStatus(r, 400)
    BY <1>1, <1>3, ReplyTypes DEF Inv
  <2>3. PatchLeads(r, c, 1)
    <3>1. 1 \in Nat \ {0}
      OBVIOUS
    <3> QED BY <1>1, <2>1, <2>2, <3>1, TypeParts, PatchFromType DEF Inv
  <2>4. /\ call'[r] = c /\ before'[r] = properties[c.path] /\ properties' = properties
        /\ at'[r] = 1
    BY <1>1, <1>3, <2>1, <2>3 DEF Arrive, Inv, TypeOK, PatchLeads
  <2> QED BY <1>3, <2>4, WrittenNone
<1>4. CASE q = r /\ PatchOp(r)
  <2>1. /\ PatchFrom(r, call[r], at[r] + 1) /\ call' = call /\ before' = before
        /\ alone[r] /\ call[r] \in Calls
    BY <1>1, <1>4, TypeParts DEF PatchOp, Inv
  <2>2. PatchLeads(r, call[r], at[r] + 1)
    <3>1. at[r] + 1 \in Nat \ {0}
      BY <1>1, TypeParts DEF Inv
    <3> QED BY <1>1, <2>1, <3>1, TypeParts, PatchFromType DEF Inv
  <2>3. at'[r] = at[r] + 1
    BY <1>4, <2>2 DEF PatchLeads
  <2> QED BY <1>4, <2>1, <2>3, PatchOpWrites
<1>5. CASE ~PropPatch(r) /\ ~PatchOp(r)
  <2>1. call'[r].op # "PROPPATCH" \/ pc'[r] = "done"
    <3>1. CASE ContactPropfind(r) \/ AddressBookPropfind(r)
      BY <1>1, <3>1 DEF ContactPropfind, AddressBookPropfind, Arrive, Inv, TypeOK
    <3>2. CASE ListDead(r) \/ GetDead(r)
      BY <1>1, <3>2 DEF ListDead, GetDead, Inv, Ready
    <3>3. CASE StoreError(r)
      BY <1>1, <3>3, ReplyTypes DEF StoreError, Inv
    <3> QED BY <1>5, <3>1, <3>2, <3>3 DEF Step
  <2> QED BY <1>2, <2>1 DEF Outcome
<1> QED BY <1>2, <1>3, <1>4, <1>5

(* What a client is told of the names it asked for. *)
Told(c, a) ==
    /\ a.ok \cup HeardOf(a) = RequestedProps(c)
    /\ a.ok \cap HeardOf(a) = {}

LEMMA DeadAll ==
    ASSUME NEW c \in Calls, c.want = "prop"
    PROVE  /\ DeadBefore(c, Len(c.names) + 1) = RequestedProps(c) \ LiveProps
           /\ DeadBefore(c, 1) = {}
<1>1. Len(c.names) \in Nat /\ DOMAIN c.names = 1 .. Len(c.names)
  BY NamesType, LenProperties
<1>2. PICK m \in Nat : m = Len(c.names)
  BY <1>1
<1>3. /\ DeadBefore(c, m + 1) = {c.names[k] : k \in {j \in 1 .. m : c.names[j] \notin LiveProps}}
      /\ DeadBefore(c, 1) = {}
  BY <1>1, <1>2 DEF DeadBefore
<1> QED BY <1>1, <1>2, <1>3 DEF RequestedProps

(* The two lists of live properties are the same, so nothing is told twice.*)
LEMMA ContactTold ==
    ASSUME NEW c \in Calls, c.want = "prop", NEW d,
           HeardOf(d) = RequestedProps(c) \ LiveProps
    PROVE  Told(c, ContactAnswer(c, d))
<1>1. ContactLive = LiveProps
  BY DEF ContactLive, LiveProps
<1>2. /\ ContactAnswer(c, d).ok = RequestedProps(c) \cap LiveProps
      /\ HeardOf(ContactAnswer(c, d)) = HeardOf(d) \cup (RequestedProps(c) \ LiveProps)
  BY <1>1 DEF ContactAnswer, Hit, Miss, HeardOf
<1> QED BY <1>2 DEF Told

LEMMA BookTold ==
    ASSUME NEW c \in Calls, c.want = "prop" PROVE Told(c, BookAnswer(c))
BY DEF Told, HeardOf, BookAnswer, Hit, Miss

LEMMA LookUpTells ==
    ASSUME TypeOK, NEW r \in Requests, NEW c \in Calls, c.want = "prop",
           NEW i \in Nat \ {0}, NEW d, HeardOf(d) = DeadBefore(c, i),
           LookUpFrom(r, c, i, d)
    PROVE  \/ /\ pc'[r] = "get" /\ answer' = answer
              /\ HeardOf(d) = DeadBefore(c, at'[r]) /\ c.names[at'[r]] \notin LiveProps
           \/ pc'[r] = "done" /\ Told(c, answer'[r])
<1>1. PICK j \in i .. Len(c.names) + 1 :
        /\ \A k \in i .. j - 1 : c.names[k] \in LiveProps
        /\ \/ j > Len(c.names) /\ Reply(r, ContactAnswer(c, d))
           \/ j <= Len(c.names) /\ c.names[j] \notin LiveProps /\ Continue(r, "get", j)
  BY DEF LookUpFrom
<1>2. Len(c.names) \in Nat /\ DOMAIN c.names = 1 .. Len(c.names)
  BY NamesType, LenProperties
<1>3. j \in Nat /\ i <= j /\ j <= Len(c.names) + 1
  BY <1>1, <1>2
<1>4. HeardOf(d) = DeadBefore(c, j)
  <2>1. {k \in DOMAIN c.names : k < i /\ c.names[k] \notin LiveProps}
           = {k \in DOMAIN c.names : k < j /\ c.names[k] \notin LiveProps}
    <3> SUFFICES ASSUME NEW k \in DOMAIN c.names, k < j, c.names[k] \notin LiveProps
                 PROVE  k < i
      BY <1>2, <1>3
    <3>1. k \in Nat
      BY <1>2
    <3> QED BY <1>1, <1>3, <3>1
  <2> QED BY <2>1 DEF DeadBefore
<1>5. CASE j > Len(c.names) /\ Reply(r, ContactAnswer(c, d))
  <2>1. j = Len(c.names) + 1
    BY <1>2, <1>3, <1>5
  <2> QED BY <1>4, <1>5, <2>1, DeadAll, ContactTold DEF Reply, TypeOK
<1>6. CASE c.names[j] \notin LiveProps /\ Continue(r, "get", j)
  BY <1>4, <1>6 DEF Continue, TypeOK
<1> QED BY <1>1, <1>5, <1>6

LEMMA LookUpHears ==
    ASSUME NEW d \in [shown : SUBSET (Names \X Values), missing : SUBSET Names],
           NEW path, NEW n
    PROVE  HeardOf(LookUp(d, path, n)) = HeardOf(d) \cup {n}
<1>1. CASE GetProperty(path, n) = Absent
  BY <1>1 DEF HeardOf, LookUp
<1>2. CASE GetProperty(path, n) # Absent
  <2>1. PICK v, pair : /\ v = GetProperty(path, n)
                       /\ pair = <<n, v>>
    OBVIOUS
  <2>3. pair[1] = n
    BY <2>1
  <2>2. /\ LookUp(d, path, n).shown = d.shown \cup {pair}
        /\ LookUp(d, path, n).missing = d.missing
    BY <1>2, <2>1 DEF LookUp
  <2> QED BY <2>2, <2>3 DEF HeardOf
<1> QED BY <1>1, <1>2

LEMMA DeadNext ==
    ASSUME NEW c \in Calls, NEW i \in DOMAIN c.names, c.names[i] \notin LiveProps
    PROVE  DeadBefore(c, i + 1) = DeadBefore(c, i) \cup {c.names[i]}
<1>1. Len(c.names) \in Nat /\ DOMAIN c.names = 1 .. Len(c.names)
  BY NamesType, LenProperties
<1>2. {j \in DOMAIN c.names : j < i + 1 /\ c.names[j] \notin LiveProps}
         = {j \in DOMAIN c.names : j < i /\ c.names[j] \notin LiveProps} \cup {i}
  BY <1>1
<1> QED BY <1>2 DEF DeadBefore

(* What is known of a request inside the loop over its names, and after. *)
Asking(q) == /\ pc[q] = "list" => call[q].want # "prop"
             /\ pc[q] = "get" => /\ HeardOf(part[q]) = DeadBefore(call[q], at[q])
                                 /\ call[q].names[at[q]] \notin LiveProps
                                 /\ call[q].want = "prop" /\ call[q].op = "PROPFIND"

Answered(q) == (/\ answer[q].status = 207
                /\ call[q].op = "PROPFIND" /\ call[q].want = "prop")
               => Told(call[q], answer[q])

LEMMA OwnStepHeard ==
    ASSUME IInv, NEW r \in Requests, Step(r), Outcome(r)
    PROVE  Asking(r)' /\ Answered(r)'
<1> USE DEF IInv, Inv, Asking, Answered
<1>1. Asking(r)
  BY DEF HeardSoFar
<1>2. CASE PropPatch(r)
  <2>1. PICK c \in Calls : c.op = "PROPPATCH" /\ Arrive(r, c)
    BY <1>2 DEF PropPatch
  <2>2. call'[r].op = "PROPPATCH"
    BY <2>1 DEF Arrive, TypeOK
  <2> QED BY <2>2 DEF Outcome
<1>3. CASE PatchOp(r)
  <2>1. call'[r].op = "PROPPATCH"
    BY <1>3 DEF PatchOp, Ready
  <2> QED BY <2>1 DEF Outcome
<1>4. CASE AddressBookPropfind(r)
  <2>1. PICK c \in Calls :
           /\ c.op = "PROPFIND" /\ Arrive(r, c)
           /\ \/ \E s \in {400, 403, 404, 500} : ReplyStatus(r, s)
              \/ Reply(r, BookAnswer(c))
    BY <1>4 DEF AddressBookPropfind
  <2>2. call'[r] = c
    BY <2>1 DEF Arrive, TypeOK
  <2>3. CASE \E s \in {400, 403, 404, 500} : ReplyStatus(r, s)
    BY <2>3, ReplyTypes
  <2>4. CASE Reply(r, BookAnswer(c))
    BY <2>2, <2>4, BookTold DEF Reply, TypeOK
  <2> QED BY <2>1, <2>3, <2>4
<1>5. CASE StoreError(r)
  BY <1>5, ReplyTypes DEF StoreError
<1>6. CASE ListDead(r)
  <2>1. pc'[r] = "done" /\ call'[r] = call[r] /\ call[r].want # "prop"
    BY <1>1, <1>6 DEF ListDead, Reply, TypeOK
  <2> QED BY <2>1
<1>7. CASE ContactPropfind(r)
  <2>1. PICK c \in Calls :
           /\ c.op = "PROPFIND" /\ Arrive(r, c)
           /\ \/ \E s \in {400, 403, 404, 500} : ReplyStatus(r, s)
              \/ c.want # "prop" /\ Continue(r, "list", 1)
              \/ c.want = "prop" /\ LookUpFrom(r, c, 1, Nothing)
    BY <1>7 DEF ContactPropfind
  <2>2. call'[r] = c /\ part'[r] = Nothing /\ answer[r] = NoAnswer
    BY <2>1 DEF Arrive, TypeOK, Ready
  <2>3. CASE \E s \in {400, 403, 404, 500} : ReplyStatus(r, s)
    BY <2>3, ReplyTypes
  <2>4. CASE c.want # "prop" /\ Continue(r, "list", 1)
    BY <2>2, <2>4 DEF Continue, TypeOK
  <2>5. CASE c.want = "prop" /\ LookUpFrom(r, c, 1, Nothing)
    <3>1. HeardOf(Nothing) = DeadBefore(c, 1)
      BY <2>5, DeadAll DEF HeardOf, Nothing
    <3>2. 1 \in Nat \ {0}
      OBVIOUS
    <3>3. \/ /\ pc'[r] = "get" /\ answer' = answer
             /\ HeardOf(Nothing) = DeadBefore(c, at'[r])
             /\ c.names[at'[r]] \notin LiveProps
          \/ pc'[r] = "done" /\ Told(c, answer'[r])
      BY <2>5, <3>1, <3>2, LookUpTells
    <3> QED BY <2>1, <2>2, <2>5, <3>3 DEF NoAnswer
  <2> QED BY <2>1, <2>3, <2>4, <2>5
<1>8. CASE GetDead(r)
  <2>0. /\ call[r] \in Calls /\ at[r] + 1 \in Nat \ {0}
        /\ LookUpFrom(r, call[r], at[r] + 1, part'[r])
        /\ call' = call /\ pc[r] = "get"
        /\ part' = [part EXCEPT ![r] = LookUp(part[r], call[r].path,
                                             call[r].names[at[r]])]
    BY <1>8, TypeParts DEF GetDead
  <2>1. PICK c \in Calls : c = call[r]
    BY <2>0
  <2>2. PICK i \in Nat \ {0} : i = at[r] + 1
    BY <2>0
  <2>3. PICK d : d = part'[r]
    OBVIOUS
  <2>4. /\ LookUpFrom(r, c, i, d) /\ call'[r] = c /\ pc[r] = "get"
        /\ part' = [part EXCEPT ![r] = LookUp(part[r], c.path, c.names[at[r]])]
    BY <2>0, <2>1, <2>2, <2>3
  <2>5. /\ at[r] \in DOMAIN c.names /\ c.want = "prop" /\ c.op = "PROPFIND"
        /\ c.names[at[r]] \notin LiveProps /\ HeardOf(part[r]) = DeadBefore(c, at[r])
    BY <1>1, <2>1, <2>4 DEF TypeOK
  <2>6. HeardOf(d) = HeardOf(part[r]) \cup {c.names[at[r]]}
    <3>1. part[r] \in [shown : SUBSET (Names \X Values), missing : SUBSET Names]
      BY TypeParts
    <3>2. d = LookUp(part[r], c.path, c.names[at[r]])
      BY <2>3, <2>4, TypeParts
    <3> QED BY <3>1, <3>2, LookUpHears
  <2>7. HeardOf(d) = DeadBefore(c, i)
    BY <2>2, <2>5, <2>6, DeadNext
  <2>8. \/ /\ pc'[r] = "get" /\ answer' = answer
           /\ HeardOf(d) = DeadBefore(c, at'[r]) /\ c.names[at'[r]] \notin LiveProps
        \/ pc'[r] = "done" /\ Told(c, answer'[r])
    BY <2>4, <2>5, <2>7, LookUpTells
  <2>9. answer[r] = NoAnswer
    BY <2>4 DEF Ready
  <2> QED BY <2>3, <2>4, <2>5, <2>8, <2>9 DEF NoAnswer
<1> QED BY <1>2, <1>3, <1>4, <1>5, <1>6, <1>7, <1>8 DEF Step

LEMMA StepHeard ==
    ASSUME IInv, NEW r \in Requests, Step(r), Outcome(r)
    PROVE  HeardSoFar' /\ EveryNameAnswered'
<1>1. \A q \in Requests : Asking(q) /\ Answered(q)
  BY DEF IInv, HeardSoFar, EveryNameAnswered, Told, HeardOf, Asking, Answered
<1>2. ASSUME NEW q \in Requests, q # r PROVE Asking(q)' /\ Answered(q)'
  BY <1>1, <1>2 DEF Outcome, Asking, Answered
<1>3. \A q \in Requests : Asking(q)' /\ Answered(q)'
  BY <1>2, OwnStepHeard
<1> QED BY <1>3 DEF HeardSoFar, EveryNameAnswered, Told, HeardOf, Asking, Answered

LEMMA LoopNext == IInv /\ [Next]_vars => IInv'
<1> SUFFICES ASSUME IInv, [Next]_vars PROVE IInv'
  OBVIOUS
<1>1. Inv'
  BY NextInv DEF IInv
<1>2. ASSUME NEW r \in Requests, Step(r) PROVE IInv'
  <2>1. Outcome(r)
    BY <1>2, StepOutcome DEF IInv
  <2> QED BY <1>1, <1>2, <2>1, StepPatched, StepHeard DEF IInv
<1>3. CASE Crash
  <2>1. /\ call' = call /\ at' = at /\ part' = part /\ answer' = answer
        /\ before' = before /\ alone' = alone /\ properties' = properties
        /\ \A r \in Requests : pc'[r] \in {pc[r], "gone"}
    BY <1>3 DEF Crash, history
  <2>2. PatchedSoFar' /\ HeardSoFar'
    BY <2>1 DEF IInv, PatchedSoFar, HeardSoFar
  <2>3. EveryNameAnswered'
    BY <2>1 DEF IInv, EveryNameAnswered
  <2> QED BY <1>1, <2>2, <2>3 DEF IInv
<1>4. CASE UNCHANGED vars
  BY <1>1, <1>4 DEF vars, local, history, IInv, PatchedSoFar, HeardSoFar,
                    EveryNameAnswered, Written
<1> QED BY <1>2, <1>3, <1>4 DEF Next, Quiet

-----------------------------------------------------------------------------
(* What the invariant is for *)

(* The inductive invariant: types, the namespace check before each         *)
(* instruction, what is stored and where it came from, and how far the     *)
(* loops of PROPPATCH and PROPFIND have come (proppatch.go:36-69,          *)
(* contact.go:554-592).                                                    *)
THEOREM PropInvariant == Spec => []IInv
BY LoopInit, LoopNext, PTL DEF Spec

LEMMA InvCorrect == Spec => []Inv
BY InitInv, NextInv, PTL DEF Spec

(* Every variable of the property handlers keeps its type, and the loops   *)
(* stay inside their bodies.                                               *)
THEOREM PropTypeCorrect == Spec => []TypeOK
<1>1. Inv => TypeOK
  BY DEF Inv
<1> QED BY <1>1, InvCorrect, PTL

(* proppatch.go:39: no DAV: property is ever stored. *)
THEOREM OnlyDeadCorrect == Spec => []OnlyDeadStored
<1>1. Inv => OnlyDeadStored
  BY DEF Inv
<1> QED BY <1>1, InvCorrect, PTL

(* An acknowledged set is undone by a removal of that property only. *)
THEOREM SetSurvivesCorrect == Spec => []SetSurvives
<1>1. ASSUME Inv PROVE SetSurvives
  <2> SUFFICES ASSUME NEW r \in Requests, answer[r].status = 207,
                      NEW p \in Resources, NEW op \in InstructionsOf(r, p)
               PROVE  properties[p][op.name] # Absent \/ Removed(p, op.name)
    BY DEF SetSurvives, Removed
  <2>1. /\ call[r] # Absent /\ call[r].op = "PROPPATCH" /\ call[r].path = p
        /\ \E i \in DOMAIN ParsePropPatch(call[r]) : op = ParsePropPatch(call[r])[i]
    BY DEF InstructionsOf
  <2>2. PICK i \in Past(r) : op = ParsePropPatch(call[r])[i]
    BY <2>1 DEF Past
  <2> QED BY <1>1, <2>1, <2>2 DEF Inv, SetsSoFar
<1> QED BY <1>1, InvCorrect, PTL

(* A client that asks a contact or a book for names hears about each of    *)
(* them once (contact.go:554-592, addressbook.go:302-335): the look-ups    *)
(* skip the very names that the live properties answer.                    *)
THEOREM EveryNameCorrect == Spec => []EveryNameAnswered
<1>1. IInv => EveryNameAnswered
  BY DEF IInv
<1> QED BY <1>1, PropInvariant, PTL

(* A PROPPATCH that was left alone and answers 207 has written its whole   *)
(* body (proppatch.go:36-69): what it has written so far is, name by name, *)
(* the last instruction it has been through.                               *)
THEOREM PatchAppliedCorrect == Spec => PatchApplied
<1>1. IInv /\ IInv' /\ [Next]_vars =>
         [\A r \in Requests :
             (answer'[r].status = 207 /\ answer[r].status = 0 /\ alone'[r]
                 /\ call'[r].op = "PROPPATCH")
             => properties'[call'[r].path] = Reference(call'[r], before'[r])]_vars
  <2> SUFFICES ASSUME IInv, IInv', [Next]_vars, NEW r \in Requests,
                      answer'[r].status = 207, answer[r].status = 0, alone'[r],
                      call'[r].op = "PROPPATCH"
               PROVE  properties'[call'[r].path] = Reference(call'[r], before'[r])
    OBVIOUS
  <2> USE DEF IInv, Inv
  <2>1. answer'[r] # answer[r]
    OBVIOUS
  <2>2. Step(r) /\ Outcome(r)
    <3>1. PICK q \in Requests : Step(q)
      BY <2>1 DEF Next, Crash, Quiet, vars, local
    <3>2. Outcome(q)
      BY <3>1, StepOutcome
    <3> QED BY <2>1, <3>1, <3>2 DEF Outcome
  <2>3. PropPatch(r) \/ PatchOp(r)
    <3>1. CASE ContactPropfind(r) \/ AddressBookPropfind(r)
      BY <3>1 DEF ContactPropfind, AddressBookPropfind, Arrive, TypeOK
    <3>2. CASE ListDead(r) \/ GetDead(r)
      BY <3>2 DEF ListDead, GetDead, Ready
    <3>3. CASE StoreError(r)
      BY <3>3, ReplyTypes DEF StoreError
    <3> QED BY <2>2, <3>1, <3>2, <3>3 DEF Step
  <2>4. PICK c \in Calls, i \in Nat :
           /\ c = call'[r] /\ i > Len(ParsePropPatch(c))
           /\ \A n \in Names : Written(c, before'[r], i, n, properties'[c.path][n])
    <3>1. CASE PropPatch(r)
      <4>1. PICK c \in Calls : Arrive(r, c) /\ (ReplyStatus(r, 400) \/ PatchFrom(r, c, 1))
        BY <3>1 DEF PropPatch
      <4>2. ~ReplyStatus(r, 400)
        BY ReplyTypes
      <4>3. PatchLeads(r, c, 1)
        <5>1. 1 \in Nat \ {0}
          OBVIOUS
        <5> QED BY <4>1, <4>2, <5>1, TypeParts, PatchFromType
      <4>4. /\ call'[r] = c /\ before'[r] = properties[c.path] /\ properties' = properties
            /\ 1 > Len(ParsePropPatch(c))
        BY <2>1, <4>1, <4>3 DEF Arrive, TypeOK, PatchLeads
      <4>5. \A n \in Names : Written(c, before'[r], 1, n, properties'[c.path][n])
        BY <4>4, WrittenNone
      <4> QED BY <4>4, <4>5
    <3>2. CASE PatchOp(r)
      <4>1. /\ PatchFrom(r, call[r], at[r] + 1) /\ call' = call /\ before' = before
            /\ alone[r] /\ call[r] \in Calls /\ at[r] + 1 \in Nat \ {0}
        <5>1. /\ PatchFrom(r, call[r], at[r] + 1) /\ pc[r] = "patch"
              /\ UNCHANGED <<call, before>>
              /\ \A q \in Requests : alone'[q] => alone[q]
          BY <3>2 DEF PatchOp
        <5> QED BY <5>1, TypeParts
      <4>2. PatchLeads(r, call[r], at[r] + 1)
        BY <4>1, TypeParts, PatchFromType
      <4>3. at[r] + 1 > Len(ParsePropPatch(call[r]))
        BY <2>1, <4>2 DEF PatchLeads
      <4>4. \A n \in Names : Written(call[r], before'[r], at[r] + 1, n,
                                     properties'[call[r].path][n])
        BY <3>2, <4>1, PatchOpWrites
      <4> QED BY <4>1, <4>3, <4>4
    <3> QED BY <2>3, <3>1, <3>2
  <2>5. \A n \in Names : properties'[c.path][n] = Reference(c, before'[r])[n]
    BY <2>4, WrittenAll
  <2>6. properties'[c.path] = [n \in Names |-> properties'[c.path][n]]
    <3>1. properties' \in [Resources -> Rows] /\ c.path \in Resources
      BY CallTypes DEF TypeOK
    <3> QED BY <3>1 DEF Rows
  <2>7. Reference(c, before'[r]) = [n \in Names |-> Reference(c, before'[r])[n]]
    BY DEF Reference
  <2> QED BY <2>4, <2>5, <2>6, <2>7
<1> QED BY <1>1, PropInvariant, PTL DEF Spec, PatchApplied

(* A PROPFIND shows only values that were set on its own path. *)
THEOREM ShownWasSetCorrect == Spec => []ShownWasSet
<1>1. ASSUME Inv PROVE ShownWasSet
  BY <1>1 DEF Inv, OnlyWhatWasSet, WasSet, ShownWasSet
<1> QED BY <1>1, InvCorrect, PTL
=============================================================================
