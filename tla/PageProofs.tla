------------------------------ MODULE PageProofs -------------------------------
(***************************************************************************)
(* The parts of the page that share no state, each with an inductive       *)
(* invariant of its own: a step of one part leaves those of the others     *)
(* alone.  The transcript, whose invariant relates what the page shows to  *)
(* the reports under way, comes last.                                      *)
(***************************************************************************)
EXTENDS MCPage, FiniteSetTheorems, SequenceTheorems, WellFoundedInduction, TLAPS

-----------------------------------------------------------------------------
(* Numbers                                                                  *)

\* Naturals have a least one.
LEMMA LeastOfNaturals ==
  ASSUME NEW S \in SUBSET Nat, S # {}
  PROVE  \E least \in S : \A other \in S : least <= other
<1> DEFINE upto == {0..n : n \in S}
<1>1. \A n \in S : IsFiniteSet(0..n) /\ 0..n \in SUBSET Nat BY FS_Interval
<1>2. upto \subseteq FiniteSubsetsOf(Nat) /\ upto # {} BY <1>1 DEF FiniteSubsetsOf
<1>3. IsWellFoundedOn(StrictSubsetOrdering(Nat), FiniteSubsetsOf(Nat))
  BY FS_StrictSubsetOrderingWellFounded
<1>4. \E x \in upto : \A y \in upto : ~(<<y, x>> \in StrictSubsetOrdering(Nat))
  <2> HIDE DEF upto
  <2> QED BY <1>2, <1>3, WFMin
<1>5. PICK least \in S : \A other \in S : <<0..other, 0..least>> \notin StrictSubsetOrdering(Nat)
  BY <1>4
<1>6. ASSUME NEW other \in S, other < least PROVE FALSE
  <2>1. 0..other \subseteq 0..least /\ 0..other # 0..least
    <3>1. least \in 0..least /\ least \notin 0..other BY <1>6
    <3> QED BY <1>6, <3>1
  <2>2. 0..other \in SUBSET Nat /\ 0..least \in SUBSET Nat BY <1>1
  <2> HIDE <1>1
  <2>3. <<0..other, 0..least>> \in StrictSubsetOrdering(Nat) BY <2>1, <2>2, SMT DEF StrictSubsetOrdering
  <2> QED BY <1>5, <2>3
<1> QED BY <1>6

\* The parts count as this module does.
LEMMA SameCount ==
  \A S : /\ B!Cardinality(S) = Cardinality(S) /\ M!Cardinality(S) = Cardinality(S)
         /\ T!Cardinality(S) = Cardinality(S)
  BY DEF B!Cardinality, M!Cardinality, T!Cardinality, Cardinality

-----------------------------------------------------------------------------
(* The dialog: a secret that is on the page has a timer                     *)

\* Reveals that await their answer.
RevealIn(operations, s) ==
  IF operations[s] # None /\ operations[s].kind = "reveal" THEN 1 ELSE 0
Awaited(operations) == RevealIn(operations, 1) + RevealIn(operations, 2)
Operations == [D!Slots -> D!Operation \cup {None}]

\* Each reveal was begun by the user: there are as many timers as uses at most.
DialogKept ==
  /\ D!TypeOK /\ operation \in Operations
  /\ reveals + Awaited(operation) <= begun
  /\ D!SecretTimed

\* What is aged or detached is as many operations as before, of the same kinds.
LEMMA AgedAreSame ==
  ASSUME NEW operations \in Operations
  PROVE  /\ D!Aged(operations) \in Operations /\ Awaited(D!Aged(operations)) <= Awaited(operations)
         /\ D!Detached(operations) \in Operations
         /\ Awaited(D!Detached(operations)) <= Awaited(operations)
         /\ Awaited(operations) \in 0..2
<1>1. D!Slots = {1, 2} BY DEF D!Slots
<1>2. ASSUME NEW s \in D!Slots
      PROVE  /\ D!Aged(operations)[s] \in D!Operation \cup {None}
             /\ RevealIn(D!Aged(operations), s) <= RevealIn(operations, s)
             /\ D!Detached(operations)[s] \in D!Operation \cup {None}
             /\ RevealIn(D!Detached(operations), s) <= RevealIn(operations, s)
  <2>1. CASE operations[s] = None BY <2>1 DEF D!Aged, D!Detached, RevealIn
  <2>2. CASE operations[s] # None
    <3>1. operations[s] \in D!Operation BY <2>2 DEF Operations
    <3> DEFINE aged == [operations[s] EXCEPT !.fresh = FALSE]
               detached == [operations[s] EXCEPT !.attached = FALSE]
    <3>2. /\ aged \in D!Operation /\ aged.kind = operations[s].kind
          /\ detached \in D!Operation /\ detached.kind = operations[s].kind
      BY <3>1 DEF D!Operation
    <3>3. D!Aged(operations)[s] = aged /\ D!Detached(operations)[s] = detached
      BY <2>2 DEF D!Aged, D!Detached
    <3> QED BY <2>2, <3>2, <3>3 DEF RevealIn
  <2> QED BY <2>1, <2>2
<1>3. D!Aged(operations) \in Operations /\ D!Detached(operations) \in Operations
  BY <1>2 DEF D!Aged, D!Detached, Operations
<1>4. \A ops, s : RevealIn(ops, s) \in {0, 1} BY DEF RevealIn
<1>5. /\ Awaited(D!Aged(operations)) <= Awaited(operations)
      /\ Awaited(D!Detached(operations)) <= Awaited(operations)
      /\ Awaited(operations) \in 0..2
  <2> HIDE DEF RevealIn
  <2> QED BY <1>1, <1>2, <1>4 DEF Awaited
<1> QED BY <1>3, <1>5

\* An operation that ends, and one that begins.
LEMMA WithoutIsLess ==
  ASSUME operation \in Operations, NEW s \in D!Slots
  PROVE  /\ D!Without(s) \in Operations /\ Awaited(D!Without(s)) <= Awaited(operation)
         /\ operation[s] # None /\ operation[s].kind = "reveal" =>
              Awaited(D!Without(s)) < Awaited(operation)
<1>1. D!Slots = {1, 2} BY DEF D!Slots
<1> QED BY <1>1 DEF D!Without, Awaited, RevealIn, Operations

LEMMA BeginsIsMore ==
  ASSUME operation \in Operations, NEW s \in D!Slots, operation[s] = None,
         NEW kind \in {"load", "confirm", "submit", "opening", "panel", "rename", "reveal", "poll"},
         NEW to \in D!Kinds \cup {None}, NEW operations \in Operations,
         Awaited(operations) <= Awaited(operation), operations[s] = None,
         operation' = [operations EXCEPT ![s] = D!Beginning(kind, to)]
  PROVE  /\ operation' \in Operations /\ Awaited(operation') <= Awaited(operation) + 1
         /\ kind # "reveal" => Awaited(operation') <= Awaited(operation)
<1>1. D!Slots = {1, 2} BY DEF D!Slots
<1>2. D!Beginning(kind, to) \in D!Operation BY DEF D!Beginning, D!Operation
<1>3. D!Beginning(kind, to).kind = kind BY DEF D!Beginning
<1>4. Awaited(operation) \in 0..2 BY AgedAreSame
<1> QED BY <1>1, <1>2, <1>3, <1>4 DEF Awaited, RevealIn, Operations

\* A timer of an earlier epoch is a timer.
LEMMA OutdatedTimers ==
  D!TypeOK => D!Outdated \subseteq [generation : 1..MaxOperations, fresh : BOOLEAN]
  BY DEF D!TypeOK, D!Outdated

\* The counters of a step that begins at most one operation.
DialogSteps(operations) ==
  /\ operations \in Operations
  /\ begun' \in 0..MaxOperations /\ disabled' \in BOOLEAN
  /\ reveals + Awaited(operations) <= begun'

LEMMA OpenInKeeps ==
  ASSUME D!OperationsAssumption, DialogKept, NEW operations, DialogSteps(operations),
         NEW kind \in D!Kinds \cup {None}, D!OpenIn(kind, operations)
  PROVE  DialogKept'
<1>1. /\ operation' \in Operations /\ Awaited(operation') <= Awaited(operations)
      /\ Awaited(operation') \in 0..2 /\ Awaited(operations) \in 0..2
  BY AgedAreSame DEF D!OpenIn, DialogSteps
<1>2. \A s \in D!Slots : operation'[s] \in D!Operation \cup {None} BY <1>1 DEF Operations
<1>3. D!TypeOK'
  BY <1>2, OutdatedTimers DEF DialogKept, DialogSteps, D!TypeOK, D!OpenIn
<1>4. reveals' + Awaited(operation') <= begun'
  BY <1>1 DEF DialogKept, DialogSteps, D!TypeOK, D!OpenIn, D!OperationsAssumption
<1>5. D!SecretTimed' BY DEF D!SecretTimed, D!OpenIn
<1> QED BY <1>1, <1>3, <1>4, <1>5 DEF DialogKept

LEMMA CloseInKeeps ==
  ASSUME D!OperationsAssumption, DialogKept, NEW operations \in Operations,
         Awaited(operations) <= Awaited(operation), D!CloseIn(operations), UNCHANGED begun
  PROVE  DialogKept'
<1>1. /\ operation' \in Operations /\ Awaited(operation') <= Awaited(operations)
      /\ Awaited(operation') \in 0..2 /\ Awaited(operations) \in 0..2
      /\ Awaited(operation) \in 0..2
  <2>1. /\ D!Aged(operations) \in Operations
        /\ Awaited(D!Aged(operations)) <= Awaited(operations)
        /\ Awaited(D!Aged(operations)) \in 0..2 /\ Awaited(operations) \in 0..2
    BY AgedAreSame
  <2> QED BY <2>1, AgedAreSame DEF D!CloseIn, DialogKept
<1>2. \A s \in D!Slots : operation'[s] \in D!Operation \cup {None} BY <1>1 DEF Operations
<1>3. D!TypeOK' BY <1>2, OutdatedTimers DEF DialogKept, D!TypeOK, D!CloseIn
<1>4. reveals' + Awaited(operation') <= begun'
  BY <1>1 DEF DialogKept, D!TypeOK, D!CloseIn, D!OperationsAssumption
<1>5. D!SecretTimed' BY DEF D!SecretTimed, D!CloseIn
<1> QED BY <1>1, <1>3, <1>4, <1>5 DEF DialogKept
\* A step that leaves the secret alone and begins or ends operations only.
LEMMA OthersKeep ==
  ASSUME D!OperationsAssumption, DialogKept, operation' \in Operations,
         begun' \in 0..MaxOperations, reveals + Awaited(operation') <= begun',
         {current', drawn'} \subseteq D!Kinds \cup {None},
         {rendering', outdated', disabled', confirm'} \subseteq BOOLEAN,
         outdated => outdated', UNCHANGED <<secrets, displayed, generation, reveals, timers>>
  PROVE  DialogKept'
<1>1. \A s \in D!Slots : operation'[s] \in D!Operation \cup {None} BY DEF Operations
<1>2. D!TypeOK' BY <1>1 DEF DialogKept, D!TypeOK
<1>3. D!SecretTimed' BY DEF DialogKept, D!SecretTimed, D!TypeOK
<1> QED BY <1>2, <1>3 DEF DialogKept

\* The user begins an operation in a free slot.
LEMMA BeginKeeps ==
  ASSUME D!OperationsAssumption, DialogKept, NEW s \in D!Slots,
         NEW kind \in {"load", "confirm", "submit", "opening", "panel", "rename", "reveal", "poll"},
         NEW to \in D!Kinds \cup {None}, operation[s] = None,
         operation' = D!Begins(s, kind, to),
         \/ begun < MaxOperations /\ begun' = begun + 1
         \/ kind # "reveal" /\ UNCHANGED begun,
         disabled' \in BOOLEAN,
         UNCHANGED <<current, rendering, drawn, outdated, confirm,
                     secrets, displayed, generation, reveals, timers>>
  PROVE  DialogKept'
<1>1. operation' = [operation EXCEPT ![s] = D!Beginning(kind, to)] BY DEF D!Begins
<1>2. operation \in Operations /\ Awaited(operation) \in 0..2 BY AgedAreSame DEF DialogKept
<1>3. /\ operation' \in Operations /\ Awaited(operation') <= Awaited(operation) + 1
      /\ kind # "reveal" => Awaited(operation') <= Awaited(operation)
  <2>1. Awaited(operation) <= Awaited(operation) BY <1>2
  <2> HIDE DEF Awaited, Operations
  <2> QED BY <1>1, <1>2, <2>1, BeginsIsMore
<1>4. Awaited(operation') \in 0..2 BY <1>3, AgedAreSame
<1>5. begun' \in 0..MaxOperations /\ reveals + Awaited(operation') <= begun'
  BY <1>2, <1>3, <1>4 DEF DialogKept, D!TypeOK, D!OperationsAssumption
<1> QED BY <1>3, <1>5, OthersKeep DEF DialogKept, D!TypeOK

\* An answer that only ends its operation.
LEMMA EndKeeps ==
  ASSUME D!OperationsAssumption, DialogKept, NEW s \in D!Slots, operation' = D!Without(s),
         disabled' \in BOOLEAN,
         UNCHANGED <<current, rendering, drawn, outdated, confirm,
                     secrets, displayed, generation, reveals, timers, begun>>
  PROVE  DialogKept'
<1>1. operation \in Operations /\ Awaited(operation) \in 0..2 BY AgedAreSame DEF DialogKept
<1>2. operation' \in Operations /\ Awaited(operation') <= Awaited(operation)
  BY <1>1, WithoutIsLess
<1>3. Awaited(operation') \in 0..2 BY <1>2, AgedAreSame
<1>4. begun' \in 0..MaxOperations /\ reveals + Awaited(operation') <= begun'
  BY <1>1, <1>2, <1>3 DEF DialogKept, D!TypeOK, D!OperationsAssumption
<1> QED BY <1>2, <1>4, OthersKeep DEF DialogKept, D!TypeOK

LEMMA OpenKeeps ==
  ASSUME D!OperationsAssumption, DialogKept, NEW kind \in {"form", "confirm", "other"}, D!Open(kind)
  PROVE  DialogKept'
<1>1. DialogSteps(operation)
  BY AgedAreSame DEF DialogKept, D!TypeOK, D!OperationsAssumption, DialogSteps, D!Open
<1> QED BY <1>1, OpenInKeeps DEF D!Open, D!Kinds

LEMMA CloseKeeps ==
  ASSUME D!OperationsAssumption, DialogKept, D!Close
  PROVE  DialogKept'
<1>1. operation \in Operations /\ Awaited(operation) <= Awaited(operation)
  BY AgedAreSame DEF DialogKept
<1> QED BY <1>1, CloseInKeeps DEF D!Close

LEMMA HideSecretKeeps ==
  ASSUME D!OperationsAssumption, DialogKept, D!HideSecret
  PROVE  DialogKept'
  BY DEF DialogKept, D!TypeOK, D!SecretTimed, D!HideSecret, D!dialog

\* The panel that awaited a fragment goes on or ends: no reveal is concerned.
LEMMA PanelsAreSame ==
  ASSUME operation \in Operations
  PROVE  /\ D!PanelsGoOn \in Operations /\ Awaited(D!PanelsGoOn) <= Awaited(operation)
         /\ D!PanelsEnd \in Operations /\ Awaited(D!PanelsEnd) <= Awaited(operation)
<1>1. D!Slots = {1, 2} BY DEF D!Slots
<1>2. ASSUME NEW s \in D!Slots
      PROVE  /\ D!PanelsGoOn[s] \in D!Operation \cup {None}
             /\ RevealIn(D!PanelsGoOn, s) <= RevealIn(operation, s)
             /\ D!PanelsEnd[s] \in D!Operation \cup {None}
             /\ RevealIn(D!PanelsEnd, s) <= RevealIn(operation, s)
  <2>1. CASE ~D!Awaiting(s) BY <2>1 DEF D!PanelsGoOn, D!PanelsEnd, RevealIn, Operations
  <2>2. CASE D!Awaiting(s)
    <3>1. operation[s] \in D!Operation BY <2>2 DEF Operations, D!Awaiting
    <3> DEFINE filling == [operation[s] EXCEPT !.kind = "panel"]
    <3>2. filling \in D!Operation /\ filling.kind = "panel" BY <3>1 DEF D!Operation
    <3>3. D!PanelsGoOn[s] = filling /\ D!PanelsEnd[s] = None
      BY <2>2 DEF D!PanelsGoOn, D!PanelsEnd
    <3> QED BY <3>2, <3>3 DEF RevealIn
  <2> QED BY <2>1, <2>2
<1>3. D!PanelsGoOn \in Operations /\ D!PanelsEnd \in Operations
  BY <1>2 DEF D!PanelsGoOn, D!PanelsEnd, Operations
<1>4. \A ops, s : RevealIn(ops, s) \in {0, 1} BY DEF RevealIn
<1>5. /\ Awaited(D!PanelsGoOn) <= Awaited(operation)
      /\ Awaited(D!PanelsEnd) <= Awaited(operation)
  <2> HIDE DEF RevealIn
  <2> QED BY <1>1, <1>2, <1>4 DEF Awaited
<1> QED BY <1>3, <1>5

LEMMA RenderedKeeps ==
  ASSUME D!OperationsAssumption, DialogKept, D!Rendered \/ D!RenderFails
  PROVE  DialogKept'
<1>0. /\ operation \in Operations /\ Awaited(operation) \in 0..2
      /\ D!PanelsGoOn \in Operations /\ Awaited(D!PanelsGoOn) <= Awaited(operation)
      /\ D!PanelsEnd \in Operations /\ Awaited(D!PanelsEnd) <= Awaited(operation)
      /\ Awaited(D!PanelsGoOn) \in 0..2 /\ Awaited(D!PanelsEnd) \in 0..2
  BY PanelsAreSame, AgedAreSame DEF DialogKept
<1>1. CASE D!Rendered
  <2>1. /\ operation' \in Operations /\ Awaited(operation') <= Awaited(operation)
        /\ Awaited(operation) \in 0..2 /\ Awaited(operation') \in 0..2
    <3>1. operation' = D!Detached(D!PanelsGoOn) BY <1>1 DEF D!Rendered
    <3>2. /\ D!Detached(D!PanelsGoOn) \in Operations
          /\ Awaited(D!Detached(D!PanelsGoOn)) <= Awaited(D!PanelsGoOn)
      BY <1>0, AgedAreSame
    <3>3. Awaited(operation') \in 0..2 BY <3>1, <3>2, AgedAreSame
    <3> HIDE DEF Awaited
    <3> QED BY <1>0, <3>1, <3>2, <3>3
  <2>2. \A s \in D!Slots : operation'[s] \in D!Operation \cup {None} BY <2>1 DEF Operations
  <2>3. D!TypeOK' BY <1>1, <2>2 DEF DialogKept, D!TypeOK, D!Rendered
  <2>4. reveals' + Awaited(operation') <= begun'
    BY <1>1, <2>1 DEF DialogKept, D!TypeOK, D!Rendered, D!OperationsAssumption
  <2>5. D!SecretTimed' BY <1>1 DEF D!SecretTimed, D!Rendered
  <2> QED BY <2>1, <2>3, <2>4, <2>5 DEF DialogKept
<1>2. CASE D!RenderFails
  <2>1. operation' = D!PanelsEnd /\ UNCHANGED begun BY <1>2 DEF D!RenderFails
  <2>2. reveals + Awaited(operation') <= begun' /\ begun' \in 0..MaxOperations
    <3> HIDE DEF Awaited
    <3> QED BY <1>0, <2>1 DEF DialogKept, D!TypeOK, D!OperationsAssumption
  <2> QED BY <1>0, <1>2, <2>1, <2>2, OthersKeep DEF DialogKept, D!TypeOK, D!RenderFails, D!secret
<1> QED BY <1>1, <1>2

LEMMA BeginsKeep ==
  ASSUME D!OperationsAssumption, DialogKept, NEW s \in D!Slots,
         \/ \E kind \in {"entry", "tasks", "other"} : D!Load(s, kind)
         \/ D!PollTasks(s) \/ D!More(s) \/ D!Reveal(s)
         \/ \E kind \in {"confirm", "rename"} : D!Press(s, kind, None)
         \/ \E to \in {None, "other"} : D!Press(s, "submit", to)
  PROVE  DialogKept'
<1> USE BeginKeeps DEF D!Begin, D!Kinds, D!dialog, D!secret
<1>1. disabled \in BOOLEAN BY DEF DialogKept, D!TypeOK
<1>2. ASSUME NEW kind \in {"entry", "tasks", "other"}, D!Load(s, kind) PROVE DialogKept'
  BY <1>1, <1>2 DEF D!Load
<1>3. CASE D!PollTasks(s) BY <1>1, <1>3 DEF D!PollTasks
<1>4. CASE D!More(s) BY <1>1, <1>4 DEF D!More
<1>5. CASE D!Reveal(s) BY <1>1, <1>5 DEF D!Reveal
<1>6. ASSUME NEW kind \in {"confirm", "rename", "submit"}, NEW to \in {None, "other"},
             D!Press(s, kind, to)
      PROVE  DialogKept'
  BY <1>6 DEF D!Press
<1> QED BY <1>2, <1>3, <1>4, <1>5, <1>6

LEMMA PanelKeeps ==
  ASSUME D!OperationsAssumption, DialogKept, NEW s \in D!Slots, D!Panel(s)
  PROVE  DialogKept'
<1>1. operation[s] = None /\ begun' = begun + 1 /\ begun < MaxOperations BY DEF D!Panel, D!Begin
<1>2. /\ D!Aged(operation) \in Operations /\ Awaited(D!Aged(operation)) <= Awaited(operation)
      /\ D!Aged(operation)[s] = None
  BY <1>1, AgedAreSame DEF DialogKept, D!Aged
<1>3. operation' \in Operations /\ Awaited(operation') <= Awaited(operation)
  <2>1. operation' = [D!Aged(operation) EXCEPT ![s] = D!Beginning("opening", "panel")] BY DEF D!Panel
  <2>2. "panel" \in D!Kinds \cup {None} /\ operation \in Operations BY DEF D!Kinds, DialogKept
  <2> HIDE DEF Awaited, Operations
  <2> QED BY <1>1, <1>2, <2>1, <2>2, BeginsIsMore
<1>4. Awaited(operation') \in 0..2 /\ Awaited(operation) \in 0..2
  BY <1>3, AgedAreSame DEF DialogKept
<1>5. \A i \in D!Slots : operation'[i] \in D!Operation \cup {None} BY <1>3 DEF Operations
<1>6. D!TypeOK'
  BY <1>1, <1>5, OutdatedTimers DEF DialogKept, D!TypeOK, D!Panel, D!Kinds, D!OperationsAssumption
<1>7. reveals' + Awaited(operation') <= begun'
  BY <1>1, <1>3, <1>4 DEF DialogKept, D!TypeOK, D!Panel, D!OperationsAssumption
<1>8. D!SecretTimed' BY DEF D!SecretTimed, D!Panel
<1> QED BY <1>3, <1>6, <1>7, <1>8 DEF DialogKept

LEMMA AnswersKeep ==
  ASSUME D!OperationsAssumption, DialogKept, NEW s \in D!Slots, D!Answers(s)
  PROVE  DialogKept'
<1>1. /\ operation \in Operations /\ Awaited(operation) \in 0..2
      /\ D!Without(s) \in Operations /\ Awaited(D!Without(s)) <= Awaited(operation)
      /\ Awaited(D!Without(s)) \in 0..2
  BY AgedAreSame, WithoutIsLess DEF DialogKept
<1>2. operation[s] # None => operation[s].to \in D!Kinds \cup {None}
  BY <1>1 DEF Operations, D!Operation
<1>3. disabled \in BOOLEAN /\ D!StillDisabled(s) \in BOOLEAN BY DEF DialogKept, D!TypeOK, D!StillDisabled
<1>4. ASSUME disabled' \in BOOLEAN, UNCHANGED begun PROVE DialogSteps(D!Without(s))
  BY <1>1, <1>4 DEF DialogSteps, DialogKept, D!TypeOK, D!OperationsAssumption
<1>5. CASE D!Loaded(s)
  BY <1>2, <1>3, <1>4, <1>5, OpenInKeeps DEF D!Loaded
<1>6. CASE D!PanelRead(s)
  <2>1. CASE operation[s].fresh
    BY <1>3, <1>4, <1>6, <2>1, OpenInKeeps DEF D!PanelRead, D!Kinds
  <2>2. CASE ~operation[s].fresh
    BY <1>3, <1>6, <2>2, EndKeeps DEF D!PanelRead, D!dialog, D!secret
  <2> QED BY <2>1, <2>2
<1>7. CASE D!Confirmed(s) \/ D!Renamed(s)
  <2>1. CASE D!Superseded(s) BY <1>3, <2>1, EndKeeps DEF D!Superseded, D!secret
  <2>2. CASE D!CloseIn(D!Without(s)) /\ UNCHANGED begun BY <1>1, <2>2, CloseInKeeps
  <2> QED BY <1>7, <2>1, <2>2 DEF D!Confirmed, D!Renamed
<1>8. CASE D!Changed(s)
  <2>1. CASE operation[s].to = None BY <1>1, <1>8, <2>1, CloseInKeeps DEF D!Changed
  <2>2. CASE operation[s].to # None
    BY <1>2, <1>3, <1>4, <1>8, <2>2, OpenInKeeps DEF D!Changed
  <2> QED BY <2>1, <2>2
<1>9. CASE D!Revealed(s)
  <2>1. CASE ~operation[s].fresh
    BY <1>3, <1>9, <2>1, EndKeeps DEF D!Revealed, D!dialog, D!secret
  <2>2. CASE operation[s].fresh
    <3>1. /\ operation' = D!Without(s) /\ reveals' = reveals + 1 /\ generation' = reveals'
          /\ secrets' = TRUE /\ displayed' = (displayed \/ operation[s].attached)
          /\ timers' = timers \cup {[generation |-> reveals', fresh |-> TRUE]}
          /\ UNCHANGED D!dialog /\ UNCHANGED begun
          /\ operation[s] # None /\ operation[s].kind = "reveal"
      BY <1>9, <2>2 DEF D!Revealed, D!NextGeneration
    <3>2. Awaited(operation') < Awaited(operation) BY <1>1, <3>1, WithoutIsLess
    <3>3. reveals' + Awaited(operation') <= begun' /\ reveals' \in 1..MaxOperations
      BY <1>1, <3>1, <3>2 DEF DialogKept, D!TypeOK, D!OperationsAssumption
    <3>4. \A i \in D!Slots : operation'[i] \in D!Operation \cup {None} BY <1>1, <3>1 DEF Operations
    <3>5. displayed' \in BOOLEAN
      BY <1>1, <3>1 DEF DialogKept, D!TypeOK, Operations, D!Operation
    <3>6. D!TypeOK'
      <4>1. [generation |-> reveals', fresh |-> TRUE] \in [generation : 1..MaxOperations, fresh : BOOLEAN]
        BY <3>3
      <4>2. timers' \subseteq [generation : 1..MaxOperations, fresh : BOOLEAN]
        BY <3>1, <4>1 DEF DialogKept, D!TypeOK
      <4>3. generation' \in 0..MaxOperations /\ reveals' \in 0..MaxOperations BY <3>1, <3>3
      <4> QED BY <3>1, <3>4, <3>5, <4>2, <4>3 DEF DialogKept, D!TypeOK, D!dialog
    <3>7. D!SecretTimed'
      <4> DEFINE new == [generation |-> reveals', fresh |-> TRUE]
      <4>1. new \in timers' /\ new.fresh /\ new.generation = generation' BY <3>1
      <4> QED BY <4>1 DEF D!SecretTimed
    <3> QED BY <1>1, <3>1, <3>3, <3>6, <3>7 DEF DialogKept
  <2> QED BY <2>1, <2>2
<1>10. CASE D!Fails(s) BY <1>3, <1>10, EndKeeps DEF D!Fails, D!secret
<1>11. CASE D!PanelOpened(s)
  <2> DEFINE filling == [operation[s] EXCEPT !.kind = "panel", !.fresh = TRUE]
  <2>1. operation[s] \in D!Operation BY <1>1, <1>11 DEF Operations, D!PanelOpened
  <2>2. filling \in D!Operation /\ filling.kind = "panel" BY <2>1 DEF D!Operation
  <2>3. operation' = [operation EXCEPT ![s] = filling] BY <1>11 DEF D!PanelOpened
  <2>4. D!Slots = {1, 2} BY DEF D!Slots
  <2> HIDE DEF filling
  <2>5. operation' \in Operations /\ Awaited(operation') <= Awaited(operation)
    BY <1>1, <2>2, <2>3, <2>4 DEF Operations, Awaited, RevealIn
  <2>6. Awaited(operation') \in 0..2 BY <2>5, AgedAreSame
  <2>7. reveals + Awaited(operation') <= begun' /\ begun' \in 0..MaxOperations
    <3>1. UNCHANGED begun BY <1>11 DEF D!PanelOpened
    <3> HIDE DEF Awaited
    <3> QED BY <1>1, <2>5, <2>6, <3>1 DEF DialogKept, D!TypeOK, D!OperationsAssumption
  <2> QED BY <1>11, <2>5, <2>7, OthersKeep
      DEF DialogKept, D!TypeOK, D!PanelOpened, D!dialog, D!secret
<1> QED BY <1>5, <1>6, <1>7, <1>8, <1>9, <1>10, <1>11 DEF D!Answers

LEMMA DialogTimerKeeps ==
  ASSUME D!OperationsAssumption, DialogKept, NEW t \in timers, D!TimerFires(t)
  PROVE  DialogKept'
<1>1. D!TypeOK' BY DEF DialogKept, D!TypeOK, D!TimerFires, D!dialog
<1>2. D!SecretTimed' BY DEF DialogKept, D!SecretTimed, D!TimerFires, D!dialog
<1> QED BY <1>1, <1>2 DEF DialogKept, D!TimerFires

LEMMA DialogNextKeeps ==
  D!OperationsAssumption /\ DialogKept /\ [D!Next]_(D!vars) => DialogKept'
<1> SUFFICES ASSUME D!OperationsAssumption, DialogKept, [D!Next]_(D!vars) PROVE DialogKept'
  OBVIOUS
<1>1. CASE UNCHANGED D!vars
  BY <1>1 DEF DialogKept, D!TypeOK, D!SecretTimed, D!vars, D!dialog, D!secret
<1>2. CASE \E kind \in {"form", "confirm", "other"} : D!Open(kind) BY <1>2, OpenKeeps
<1>3. CASE D!Close \/ D!HideSecret \/ D!Rendered \/ D!RenderFails
  BY <1>3, CloseKeeps, HideSecretKeeps, RenderedKeeps
<1>4. ASSUME NEW s \in D!Slots,
             \/ \E kind \in {"entry", "tasks", "other"} : D!Load(s, kind)
             \/ D!PollTasks(s) \/ D!Panel(s) \/ D!More(s) \/ D!Reveal(s)
             \/ \E kind \in {"confirm", "rename"} : D!Press(s, kind, None)
             \/ \E to \in {None, "other"} : D!Press(s, "submit", to)
             \/ D!Answers(s)
      PROVE  DialogKept'
  BY <1>4, BeginsKeep, PanelKeeps, AnswersKeep
<1>5. CASE \E t \in timers : D!TimerFires(t) BY <1>5, DialogTimerKeeps
<1> QED BY <1>1, <1>2, <1>3, <1>4, <1>5 DEF D!Next

LEMMA DialogInit == D!OperationsAssumption /\ D!Init => DialogKept
<1> SUFFICES ASSUME D!OperationsAssumption, D!Init PROVE DialogKept
  OBVIOUS
<1>1. operation \in Operations BY DEF D!Init, Operations
<1>2. Awaited(operation) = 0 BY DEF D!Init, Awaited, RevealIn, D!Slots
<1>3. \A s \in D!Slots : operation[s] \in D!Operation \cup {None} BY <1>1 DEF Operations
<1>4. 0 \in 0..MaxOperations BY DEF D!OperationsAssumption
<1>5. D!TypeOK BY <1>3, <1>4 DEF D!Init, D!TypeOK
<1>6. reveals = 0 /\ begun = 0 /\ ~displayed BY DEF D!Init
<1> QED BY <1>1, <1>2, <1>5, <1>6 DEF DialogKept, D!SecretTimed

-----------------------------------------------------------------------------
(* The connection to a cloud computer: a request is answered once           *)

Links == [phase : {"unused", "viewing", "dialing", "ready", "failed"},
          closed : BOOLEAN, connected : BOOLEAN, view : BOOLEAN]
Work == [kind : {"switch", "select", "send", "change", "workspace"},
         step : {"closing", "opening", "call"}, on : C!Connections, to : {"cloud", "device"},
         left : 0..3, fresh : BOOLEAN]
Works == [C!Slots -> Work \cup {None}]

\* A request that is listed was asked and has no answer.
Listed ==
  \A c \in C!Connections : \A r \in approvals[c] : r \in asked[c] /\ answers[c][r] = 0

CloudKept == C!TypeOK /\ work \in Works /\ Listed /\ C!AnsweredOnce

\* A step that adds no request and no answer.
LEMMA SameAnswers ==
  ASSUME CloudKept, UNCHANGED <<asked, answers>>,
         approvals' \in [C!Connections -> SUBSET C!Requests],
         \A c \in C!Connections : approvals'[c] \subseteq approvals[c],
         connection' \in [C!Connections -> Links], releasing' \subseteq C!Connections,
         cloud' \in C!Connections \cup {None}, work' \in Works, started' \in 0..MaxWork,
         asking' \in C!Requests \cup {None}
  PROVE  CloudKept'
<1>1. \A s \in C!Slots : work'[s] \in {None} \cup Work BY DEF Works
<1>2. C!TypeOK' BY <1>1 DEF CloudKept, C!TypeOK, Links, Work
<1>3. Listed' /\ C!AnsweredOnce' BY DEF CloudKept, Listed, C!AnsweredOnce
<1> QED BY <1>2, <1>3 DEF CloudKept

LEMMA CloudTypes ==
  ASSUME CloudKept
  PROVE  /\ connection \in [C!Connections -> Links] /\ releasing \subseteq C!Connections
         /\ cloud \in C!Connections \cup {None} /\ work \in Works /\ started \in 0..MaxWork
         /\ asking \in C!Requests \cup {None}
         /\ approvals \in [C!Connections -> SUBSET C!Requests]
  BY DEF CloudKept, C!TypeOK, Links

\* What a broken connection, an abandoned attempt or a new choice makes of the operations.
LEMMA OperationsStay ==
  ASSUME NEW operations \in Works, NEW gone, NEW c
  PROVE  /\ C!Rejected(operations, gone) \in Works /\ C!Stale(operations) \in Works
         /\ work = operations => C!Abandoned(c) \in Works
<1>1. ASSUME NEW s \in C!Slots, operations[s] # None
      PROVE  [operations[s] EXCEPT !.fresh = FALSE] \in Work
  BY <1>1 DEF Works, Work
<1> QED BY <1>1 DEF C!Rejected, C!Stale, C!Abandoned, Works

\* An operation that goes on to another step.
LEMMA WorkGoesOn ==
  ASSUME NEW w \in Work, NEW step \in {"closing", "opening", "call"}, NEW c \in C!Connections,
         NEW left \in 0..3
  PROVE  /\ [w EXCEPT !.step = step, !.on = c] \in Work
         /\ [w EXCEPT !.step = step, !.on = c, !.left = left] \in Work
<1>1. [w EXCEPT !.step = step, !.on = c] \in Work BY DEF Work
<1>2. [w EXCEPT !.step = step, !.on = c, !.left = left] \in Work BY DEF Work
<1> QED BY <1>1, <1>2

LEMMA ClosedLinks ==
  ASSUME CloudKept, NEW c \in C!Connections
  PROVE  C!Closed(c) \in [C!Connections -> Links] /\ C!Closed(c)[c].phase = connection[c].phase
<1>1. connection \in [C!Connections -> Links] BY CloudTypes
<1>2. connection[c] \in Links BY <1>1
<1>3. PICK link : link = [connection[c] EXCEPT !.closed = TRUE, !.connected = FALSE, !.view = FALSE] OBVIOUS
<1>4. link \in Links /\ link.phase = connection[c].phase BY <1>2, <1>3 DEF Links
<1>5. C!Closed(c) = [connection EXCEPT ![c] = link] BY <1>1, <1>3 DEF C!Closed
<1> QED BY <1>1, <1>4, <1>5

LEMMA CloseTypes ==
  ASSUME CloudKept, NEW c \in C!Connections, NEW operations \in Works, C!Close(c, operations)
  PROVE  /\ connection' \in [C!Connections -> Links] /\ releasing' \subseteq C!Connections
         /\ approvals' \in [C!Connections -> SUBSET C!Requests]
         /\ \A d \in C!Connections : approvals'[d] \subseteq approvals[d]
         /\ work' \in Works
<1>1. connection' \in [C!Connections -> Links] BY ClosedLinks DEF C!Close
<1>2. work' \in Works BY OperationsStay DEF C!Close
<1>3. /\ releasing' \subseteq C!Connections
      /\ approvals' \in [C!Connections -> SUBSET C!Requests]
      /\ \A d \in C!Connections : approvals'[d] \subseteq approvals[d]
  BY CloudTypes DEF C!Close
<1> QED BY <1>1, <1>2, <1>3

LEMMA FailKeeps ==
  ASSUME CloudKept, NEW c \in C!Connections, C!Fail(c)
  PROVE  CloudKept'
<1>1. connection' \in [C!Connections -> Links]
  <2> DEFINE known == IF connection[c].closed THEN connection ELSE C!Closed(c)
  <2>1. known \in [C!Connections -> Links] BY CloudTypes, ClosedLinks
  <2>2. connection' = [known EXCEPT ![c].phase = "failed", ![c].connected = FALSE] BY DEF C!Fail
  <2> HIDE DEF known
  <2> QED BY <2>1, <2>2 DEF Links
<1>2. work' \in Works
  <2>1. C!Abandoned(c) \in Works BY CloudTypes, OperationsStay
  <2> QED BY <2>1, OperationsStay DEF C!Fail
<1>3. /\ releasing' \subseteq C!Connections
      /\ approvals' \in [C!Connections -> SUBSET C!Requests]
      /\ \A d \in C!Connections : approvals'[d] \subseteq approvals[d]
  BY CloudTypes DEF C!Fail
<1>4. UNCHANGED <<cloud, started, asking, asked, answers>> BY DEF C!Fail
<1> QED BY <1>1, <1>2, <1>3, <1>4, CloudTypes, SameAnswers

\* A step that leaves the requests alone.
LEMMA RequestsStay ==
  ASSUME CloudKept, UNCHANGED C!requests,
         connection' \in [C!Connections -> Links], releasing' \subseteq C!Connections,
         cloud' \in C!Connections \cup {None}, work' \in Works, started' \in 0..MaxWork
  PROVE  CloudKept'
<1>1. UNCHANGED <<approvals, asking, asked, answers>> BY DEF C!requests
<1> QED BY <1>1, CloudTypes, SameAnswers

LEMMA OpensKeeps ==
  ASSUME CloudKept, NEW c \in C!Connections, C!Opens(c)
  PROVE  CloudKept'
<1> USE CloudTypes
<1>1. CASE C!ViewOpened(c)
  <2>1. C!Abandoned(c) \in Works BY OperationsStay
  <2>2. connection' \in [C!Connections -> Links] BY <1>1 DEF C!ViewOpened, Links
  <2>3. /\ releasing' \subseteq C!Connections /\ work' \in Works
        /\ UNCHANGED <<cloud, started>> /\ UNCHANGED C!requests
    BY <1>1, <2>1 DEF C!ViewOpened
  <2> QED BY <2>2, <2>3, RequestsStay
<1>2. CASE C!ViewRefused(c)
  <2>1. C!Abandoned(c) \in Works BY OperationsStay
  <2>2. connection' \in [C!Connections -> Links] BY <1>2 DEF C!ViewRefused, Links
  <2> QED BY <1>2, <2>1, <2>2, RequestsStay DEF C!ViewRefused
<1>3. CASE C!Ready(c)
  <2>1. PICK s \in C!Slots :
          /\ work[s] # None
          /\ IF work[s].fresh
             THEN /\ connection' = [connection EXCEPT ![c].phase = "ready", ![c].connected = TRUE]
                  /\ work' = [work EXCEPT ![s] =
                       IF cloud # None /\ (cloud = c \/ C!Connected(cloud))
                       THEN [work[s] EXCEPT !.step = "call", !.on = cloud, !.left = 1]
                       ELSE None]
                  /\ UNCHANGED releasing
             ELSE /\ connection' = [C!Closed(c) EXCEPT ![c].phase = "ready"]
                  /\ releasing' = releasing \cup {c}
                  /\ work' = [work EXCEPT ![s] = None]
    BY <1>3 DEF C!Ready
  <2>2. work[s] \in Work BY <2>1 DEF Works
  <2>3. cloud # None => [work[s] EXCEPT !.step = "call", !.on = cloud, !.left = 1] \in Work
    <3>1. "call" \in {"closing", "opening", "call"} /\ 1 \in 0..3
          /\ (cloud # None => cloud \in C!Connections)
      BY CloudTypes
    <3> QED BY <2>2, <3>1, WorkGoesOn, Zenon
  <2>4. work' \in Works BY <2>1, <2>3 DEF Works
  <2>5. connection' \in [C!Connections -> Links] /\ releasing' \subseteq C!Connections
    <3>1. CASE work[s].fresh BY <2>1, <3>1 DEF Links
    <3>2. CASE ~work[s].fresh
      <4>1. connection' = [C!Closed(c) EXCEPT ![c].phase = "ready"] BY <2>1, <3>2
      <4>2. C!Closed(c) \in [C!Connections -> Links] BY ClosedLinks
      <4> QED BY <2>1, <3>2, <4>1, <4>2 DEF Links
    <3> QED BY <3>1, <3>2
  <2> QED BY <1>3, <2>4, <2>5, RequestsStay DEF C!Ready
<1>4. CASE C!OpenTimesOut(c) BY <1>4, FailKeeps DEF C!OpenTimesOut
<1> QED BY <1>1, <1>2, <1>3, <1>4 DEF C!Opens

\* The choice of the next connection is one.
LEMMA NextUnopened ==
  ASSUME C!CloudAssumption, C!Unopened # {}
  PROVE  (CHOOSE c \in C!Unopened : \A d \in C!Unopened : c <= d) \in C!Unopened
<1>1. C!Unopened \in SUBSET Nat BY DEF C!Unopened, C!Connections, C!CloudAssumption
<1>2. \E c \in C!Unopened : \A d \in C!Unopened : c <= d
  <2> HIDE DEF C!Unopened
  <2> QED BY <1>1, LeastOfNaturals
<1> QED BY <1>2

LEMMA OpeningTypes ==
  ASSUME C!CloudAssumption, CloudKept, C!Unopened # {}, NEW s \in C!Slots,
         NEW known \in [C!Connections -> Links], NEW operations \in Works,
         NEW w, [w EXCEPT !.step = "opening", !.on = 1] \in Work,
         C!Opening(s, known, operations, w)
  PROVE  /\ cloud' \in C!Connections /\ connection' \in [C!Connections -> Links]
         /\ work' \in Works
<1> DEFINE c == CHOOSE c \in C!Unopened : \A d \in C!Unopened : c <= d
<1>1. c \in C!Connections BY NextUnopened DEF C!Unopened
<1>2. /\ cloud' = c /\ connection' = [known EXCEPT ![c].phase = "viewing"]
      /\ work' = [operations EXCEPT ![s] = [w EXCEPT !.step = "opening", !.on = c]]
  BY DEF C!Opening
<1> HIDE DEF c
<1>3. connection' \in [C!Connections -> Links] BY <1>1, <1>2 DEF Links
<1>4. [w EXCEPT !.step = "opening", !.on = c] \in Work BY <1>1 DEF Work
<1>5. work' \in Works BY <1>2, <1>4 DEF Works
<1> QED BY <1>1, <1>2, <1>3, <1>5

LEMMA SwitchKeeps ==
  ASSUME C!CloudAssumption, CloudKept, NEW s \in C!Slots, NEW to \in {"cloud", "device"},
         C!Switch(s, to)
  PROVE  CloudKept'
<1>1. started' \in 0..MaxWork BY CloudTypes DEF C!Switch, C!Start, C!CloudAssumption
<1>2. C!Stale(work) \in Works BY CloudTypes, OperationsStay
<1>3. CASE cloud # None /\ connection[cloud].view
  <2>1. cloud \in C!Connections BY <1>3, CloudTypes
  <2> DEFINE operations == [C!Stale(work) EXCEPT ![s] = C!Switching("closing", cloud, to)]
  <2>2. C!Switching("closing", cloud, to) \in Work BY <2>1 DEF C!Switching, Work
  <2>3. operations \in Works BY <1>2, <2>2 DEF Works
  <2>4. C!Close(cloud, operations) /\ cloud' = None BY <1>3 DEF C!Switch
  <2>5. UNCHANGED <<asking, asked, answers>> BY DEF C!Switch
  <2> HIDE DEF operations
  <2> QED BY <1>1, <2>1, <2>3, <2>4, <2>5, CloseTypes, CloudTypes, SameAnswers
<1>4. CASE ~(cloud # None /\ connection[cloud].view)
  <2> DEFINE known == IF cloud = None THEN connection ELSE C!Closed(cloud)
  <2>1. known \in [C!Connections -> Links] BY CloudTypes, ClosedLinks
  <2>2. UNCHANGED <<releasing, approvals, asking, asked, answers>> BY <1>4 DEF C!Switch
  <2>3. /\ cloud' \in C!Connections \cup {None} /\ connection' \in [C!Connections -> Links]
        /\ work' \in Works
    <3>1. CASE to = "cloud"
      <4>1. C!Opening(s, known, C!Stale(work), C!Switching("opening", 1, to)) /\ C!Unopened # {}
        BY <1>4, <3>1 DEF C!Switch
      <4>2. [C!Switching("opening", 1, to) EXCEPT !.step = "opening", !.on = 1] \in Work
        <5>1. 1 \in C!Connections BY <4>1 DEF C!Unopened, C!Connections, C!CloudAssumption
        <5>2. C!Switching("opening", 1, to) \in Work BY <5>1 DEF C!Switching, Work
        <5>3. "opening" \in {"closing", "opening", "call"} /\ 0 \in 0..3 OBVIOUS
        <5> QED BY <5>1, <5>2, <5>3, WorkGoesOn, Zenon
      <4> HIDE DEF known
      <4> QED BY <1>2, <2>1, <4>1, <4>2, OpeningTypes
    <3>2. CASE to # "cloud"
      <4>1. cloud' = None /\ connection' = known /\ work' = C!Stale(work)
        BY <1>4, <3>2 DEF C!Switch
      <4> QED BY <1>2, <2>1, <4>1
    <3> QED BY <3>1, <3>2
  <2> QED BY <1>1, <2>2, <2>3, CloudTypes, SameAnswers
<1> QED BY <1>3, <1>4

LEMMA ReleasesKeeps ==
  ASSUME C!CloudAssumption, CloudKept, NEW c \in C!Connections, C!Releases(c)
  PROVE  CloudKept'
<1>1. releasing' \subseteq C!Connections BY CloudTypes DEF C!Releases, C!ViewReleased, C!ReleaseFails
<1>2. UNCHANGED <<started>> /\ UNCHANGED C!requests
  BY DEF C!Releases, C!ViewReleased, C!ReleaseFails
<1>3. CASE C!ViewReleased(c)
  <2>1. CASE UNCHANGED <<cloud, connection, work>> BY <1>1, <1>2, <2>1, CloudTypes, RequestsStay
  <2>2. ASSUME NEW s \in C!Slots, work[s] # None,
               IF work[s].to = "cloud" /\ C!Unopened # {}
               THEN C!Opening(s, connection, work, work[s])
               ELSE work' = [work EXCEPT ![s] = None] /\ UNCHANGED <<cloud, connection>>
        PROVE  CloudKept'
    <3>1. work[s] \in Work BY <2>2, CloudTypes DEF Works
    <3>2. CASE work[s].to = "cloud" /\ C!Unopened # {}
      <4>1. 1 \in C!Connections BY <3>2 DEF C!Unopened, C!Connections, C!CloudAssumption
      <4>2. [work[s] EXCEPT !.step = "opening", !.on = 1] \in Work
        <5>1. "opening" \in {"closing", "opening", "call"} /\ 0 \in 0..3 OBVIOUS
        <5> QED BY <3>1, <4>1, <5>1, WorkGoesOn, Zenon
      <4>3. /\ cloud' \in C!Connections /\ connection' \in [C!Connections -> Links]
            /\ work' \in Works
        BY <2>2, <3>2, <4>2, CloudTypes, OpeningTypes
      <4> QED BY <1>1, <1>2, <4>3, CloudTypes, RequestsStay
    <3>3. CASE ~(work[s].to = "cloud" /\ C!Unopened # {})
      <4>1. work' \in Works BY <2>2, <3>3, CloudTypes DEF Works
      <4> QED BY <1>1, <1>2, <2>2, <3>3, <4>1, CloudTypes, RequestsStay
    <3> QED BY <3>2, <3>3
  <2> QED BY <1>3, <2>1, <2>2 DEF C!ViewReleased
<1>4. CASE C!ReleaseFails(c)
  <2>1. work' \in Works BY <1>4, CloudTypes DEF C!ReleaseFails, Works
  <2> QED BY <1>1, <1>2, <1>4, <2>1, CloudTypes, RequestsStay DEF C!ReleaseFails
<1> QED BY <1>3, <1>4 DEF C!Releases

LEMMA CallsKeep ==
  ASSUME C!CloudAssumption, CloudKept, NEW s \in C!Slots,
         \/ C!Select(s) \/ C!ChangeWorkspace(s)
         \/ \E left \in {2, 3} : C!Change(s, "send", left)
         \/ C!Change(s, "change", 3)
  PROVE  CloudKept'
<1>1. UNCHANGED C!views /\ UNCHANGED C!requests BY DEF C!Select, C!ChangeWorkspace, C!Change
<1>2. started' \in 0..MaxWork
  BY CloudTypes DEF C!Select, C!ChangeWorkspace, C!Change, C!Start, C!CloudAssumption
<1>3. cloud \in C!Connections
  BY CloudTypes DEF C!Select, C!ChangeWorkspace, C!Change, C!Usable
<1>4. \A kind \in {"select", "send", "change", "workspace"}, left \in {2, 3} :
        C!Calling(kind, left) \in Work
  BY <1>3 DEF C!Calling, Work
<1>5. C!Stale(work) \in Works BY CloudTypes, OperationsStay
<1>6. work' \in Works BY <1>4, <1>5, CloudTypes DEF C!Select, C!ChangeWorkspace, C!Change, Works
<1> QED BY <1>1, <1>2, <1>6, CloudTypes, RequestsStay DEF C!views

LEMMA EndsKeep ==
  ASSUME CloudKept, NEW s \in C!Slots, C!Ends(s)
  PROVE  CloudKept'
<1>1. UNCHANGED <<C!views, started, C!requests>> BY DEF C!Ends, C!Answered, C!CallFails
<1>2. work \in Works /\ C!Stale(work) \in Works /\ work[s] \in Work
  BY CloudTypes, OperationsStay DEF C!Ends, C!Answered, C!CallFails, Works
<1>3. work' \in Works
  <2>1. CASE work' = [work EXCEPT ![s] = None] BY <1>2, <2>1 DEF Works
  <2>2. CASE C!Answered(s)
    <3> DEFINE next == IF work[s].left > 1 THEN [work[s] EXCEPT !.left = @ - 1] ELSE None
    <3>1. next \in Work \cup {None} BY <1>2 DEF Work
    <3>2. work[s].left = 3 => [next EXCEPT !.fresh = TRUE] \in Work
      <4>1. ASSUME NEW w \in Work PROVE [w EXCEPT !.fresh = TRUE] \in Work BY DEF Work
      <4>2. ASSUME work[s].left = 3 PROVE next = [work[s] EXCEPT !.left = @ - 1] /\ next \in Work
        BY <1>2, <4>2 DEF Work
      <4> HIDE DEF next
      <4> QED BY <4>1, <4>2
    <3>3. \/ work' = [work EXCEPT ![s] = next]
          \/ work' = [work EXCEPT ![s] = None]
          \/ work[s].left = 3 /\ work' = [C!Stale(work) EXCEPT ![s] = [next EXCEPT !.fresh = TRUE]]
      BY <2>2 DEF C!Answered, C!Continued
    <3> HIDE DEF next
    <3> QED BY <1>2, <3>1, <3>2, <3>3 DEF Works
  <2> QED BY <2>1, <2>2 DEF C!Ends, C!CallFails
<1> QED BY <1>1, <1>3, CloudTypes, RequestsStay DEF C!views

LEMMA ApprovalsKeep ==
  ASSUME CloudKept,
         \/ \E c \in C!Connections, r \in C!Requests : C!Asked(c, r) \/ C!Resolved(c, r)
         \/ \E r \in C!Requests : C!OpenApproval(r)
         \/ C!Respond \/ C!CloseApproval
  PROVE  CloudKept'
<1>1. ASSUME NEW c \in C!Connections, NEW r \in C!Requests, C!Asked(c, r) PROVE CloudKept'
  <2>1. C!TypeOK' BY <1>1 DEF CloudKept, C!TypeOK, C!Asked, C!views
  <2>2. answers[c][r] = 0
    BY <1>1 DEF CloudKept, C!TypeOK, C!AnsweredOnce, C!Asked
  <2>3. Listed' /\ C!AnsweredOnce'
    BY <1>1, <2>2 DEF CloudKept, C!TypeOK, Listed, C!AnsweredOnce, C!Asked
  <2> QED BY <1>1, <2>1, <2>3 DEF CloudKept, C!Asked
<1>2. ASSUME NEW c \in C!Connections, NEW r \in C!Requests, C!Resolved(c, r) PROVE CloudKept'
  BY <1>2, CloudTypes, SameAnswers DEF C!Resolved, C!views
<1>3. CASE (\E r \in C!Requests : C!OpenApproval(r)) \/ C!CloseApproval
  BY <1>3, CloudTypes, SameAnswers DEF C!OpenApproval, C!CloseApproval, C!views
<1>4. CASE C!Respond
  <2>1. cloud \in C!Connections /\ asking \in C!Requests /\ asking \in approvals[cloud]
    BY <1>4, CloudTypes DEF C!Respond, C!Usable
  <2>2. answers[cloud][asking] = 0 /\ asking \in asked[cloud] BY <2>1 DEF CloudKept, Listed
  <2>3. answers' = [answers EXCEPT ![cloud][asking] = 1] BY <1>4, <2>2 DEF C!Respond
  <2>4. C!TypeOK' BY <1>4, <2>1, <2>3 DEF CloudKept, C!TypeOK, C!Respond, C!views
  <2>5. Listed' /\ C!AnsweredOnce'
    BY <1>4, <2>1, <2>2, <2>3 DEF CloudKept, C!TypeOK, Listed, C!AnsweredOnce, C!Respond
  <2> QED BY <1>4, <2>4, <2>5 DEF CloudKept, C!Respond
<1> QED BY <1>1, <1>2, <1>3, <1>4

LEMMA CloudNextKeeps ==
  C!CloudAssumption /\ CloudKept /\ [C!Next]_(C!vars) => CloudKept'
<1> SUFFICES ASSUME C!CloudAssumption, CloudKept, [C!Next]_(C!vars) PROVE CloudKept'
  OBVIOUS
<1>1. CASE UNCHANGED C!vars
  BY <1>1, CloudTypes, SameAnswers DEF C!vars, C!views, C!requests
<1>2. ASSUME NEW c \in C!Connections, C!Opens(c) \/ C!Releases(c) \/ C!Lost(c) PROVE CloudKept'
  BY <1>2, OpensKeeps, ReleasesKeeps, FailKeeps DEF C!Lost
<1>3. ASSUME NEW s \in C!Slots,
             \/ \E to \in {"cloud", "device"} : C!Switch(s, to)
             \/ C!Select(s) \/ C!ChangeWorkspace(s)
             \/ \E left \in {2, 3} : C!Change(s, "send", left)
             \/ C!Change(s, "change", 3)
             \/ C!Ends(s)
      PROVE  CloudKept'
  BY <1>3, SwitchKeeps, CallsKeep, EndsKeep
<1>4. CASE C!Hide
  <2>1. cloud \in C!Connections /\ C!Close(cloud, work)
    BY <1>4, CloudTypes DEF C!Hide
  <2> QED BY <1>4, <2>1, CloudTypes, CloseTypes, SameAnswers DEF C!Hide
<1> QED BY <1>1, <1>2, <1>3, <1>4, ApprovalsKeep DEF C!Next

LEMMA CloudInit == C!CloudAssumption /\ C!Init => CloudKept
<1> SUFFICES ASSUME C!CloudAssumption, C!Init PROVE CloudKept
  OBVIOUS
<1>1. work \in Works BY DEF C!Init, Works
<1>2. \A s \in C!Slots : work[s] \in {None} \cup Work BY <1>1 DEF Works
<1>3. C!TypeOK BY <1>2 DEF C!Init, C!TypeOK, C!Unused, Work, C!CloudAssumption
<1> QED BY <1>1, <1>3 DEF CloudKept, Listed, C!AnsweredOnce, C!Init

-----------------------------------------------------------------------------
(* The bridge: drops are delivered in order                                 *)

ToHost == [kind : {"request"}, id : B!Calls] \cup [kind : {"drag"}, id : B!Registrations]
            \cup [kind : {"subscribe"}, id : B!Registrations, enabled : BOOLEAN]
ToGuest == [kind : {"response"}, id : B!Calls]
             \cup [kind : {"drop"}, id : B!Registrations, drop : B!Drops]
Readings == [drop : B!Drops, id : B!Registrations, epoch : Nat]

Messages ==
  /\ toHost \in Seq(ToHost) /\ toGuest \in Seq(ToGuest) /\ received \in Seq(B!Drops)
  /\ epoch \in Nat /\ drops <= moves /\ reading \subseteq Readings

IsRequest(i) == i \in DOMAIN toHost /\ toHost[i].kind = "request"
IsDrop(k) == k \in DOMAIN toGuest /\ toGuest[k].kind = "drop"

\* A call is under way to the host at most once, and is not taken again: what the host
\* counts is what the service works on.
CallsOnce ==
  /\ inflight = Cardinality(invoked)
  /\ \A c \in invoked : c <= calls
  /\ \A i : IsRequest(i) => toHost[i].id <= calls /\ toHost[i].id \notin invoked
  /\ \A i, j : IsRequest(i) /\ IsRequest(j) /\ toHost[i].id = toHost[j].id => i = j

\* The guest has got, or will get, the drops in the order they were made.
GivenInOrder ==
  /\ \A i \in DOMAIN received : received[i] <= drops
  /\ \A k : IsDrop(k) => /\ toGuest[k].drop <= drops
                         /\ \A i \in DOMAIN received : received[i] < toGuest[k].drop
  /\ \A k, l : IsDrop(k) /\ IsDrop(l) /\ k < l => toGuest[k].drop < toGuest[l].drop

\* The drop being read that is still valid is the last one, and was not given.
ReadLast ==
  \A r \in reading :
    /\ r.drop <= drops /\ r.epoch <= epoch
    /\ r.epoch = epoch => /\ \A i \in DOMAIN received : received[i] < r.drop
                          /\ \A k : IsDrop(k) => toGuest[k].drop < r.drop
                          /\ \A q \in reading : q.epoch = epoch => q = r

Ordered == GivenInOrder /\ ReadLast /\ B!DropDelivered
BridgeKept == B!TypeOK /\ Messages /\ CallsOnce /\ Ordered

\* Steps that do not concern the calls.
LEMMA SameCalls ==
  ASSUME CallsOnce, UNCHANGED <<inflight, invoked, calls, toHost>>
  PROVE  CallsOnce'
  BY DEF CallsOnce, IsRequest

LEMMA OtherSent ==
  ASSUME BridgeKept, NEW message \in ToHost, message.kind # "request",
         UNCHANGED <<inflight, invoked, calls>>, toHost' = Append(toHost, message)
  PROVE  CallsOnce' /\ toHost' \in Seq(ToHost)
<1>1. toHost \in Seq(ToHost) BY DEF BridgeKept, Messages
<1>2. \A i : IsRequest(i)' => IsRequest(i) /\ toHost'[i] = toHost[i] BY <1>1 DEF IsRequest
<1>3. toHost' \in Seq(ToHost) BY <1>1
<1>4. CallsOnce'
  <2>1. CallsOnce BY DEF BridgeKept
  <2> QED BY <1>2, <2>1 DEF CallsOnce
<1> QED BY <1>3, <1>4

LEMMA HeadTaken ==
  ASSUME BridgeKept, toHost # <<>>, toHost' = Tail(toHost)
  PROVE  /\ Head(toHost) \in ToHost /\ toHost' \in Seq(ToHost)
         /\ \A i : IsRequest(i)' => i \in Nat /\ IsRequest(i + 1) /\ toHost'[i] = toHost[i + 1] /\ i >= 1
         /\ Head(toHost).kind = "request" => IsRequest(1) /\ toHost[1] = Head(toHost)
  BY DEF BridgeKept, Messages, IsRequest

\* Steps after which as many drops are valid as before, or none.
LEMMA SameDrops ==
  ASSUME BridgeKept, UNCHANGED <<received, toGuest, drops>>, reading' \subseteq reading,
         epoch' = epoch \/ epoch' = epoch + 1
  PROVE  Ordered'
<1>1. epoch \in Nat /\ \A r \in reading : r.epoch \in Nat /\ r.epoch <= epoch
  BY DEF BridgeKept, Messages, Readings, Ordered, ReadLast
<1>2. GivenInOrder' /\ B!DropDelivered'
  BY DEF BridgeKept, Ordered, GivenInOrder, B!DropDelivered, IsDrop
<1>3. ReadLast' BY <1>1 DEF BridgeKept, Ordered, ReadLast, IsDrop
<1> QED BY <1>2, <1>3 DEF Ordered

LEMMA ResponseSent ==
  ASSUME BridgeKept, NEW c \in B!Calls, UNCHANGED <<received, drops, reading, epoch>>,
         toGuest' = Append(toGuest, [kind |-> "response", id |-> c])
  PROVE  Ordered' /\ toGuest' \in Seq(ToGuest)
<1>1. [kind |-> "response", id |-> c] \in ToGuest BY DEF ToGuest
<1>2. toGuest \in Seq(ToGuest) BY DEF BridgeKept, Messages
<1>3. \A k : IsDrop(k)' => IsDrop(k) /\ toGuest'[k] = toGuest[k] BY <1>1, <1>2 DEF IsDrop
<1>4. GivenInOrder' /\ B!DropDelivered'
  BY <1>3 DEF BridgeKept, Ordered, GivenInOrder, B!DropDelivered
<1>5. ReadLast' BY <1>3 DEF BridgeKept, Ordered, ReadLast
<1> QED BY <1>1, <1>2, <1>4, <1>5 DEF Ordered

-----------------------------------------------------------------------------

LEMMA CallKeeps ==
  ASSUME B!BridgeAssumption, BridgeKept, B!Call
  PROVE  BridgeKept'
<1> DEFINE request == [kind |-> "request", id |-> calls + 1]
<1>1. calls \in Nat /\ calls + 1 \in B!Calls
  BY DEF BridgeKept, B!TypeOK, B!Call, B!Calls, B!BridgeAssumption
<1>2. toHost \in Seq(ToHost) /\ request \in ToHost BY <1>1 DEF BridgeKept, Messages, ToHost
<1>3. /\ toHost' = Append(toHost, request) /\ calls' = calls + 1
      /\ awaited' = awaited \cup {calls + 1}
      /\ UNCHANGED <<inflight, invoked, B!guest, B!frame, B!world, toGuest, active, reading>>
  BY DEF B!Call
<1> HIDE DEF request
<1>4. CallsOnce'
  <2>1. \A i : IsRequest(i)' =>
          \/ IsRequest(i) /\ toHost'[i] = toHost[i]
          \/ i = Len(toHost) + 1 /\ toHost'[i] = request
    BY <1>2, <1>3 DEF IsRequest
  <2>2. \A i : IsRequest(i) => toHost[i].id \in Nat /\ toHost[i].id <= calls
    <3>1. \A i : IsRequest(i) => toHost[i].id \in B!Calls BY <1>2 DEF IsRequest, ToHost
    <3> QED BY <3>1 DEF BridgeKept, CallsOnce, B!Calls
  <2>3. \A c \in invoked : c \in Nat /\ c <= calls
    BY DEF BridgeKept, B!TypeOK, CallsOnce, B!Calls
  <2>4. request.id = calls + 1 BY DEF request
  <2>5. CallsOnce /\ calls' = calls + 1 /\ UNCHANGED <<inflight, invoked>> BY <1>3 DEF BridgeKept
  <2>6. \A i : IsRequest(i)' => toHost'[i].id <= calls' /\ toHost'[i].id \notin invoked'
    BY <1>1, <2>1, <2>2, <2>3, <2>4, <2>5 DEF CallsOnce
  <2>7. \A i, j : IsRequest(i)' /\ IsRequest(j)' /\ toHost'[i].id = toHost'[j].id => i = j
    BY <1>1, <2>1, <2>2, <2>4, <2>5 DEF CallsOnce
  <2>8. inflight' = Cardinality(invoked') /\ \A c \in invoked' : c <= calls'
    BY <1>1, <2>3, <2>5 DEF CallsOnce
  <2> QED BY <2>6, <2>7, <2>8 DEF CallsOnce
<1>5. B!TypeOK'
  <2>1. IsFiniteSet(awaited) /\ Cardinality(awaited) < Window /\ Cardinality(awaited) \in Nat
    <3>1. IsFiniteSet(B!Calls) BY FS_Interval DEF B!Calls, B!BridgeAssumption
    <3>2. IsFiniteSet(awaited) BY <3>1, FS_Subset DEF BridgeKept, B!TypeOK
    <3> QED BY <3>2, SameCount, FS_CardinalityType DEF B!Call
  <2>2. Cardinality(awaited') <= Window
    <3>1. /\ IsFiniteSet(awaited \cup {calls + 1})
          /\ Cardinality(awaited \cup {calls + 1}) =
               IF calls + 1 \in awaited THEN Cardinality(awaited) ELSE Cardinality(awaited) + 1
      BY <2>1, FS_AddElement
    <3>2. Cardinality(awaited') \in Nat /\ Cardinality(awaited') <= Cardinality(awaited) + 1
      BY <1>3, <2>1, <3>1
    <3> QED BY <2>1, <3>2 DEF B!BridgeAssumption
  <2>3. awaited' \subseteq B!Calls /\ calls' \in 0..MaxCalls
    BY <1>1, <1>3 DEF BridgeKept, B!TypeOK, B!Calls
  <2> QED BY <1>3, <2>2, <2>3, SameCount DEF BridgeKept, B!TypeOK, B!guest, B!frame, B!world
<1>6. Messages' BY <1>2, <1>3 DEF BridgeKept, Messages, B!guest, B!frame, B!world
<1>7. Ordered' BY <1>3, SameDrops DEF B!guest, B!frame, B!world
<1> QED BY <1>4, <1>5, <1>6, <1>7 DEF BridgeKept

\* The set of calls that wait only gets smaller.
LEMMA FewerWait ==
  ASSUME B!BridgeAssumption, BridgeKept, NEW fewer \in SUBSET awaited
  PROVE  fewer \subseteq B!Calls /\ Cardinality(fewer) <= Window
<1>1. IsFiniteSet(B!Calls) BY FS_Interval DEF B!Calls, B!BridgeAssumption
<1>2. IsFiniteSet(awaited) BY <1>1, FS_Subset DEF BridgeKept, B!TypeOK
<1>3. Cardinality(fewer) <= Cardinality(awaited) /\ Cardinality(fewer) \in Nat
      /\ Cardinality(awaited) \in Nat
  BY <1>2, FS_Subset, FS_CardinalityType
<1> QED BY <1>3, SameCount DEF BridgeKept, B!TypeOK, B!BridgeAssumption

LEMMA GiveUpKeeps ==
  ASSUME B!BridgeAssumption, BridgeKept, NEW c \in B!Calls, B!GiveUp(c)
  PROVE  BridgeKept'
<1>1. awaited' \subseteq B!Calls /\ Cardinality(awaited') <= Window BY FewerWait DEF B!GiveUp
<1>2. UNCHANGED <<inflight, invoked, calls, B!guest, B!frame, B!world, toHost, toGuest, active, reading>>
  BY DEF B!GiveUp
<1>3. B!TypeOK' /\ Messages'
  BY <1>1, <1>2, SameCount DEF BridgeKept, B!TypeOK, Messages, B!guest, B!frame, B!world
<1> QED BY <1>2, <1>3, SameCalls, SameDrops DEF BridgeKept, B!guest, B!frame, B!world

LEMMA InvokedKeeps ==
  ASSUME B!BridgeAssumption, BridgeKept, NEW c \in B!Calls, B!Invoked(c)
  PROVE  BridgeKept'
<1>1. /\ c \in invoked /\ invoked' = invoked \ {c} /\ inflight' = inflight - 1
      /\ \/ toGuest' = Append(toGuest, [kind |-> "response", id |-> c])
         \/ UNCHANGED toGuest
      /\ UNCHANGED <<awaited, calls, B!guest, B!frame, B!world, toHost, active, reading>>
  BY DEF B!Invoked
<1>2. Ordered' /\ toGuest' \in Seq(ToGuest)
  <2>1. CASE UNCHANGED toGuest
    BY <1>1, <2>1, SameDrops DEF B!guest, B!frame, B!world, BridgeKept, Messages
  <2>2. CASE toGuest' = Append(toGuest, [kind |-> "response", id |-> c])
    BY <1>1, <2>2, ResponseSent DEF B!guest, B!frame, B!world
  <2> QED BY <1>1, <2>1, <2>2
<1>3. CallsOnce' /\ inflight' \in 0..Window
  <2>1. IsFiniteSet(invoked)
    <3>1. IsFiniteSet(B!Calls) BY FS_Interval DEF B!Calls, B!BridgeAssumption
    <3>2. invoked \subseteq B!Calls BY DEF BridgeKept, B!TypeOK
    <3> QED BY <3>1, <3>2, FS_Subset
  <2>2. Cardinality(invoked') = Cardinality(invoked) - 1 /\ Cardinality(invoked) # 0
        /\ Cardinality(invoked) \in Nat
    BY <1>1, <2>1, FS_RemoveElement, FS_EmptySet, FS_CardinalityType
  <2>3. inflight = Cardinality(invoked) /\ inflight \in 0..Window
    BY DEF BridgeKept, CallsOnce, B!TypeOK
  <2>4. CallsOnce' BY <1>1, <2>2, <2>3 DEF BridgeKept, CallsOnce, IsRequest
  <2> QED BY <1>1, <2>2, <2>3, <2>4 DEF B!BridgeAssumption
<1>4. B!TypeOK' /\ Messages'
  BY <1>1, <1>2, <1>3 DEF BridgeKept, B!TypeOK, Messages, B!guest, B!frame, B!world
<1> QED BY <1>2, <1>3, <1>4 DEF BridgeKept

\* The user and the host: what they do changes the frame and counts a move.
LEMMA FrameKeeps ==
  ASSUME B!BridgeAssumption, BridgeKept,
         UNCHANGED <<awaited, inflight, invoked, calls, listeners, received, drops, toHost, toGuest>>,
         registered' \in {registered, None}, subscription' \in {subscription, None},
         {armed', inert', timer', hidden', active'} \subseteq BOOLEAN,
         moves' \in {moves, moves + 1} /\ moves' <= MaxMoves,
         epoch' \in {epoch, epoch + 1}, reading' \subseteq reading
  PROVE  BridgeKept'
<1>1. drops \in Nat /\ moves \in Nat BY DEF BridgeKept, B!TypeOK, B!BridgeAssumption
<1>2. B!TypeOK' BY <1>1 DEF BridgeKept, B!TypeOK, B!BridgeAssumption
<1>3. Messages' BY <1>1 DEF BridgeKept, Messages
<1> QED BY <1>2, <1>3, SameCalls, SameDrops DEF BridgeKept

\* Another document is loaded in the frame.
LEMMA LoadKeeps ==
  ASSUME B!BridgeAssumption, BridgeKept, B!Load
  PROVE  BridgeKept'
<1>1. {} \subseteq B!Calls /\ Cardinality({}) <= Window BY FewerWait
<1>2. /\ awaited' = {} /\ registered' = None /\ subscription' = None /\ epoch' = epoch + 1
      /\ timer' = FALSE /\ armed' = FALSE /\ inert' = (inert /\ ~armed)
      /\ moves < MaxMoves /\ moves' = moves + 1
      /\ UNCHANGED <<inflight, invoked, calls, listeners, received, hidden, drops, toHost, toGuest, active, reading>>
  BY DEF B!Load, B!Subscribe, B!Reset, B!Move
<1>3. B!TypeOK'
  <2>1. {armed', inert', timer', active', hidden'} \subseteq BOOLEAN BY <1>2 DEF BridgeKept, B!TypeOK
  <2>2. moves' \in 0..MaxMoves BY <1>2 DEF BridgeKept, B!TypeOK, B!BridgeAssumption
  <2>3. awaited' \subseteq B!Calls /\ B!Cardinality(awaited') <= Window BY <1>1, <1>2, SameCount
  <2>4. registered' = None /\ subscription' = None BY <1>2
  <2>5. /\ invoked' \subseteq B!Calls /\ inflight' \in 0..Window /\ calls' \in 0..MaxCalls
        /\ listeners' \in 0..MaxListeners /\ drops' \in 0..MaxMoves
        /\ \A r \in reading' : r.drop \in B!Drops /\ r.id \in B!Registrations
    BY <1>2 DEF BridgeKept, B!TypeOK
  <2> QED BY <2>1, <2>2, <2>3, <2>4, <2>5 DEF B!TypeOK
<1>4. Messages' BY <1>2 DEF BridgeKept, Messages, B!TypeOK, B!BridgeAssumption
<1> QED BY <1>2, <1>3, <1>4, SameCalls, SameDrops DEF BridgeKept

LEMMA HostMovesKeep ==
  ASSUME B!BridgeAssumption, BridgeKept,
         B!Over \/ B!DragLeaves \/ B!TimerFires \/ B!Hide \/ B!Dispose
  PROVE  BridgeKept'
<1> USE FrameKeeps DEF B!bridge, B!guest, B!frame, B!world, B!Move, B!Reset
<1>1. /\ {armed, inert, timer, hidden, active} \subseteq BOOLEAN
      /\ (inert /\ ~armed) \in BOOLEAN /\ (~hidden) \in BOOLEAN
      /\ moves <= MaxMoves /\ (moves < MaxMoves => moves + 1 <= MaxMoves)
  <2>1. {armed, inert, timer, hidden, active} \subseteq BOOLEAN BY DEF BridgeKept, B!TypeOK
  <2>2. (inert /\ ~armed) \in BOOLEAN /\ (~hidden) \in BOOLEAN BY Zenon
  <2>3. moves <= MaxMoves /\ (moves < MaxMoves => moves + 1 <= MaxMoves)
    BY DEF BridgeKept, B!TypeOK, B!BridgeAssumption
  <2> QED BY <2>1, <2>2, <2>3
<1>2. CASE B!Over BY <1>1, <1>2 DEF B!Over, B!Arm
<1>3. CASE B!DragLeaves BY <1>1, <1>3 DEF B!DragLeaves
<1>4. CASE B!TimerFires BY <1>1, <1>4 DEF B!TimerFires
<1>5. CASE B!Hide BY <1>1, <1>5 DEF B!Hide
<1>6. CASE B!Dispose BY <1>1, <1>6 DEF B!Dispose, B!Subscribe
<1> QED BY <1>2, <1>3, <1>4, <1>5, <1>6

\* Drops are numbered.
LEMMA DropNumbers ==
  ASSUME B!BridgeAssumption, BridgeKept
  PROVE  /\ B!Drops \subseteq Nat
         /\ \A i \in DOMAIN received : received[i] \in Nat
         /\ \A k : IsDrop(k) => toGuest[k].drop \in Nat /\ k \in Nat
<1>1. B!Drops \subseteq Nat BY DEF B!Drops, B!BridgeAssumption
<1>2. \A i \in DOMAIN received : received[i] \in B!Drops BY DEF BridgeKept, Messages
<1>3. \A k : IsDrop(k) => toGuest[k].drop \in B!Drops /\ k \in Nat
  <2>1. toGuest \in Seq(ToGuest) BY DEF BridgeKept, Messages
  <2>2. \A k : IsDrop(k) => toGuest[k] \in ToGuest /\ k \in Nat /\ toGuest[k].kind = "drop"
    BY <2>1 DEF IsDrop
  <2> QED BY <2>2 DEF ToGuest
<1> QED BY <1>1, <1>2, <1>3

\* A drop is read under a new epoch: it is the only one that is valid, and the last.
LEMMA DropKeeps ==
  ASSUME B!BridgeAssumption, BridgeKept, B!Drop
  PROVE  BridgeKept'
<1> DEFINE new == [drop |-> drops + 1, id |-> subscription, epoch |-> epoch + 1]
<1>1. /\ moves < MaxMoves /\ moves' = moves + 1 /\ drops' = drops + 1 /\ epoch' = epoch + 1
      /\ timer' = FALSE /\ armed' = FALSE /\ inert' = (inert /\ ~armed)
      /\ UNCHANGED <<subscription, awaited, inflight, invoked, calls, registered, listeners,
                     received, hidden, toHost, toGuest, active>>
  BY DEF B!Drop, B!Move, B!Reset, B!bridge, B!guest
<1>2. \/ reading' = reading
      \/ reading' = reading \cup {new} /\ subscription \in B!Registrations
  BY <1>1 DEF B!Drop, BridgeKept, B!TypeOK
<1>3. drops \in Nat /\ moves \in Nat /\ drops <= moves /\ epoch \in Nat /\ reading \subseteq Readings
  BY DEF BridgeKept, B!TypeOK, Messages, B!BridgeAssumption
<1>4. drops + 1 \in B!Drops /\ drops' <= moves' /\ moves' \in 0..MaxMoves /\ drops' \in 0..MaxMoves
  BY <1>1, <1>3 DEF B!Drops, B!BridgeAssumption
<1>5. reading' \subseteq Readings /\ \A r \in reading' : r \in reading \/ r = new
  BY <1>2, <1>3, <1>4 DEF Readings
<1>6. B!TypeOK'
  <2>1. \A r \in reading' : r.drop \in B!Drops /\ r.id \in B!Registrations BY <1>5 DEF Readings
  <2> QED BY <1>1, <1>4, <2>1 DEF BridgeKept, B!TypeOK
<1>7. Messages' BY <1>1, <1>3, <1>4, <1>5 DEF BridgeKept, Messages
<1>8. GivenInOrder' /\ B!DropDelivered'
  <2> QED BY <1>1, <1>3, DropNumbers DEF BridgeKept, Ordered, GivenInOrder, B!DropDelivered, IsDrop
<1>9. ReadLast'
  <2>1. \A i \in DOMAIN received : received[i] \in Nat /\ received[i] < drops + 1
    BY <1>3, DropNumbers DEF BridgeKept, Ordered, GivenInOrder
  <2>2. \A k : IsDrop(k) => toGuest[k].drop \in Nat /\ toGuest[k].drop < drops + 1
    BY <1>3, DropNumbers DEF BridgeKept, Ordered, GivenInOrder
  <2>3. \A r \in reading : r.drop <= drops + 1 /\ r.epoch <= epoch + 1 /\ r.epoch # epoch + 1
    BY <1>3 DEF Readings, B!Drops, BridgeKept, Ordered, ReadLast
  <2>4. new.drop = drops + 1 /\ new.epoch = epoch + 1 OBVIOUS
  <2> HIDE DEF new
  <2> QED BY <1>1, <1>3, <1>5, <2>1, <2>2, <2>3, <2>4 DEF ReadLast, IsDrop
<1> QED BY <1>1, <1>6, <1>7, <1>8, <1>9, SameCalls DEF BridgeKept, Ordered

\* What is read while it is valid comes after all that was given, and nothing else is valid.
LEMMA ReadDropKeeps ==
  ASSUME B!BridgeAssumption, BridgeKept, NEW r \in reading, B!ReadDrop(r)
  PROVE  BridgeKept'
<1> DEFINE given == [kind |-> "drop", id |-> r.id, drop |-> r.drop]
<1>1. /\ reading' = reading \ {r}
      /\ UNCHANGED <<awaited, inflight, invoked, calls, registered, listeners, received,
                     subscription, armed, inert, timer, epoch, hidden, moves, drops, toHost, active>>
      /\ \/ UNCHANGED toGuest
         \/ r.epoch = epoch /\ toGuest' = Append(toGuest, given)
  BY DEF B!ReadDrop, B!Valid, B!bridge, B!guest, B!frame, B!world
<1>2. r \in Readings /\ toGuest \in Seq(ToGuest) /\ reading \subseteq Readings
  BY DEF BridgeKept, Messages
<1>3. given \in ToGuest /\ given.kind = "drop" /\ given.drop = r.drop /\ r.drop \in B!Drops
  BY <1>2 DEF Readings, ToGuest
<1> HIDE DEF given
<1>4. B!TypeOK' BY <1>1 DEF BridgeKept, B!TypeOK
<1>5. Messages'
  <2>1. toGuest' \in Seq(ToGuest) /\ reading' \subseteq Readings BY <1>1, <1>2, <1>3
  <2> QED BY <1>1, <2>1 DEF BridgeKept, Messages
<1>6. Ordered'
  <2>1. CASE UNCHANGED toGuest BY <1>1, <2>1, SameDrops
  <2>2. CASE r.epoch = epoch /\ toGuest' = Append(toGuest, given)
    <3>1. \A k : IsDrop(k)' => \/ IsDrop(k) /\ toGuest'[k] = toGuest[k] /\ k <= Len(toGuest)
                               \/ k = Len(toGuest) + 1 /\ toGuest'[k] = given
      BY <1>2, <2>2 DEF IsDrop
    <3>2. /\ r.drop <= drops
          /\ \A i \in DOMAIN received : received[i] < r.drop
          /\ \A k : IsDrop(k) => toGuest[k].drop < r.drop
          /\ \A q \in reading : q.epoch = epoch => q = r
      BY <2>2 DEF BridgeKept, Ordered, ReadLast
    <3>3. \A k, l : IsDrop(k)' /\ IsDrop(l)' /\ k < l => toGuest'[k].drop < toGuest'[l].drop
      <4>1. Len(toGuest) \in Nat BY <1>2
      <4> QED BY <1>3, <3>1, <3>2, <4>1, DropNumbers DEF BridgeKept, Ordered, GivenInOrder
    <3>4. GivenInOrder' /\ B!DropDelivered'
      BY <1>1, <1>3, <3>1, <3>2, <3>3 DEF BridgeKept, Ordered, GivenInOrder, B!DropDelivered
    <3>5. \A q \in reading' : q \in reading /\ q.epoch # epoch BY <1>1, <3>2
    <3>6. ReadLast' BY <1>1, <3>5 DEF BridgeKept, Ordered, ReadLast
    <3> QED BY <3>4, <3>6 DEF Ordered
  <2> QED BY <1>1, <2>1, <2>2
<1> QED BY <1>1, <1>4, <1>5, <1>6, SameCalls DEF BridgeKept

\* The page listens for drops, or no longer, or tells that a file is over it.
LEMMA ListenersKeep ==
  ASSUME B!BridgeAssumption, BridgeKept, B!OnFileDrop \/ B!OffFileDrop \/ B!FileDrag
  PROVE  BridgeKept'
<1>1. /\ UNCHANGED <<awaited, inflight, invoked, calls, received, subscription, armed, inert,
                     timer, epoch, hidden, drops, toGuest, active, reading>>
      /\ moves' \in {moves, moves + 1} /\ moves' \in 0..MaxMoves
      /\ listeners' \in 0..MaxListeners /\ registered' \in B!Registrations \cup {None}
      /\ \E message \in ToHost : message.kind # "request" /\ toHost' = Append(toHost, message)
  <2>1. /\ moves \in Nat /\ moves \in 0..MaxMoves /\ listeners \in 0..MaxListeners
        /\ registered \in B!Registrations \cup {None}
    BY DEF BridgeKept, B!TypeOK, B!BridgeAssumption
  <2>2. CASE B!OnFileDrop
    <3>1. listeners + 1 \in B!Registrations
      BY <2>1, <2>2 DEF B!OnFileDrop, B!Registrations, B!BridgeAssumption
    <3>2. [kind |-> "subscribe", id |-> listeners + 1, enabled |-> TRUE] \in ToHost
      BY <3>1 DEF ToHost
    <3>3. /\ listeners' = listeners + 1 /\ registered' = listeners + 1
          /\ toHost' = Append(toHost, [kind |-> "subscribe", id |-> listeners + 1, enabled |-> TRUE])
          /\ UNCHANGED <<awaited, inflight, invoked, calls, received, subscription, armed, inert,
                         timer, epoch, hidden, moves, drops, toGuest, active, reading>>
      BY <2>2 DEF B!OnFileDrop, B!bridge, B!frame, B!world
    <3>4. listeners' \in 0..MaxListeners BY <2>1, <3>1, <3>3 DEF B!Registrations
    <3> QED BY <2>1, <3>1, <3>2, <3>3, <3>4
  <2>3. CASE B!OffFileDrop
    <3>1. registered \in B!Registrations BY <2>1, <2>3 DEF B!OffFileDrop
    <3>2. [kind |-> "subscribe", id |-> registered, enabled |-> FALSE] \in ToHost
      BY <3>1 DEF ToHost
    <3> QED BY <2>1, <2>3, <3>2 DEF B!OffFileDrop, B!bridge, B!frame, B!world
  <2>4. CASE B!FileDrag
    <3>1. registered \in B!Registrations BY <2>1, <2>4 DEF B!FileDrag
    <3>2. [kind |-> "drag", id |-> registered] \in ToHost BY <3>1 DEF ToHost
    <3>3. moves' = moves + 1 /\ moves' \in 0..MaxMoves
      BY <2>1, <2>4 DEF B!FileDrag, B!Move, B!BridgeAssumption
    <3>4. /\ UNCHANGED <<awaited, inflight, invoked, calls, received, subscription, armed, inert,
                         timer, epoch, hidden, drops, toGuest, active, reading>>
          /\ UNCHANGED <<listeners, registered>>
          /\ toHost' = Append(toHost, [kind |-> "drag", id |-> registered])
      BY <2>4 DEF B!FileDrag, B!bridge, B!guest, B!frame
    <3> QED BY <2>1, <3>2, <3>3, <3>4
  <2> QED BY <2>2, <2>3, <2>4
<1>2. PICK message \in ToHost : message.kind # "request" /\ toHost' = Append(toHost, message)
  BY <1>1
<1>3. CallsOnce' /\ toHost' \in Seq(ToHost) BY <1>1, <1>2, OtherSent
<1>4. B!TypeOK' BY <1>1 DEF BridgeKept, B!TypeOK
<1>5. drops' <= moves'
  <2>1. drops \in Nat /\ moves \in Nat BY DEF BridgeKept, B!TypeOK, B!BridgeAssumption
  <2> QED BY <1>1, <2>1 DEF BridgeKept, Messages
<1>6. Messages' BY <1>1, <1>3, <1>5 DEF BridgeKept, Messages
<1> QED BY <1>1, <1>3, <1>4, <1>6, SameDrops DEF BridgeKept

-----------------------------------------------------------------------------
(* Messages that arrive                                                     *)

\* The rest of the messages to the host.
LEMMA RestOfCalls ==
  ASSUME BridgeKept, toHost # <<>>, toHost' = Tail(toHost), UNCHANGED <<inflight, invoked, calls>>
  PROVE  CallsOnce'
<1>1. \A i : IsRequest(i)' => i \in Nat /\ IsRequest(i + 1) /\ toHost'[i] = toHost[i + 1]
  BY HeadTaken
<1>2. \A i : IsRequest(i)' => toHost'[i].id <= calls' /\ toHost'[i].id \notin invoked'
  BY <1>1 DEF BridgeKept, CallsOnce
<1>3. ASSUME NEW i, NEW j, IsRequest(i)', IsRequest(j)', toHost'[i].id = toHost'[j].id
      PROVE  i = j
  <2>1. /\ i \in Nat /\ IsRequest(i + 1) /\ toHost'[i] = toHost[i + 1]
        /\ j \in Nat /\ IsRequest(j + 1) /\ toHost'[j] = toHost[j + 1]
    BY <1>1, <1>3
  <2>2. CallsOnce BY DEF BridgeKept
  <2>3. i + 1 = j + 1 BY <1>3, <2>1, <2>2, Zenon DEF CallsOnce
  <2> QED BY <2>1, <2>3
<1> QED BY <1>2, <1>3 DEF BridgeKept, CallsOnce

LEMMA HostReceivesKeeps ==
  ASSUME B!BridgeAssumption, BridgeKept, B!HostReceives
  PROVE  BridgeKept'
<1>1. /\ toHost # <<>> /\ toHost' = Tail(toHost)
      /\ UNCHANGED <<awaited, calls, registered, listeners, received, hidden, moves, drops,
                     active, reading>>
  BY DEF B!HostReceives, B!guest, B!world
<1>2. Head(toHost) \in ToHost /\ toHost' \in Seq(ToHost) BY <1>1, HeadTaken
<1>3. /\ inflight \in 0..Window /\ invoked \subseteq B!Calls /\ epoch \in Nat
      /\ toGuest \in Seq(ToGuest)
  BY DEF BridgeKept, B!TypeOK, Messages
<1>4. CASE UNCHANGED <<inflight, invoked, toGuest>>
           /\ {armed', inert', timer'} \subseteq BOOLEAN /\ epoch' \in {epoch, epoch + 1}
           /\ subscription' \in B!Registrations \cup {None}
  <2>1. B!TypeOK' BY <1>1, <1>4 DEF BridgeKept, B!TypeOK
  <2>2. Messages' BY <1>1, <1>2, <1>3, <1>4 DEF BridgeKept, Messages
  <2> QED BY <1>1, <1>4, <2>1, <2>2, RestOfCalls, SameDrops DEF BridgeKept
<1>5. ASSUME active, Head(toHost).kind = "request", B!TakeCall(Head(toHost).id), UNCHANGED B!frame
      PROVE  BridgeKept'
  <2> DEFINE c == Head(toHost).id
  <2>1. c \in B!Calls BY <1>2, <1>5 DEF ToHost
  <2>2. UNCHANGED <<subscription, armed, inert, timer, epoch>> BY <1>5 DEF B!frame
  <2>3. CASE inflight >= Window
    <3>1. /\ toGuest' = Append(toGuest, [kind |-> "response", id |-> c])
          /\ UNCHANGED <<inflight, invoked>>
      BY <1>5, <2>3 DEF B!TakeCall
    <3> HIDE DEF c
    <3>2. Ordered' /\ toGuest' \in Seq(ToGuest) BY <1>1, <2>1, <2>2, <3>1, ResponseSent
    <3>3. B!TypeOK' BY <1>1, <2>2, <3>1 DEF BridgeKept, B!TypeOK
    <3>4. Messages' BY <1>1, <1>2, <2>2, <3>2 DEF BridgeKept, Messages
    <3> QED BY <1>1, <3>1, <3>2, <3>3, <3>4, RestOfCalls DEF BridgeKept
  <2>4. CASE ~(inflight >= Window)
    <3>1. inflight' = inflight + 1 /\ invoked' = invoked \cup {c} /\ UNCHANGED toGuest
      BY <1>5, <2>4 DEF B!TakeCall
    <3>2. IsRequest(1) /\ toHost[1].id = c BY <1>1, <1>5, HeadTaken
    <3> HIDE DEF c
    <3>3. \A i : IsRequest(i)' =>
            i \in Nat /\ IsRequest(i + 1) /\ toHost'[i] = toHost[i + 1] /\ i >= 1
      BY <1>1, HeadTaken
    <3>4. c \notin invoked /\ c <= calls BY <3>2 DEF BridgeKept, CallsOnce
    <3>5. IsFiniteSet(invoked)
      <4>1. IsFiniteSet(B!Calls) BY FS_Interval DEF B!Calls, B!BridgeAssumption
      <4> QED BY <1>3, <4>1, FS_Subset
    <3>6. Cardinality(invoked') = inflight'
      BY <3>1, <3>4, <3>5, FS_AddElement DEF BridgeKept, CallsOnce
    <3>7. \A i : IsRequest(i)' => toHost'[i].id <= calls /\ toHost'[i].id \notin invoked'
      <4>1. \A i : IsRequest(i)' => toHost'[i].id <= calls /\ toHost'[i].id \notin invoked
        BY <3>3 DEF BridgeKept, CallsOnce
      <4>2. \A i : IsRequest(i)' => toHost'[i].id # c
        BY <3>2, <3>3 DEF BridgeKept, CallsOnce
      <4> QED BY <3>1, <4>1, <4>2
    <3>8. \A i, j : IsRequest(i)' /\ IsRequest(j)' /\ toHost'[i].id = toHost'[j].id => i = j
      BY <3>3 DEF BridgeKept, CallsOnce
    <3>9. CallsOnce' BY <1>1, <3>1, <3>4, <3>6, <3>7, <3>8 DEF BridgeKept, CallsOnce
    <3>10. inflight' \in 0..Window BY <1>3, <2>4, <3>1 DEF B!BridgeAssumption
    <3>11. B!TypeOK' BY <1>1, <2>1, <2>2, <3>1, <3>10 DEF BridgeKept, B!TypeOK
    <3>12. Messages' BY <1>1, <1>2, <2>2, <3>1 DEF BridgeKept, Messages
    <3> QED BY <1>1, <2>2, <3>1, <3>9, <3>11, <3>12, SameDrops DEF BridgeKept
  <2> QED BY <2>3, <2>4
<1>6. CASE ~active \/ Head(toHost).kind # "request"
  <2>1. /\ {armed, inert, timer} \subseteq BOOLEAN /\ (inert /\ ~armed) \in BOOLEAN
        /\ subscription \in B!Registrations \cup {None}
    BY DEF BridgeKept, B!TypeOK
  <2>2. Head(toHost).kind # "request" => Head(toHost).id \in B!Registrations
    BY <1>2 DEF ToHost
  <2>3. UNCHANGED <<inflight, invoked, toGuest>> BY <1>6 DEF B!HostReceives
  <2>4. \/ UNCHANGED B!frame
        \/ Head(toHost).kind # "request" /\ (B!Subscribe(Head(toHost).id) \/ B!Subscribe(None))
        \/ B!Arm /\ UNCHANGED <<subscription, epoch>>
    BY <1>6 DEF B!HostReceives, B!Dragged
  <2>5. {armed', inert', timer'} \subseteq BOOLEAN
    BY <2>1, <2>4 DEF B!frame, B!Subscribe, B!Reset, B!Arm
  <2>6. epoch' \in {epoch, epoch + 1} /\ subscription' \in B!Registrations \cup {None}
    BY <2>1, <2>2, <2>4 DEF B!frame, B!Subscribe
  <2> QED BY <1>4, <2>3, <2>5, <2>6
<1> QED BY <1>5, <1>6 DEF B!HostReceives

LEMMA GuestReceivesKeeps ==
  ASSUME B!BridgeAssumption, BridgeKept, B!GuestReceives
  PROVE  BridgeKept'
<1> DEFINE message == Head(toGuest)
<1>1. /\ toGuest # <<>> /\ toGuest' = Tail(toGuest)
      /\ UNCHANGED <<inflight, invoked, calls, registered, listeners, subscription, armed, inert,
                     timer, epoch, hidden, moves, drops, toHost, active, reading>>
  BY DEF B!GuestReceives, B!frame, B!world
<1>2. /\ message \in ToGuest /\ toGuest' \in Seq(ToGuest)
      /\ \A k : IsDrop(k)' =>
           k \in Nat /\ k >= 1 /\ IsDrop(k + 1) /\ toGuest'[k] = toGuest[k + 1]
      /\ message.kind = "drop" => IsDrop(1) /\ toGuest[1] = message
  <2>1. toGuest \in Seq(ToGuest) BY DEF BridgeKept, Messages
  <2> QED BY <1>1, <2>1 DEF IsDrop
<1>3. /\ received \in Seq(B!Drops)
      /\ message.kind = "drop" => message.drop \in B!Drops
  BY <1>2 DEF BridgeKept, Messages, ToGuest
<1>4. \/ awaited' = awaited \ {message.id} /\ UNCHANGED received
      \/ UNCHANGED <<awaited, received>>
      \/ UNCHANGED awaited /\ received' = Append(received, message.drop) /\ message.kind = "drop"
  BY <1>2 DEF B!GuestReceives, ToGuest
<1> HIDE DEF message
<1>5. awaited' \subseteq B!Calls /\ B!Cardinality(awaited') <= Window
  <2>1. awaited' \in SUBSET awaited BY <1>4
  <2> QED BY <2>1, FewerWait, SameCount
<1>6. B!TypeOK' BY <1>1, <1>5 DEF BridgeKept, B!TypeOK
<1>7. received' \in Seq(B!Drops) BY <1>3, <1>4
<1>8. Messages' BY <1>1, <1>2, <1>7 DEF BridgeKept, Messages
<1>9. \A i \in DOMAIN received' :
        \/ i \in DOMAIN received /\ received'[i] = received[i]
        \/ message.kind = "drop" /\ i = Len(received) + 1 /\ received'[i] = message.drop
  BY <1>3, <1>4
<1>10. message.kind = "drop" =>
         /\ message.drop <= drops
         /\ \A i \in DOMAIN received : received[i] < message.drop
         /\ \A k : IsDrop(k)' => message.drop < toGuest'[k].drop
  <2>1. \A k : IsDrop(k)' => 1 < k + 1 BY <1>2
  <2> QED BY <1>2, <2>1 DEF BridgeKept, Ordered, GivenInOrder
<1>11. GivenInOrder'
  <2>1. \A i \in DOMAIN received' : received'[i] <= drops
    BY <1>9, <1>10 DEF BridgeKept, Ordered, GivenInOrder
  <2>2. \A k : IsDrop(k)' => /\ toGuest'[k].drop <= drops
                             /\ \A i \in DOMAIN received' : received'[i] < toGuest'[k].drop
    BY <1>2, <1>9, <1>10 DEF BridgeKept, Ordered, GivenInOrder
  <2>3. \A k, l : IsDrop(k)' /\ IsDrop(l)' /\ k < l => toGuest'[k].drop < toGuest'[l].drop
    <3>1. \A k, l : IsDrop(k)' /\ IsDrop(l)' /\ k < l => k + 1 < l + 1 BY <1>2
    <3> QED BY <1>2, <3>1 DEF BridgeKept, Ordered, GivenInOrder
  <2> QED BY <1>1, <2>1, <2>2, <2>3 DEF GivenInOrder
<1>12. B!DropDelivered'
  <2>1. \A i \in DOMAIN received' : i \in Nat /\ (i \in DOMAIN received => i <= Len(received))
    BY <1>3, <1>7
  <2>2. Len(received) \in Nat BY <1>3
  <2> QED BY <1>9, <1>10, <2>1, <2>2 DEF BridgeKept, Ordered, B!DropDelivered
<1>13. ReadLast'
  <2>1. message.kind = "drop" => \A r \in reading : r.epoch = epoch => message.drop < r.drop
    BY <1>2 DEF BridgeKept, Ordered, ReadLast
  <2>2. \A r \in reading : r.epoch = epoch =>
          /\ \A i \in DOMAIN received' : received'[i] < r.drop
          /\ \A k : IsDrop(k)' => toGuest'[k].drop < r.drop
    BY <1>2, <1>9, <2>1 DEF BridgeKept, Ordered, ReadLast
  <2> QED BY <1>1, <2>2 DEF BridgeKept, Ordered, ReadLast
<1> QED BY <1>1, <1>6, <1>8, <1>11, <1>12, <1>13, SameCalls DEF BridgeKept, Ordered

LEMMA BridgeNextKeeps ==
  B!BridgeAssumption /\ BridgeKept /\ [B!Next]_(B!vars) => BridgeKept'
<1> SUFFICES ASSUME B!BridgeAssumption, BridgeKept, [B!Next]_(B!vars) PROVE BridgeKept'
  OBVIOUS
<1>1. CASE UNCHANGED B!vars
  <2>1. UNCHANGED <<awaited, inflight, invoked, calls, registered, listeners, received,
                    subscription, armed, inert, timer, epoch, hidden, moves, drops,
                    toHost, toGuest, active, reading>>
    BY <1>1 DEF B!vars, B!bridge, B!guest, B!frame, B!world
  <2>2. B!TypeOK' /\ Messages' BY <2>1 DEF BridgeKept, B!TypeOK, Messages
  <2> QED BY <2>1, <2>2, SameCalls, SameDrops DEF BridgeKept
<1>2. ASSUME NEW c \in B!Calls, B!GiveUp(c) \/ B!Invoked(c) PROVE BridgeKept'
  BY <1>2, GiveUpKeeps, InvokedKeeps
<1>3. ASSUME NEW r \in reading, B!ReadDrop(r) PROVE BridgeKept'
  BY <1>3, ReadDropKeeps
<1>4. CASE B!OnFileDrop \/ B!OffFileDrop \/ B!FileDrag BY <1>4, ListenersKeep
<1>5. CASE B!Over \/ B!DragLeaves \/ B!TimerFires \/ B!Hide \/ B!Dispose
  BY <1>5, HostMovesKeep
<1> QED BY <1>1, <1>2, <1>3, <1>4, <1>5, CallKeeps, LoadKeeps, DropKeeps, HostReceivesKeeps,
           GuestReceivesKeeps DEF B!Next, B!Runs

LEMMA BridgeInit == B!BridgeAssumption /\ B!Init => BridgeKept
<1> SUFFICES ASSUME B!BridgeAssumption, B!Init PROVE BridgeKept
  OBVIOUS
<1>1. Cardinality({}) = 0 BY FS_EmptySet
<1>2. B!TypeOK
  <2>1. B!Cardinality(awaited) <= Window /\ awaited \subseteq B!Calls /\ 0 \in 0..Window
        /\ 0 \in 0..MaxCalls /\ 0 \in 0..MaxListeners /\ 0 \in 0..MaxMoves
    BY <1>1, SameCount DEF B!Init, B!BridgeAssumption
  <2>2. {armed, inert, timer, active, hidden} \subseteq BOOLEAN BY DEF B!Init
  <2> QED BY <2>1, <2>2 DEF B!Init, B!TypeOK
<1>3. Messages BY DEF B!Init, Messages
<1>4. CallsOnce BY <1>1 DEF B!Init, CallsOnce, IsRequest
<1>5. Ordered
  BY DEF B!Init, Ordered, GivenInOrder, ReadLast, IsDrop, B!DropDelivered
<1> QED BY <1>2, <1>3, <1>4, <1>5 DEF BridgeKept

-----------------------------------------------------------------------------
(* The panel beside the conversation                                        *)

\* A read of the graph was asked for by the user.
PanelKept == P!TypeOK /\ reads <= uses

LEMMA PanelNextKeeps == P!PanelAssumption /\ PanelKept /\ [P!Next]_(P!vars) => PanelKept'
<1> SUFFICES ASSUME P!PanelAssumption, PanelKept, [P!Next]_(P!vars) PROVE PanelKept'
  OBVIOUS
<1> USE DEF P!Use, P!ShowPanel, P!Environment, P!Graph, P!Refresh, P!ClosePanel, P!GraphRead,
            P!GraphFails, P!Filled, P!FillFails, P!vars
<1>1. {panel', fetching', filled'} \subseteq P!Contents
  <2>1. /\ {panel, fetching, filled} \subseteq P!Contents
        /\ {None, "environment", "graph"} \subseteq P!Contents
    BY DEF PanelKept, P!TypeOK, P!Contents
  <2> QED BY <2>1 DEF P!Next
<1>2. missed' \in BOOLEAN
  <2>1. missed \in BOOLEAN /\ missed' \in {missed, TRUE, FALSE} BY DEF PanelKept, P!TypeOK, P!Next
  <2> QED BY <2>1
<1>3. reads' \in 0..MaxUses /\ uses' \in 0..MaxUses /\ reads' <= uses'
  <2>1. reads \in 0..MaxUses /\ uses \in 0..MaxUses /\ reads <= uses
    BY DEF PanelKept, P!TypeOK
  <2> QED BY <2>1 DEF P!Next, P!PanelAssumption
<1> QED BY <1>1, <1>2, <1>3 DEF PanelKept, P!TypeOK

LEMMA PanelInit == P!PanelAssumption /\ P!Init => PanelKept
<1> SUFFICES ASSUME P!PanelAssumption, P!Init PROVE PanelKept
  OBVIOUS
<1>1. {panel, fetching, filled} \subseteq P!Contents BY DEF P!Init, P!Contents
<1>2. missed \in BOOLEAN BY DEF P!Init
<1>3. reads \in 0..MaxUses /\ uses \in 0..MaxUses /\ reads <= uses BY DEF P!Init, P!PanelAssumption
<1> QED BY <1>1, <1>2, <1>3 DEF PanelKept, P!TypeOK

-----------------------------------------------------------------------------
(* The list of models: what is offered is whole                             *)

\* A search asks some providers it knows, and no more than it may.
ModelsKept ==
  /\ M!TypeOK /\ M!ListWhole
  /\ \A s \in M!Searches : searches[s] # None =>
       searches[s].asked \subseteq searches[s].known /\ searches[s].listed \subseteq searches[s].known

\* Providers are finitely many numbers.
LEMMA ProvidersFinite ==
  ASSUME M!DiscoveryAssumption, NEW S \in SUBSET M!Providers
  PROVE  S \in SUBSET Nat /\ IsFiniteSet(S) /\ Cardinality(S) \in Nat
<1>1. IsFiniteSet(M!Providers) /\ M!Providers \subseteq Nat
  BY FS_Interval DEF M!Providers, M!DiscoveryAssumption
<1> QED BY <1>1, FS_Subset, FS_CardinalityType

\* The next providers: one at least, when some are left, and no more than asked for.
LEMMA NearestSome ==
  ASSUME M!DiscoveryAssumption, NEW S \in SUBSET M!Providers, S # {}, NEW n \in Nat \ {0}
  PROVE  M!Nearest(S, n) # {}
<1>1. PICK least \in S : \A other \in S : least <= other BY ProvidersFinite, LeastOfNaturals
<1>2. {q \in S : q < least} = {} BY <1>1, ProvidersFinite
<1>3. M!Cardinality({q \in S : q < least}) < n BY <1>2, SameCount, FS_EmptySet
<1> QED BY <1>3 DEF M!Nearest

LEMMA NearestFew ==
  ASSUME M!DiscoveryAssumption, NEW S \in SUBSET M!Providers, NEW n \in Nat \ {0}
  PROVE  M!Nearest(S, n) \subseteq S /\ Cardinality(M!Nearest(S, n)) <= n
<1> DEFINE N == M!Nearest(S, n)
<1>1. N \in SUBSET M!Providers /\ N \subseteq S BY DEF M!Nearest
<1>2. /\ N \subseteq Nat /\ IsFiniteSet(N) /\ Cardinality(N) \in Nat
      /\ S \subseteq Nat /\ IsFiniteSet(S)
  <2> HIDE DEF N
  <2> QED BY <1>1, ProvidersFinite
<1>3. CASE N = {}
  <2>1. Cardinality(N) = 0 BY <1>3, FS_EmptySet
  <2> QED BY <1>1, <2>1
<1>4. CASE N # {}
  <2>1. PICK greatest \in N : \A other \in N : other <= greatest
    <3> HIDE DEF N
    <3> DEFINE away == {MaxProviders - x : x \in N}
    <3>1. away \in SUBSET Nat /\ away # {}
      <4>1. \A x \in N : MaxProviders - x \in Nat BY <1>1 DEF M!Providers, M!DiscoveryAssumption
      <4> QED BY <1>4, <4>1
    <3>2. PICK least \in away : \A other \in away : least <= other
      <4> HIDE DEF away
      <4> QED BY <3>1, LeastOfNaturals
    <3>3. PICK x \in N : least = MaxProviders - x BY <3>2
    <3>4. \A y \in N : MaxProviders - x <= MaxProviders - y BY <3>2, <3>3
    <3> QED BY <1>2, <3>4 DEF M!DiscoveryAssumption
  <2> DEFINE before == {q \in S : q < greatest}
  <2>2. Cardinality(before) < n BY SameCount DEF M!Nearest
  <2>3. N \ {greatest} \subseteq before
    <3> HIDE DEF N
    <3> QED BY <1>1, <1>2, <2>1
  <2>4. IsFiniteSet(before) /\ Cardinality(before) \in Nat BY <1>2, FS_Subset, FS_CardinalityType
  <2> HIDE DEF N, before
  <2>5. Cardinality(N \ {greatest}) <= Cardinality(before) BY <2>3, <2>4, FS_Subset
  <2>6. Cardinality(N \ {greatest}) = Cardinality(N) - 1 BY <1>2, <2>1, FS_RemoveElement
  <2>7. Cardinality(N) <= n BY <1>2, <2>2, <2>4, <2>5, <2>6
  <2> QED BY <1>1, <2>7 DEF N
<1> QED BY <1>3, <1>4

\* A nonempty set of providers that is no larger than the width may be asked.
LEMMA AskedCounts ==
  ASSUME M!DiscoveryAssumption, NEW S \in SUBSET M!Providers, S # {}, Cardinality(S) <= Width
  PROVE  M!Cardinality(S) \in 1..Width
<1>1. Cardinality(S) \in Nat /\ Cardinality(S) # 0 BY ProvidersFinite, FS_EmptySet
<1> QED BY <1>1, SameCount DEF M!DiscoveryAssumption

LEMMA LoadModelsKeeps ==
  ASSUME M!DiscoveryAssumption, ModelsKept, M!LoadModels
  PROVE  ModelsKept'
<1>1. sought + 1 \in M!Searches /\ sought' = sought + 1 /\ sought' \in 0..MaxSearches /\ UNCHANGED providers
  BY DEF M!LoadModels, ModelsKept, M!TypeOK, M!Searches, M!DiscoveryAssumption
<1>2. CASE providers = {}
  BY <1>1, <1>2, SMTT(20) DEF M!LoadModels, ModelsKept, M!TypeOK, M!ListWhole
<1>3. CASE providers # {}
  <2> DEFINE called == M!Nearest(providers, Width)
             new == [known |-> providers, asked |-> called, listed |-> {}, fresh |-> TRUE]
  <2>1. providers \in SUBSET M!Providers /\ Width \in Nat \ {0}
    BY DEF ModelsKept, M!TypeOK, M!DiscoveryAssumption
  <2>2. called # {} /\ called \subseteq providers /\ M!Cardinality(called) \in 1..Width
    <3>1. called # {} /\ called \subseteq providers /\ Cardinality(called) <= Width
      BY <1>3, <2>1, NearestSome, NearestFew
    <3> HIDE DEF called
    <3> QED BY <2>1, <3>1, AskedCounts
  <2>3. searches' = [searches EXCEPT ![sought + 1] = new] /\ UNCHANGED offered
    BY <1>1, <1>3 DEF M!LoadModels
  <2> HIDE DEF called
  <2>4. new \in M!Search BY <2>1, <2>2 DEF M!Search
  <2>5. new.asked = called /\ new.known = providers /\ new.listed = {} OBVIOUS
  <2> HIDE DEF new
  <2>6. M!TypeOK' BY <1>1, <2>3, <2>4 DEF ModelsKept, M!TypeOK
  <2>7. \A s \in M!Searches : searches'[s] = searches[s] \/ searches'[s] = new
    BY <2>3 DEF ModelsKept, M!TypeOK
  <2>8. \A s \in M!Searches : searches'[s] # None =>
          /\ M!Cardinality(searches'[s].asked) \in 1..Width
          /\ searches'[s].asked \subseteq searches'[s].known
          /\ searches'[s].listed \subseteq searches'[s].known
    BY <2>2, <2>5, <2>7 DEF ModelsKept, M!ListWhole
  <2> QED BY <2>3, <2>6, <2>8 DEF ModelsKept, M!ListWhole
<1> QED BY <1>2, <1>3

LEMMA InvalidateKeeps ==
  ASSUME ModelsKept, M!Invalidate
  PROVE  ModelsKept'
<1>1. UNCHANGED <<providers, offered, sought>>
      /\ searches' = [s \in M!Searches |-> IF searches[s] = None THEN None
                                           ELSE [searches[s] EXCEPT !.fresh = FALSE]]
  BY DEF M!Invalidate
<1>2. ASSUME NEW s \in M!Searches
      PROVE  /\ searches'[s] \in M!Search \cup {None}
             /\ searches'[s] # None => /\ searches[s] # None
                                       /\ searches'[s].asked = searches[s].asked
                                       /\ searches'[s].listed = searches[s].listed
                                       /\ searches'[s].known = searches[s].known
  <2>1. CASE searches[s] = None BY <1>1, <2>1
  <2>2. CASE searches[s] # None
    <3>1. searches[s] \in M!Search BY <2>2 DEF ModelsKept, M!TypeOK
    <3>2. searches'[s] = [searches[s] EXCEPT !.fresh = FALSE] BY <1>1, <2>2
    <3> QED BY <2>2, <3>1, <3>2 DEF M!Search
  <2> QED BY <2>1, <2>2
<1>3. M!TypeOK' BY <1>1, <1>2 DEF ModelsKept, M!TypeOK
<1> QED BY <1>1, <1>2, <1>3 DEF ModelsKept, M!ListWhole

\* The last answer is there only when every provider has been called.
LEMMA LoadNextKeeps ==
  ASSUME M!DiscoveryAssumption, ModelsKept, NEW s \in M!Searches, NEW p \in M!Providers,
         M!LoadNext(s, p)
  PROVE  ModelsKept'
<1> DEFINE search == searches[s]
           listed == search.listed \cup {p}
           open == search.known \ (search.asked \cup listed)
           called == (search.asked \ {p}) \cup (IF search.fresh THEN M!Nearest(open, 1) ELSE {})
<1>1. /\ search # None /\ p \in search.asked /\ UNCHANGED <<providers, sought>>
      /\ IF called # {}
         THEN /\ searches' = [searches EXCEPT ![s].asked = called, ![s].listed = listed]
              /\ UNCHANGED offered
         ELSE /\ searches' = [searches EXCEPT ![s] = None]
              /\ offered' = IF search.fresh THEN [known |-> search.known, listed |-> listed]
                            ELSE offered
  BY DEF M!LoadNext
<1>2. /\ search \in M!Search /\ search.asked \subseteq search.known
      /\ search.listed \subseteq search.known /\ M!Cardinality(search.asked) \in 1..Width
  BY <1>1 DEF ModelsKept, M!TypeOK, M!ListWhole
<1>3. /\ search.known \in SUBSET M!Providers /\ search.asked \in SUBSET M!Providers
      /\ listed \subseteq search.known /\ open \in SUBSET M!Providers
  BY <1>1, <1>2 DEF M!Search
<1>4. /\ open # {} => M!Nearest(open, 1) # {}
      /\ M!Nearest(open, 1) \subseteq open /\ Cardinality(M!Nearest(open, 1)) <= 1
  <2> HIDE DEF open
  <2> QED BY <1>3, NearestSome, NearestFew
<1>5. called \subseteq search.known BY <1>2, <1>4
<1>6. Cardinality(called) <= Width
  <2> DEFINE rest == search.asked \ {p}
             more == IF search.fresh THEN M!Nearest(open, 1) ELSE {}
  <2>1. IsFiniteSet(search.asked) /\ Cardinality(search.asked) \in 1..Width
    BY <1>2, <1>3, ProvidersFinite, SameCount
  <2>2. IsFiniteSet(rest) /\ Cardinality(rest) = Cardinality(search.asked) - 1
    BY <1>1, <2>1, FS_RemoveElement
  <2>3. more \in SUBSET M!Providers /\ Cardinality(more) <= 1
    <3>1. Cardinality({}) <= 1 BY FS_EmptySet
    <3> HIDE DEF open
    <3> QED BY <1>3, <1>4, <3>1
  <2> HIDE DEF more, rest, search, open, listed
  <2>4. IsFiniteSet(more) /\ Cardinality(more) \in Nat BY <2>3, ProvidersFinite
  <2>5. Cardinality(rest \cup more) = Cardinality(rest) + Cardinality(more) - Cardinality(rest \cap more)
    BY <2>2, <2>4, FS_Union
  <2>6. Cardinality(rest \cap more) \in Nat BY <2>2, FS_Intersection, FS_CardinalityType
  <2>7. called = rest \cup more BY DEF more, rest
  <2> HIDE DEF called
  <2> QED BY <2>1, <2>2, <2>3, <2>4, <2>5, <2>6, <2>7 DEF M!DiscoveryAssumption
<1>7. CASE called # {}
  <2> DEFINE next == [search EXCEPT !.asked = called, !.listed = listed]
  <2>1. next \in M!Search /\ next.asked = called /\ next.listed = listed /\ next.known = search.known
    <3> HIDE DEF called, listed, search
    <3> QED BY <1>2, <1>3, <1>5 DEF M!Search
  <2>2. M!Cardinality(called) \in 1..Width
    <3>1. called \in SUBSET M!Providers BY <1>3, <1>5
    <3> HIDE DEF called
    <3> QED BY <1>6, <1>7, <3>1, AskedCounts
  <2>3. searches' = [searches EXCEPT ![s] = next] /\ UNCHANGED offered
    BY <1>1, <1>7 DEF ModelsKept, M!TypeOK
  <2> HIDE DEF next, called, listed, search, open
  <2>4. M!TypeOK' BY <1>1, <2>1, <2>3 DEF ModelsKept, M!TypeOK
  <2>5. \A t \in M!Searches : searches'[t] = searches[t] \/ searches'[t] = next
    BY <2>3 DEF ModelsKept, M!TypeOK
  <2>6. \A t \in M!Searches : searches'[t] # None =>
          /\ M!Cardinality(searches'[t].asked) \in 1..Width
          /\ searches'[t].asked \subseteq searches'[t].known
          /\ searches'[t].listed \subseteq searches'[t].known
    BY <1>3, <1>5, <2>1, <2>2, <2>5 DEF ModelsKept, M!ListWhole
  <2> QED BY <2>3, <2>4, <2>6 DEF ModelsKept, M!ListWhole
<1>8. CASE called = {}
  <2>1. search.fresh => listed = search.known
    <3>1. ASSUME search.fresh PROVE search.known \subseteq listed
      <4>1. open = {} /\ search.asked \subseteq {p} BY <1>4, <1>8, <3>1
      <4> QED BY <4>1
    <3> QED BY <1>3, <3>1
  <2>2. /\ searches' = [searches EXCEPT ![s] = None]
        /\ \/ UNCHANGED offered
           \/ offered' = [known |-> search.known, listed |-> search.known]
    BY <1>1, <1>8, <2>1
  <2>3. search.known \in SUBSET M!Providers BY <1>3
  <2> HIDE DEF called, listed, search, open
  <2>4. M!TypeOK' BY <1>1, <2>2, <2>3 DEF ModelsKept, M!TypeOK
  <2>5. offered'.listed = offered'.known BY <2>2 DEF ModelsKept, M!ListWhole
  <2>6. \A t \in M!Searches : searches'[t] = searches[t] \/ searches'[t] = None
    BY <2>2 DEF ModelsKept, M!TypeOK
  <2> QED BY <2>4, <2>5, <2>6 DEF ModelsKept, M!ListWhole
<1> QED BY <1>7, <1>8

LEMMA ModelsNextKeeps ==
  M!DiscoveryAssumption /\ ModelsKept /\ [M!Next]_(M!vars) => ModelsKept'
<1>1. CASE UNCHANGED M!vars BY <1>1 DEF M!vars, ModelsKept, M!TypeOK, M!ListWhole
<1>2. CASE M!Change BY <1>2 DEF M!Change, ModelsKept, M!TypeOK, M!ListWhole
<1> QED BY <1>1, <1>2, LoadModelsKeeps, InvalidateKeeps, LoadNextKeeps DEF M!Next

LEMMA ModelsInit == M!DiscoveryAssumption /\ M!Init => ModelsKept
  BY DEF M!Init, ModelsKept, M!TypeOK, M!ListWhole, M!DiscoveryAssumption

-----------------------------------------------------------------------------
(* Drawing: what is shown is the latest                                     *)

Rows(S) == UNION {[1..n -> S] : n \in 0..MaxMessages}

\* The fragment of an entry is that of its content.
Faithful(entries) == \A i \in DOMAIN entries : entries[i].html = entries[i].content

\* A drawing under way has what it was to draw, as far as it came.
Follows(draft, at, last) ==
  /\ draft.version <= at /\ Faithful(draft.previous) /\ Faithful(draft.next)
  /\ Len(draft.next) <= Len(draft.data)
  /\ \A i \in DOMAIN draft.next : draft.next[i].content = draft.data[i]
  /\ draft.version = at => draft.data = last

DrawingKept ==
  /\ F!TypeOK /\ Faithful(cache)
  /\ \A d \in F!Drawings : drawings[d] # None => Follows(drawings[d], version, latest)
  /\ ~lost => \/ element = latest
              \/ \E d \in F!Drawings : drawings[d] # None /\ drawings[d].version = version

\* Rows are sequences.
LEMMA RowsAreSequences ==
  ASSUME NEW S, MaxMessages \in Nat
  PROVE  /\ \A x \in Rows(S) : /\ x \in Seq(S) /\ Len(x) \in 0..MaxMessages
                               /\ DOMAIN x = 1..Len(x) /\ x \in [1..Len(x) -> S]
         /\ \A n \in 0..MaxMessages : \A x \in [1..n -> S] :
              x \in Rows(S) /\ x \in Seq(S) /\ Len(x) = n
<1>1. ASSUME NEW n \in 0..MaxMessages, NEW x \in [1..n -> S]
      PROVE  x \in Rows(S) /\ x \in Seq(S) /\ Len(x) = n
  <2>1. x \in Seq(S) BY SeqDef
  <2>2. Len(x) = n BY <2>1, LenProperties
  <2> QED BY <2>1, <2>2 DEF Rows
<1>2. ASSUME NEW x \in Rows(S)
      PROVE  /\ x \in Seq(S) /\ Len(x) \in 0..MaxMessages
             /\ DOMAIN x = 1..Len(x) /\ x \in [1..Len(x) -> S]
  <2>1. PICK n \in 0..MaxMessages : x \in [1..n -> S] BY DEF Rows
  <2> QED BY <1>1, <2>1
<1> QED BY <1>1, <1>2

LEMMA DrawingRows ==
  ASSUME F!FragmentsAssumption
  PROVE  /\ F!Data = Rows(F!Contents) /\ F!Cache = Rows(F!Entry) /\ MaxMessages \in Nat
         /\ <<>> \in F!Data /\ <<>> \in F!Cache
<1>1. MaxMessages \in Nat BY DEF F!FragmentsAssumption
<1>2. <<>> \in [1..0 -> F!Contents] /\ <<>> \in [1..0 -> F!Entry] OBVIOUS
<1>3. 0 \in 0..MaxMessages BY <1>1
<1> QED BY <1>1, <1>2, <1>3 DEF Rows, F!Data, F!Cache

\* Neither the version nor what is latest changes: the other drawings go on as they are.
LEMMA OneDrawingGoesOn ==
  ASSUME F!FragmentsAssumption, DrawingKept, NEW d \in F!Drawings,
         NEW next \in F!Drawing \cup {None}, next # None => Follows(next, version, latest),
         drawings' = [drawings EXCEPT ![d] = next], UNCHANGED <<version, latest>>
  PROVE  /\ drawings' \in [F!Drawings -> F!Drawing \cup {None}]
         /\ \A e \in F!Drawings : drawings'[e] # None => Follows(drawings'[e], version', latest')
<1>1. drawings \in [F!Drawings -> F!Drawing \cup {None}] BY DEF DrawingKept, F!TypeOK
<1>2. \A e \in F!Drawings : drawings'[e] # None => Follows(drawings'[e], version, latest)
  BY <1>1 DEF DrawingKept
<1> QED BY <1>1, <1>2

LEMMA RenderKeeps ==
  ASSUME F!FragmentsAssumption, DrawingKept, NEW data \in F!Data, F!Render(data)
  PROVE  DrawingKept'
<1>1. PICK d \in F!Drawings :
        drawings' = [drawings EXCEPT ![d] =
          [data |-> data, version |-> version', previous |-> cache, next |-> <<>>]]
  BY DEF F!Render
<1> DEFINE new == [data |-> data, version |-> version + 1, previous |-> cache, next |-> <<>>]
<1>2. /\ version \in Nat /\ version + 1 \in 1..MaxDrawings /\ version' = version + 1
      /\ version' \in 0..(MaxDrawings + 1) /\ MaxDrawings \in Nat
  BY DEF F!Render, DrawingKept, F!TypeOK, F!FragmentsAssumption
<1>3. latest' = data /\ lost' = FALSE /\ UNCHANGED <<cache, element>> BY DEF F!Render
<1>4. /\ cache \in F!Cache /\ element \in F!Data /\ Faithful(cache)
      /\ drawings \in [F!Drawings -> F!Drawing \cup {None}]
  BY DEF DrawingKept, F!TypeOK
<1>5. new \in F!Drawing BY <1>2, <1>4, DrawingRows DEF F!Drawing
<1>6. /\ new.version = version + 1 /\ new.data = data /\ new.previous = cache /\ new.next = <<>>
  OBVIOUS
<1>7. drawings' = [drawings EXCEPT ![d] = new] BY <1>1, <1>2
<1> HIDE DEF new
<1>8. F!TypeOK'
  <2>1. lost' \in BOOLEAN BY <1>3
  <2>2. drawings' \in [F!Drawings -> F!Drawing \cup {None}] BY <1>4, <1>5, <1>7
  <2> QED BY <1>2, <1>3, <1>4, <2>1, <2>2 DEF F!TypeOK
<1>9. ASSUME NEW e \in F!Drawings, drawings'[e] # None PROVE Follows(drawings'[e], version', latest')
  <2>1. CASE e = d
    <3>1. drawings'[e] = new BY <1>4, <1>7, <2>1
    <3>2. Len(data) >= 0 BY DrawingRows, RowsAreSequences
    <3> QED BY <1>2, <1>3, <1>4, <1>6, <3>1, <3>2 DEF Follows, Faithful
  <2>2. CASE e # d
    <3>1. drawings'[e] = drawings[e] BY <1>4, <1>7, <2>2
    <3>2. Follows(drawings[e], version, latest) /\ drawings[e] \in F!Drawing BY <1>4, <1>9, <3>1 DEF DrawingKept
    <3>3. drawings[e].version \in Nat BY <1>2, <3>2 DEF F!Drawing
    <3> QED BY <1>2, <3>1, <3>2, <3>3 DEF Follows, Faithful
  <2> QED BY <2>1, <2>2
<1>10. drawings'[d] # None /\ drawings'[d].version = version'
  BY <1>2, <1>4, <1>5, <1>6, <1>7 DEF F!FragmentsAssumption
<1> QED BY <1>3, <1>4, <1>8, <1>9, <1>10 DEF DrawingKept, Faithful

LEMMA CancelRenderKeeps ==
  ASSUME F!FragmentsAssumption, DrawingKept, F!CancelRender
  PROVE  DrawingKept'
<1>1. /\ drawings \in [F!Drawings -> F!Drawing \cup {None}] /\ Faithful(cache)
      /\ cache \in F!Cache /\ element \in F!Data /\ latest \in F!Data /\ version \in Nat
      /\ MaxDrawings \in Nat
  BY DEF DrawingKept, F!TypeOK, F!FragmentsAssumption
<1>2. PICK d \in F!Drawings : drawings[d] # None /\ drawings[d].version = version
  BY DEF F!CancelRender
<1>3. version' = version + 1 /\ lost' = TRUE /\ UNCHANGED <<drawings, cache, element, latest>>
  BY DEF F!CancelRender
<1>4. version <= MaxDrawings BY <1>1, <1>2 DEF F!Drawing
<1>5. F!TypeOK'
  <2>1. lost' \in BOOLEAN /\ version' \in 0..(MaxDrawings + 1) BY <1>1, <1>3, <1>4
  <2> QED BY <1>1, <1>3, <2>1 DEF F!TypeOK
<1>6. ASSUME NEW e \in F!Drawings, drawings[e] # None PROVE Follows(drawings[e], version', latest')
  <2>1. Follows(drawings[e], version, latest) /\ drawings[e].version \in Nat
    BY <1>1, <1>6 DEF DrawingKept, F!Drawing
  <2> QED BY <1>1, <1>3, <2>1 DEF Follows, Faithful
<1> QED BY <1>1, <1>3, <1>5, <1>6 DEF DrawingKept, Faithful

LEMMA MessagesFragmentKeeps ==
  ASSUME F!FragmentsAssumption, DrawingKept, NEW d \in F!Drawings, F!MessagesFragment(d)
  PROVE  DrawingKept'
<1> DEFINE draft == drawings[d]
           done == Len(draft.next)
           size == Len(draft.data)
           upTo == IF done + Chunk < size THEN done + Chunk ELSE size
           entries == [i \in 1..upTo |-> IF i <= done THEN draft.next[i]
                                         ELSE F!Fragment(draft, i)]
           new == [draft EXCEPT !.next = entries]
<1>1. /\ draft # None /\ done < Len(draft.data)
      /\ drawings' = [drawings EXCEPT ![d].next = entries]
      /\ UNCHANGED <<version, cache, element, latest, lost>>
  BY DEF F!MessagesFragment
<1>2. /\ drawings \in [F!Drawings -> F!Drawing \cup {None}] /\ draft \in F!Drawing
      /\ Follows(draft, version, latest)
  BY <1>1 DEF DrawingKept, F!TypeOK
<1>3. /\ draft.data \in Rows(F!Contents) /\ draft.next \in Rows(F!Entry)
      /\ draft.previous \in Rows(F!Entry) /\ MaxMessages \in Nat
  BY <1>2, DrawingRows DEF F!Drawing
<1>4. /\ Len(draft.data) \in 0..MaxMessages /\ draft.data \in [1..Len(draft.data) -> F!Contents]
      /\ done \in Nat /\ draft.next \in [1..done -> F!Entry]
      /\ DOMAIN draft.next = 1..done
      /\ draft.previous \in [1..Len(draft.previous) -> F!Entry]
  BY <1>3, RowsAreSequences
<1>5. upTo \in 0..MaxMessages /\ upTo <= size
  <2>1. size \in 0..MaxMessages /\ done \in Nat /\ Chunk \in Nat
    BY <1>4 DEF F!FragmentsAssumption
  <2> HIDE DEF size, done
  <2> QED BY <1>3, <2>1
<1>6. ASSUME NEW i \in 1..upTo
      PROVE  /\ entries[i] \in F!Entry /\ entries[i].html = entries[i].content
             /\ entries[i].content = draft.data[i]
  <2>1. CASE i <= done
    <3>1. entries[i] = draft.next[i] /\ i \in DOMAIN draft.next BY <1>4, <1>5, <2>1
    <3> QED BY <1>2, <1>4, <3>1 DEF Follows, Faithful
  <2>2. CASE ~(i <= done)
    <3>1. draft.data[i] \in F!Contents
      <4>1. i \in 1..size BY <1>4, <1>5
      <4> HIDE DEF draft
      <4> QED BY <1>4, <4>1
    <3>2. entries[i] = F!Fragment(draft, i) BY <2>2
    <3>3. \A j \in DOMAIN draft.previous : /\ draft.previous[j] \in F!Entry
                                             /\ draft.previous[j].html = draft.previous[j].content
      BY <1>2, <1>4 DEF Follows, Faithful
    <3>4. \A c \in F!Contents : [content |-> c, html |-> c] \in F!Entry BY DEF F!Entry
    <3> HIDE DEF entries, upTo, size, done, draft
    <3> QED BY <3>1, <3>2, <3>3, <3>4 DEF F!Fragment
  <2> QED BY <2>1, <2>2
<1>7. DOMAIN entries = 1..upTo OBVIOUS
<1>8. entries \in [1..upTo -> F!Entry]
  <2>1. entries = [i \in 1..upTo |-> entries[i]] OBVIOUS
  <2> HIDE DEF entries, upTo
  <2> QED BY <1>6, <2>1
<1> HIDE DEF entries, upTo, size, done
<1>9. entries \in Rows(F!Entry) /\ Len(entries) = upTo BY <1>3, <1>5, <1>8, RowsAreSequences
<1>10. /\ new \in F!Drawing /\ new.next = entries /\ new.data = draft.data
       /\ new.version = draft.version /\ new.previous = draft.previous
  <2> HIDE DEF draft
  <2> QED BY <1>2, <1>9, DrawingRows DEF F!Drawing
<1>11. drawings' = [drawings EXCEPT ![d] = new] BY <1>1, <1>2
<1> HIDE DEF new, draft
<1>12. Follows(new, version, latest)
  BY <1>2, <1>5, <1>6, <1>7, <1>9, <1>10 DEF Follows, Faithful, size
<1>13. /\ drawings' \in [F!Drawings -> F!Drawing \cup {None}]
       /\ \A e \in F!Drawings : drawings'[e] # None => Follows(drawings'[e], version', latest')
  BY <1>1, <1>10, <1>11, <1>12, OneDrawingGoesOn
<1>14. F!TypeOK' BY <1>1, <1>13 DEF DrawingKept, F!TypeOK
<1>15. ~lost => \/ element = latest
                \/ \E e \in F!Drawings : drawings'[e] # None /\ drawings'[e].version = version
  <2>1. new # None BY <1>10 DEF F!FragmentsAssumption
  <2>2. \A e \in F!Drawings : drawings'[e] = IF e = d THEN new ELSE drawings[e]
    BY <1>2, <1>11
  <2> QED BY <1>10, <2>1, <2>2 DEF DrawingKept, draft
<1> QED BY <1>1, <1>13, <1>14, <1>15 DEF DrawingKept, Faithful

LEMMA RenderedFragmentsKeep ==
  ASSUME F!FragmentsAssumption, DrawingKept, NEW d \in F!Drawings, F!Rendered(d)
  PROVE  DrawingKept'
<1> DEFINE draft == drawings[d]
           shownNow == [i \in DOMAIN draft.next |-> draft.next[i].html]
<1>1. /\ draft # None /\ Len(draft.next) = Len(draft.data)
      /\ drawings' = [drawings EXCEPT ![d] = None] /\ cache' = draft.next
      /\ element' = IF draft.version = version THEN shownNow ELSE element
      /\ UNCHANGED <<version, latest, lost>>
  BY DEF F!Rendered
<1>2. /\ drawings \in [F!Drawings -> F!Drawing \cup {None}] /\ draft \in F!Drawing
      /\ Follows(draft, version, latest)
  BY <1>1 DEF DrawingKept, F!TypeOK
<1>3. /\ draft.data \in Rows(F!Contents) /\ draft.next \in Rows(F!Entry)
      /\ draft.next \in F!Cache /\ draft.data \in F!Data /\ MaxMessages \in Nat
  BY <1>2, DrawingRows DEF F!Drawing
<1>4. /\ DOMAIN draft.next = 1..Len(draft.data)
      /\ draft.data \in [1..Len(draft.data) -> F!Contents]
  BY <1>1, <1>3, RowsAreSequences
<1>5. shownNow = draft.data
  <2>1. \A i \in DOMAIN draft.next : draft.next[i].html = draft.data[i]
    BY <1>2 DEF Follows, Faithful
  <2>2. shownNow = [i \in 1..Len(draft.data) |-> draft.data[i]] BY <1>4, <2>1
  <2> QED BY <1>4, <2>2
<1> HIDE DEF shownNow
<1>6. /\ drawings' \in [F!Drawings -> F!Drawing \cup {None}]
      /\ \A e \in F!Drawings : drawings'[e] # None => Follows(drawings'[e], version', latest')
  BY <1>1, OneDrawingGoesOn
<1>7. element' \in F!Data BY <1>1, <1>3, <1>5 DEF DrawingKept, F!TypeOK
<1>8. F!TypeOK' BY <1>1, <1>3, <1>6, <1>7 DEF DrawingKept, F!TypeOK
<1>9. ~lost => \/ element' = latest
               \/ \E e \in F!Drawings : drawings'[e] # None /\ drawings'[e].version = version
  <2>1. CASE draft.version = version BY <1>1, <1>2, <1>5, <2>1 DEF Follows
  <2>2. CASE draft.version # version
    <3>1. \A e \in F!Drawings : e # d => drawings'[e] = drawings[e] BY <1>1, <1>2
    <3> QED BY <1>1, <2>2, <3>1 DEF DrawingKept
  <2> QED BY <2>1, <2>2
<1>10. Faithful(cache)' BY <1>1, <1>2 DEF Follows, Faithful
<1> QED BY <1>1, <1>6, <1>8, <1>9, <1>10 DEF DrawingKept

LEMMA RenderFailsKeeps ==
  ASSUME F!FragmentsAssumption, DrawingKept, NEW d \in F!Drawings, F!RenderFails(d)
  PROVE  DrawingKept'
<1>1. /\ drawings' = [drawings EXCEPT ![d] = None]
      /\ lost' = (lost \/ drawings[d].version = version)
      /\ UNCHANGED <<version, cache, element, latest>>
  BY DEF F!RenderFails
<1>2. /\ drawings' \in [F!Drawings -> F!Drawing \cup {None}]
      /\ \A e \in F!Drawings : drawings'[e] # None => Follows(drawings'[e], version', latest')
  BY <1>1, OneDrawingGoesOn
<1>3. lost' \in BOOLEAN BY <1>1
<1>4. F!TypeOK' BY <1>1, <1>2, <1>3 DEF DrawingKept, F!TypeOK
<1>5. ~lost' => ~lost /\ drawings[d].version # version BY <1>1
<1>6. ~lost' => \/ element = latest
                \/ \E e \in F!Drawings : drawings'[e] # None /\ drawings'[e].version = version
  <2>1. \A e \in F!Drawings : e # d => drawings'[e] = drawings[e]
    BY <1>1 DEF DrawingKept, F!TypeOK
  <2> QED BY <1>5, <2>1 DEF DrawingKept
<1> QED BY <1>1, <1>2, <1>4, <1>6 DEF DrawingKept, Faithful

LEMMA DrawingNextKeeps ==
  F!FragmentsAssumption /\ DrawingKept /\ [F!Next]_(F!vars) => DrawingKept'
<1> SUFFICES ASSUME F!FragmentsAssumption, DrawingKept, [F!Next]_(F!vars) PROVE DrawingKept'
  OBVIOUS
<1>1. CASE UNCHANGED F!vars
  BY <1>1 DEF F!vars, DrawingKept, F!TypeOK, Faithful, Follows
<1> QED BY <1>1, RenderKeeps, CancelRenderKeeps, MessagesFragmentKeeps, RenderedFragmentsKeep,
           RenderFailsKeeps DEF F!Next, F!Goes

LEMMA DrawingInit == F!FragmentsAssumption /\ F!Init => DrawingKept
<1> SUFFICES ASSUME F!FragmentsAssumption, F!Init PROVE DrawingKept
  OBVIOUS
<1>1. F!TypeOK
  <2>1. lost \in BOOLEAN BY DEF F!Init
  <2>2. version \in 0..(MaxDrawings + 1) BY DEF F!Init, F!FragmentsAssumption
  <2> QED BY <2>1, <2>2, DrawingRows DEF F!Init, F!TypeOK
<1> QED BY <1>1 DEF F!Init, DrawingKept, Faithful

LEMMA DrawingShown == DrawingKept => F!LatestShown
  BY DEF DrawingKept, F!LatestShown

-----------------------------------------------------------------------------
(* The transcript: what the page shows follows what the device reports      *)

\* The messages under way tell through which states the device went: the page shows the first
\* of them, the device is the last.  A message that is received shows the next one, a step of
\* the device adds one, and the answer to a start that was given up shows none.  For the answer
\* that is awaited to join what was reported meanwhile without a gap, it lists the turns just
\* before those that are held or reported; earlier turns, which may be asked for while they are
\* under way, are listed up to those that are shown by then, or overlap them.
DeviceTurn == [text : Nat, done : BOOLEAN, whole : BOOLEAN]
Fresh == [text |-> 0, done |-> FALSE, whole |-> FALSE]
\* The turns of a device: the last may be under way.
Devices == {v \in Seq(DeviceTurn) : Len(v) <= MaxTurns /\ \A t \in 1..(Len(v) - 1) : v[t].done}
ShownTurn == [turn : Nat \ {0}, status : {None, "running", "done"}, text : Seq(Nat), item : BOOLEAN]
ShownThread == [status : {None, "active", "idle"}, turns : Seq(ShownTurn), earlier : Nat]
PageCalls == [kind : {"resume", "read", "start"}, epoch : Nat]
             \cup [kind : {"earlier"}, epoch : Nat, cursor : Nat]
AnswerMessages ==
  [kind : {"error"}, call : PageCalls]
  \cup [kind : {"resume"}, call : PageCalls, status : {"active", "idle"}]
  \cup [kind : {"read", "earlier"}, call : PageCalls, turns : Seq(ShownTurn), earlier : Nat]
PageMessages ==
  [kind : {"start"}, call : [kind : {"start"}, epoch : Nat], turn : Nat \ {0}]
  \cup [kind : {"started", "completed"}, turn : Nat \ {0}]
  \cup [kind : {"delta"}, turn : Nat \ {0}, delta : Nat]
  \cup [kind : {"item"}, turn : Nat \ {0}, text : Seq(Nat)]
  \cup AnswerMessages

State(turn) == IF turn.done THEN "done" ELSE "running"
UnderWay(v) == Len(v) > 0 /\ ~v[Len(v)].done
StatusIn(v) == IF UnderWay(v) THEN "active" ELSE "idle"
TurnIn(v, t) ==
  [turn |-> t, status |-> State(v[t]), text |-> T!Text(v[t].text), item |-> v[t].text > 0]

\* The last turn of a device changes.
Changes(v, w, turn) == UnderWay(v) /\ w = [v EXCEPT ![Len(v)] = turn]

\* Where the turns before a cursor begin of which an answer lists the latest.
From(cursor) == IF cursor > PageOfTurns THEN cursor - PageOfTurns ELSE 0

\* What a message says: how the device was before it and how it is after it.
Reports(m, v, w) ==
  LET t == Len(v)
  IN  CASE m.kind = "start" ->
             IF m.call.epoch = 0 THEN w = v ELSE m.turn = Len(w) /\ w = Append(v, Fresh)
        [] m.kind = "started" ->
             m.turn = Len(w) /\ (w = Append(v, Fresh) \/ (w = v /\ UnderWay(v)))
        [] m.kind = "delta" ->
             /\ m.turn = t /\ ~v[t].whole /\ m.delta = v[t].text + 1
             /\ Changes(v, w, [text |-> m.delta, done |-> FALSE, whole |-> FALSE])
        [] m.kind = "item" ->
             /\ m.turn = t
             /\ \E whole \in BOOLEAN :
                  /\ m.text = IF whole THEN T!Text(v[t].text) ELSE <<>>
                  /\ Changes(v, w, [text |-> v[t].text, done |-> FALSE, whole |-> whole])
        [] m.kind = "completed" ->
             /\ m.turn = t
             /\ Changes(v, w, [text |-> v[t].text, done |-> TRUE, whole |-> v[t].whole])
        [] m.kind = "error" -> w = v
        [] m.kind = "resume" -> w = v /\ m.call.kind = m.kind /\ m.status = StatusIn(v)
        [] OTHER ->
             LET before == IF m.kind = "read" THEN Len(v) ELSE m.call.cursor
             IN  /\ w = v /\ m.call.kind = m.kind /\ before <= Len(v)
                 /\ m.earlier <= before /\ (m.earlier = 0 \/ m.earlier < before)
                 /\ m.kind = "earlier" => m.earlier = From(m.call.cursor)
                 /\ m.turns = [i \in 1..(before - m.earlier) |-> TurnIn(v, m.earlier + i)]

\* The device went through these states, one message after another.
Tells(messages, views) ==
  /\ messages \in Seq(PageMessages) /\ views \in Seq(Devices)
  /\ Len(views) = Len(messages) + 1
  /\ \A k \in 1..Len(messages) : Reports(messages[k], views[k], views[k + 1])
  /\ \A k \in 1..Len(views) : Len(views[k]) <= Len(views[Len(views)])

\* The text of a turn is not one that was joined in the middle.
Trusted(v, t, joined) == t \notin joined \/ v[t].whole

\* A shown turn is that of the device, as far as it is known; and known in full.
Agrees(v, turn, joined) ==
  /\ turn.turn \in 1..Len(v)
  /\ turn.status \in {None, State(v[turn.turn])}
  /\ Trusted(v, turn.turn, joined) => turn.text \in {<<>>, T!Text(v[turn.turn].text)}
Full(v, turn, joined) ==
  /\ turn.status # None
  /\ Trusted(v, turn.turn, joined) => turn.text = T!Text(v[turn.turn].text)

\* The page shows the latest turns of a device; when it is loaded, in full.
Shows(v) ==
  LET n == Len(shown.turns)
  IN  /\ n <= Len(v) /\ shown.earlier <= Len(v)
      /\ \A i \in 1..n : shown.turns[i].turn = Len(v) - n + i /\ Agrees(v, shown.turns[i], partial)
      /\ \A t \in partial : t \in 1..Len(v) /\ v[t].text > 0
      /\ shown.status \in {None, StatusIn(v)}
      /\ selecting \in {"active", "idle"} /\ shown.status = None => selecting = StatusIn(v)
      /\ selecting = None =>
           /\ n + shown.earlier = Len(v) /\ (shown.earlier = 0 \/ shown.earlier < Len(v))
           /\ shown.status # None
           /\ \A i \in 1..n : Full(v, shown.turns[i], partial)

\* A conversation is shown and its device is connected.
Live == shown # None /\ connected

\* Calls of a selection that open it, and their answers.
Pending(call, number) == call.epoch = number /\ call.kind \in {"resume", "read"}
Answering(m, number) == m.kind \in T!Answers /\ Pending(m.call, number)

\* A call that is pending was made for what is shown.
Fits(call, state) ==
  /\ call.kind = "resume" => state = ""
  /\ call.kind = "read" => state \in {"active", "idle"}

CallsKnown ==
  /\ toDevice \in Seq(PageCalls)
  /\ \A i \in 1..Len(toDevice) :
       /\ toDevice[i].epoch <= selection
       /\ toDevice[i].kind = "earlier" => toDevice[i].cursor <= Len(device) /\ toDevice[i].cursor > 0
  /\ \A i \in 1..Len(toPage) : toPage[i].kind \in T!Answers => toPage[i].call.epoch <= selection

\* The answer to a start comes just before the report of the turn.
StartsPaired ==
  \A i \in 1..Len(toPage) : toPage[i].kind = "start" =>
    i < Len(toPage) /\ toPage[i + 1].kind = "started" /\ toPage[i + 1].turn = toPage[i].turn

\* One of them is pending at most.
OnePending ==
  /\ \A i, j \in 1..Len(toDevice) : Pending(toDevice[i], selection) /\ Pending(toDevice[j], selection) => i = j
  /\ \A i, j \in 1..Len(toPage) : Answering(toPage[i], selection) /\ Answering(toPage[j], selection) => i = j
  /\ \A i \in 1..Len(toDevice), j \in 1..Len(toPage) :
       ~(Pending(toDevice[i], selection) /\ Answering(toPage[j], selection))
  /\ \A i \in 1..Len(toDevice) : Pending(toDevice[i], selection) => Fits(toDevice[i], selecting)
  /\ \A i \in 1..Len(toPage) : Answering(toPage[i], selection) => Fits(toPage[i].call, selecting)

\* Earlier turns are asked for of a conversation that is loaded: those just before the ones
\* that are shown, or some that came since, and never later ones than were asked for before.
More(call) == call.kind = "earlier" /\ call.epoch = selection
MoreOf(m) == m.kind = "earlier" /\ More(m.call)
Joins(cursor) == selecting = None /\ From(cursor) <= shown.earlier /\ shown.earlier <= cursor
EarlierJoins ==
  /\ \A i \in 1..Len(toDevice) : More(toDevice[i]) => Joins(toDevice[i].cursor)
  /\ \A i \in 1..Len(toPage) : MoreOf(toPage[i]) => Joins(toPage[i].call.cursor)
EarlierOrdered ==
  /\ \A i, j \in 1..Len(toDevice) : i <= j /\ More(toDevice[i]) /\ More(toDevice[j]) =>
       toDevice[j].cursor <= toDevice[i].cursor
  /\ \A i, j \in 1..Len(toPage) : i <= j /\ MoreOf(toPage[i]) /\ MoreOf(toPage[j]) =>
       toPage[j].call.cursor <= toPage[i].call.cursor
  /\ \A i \in 1..Len(toDevice), j \in 1..Len(toPage) : More(toDevice[i]) /\ MoreOf(toPage[j]) =>
       toDevice[i].cursor <= toPage[j].call.cursor

\* The turns reported, and those held while the conversation is opened, are recent: the answer
\* that is awaited lists them.
ReportsNear ==
  \A i \in 1..Len(toPage) :
    toPage[i].kind \in T!Events => Len(device) - toPage[i].turn < PageOfTurns
Near ==
  /\ T!Opening =>
       \A i \in 1..Len(shown.turns) : Len(device) - shown.turns[i].turn < PageOfTurns
  /\ \A k \in 1..Len(toPage) : toPage[k].kind = "read" /\ Answering(toPage[k], selection) =>
       /\ \A i \in 1..Len(shown.turns) : shown.turns[i].turn > toPage[k].earlier
       /\ \A i \in 1..(k - 1) : toPage[i].kind \in T!Events => toPage[i].turn > toPage[k].earlier

\* What is awaited for the conversation that is shown.
Awaits == Live => OnePending /\ EarlierJoins /\ EarlierOrdered /\ Near

\* Nothing came yet.
Empty == /\ selecting \in {"", "failed"} /\ shown.turns = <<>> /\ shown.status = None
         /\ shown.earlier = 0 /\ partial = {}

TranscriptTypes ==
  /\ \A t \in 1..Len(device) : device[t].text <= MaxText /\ (~device[t].done => ~device[t].whole)
  /\ subscribed \in BOOLEAN /\ connected \in BOOLEAN /\ selection \in 0..MaxSelections
  /\ selecting \in {None, "", "active", "idle", "failed"}
  /\ shown # None => shown \in ShownThread /\ selection # 0
  /\ partial \subseteq 1..MaxTurns
  /\ ~connected => ~subscribed /\ toDevice = <<>> /\ toPage = <<>>
  /\ ~subscribed =>
       /\ \A i \in 1..Len(toPage) : toPage[i].kind = "error"
       /\ \A i \in 1..Len(toDevice) : toDevice[i].kind \in {"resume", "start"}
       /\ Live => Empty
  /\ shown # None /\ selecting # None => shown.earlier = 0

WentThrough(views) ==
  /\ Tells(toPage, views) /\ device = views[Len(views)]
  /\ Live => Shows(views[1])

TranscriptKept ==
  /\ TranscriptTypes /\ CallsKnown /\ StartsPaired /\ ReportsNear /\ Awaits
  /\ shown # None /\ ~connected => \E v \in Devices : Shows(v)
  /\ \E views \in Seq(Devices) : WentThrough(views)

-----------------------------------------------------------------------------
(* The transcript: merging turns that are known and turns that follow       *)

\* The text of n deltas is as long, and one more delta adds one to it.
LEMMA TextFacts ==
  ASSUME NEW n \in Nat
  PROVE  /\ T!Text(n) \in Seq(Nat) /\ Len(T!Text(n)) = n
         /\ T!Text(n) = <<>> <=> n = 0
         /\ T!Text(n + 1) = Append(T!Text(n), n + 1)
<1>1. T!Text(n) \in Seq(Nat) /\ Len(T!Text(n)) = n BY DEF T!Text
<1>2. T!Text(n + 1) \in Seq(Nat) /\ Len(T!Text(n + 1)) = n + 1 BY DEF T!Text
<1>3. T!Text(n) = <<>> <=> n = 0 BY <1>1, EmptySeq
<1>4. /\ Append(T!Text(n), n + 1) \in Seq(Nat) /\ Len(Append(T!Text(n), n + 1)) = n + 1
      /\ \A i \in 1..(n + 1) : Append(T!Text(n), n + 1)[i] = i
  BY <1>1 DEF T!Text
<1>5. \A i \in 1..(n + 1) : T!Text(n + 1)[i] = i BY DEF T!Text
<1>6. T!Text(n + 1) = Append(T!Text(n), n + 1) BY <1>2, <1>4, <1>5, SeqEqual
<1> QED BY <1>1, <1>3, <1>6

\* Turns in a row are found by their number.
InRow(turns, from) == \A i \in 1..Len(turns) : turns[i].turn = from + i

LEMMA PlaceInRow ==
  ASSUME NEW S, NEW turns \in Seq(S), NEW from \in Int, InRow(turns, from), NEW t \in Int
  PROVE  T!Place(turns, t) = IF from < t /\ t <= from + Len(turns) THEN t - from ELSE 0
<1> DEFINE places == {i \in DOMAIN turns : turns[i].turn = t}
<1>1. DOMAIN turns = 1..Len(turns) /\ Len(turns) \in Nat BY LenProperties
<1>2. CASE from < t /\ t <= from + Len(turns)
  <2>1. t - from \in 1..Len(turns) BY <1>1, <1>2
  <2>2. places = {t - from} BY <1>1, <2>1 DEF InRow
  <2>3. T!Place(turns, t) = CHOOSE i \in places : TRUE BY <2>2 DEF T!Place
  <2> QED BY <1>2, <2>2, <2>3
<1>3. CASE ~(from < t /\ t <= from + Len(turns))
  <2>1. places = {} BY <1>1, <1>3 DEF InRow
  <2> QED BY <1>3, <2>1 DEF T!Place
<1> QED BY <1>2, <1>3

\* None is new, or all are.
LEMMA NoneUnknown ==
  ASSUME NEW before, NEW after, \A i \in DOMAIN after : T!Place(before, after[i].turn) # 0
  PROVE  T!Unknown(before, after) = <<>>
<1> DEFINE new == {i \in DOMAIN after : T!Place(before, after[i].turn) = 0}
<1>1. new = {} OBVIOUS
<1>2. T!Cardinality(new) = 0 BY <1>1, SameCount, FS_EmptySet
<1> DEFINE Nth(n) == CHOOSE i \in new : T!Cardinality({other \in new : other <= i}) = n
<1>3. T!Unknown(before, after) = [n \in 1..T!Cardinality(new) |-> after[Nth(n)]]
  BY DEF T!Unknown
<1> HIDE DEF new, Nth
<1> QED BY <1>2, <1>3

LEMMA LatestUnknown ==
  ASSUME NEW S, NEW before, NEW after \in Seq(S), NEW known \in 0..Len(after),
         \A i \in DOMAIN after : T!Place(before, after[i].turn) = 0 <=> i > known
  PROVE  T!Unknown(before, after) = [n \in 1..(Len(after) - known) |-> after[known + n]]
<1> DEFINE new == {i \in DOMAIN after : T!Place(before, after[i].turn) = 0}
           Nth(n) == CHOOSE i \in new : T!Cardinality({other \in new : other <= i}) = n
<1>1. DOMAIN after = 1..Len(after) /\ Len(after) \in Nat /\ known \in Nat BY LenProperties
<1>2. new = (known + 1)..Len(after) BY <1>1
<1>3. ASSUME NEW i \in new PROVE T!Cardinality({other \in new : other <= i}) = i - known
  <2>1. {other \in new : other <= i} = (known + 1)..i BY <1>1, <1>2
  <2>2. i \in Int /\ known + 1 \in Int /\ ~(known + 1 > i) BY <1>1, <1>2
  <2>3. Cardinality((known + 1)..i) = i - known
    <3>1. Cardinality((known + 1)..i) = i - (known + 1) + 1 BY <2>2, FS_Interval
    <3> QED BY <1>1, <2>2, <3>1
  <2> QED BY <2>1, <2>3, SameCount
<1>4. T!Cardinality(new) = Len(after) - known
  <2>1. Cardinality((known + 1)..Len(after))
        = IF known + 1 > Len(after) THEN 0 ELSE Len(after) - (known + 1) + 1
    <3>1. known + 1 \in Int /\ Len(after) \in Int BY <1>1
    <3> QED BY <3>1, FS_Interval
  <2> HIDE DEF new
  <2> QED BY <1>1, <1>2, <2>1, SameCount
<1>5. ASSUME NEW n \in 1..(Len(after) - known) PROVE Nth(n) = known + n
  <2>1. known + n \in new /\ known + n - known = n BY <1>1, <1>2
  <2>2. \E i \in new : T!Cardinality({other \in new : other <= i}) = n
    <3> HIDE DEF new
    <3> QED BY <1>3, <2>1
  <2>3. Nth(n) \in new /\ T!Cardinality({other \in new : other <= Nth(n)}) = n
    <3> HIDE DEF new
    <3> QED BY <2>2
  <2>4. Nth(n) - known = n
    <3> HIDE DEF Nth, new
    <3> QED BY <1>3, <2>3
  <2>5. Nth(n) \in Int
    <3> HIDE DEF Nth
    <3> QED BY <1>1, <1>2, <2>3
  <2> HIDE DEF Nth, new
  <2> QED BY <1>1, <2>4, <2>5
<1>6. T!Unknown(before, after) = [n \in 1..T!Cardinality(new) |-> after[Nth(n)]]
  BY DEF T!Unknown
<1>7. [n \in 1..T!Cardinality(new) |-> after[Nth(n)]]
      = [n \in 1..(Len(after) - known) |-> after[known + n]]
  <2> HIDE DEF Nth, new
  <2> QED BY <1>4, <1>5
<1> QED BY <1>6, <1>7

LEMMA AllUnknown ==
  ASSUME NEW S, NEW before, NEW after \in Seq(S),
         \A i \in DOMAIN after : T!Place(before, after[i].turn) = 0
  PROVE  T!Unknown(before, after) = after
<1>1. DOMAIN after = 1..Len(after) /\ Len(after) \in Nat BY LenProperties
<1>2. PICK known \in 0..Len(after) : known = 0 BY <1>1
<1>3. \A i \in DOMAIN after : T!Place(before, after[i].turn) = 0 <=> i > known BY <1>1, <1>2
<1>4. T!Unknown(before, after) = [n \in 1..(Len(after) - known) |-> after[known + n]]
  BY <1>3, LatestUnknown
<1>5. [n \in 1..(Len(after) - known) |-> after[known + n]] = [n \in 1..Len(after) |-> after[n]]
  <2>1. Len(after) - known = Len(after) /\ \A n \in 1..Len(after) : known + n = n BY <1>1, <1>2
  <2> QED BY <2>1
<1>6. [n \in 1..Len(after) |-> after[n]] = after BY <1>1
<1> QED BY <1>4, <1>5, <1>6

\* What is combined is a turn again.
LEMMA CombinedType ==
  ASSUME NEW before \in ShownTurn, NEW after \in ShownTurn
  PROVE  T!Combined(before, after) \in ShownTurn
  BY DEF ShownTurn, T!Combined, T!FullerText

\* What follows is known: it is combined in its place.
Joined(before, after, a, b) ==
  [i \in 1..Len(before) |-> IF b < a + i /\ a + i <= b + Len(after)
                            THEN T!Combined(before[i], after[a + i - b]) ELSE before[i]]

LEMMA MergedKnown ==
  ASSUME NEW before \in Seq(ShownTurn), NEW after \in Seq(ShownTurn), NEW a \in Int, NEW b \in Int,
         InRow(before, a), InRow(after, b), a <= b, b + Len(after) <= a + Len(before)
  PROVE  /\ T!Merged(before, after) = Joined(before, after, a, b)
         /\ T!Merged(before, after) \in Seq(ShownTurn)
         /\ Len(T!Merged(before, after)) = Len(before)
<1> DEFINE With(turn) == IF T!Place(after, turn.turn) = 0 THEN turn
                         ELSE T!Combined(turn, after[T!Place(after, turn.turn)])
           first == [i \in 1..Len(before) |-> With(before[i])]
<1>1. Len(before) \in Nat /\ Len(after) \in Nat /\ DOMAIN after = 1..Len(after) BY LenProperties
<1>2. T!Merged(before, after) = first \o T!Unknown(before, after) BY DEF T!Merged
<1>3. ASSUME NEW i \in DOMAIN after PROVE T!Place(before, after[i].turn) # 0
  <2>1. after[i].turn = b + i /\ b + i \in Int BY <1>1 DEF InRow
  <2>2. T!Place(before, b + i) = b + i - a BY <1>1, <2>1, PlaceInRow
  <2> QED BY <1>1, <2>1, <2>2
<1>4. T!Unknown(before, after) = <<>> BY <1>3, NoneUnknown
<1>5. ASSUME NEW i \in 1..Len(before)
      PROVE  /\ With(before[i]) = IF b < a + i /\ a + i <= b + Len(after)
                                  THEN T!Combined(before[i], after[a + i - b]) ELSE before[i]
             /\ With(before[i]) \in ShownTurn
  <2>1. before[i] \in ShownTurn /\ before[i].turn = a + i /\ a + i \in Int BY <1>1 DEF InRow
  <2>2. T!Place(after, a + i) = IF b < a + i /\ a + i <= b + Len(after) THEN a + i - b ELSE 0
    BY <2>1, PlaceInRow
  <2>3. CASE b < a + i /\ a + i <= b + Len(after)
    <3>1. T!Place(after, a + i) = a + i - b /\ a + i - b \in 1..Len(after) BY <1>1, <2>2, <2>3
    <3>2. after[a + i - b] \in ShownTurn BY <3>1
    <3>3. With(before[i]) = T!Combined(before[i], after[a + i - b]) BY <2>1, <3>1
    <3> QED BY <2>1, <2>3, <3>2, <3>3, CombinedType
  <2>4. CASE ~(b < a + i /\ a + i <= b + Len(after)) BY <2>1, <2>2, <2>4
  <2> QED BY <2>3, <2>4
<1>6. first \in Seq(ShownTurn) /\ Len(first) = Len(before)
  <2> HIDE DEF With
  <2> QED BY <1>1, <1>5
<1>7. T!Merged(before, after) = first
  <2> HIDE DEF first
  <2> QED BY <1>2, <1>4, <1>6, ConcatEmptySeq
<1>8. first = Joined(before, after, a, b)
  <2> HIDE DEF With
  <2> QED BY <1>5 DEF Joined
<1> HIDE DEF first, With
<1> QED BY <1>6, <1>7, <1>8

\* What follows comes after: it is added.
LEMMA MergedNext ==
  ASSUME NEW before \in Seq(ShownTurn), NEW after \in Seq(ShownTurn), NEW a \in Int,
         InRow(before, a), InRow(after, a + Len(before))
  PROVE  T!Merged(before, after) = before \o after
<1> DEFINE With(turn) == IF T!Place(after, turn.turn) = 0 THEN turn
                         ELSE T!Combined(turn, after[T!Place(after, turn.turn)])
           first == [i \in 1..Len(before) |-> With(before[i])]
<1>1. /\ Len(before) \in Nat /\ Len(after) \in Nat
      /\ DOMAIN after = 1..Len(after) /\ DOMAIN before = 1..Len(before)
  BY LenProperties
<1>2. T!Merged(before, after) = first \o T!Unknown(before, after) BY DEF T!Merged
<1>3. ASSUME NEW i \in DOMAIN after PROVE T!Place(before, after[i].turn) = 0
  <2>1. after[i].turn = a + Len(before) + i /\ a + Len(before) + i \in Int BY <1>1 DEF InRow
  <2>2. T!Place(before, a + Len(before) + i) = 0 BY <1>1, <2>1, PlaceInRow
  <2> QED BY <2>1, <2>2
<1>4. T!Unknown(before, after) = after BY <1>3, AllUnknown
<1>5. ASSUME NEW i \in 1..Len(before) PROVE With(before[i]) = before[i]
  <2>1. before[i].turn = a + i /\ a + i \in Int /\ a + Len(before) \in Int BY <1>1 DEF InRow
  <2>2. T!Place(after, a + i) = 0 BY <1>1, <2>1, PlaceInRow
  <2> QED BY <2>1, <2>2
<1>6. first = before
  <2> HIDE DEF With
  <2> QED BY <1>1, <1>5
<1> HIDE DEF first, With
<1> QED BY <1>2, <1>4, <1>6

\* What follows overlaps: the part after what is known is new.
LEMMA RestUnknown ==
  ASSUME NEW before \in Seq(ShownTurn), NEW after \in Seq(ShownTurn), NEW a \in Int, NEW b \in Int,
         InRow(before, a), InRow(after, b),
         a <= b, b <= a + Len(before), a + Len(before) <= b + Len(after)
  PROVE  LET rest == T!Unknown(before, after)
         IN  /\ rest \in Seq(ShownTurn) /\ Len(rest) = Len(after) - (a + Len(before) - b)
             /\ \A n \in 1..(Len(after) - (a + Len(before) - b)) :
                  rest[n] = after[a + Len(before) - b + n]
<1>1. DOMAIN after = 1..Len(after) /\ Len(after) \in Nat /\ Len(before) \in Nat BY LenProperties
<1>2. PICK known \in 0..Len(after) : known = a + Len(before) - b
  <2>1. a + Len(before) - b \in 0..Len(after) BY <1>1
  <2> QED BY <2>1, Zenon
<1>3. ASSUME NEW i \in DOMAIN after PROVE T!Place(before, after[i].turn) = 0 <=> i > known
  <2>1. i \in 1..Len(after) /\ after[i].turn = b + i /\ b + i \in Int BY <1>1 DEF InRow
  <2>2. T!Place(before, b + i)
        = IF a < b + i /\ b + i <= a + Len(before) THEN b + i - a ELSE 0
    BY <2>1, PlaceInRow
  <2>3. a < b + i /\ (b + i <= a + Len(before) <=> ~(i > known)) /\ b + i - a # 0
    BY <1>1, <1>2, <2>1
  <2> QED BY <2>1, <2>2, <2>3
<1>4. T!Unknown(before, after) = [n \in 1..(Len(after) - known) |-> after[known + n]]
  BY <1>3, LatestUnknown
<1>5. Len(after) - known \in Nat /\ \A n \in 1..(Len(after) - known) : after[known + n] \in ShownTurn
  <2>1. \A n \in 1..(Len(after) - known) : known + n \in 1..Len(after) BY <1>1
  <2> QED BY <1>1, <2>1
<1> QED BY <1>2, <1>4, <1>5

\* What follows overlaps: what both hold is combined, the rest is added.
LEMMA MergedOver ==
  ASSUME NEW before \in Seq(ShownTurn), NEW after \in Seq(ShownTurn), NEW a \in Int, NEW b \in Int,
         InRow(before, a), InRow(after, b),
         a <= b, b <= a + Len(before), a + Len(before) <= b + Len(after)
  PROVE  LET merged == T!Merged(before, after)
         IN  /\ merged \in Seq(ShownTurn) /\ Len(merged) = b - a + Len(after)
             /\ \A i \in 1..(b - a + Len(after)) :
                  merged[i] = IF i <= b - a THEN before[i]
                              ELSE IF i <= Len(before) THEN T!Combined(before[i], after[i - (b - a)])
                              ELSE after[i - (b - a)]
<1> DEFINE With(turn) == IF T!Place(after, turn.turn) = 0 THEN turn
                         ELSE T!Combined(turn, after[T!Place(after, turn.turn)])
           first == [i \in 1..Len(before) |-> With(before[i])]
<1>1. T!Merged(before, after) = first \o T!Unknown(before, after) BY DEF T!Merged
<1> HIDE DEF first, With
<1>2. PICK rest : rest = T!Unknown(before, after) OBVIOUS
<1>3. /\ rest \in Seq(ShownTurn) /\ Len(rest) = Len(after) - (a + Len(before) - b)
      /\ \A n \in 1..(Len(after) - (a + Len(before) - b)) :
           rest[n] = after[a + Len(before) - b + n]
  BY <1>2, RestUnknown
<1>4. PICK known : known = a + Len(before) - b OBVIOUS
<1>5. PICK x \in Nat, y \in Nat : x = Len(before) /\ y = Len(after)
  <2>1. Len(before) \in Nat /\ Len(after) \in Nat BY LenProperties
  <2> QED BY <2>1, Zenon
<1>6. /\ known \in 0..y /\ known = a + x - b /\ a <= b /\ b <= a + x /\ a + x <= b + y
      /\ y - known \in Nat /\ \A n \in 1..(y - known) : known + n \in 1..y
  <2>1. known \in 0..y /\ known = a + x - b /\ a <= b /\ b <= a + x /\ a + x <= b + y
    BY <1>4, <1>5
  <2> QED BY <2>1
<1>7. \A n \in 1..(y - known) : rest[n] = after[known + n]
  BY <1>3, <1>4, <1>5
<1>8. rest \in Seq(ShownTurn) /\ Len(rest) = y - known BY <1>3, <1>4, <1>5
<1>9. ASSUME NEW i \in 1..x
      PROVE  /\ With(before[i]) = IF i <= b - a THEN before[i]
                                  ELSE T!Combined(before[i], after[i - (b - a)])
             /\ With(before[i]) \in ShownTurn
  <2>0. i \in 1..Len(before) /\ a <= b /\ a + x <= b + y BY <1>5, <1>6
  <2>1. before[i] \in ShownTurn /\ before[i].turn = a + i /\ a + i \in Int
    <3>1. before[i] \in ShownTurn BY <2>0
    <3>2. before[i].turn = a + i BY <2>0 DEF InRow
    <3>3. a + i \in Int OBVIOUS
    <3> QED BY <3>1, <3>2, <3>3
  <2>2. T!Place(after, a + i) = IF b < a + i /\ a + i <= b + y THEN a + i - b ELSE 0
    <3>1. T!Place(after, a + i) = IF b < a + i /\ a + i <= b + Len(after) THEN a + i - b ELSE 0
      BY <2>1, PlaceInRow
    <3> QED BY <1>5, <3>1
  <2>3. CASE i <= b - a
    <3>1. ~(b < a + i) BY <2>3
    <3> QED BY <2>1, <2>2, <2>3, <3>1 DEF With
  <2>4. CASE ~(i <= b - a)
    <3>1. b < a + i /\ a + i <= b + y /\ a + i - b = i - (b - a) /\ i - (b - a) \in 1..y
      BY <2>0, <2>4
    <3>2. after[i - (b - a)] \in ShownTurn BY <1>5, <3>1
    <3>3. With(before[i]) = T!Combined(before[i], after[i - (b - a)]) BY <2>1, <2>2, <3>1 DEF With
    <3> QED BY <2>1, <2>4, <3>2, <3>3, CombinedType
  <2> QED BY <2>3, <2>4
<1>10. PICK front : front = first OBVIOUS
<1>11. /\ front \in Seq(ShownTurn) /\ Len(front) = x
       /\ \A i \in 1..x : front[i] = IF i <= b - a THEN before[i]
                                     ELSE T!Combined(before[i], after[i - (b - a)])
  <2>1. first = [i \in 1..x |-> With(before[i])] BY <1>5 DEF first
  <2> QED BY <1>9, <1>10, <2>1
<1>12. PICK merged : merged = T!Merged(before, after) OBVIOUS
<1>13. merged = front \o rest BY <1>1, <1>2, <1>10, <1>12
<1>14. /\ merged \in Seq(ShownTurn) /\ Len(merged) = x + (y - known)
       /\ \A i \in 1..(x + (y - known)) : merged[i] = IF i <= x THEN front[i] ELSE rest[i - x]
  <2>1. /\ front \o rest \in Seq(ShownTurn) /\ Len(front \o rest) = Len(front) + Len(rest)
        /\ \A i \in 1..(Len(front) + Len(rest)) :
             (front \o rest)[i] = IF i <= Len(front) THEN front[i] ELSE rest[i - Len(front)]
    <3>1. front \in Seq(ShownTurn) /\ rest \in Seq(ShownTurn) BY <1>8, <1>11
    <3> QED BY <3>1, ConcatProperties, Zenon
  <2> QED BY <1>8, <1>11, <1>13, <2>1
<1>15. x + (y - known) = b - a + y BY <1>6
<1>16. ASSUME NEW i \in 1..(b - a + y)
       PROVE  merged[i] = IF i <= b - a THEN before[i]
                          ELSE IF i <= x THEN T!Combined(before[i], after[i - (b - a)])
                          ELSE after[i - (b - a)]
  <2>1. i \in Nat /\ i > 0 /\ b - a <= x /\ i \in 1..(x + (y - known)) BY <1>6, <1>15
  <2>2. merged[i] = IF i <= x THEN front[i] ELSE rest[i - x] BY <1>14, <2>1
  <2>3. CASE i <= x
    <3>1. i \in 1..x BY <2>1, <2>3
    <3> QED BY <1>11, <2>2, <2>3, <3>1
  <2>4. CASE ~(i <= x)
    <3>1. i - x \in 1..(y - known) /\ known + (i - x) = i - (b - a) BY <1>6, <2>1, <2>4
    <3>2. rest[i - x] = after[i - (b - a)] BY <1>7, <3>1
    <3>3. ~(i <= b - a) BY <2>1, <2>4
    <3> QED BY <2>2, <2>4, <3>2, <3>3
  <2> QED BY <2>3, <2>4
<1>17. \A i \in 1..(b - a + Len(after)) :
         merged[i] = IF i <= b - a THEN before[i]
                     ELSE IF i <= Len(before) THEN T!Combined(before[i], after[i - (b - a)])
                     ELSE after[i - (b - a)]
  BY <1>5, <1>16
<1> QED BY <1>5, <1>12, <1>14, <1>15, <1>17

\* One turn: it is combined with the last, or added.
LEMMA MergedOne ==
  ASSUME NEW before \in Seq(ShownTurn), NEW next \in ShownTurn, NEW a \in Int, InRow(before, a),
         NEW k \in Nat, k = Len(before)
  PROVE  LET merged == T!Merged(before, <<next>>)
         IN  /\ k > 0 /\ next.turn = a + k =>
                  /\ merged \in Seq(ShownTurn) /\ Len(merged) = k
                  /\ \A i \in 1..(k - 1) : merged[i] = before[i]
                  /\ merged[k] = T!Combined(before[k], next)
             /\ next.turn = a + k + 1 => merged = Append(before, next)
<1> DEFINE merged == T!Merged(before, <<next>>)
<1>1. /\ <<next>> \in Seq(ShownTurn) /\ Len(<<next>>) = 1 /\ <<next>>[1] = next
  OBVIOUS
<1>2. next.turn \in Nat BY DEF ShownTurn
<1>3. PICK after : after = <<next>> OBVIOUS
<1>4. after \in Seq(ShownTurn) /\ Len(after) = 1 /\ after[1] = next BY <1>1, <1>3
<1>5. PICK b \in Int : b = next.turn - 1 BY <1>2
<1>9. InRow(after, b) BY <1>2, <1>4, <1>5 DEF InRow
<1>8. merged = T!Merged(before, after) BY <1>3
<1> HIDE DEF merged
<1>6. ASSUME k > 0, next.turn = a + k
      PROVE  /\ merged \in Seq(ShownTurn) /\ Len(merged) = k
             /\ \A i \in 1..(k - 1) : merged[i] = before[i]
             /\ merged[k] = T!Combined(before[k], next)
  <2>1. a <= b /\ b + Len(after) <= a + Len(before)
    BY <1>2, <1>4, <1>5, <1>6
  <2>2. /\ T!Merged(before, after) = Joined(before, after, a, b)
        /\ merged \in Seq(ShownTurn) /\ Len(merged) = Len(before)
    BY <1>4, <1>5, <1>8, <1>9, <2>1, MergedKnown
  <2>3. ASSUME NEW i \in 1..(k - 1) PROVE merged[i] = before[i]
    <3>1. i \in 1..Len(before) /\ ~(b < a + i) BY <1>2, <1>5, <1>6
    <3> QED BY <1>8, <2>2, <3>1 DEF Joined
  <2>4. merged[k] = T!Combined(before[k], next)
    <3>1. /\ k \in 1..Len(before) /\ b < a + k /\ a + k <= b + Len(after) /\ a + k - b = 1
      <4>1. b = a + k - 1 BY <1>5, <1>6
      <4> QED BY <1>4, <1>6, <4>1
    <3> QED BY <1>4, <1>8, <2>2, <3>1 DEF Joined
  <2> QED BY <2>2, <2>3, <2>4
<1>7. ASSUME next.turn = a + k + 1 PROVE merged = Append(before, next)
  <2>1. InRow(after, a + Len(before)) BY <1>2, <1>5, <1>7, <1>9 DEF InRow
  <2>2. merged = before \o after BY <1>4, <1>8, <2>1, MergedNext
  <2>3. before \o <<next>> = Append(before, next) BY AppendIsConcat
  <2> QED BY <1>3, <2>2, <2>3
<1> QED BY <1>6, <1>7 DEF merged

-----------------------------------------------------------------------------
(* The transcript: a report is applied to what is shown                     *)

\* What an event says of the device: only the last turn changes, or a turn is added.
LEMMA EventMoves ==
  ASSUME NEW v \in Devices, NEW w \in Devices, NEW m \in PageMessages, m.kind \in T!Events,
         Reports(m, v, w), m.kind = "start" => m.call.epoch # 0
  PROVE  /\ m.turn = Len(w) /\ Len(w) > 0 /\ Len(v) \in Nat /\ Len(w) \in Nat
         /\ Len(v) = Len(w) \/ (Len(v) + 1 = Len(w) /\ w = Append(v, Fresh))
         /\ \A t \in 1..(Len(w) - 1) : t \in 1..Len(v) /\ w[t] = v[t]
<1>1. v \in Seq(DeviceTurn) /\ w \in Seq(DeviceTurn) /\ Len(v) \in Nat /\ Len(w) \in Nat
  BY DEF Devices
<1>2. CASE w = Append(v, Fresh)
  <2>1. m.turn = Len(w) BY <1>2, <1>1 DEF Reports, T!Events, Changes, UnderWay
  <2> QED BY <1>1, <1>2, <2>1
<1>3. CASE w = v /\ UnderWay(v) /\ m.turn = Len(w)
  BY <1>1, <1>3 DEF UnderWay
<1>4. ASSUME NEW turn, Changes(v, w, turn), m.turn = Len(v)
      PROVE  Len(w) = Len(v) /\ Len(v) > 0 /\ \A t \in 1..(Len(w) - 1) : w[t] = v[t]
  <2>1. Len(v) > 0 /\ w = [v EXCEPT ![Len(v)] = turn] BY <1>4 DEF Changes, UnderWay
  <2>2. DOMAIN w = 1..Len(v) /\ DOMAIN w = 1..Len(w) BY <1>1, <2>1
  <2>3. Len(w) = Len(v) BY <1>1, <2>2
  <2>4. \A t \in 1..(Len(v) - 1) : t \in DOMAIN v /\ t # Len(v) BY <1>1
  <2>5. \A t \in 1..(Len(v) - 1) : w[t] = v[t] BY <2>1, <2>4
  <2> QED BY <2>1, <2>3, <2>5
<1>5. \/ w = Append(v, Fresh)
      \/ w = v /\ UnderWay(v) /\ m.turn = Len(w)
      \/ m.turn = Len(v) /\ \E turn : Changes(v, w, turn)
  BY DEF Reports, T!Events
<1>6. CASE m.turn = Len(v) /\ \E turn : Changes(v, w, turn)
  BY <1>1, <1>4, <1>6
<1> QED BY <1>2, <1>3, <1>5, <1>6

\* The turns shown are the last ones.
LEMMA ShowsRow ==
  ASSUME NEW v \in Devices, shown \in ShownThread, Shows(v)
  PROVE  /\ v \in Seq(DeviceTurn) /\ Len(v) \in Nat
         /\ shown.turns \in Seq(ShownTurn) /\ Len(shown.turns) \in Nat /\ shown.earlier \in Nat
         /\ DOMAIN shown.turns = 1..Len(shown.turns) /\ Len(shown.turns) <= Len(v)
         /\ Len(v) - Len(shown.turns) \in Int /\ InRow(shown.turns, Len(v) - Len(shown.turns))
         /\ selecting = None =>
              /\ Len(shown.turns) + shown.earlier = Len(v)
              /\ Len(v) = 0 \/ Len(shown.turns) > 0
<1>1. v \in Seq(DeviceTurn) /\ Len(v) \in Nat BY DEF Devices
<1>2. shown.turns \in Seq(ShownTurn) /\ shown.earlier \in Nat BY DEF ShownThread
<1>3. Len(shown.turns) \in Nat /\ DOMAIN shown.turns = 1..Len(shown.turns) BY <1>2, LenProperties
<1>4. Len(shown.turns) <= Len(v) BY DEF Shows
<1>5. \A i \in 1..Len(shown.turns) : shown.turns[i].turn = Len(v) - Len(shown.turns) + i
  BY DEF Shows
<1>6. selecting = None =>
        /\ Len(shown.turns) + shown.earlier = Len(v)
        /\ shown.earlier = 0 \/ shown.earlier < Len(v)
  BY DEF Shows
<1>7. Len(v) - Len(shown.turns) \in Int BY <1>1, <1>3
<1>8. Len(shown.turns) + shown.earlier = Len(v) /\ (shown.earlier = 0 \/ shown.earlier < Len(v))
      => Len(v) = 0 \/ Len(shown.turns) > 0
  BY <1>1, <1>2, <1>3
<1> QED BY <1>1, <1>2, <1>3, <1>4, <1>5, <1>6, <1>7, <1>8 DEF InRow

\* What the page knows of the last turn.
LEMMA KnownIs ==
  ASSUME NEW v \in Devices, shown \in ShownThread, Shows(v), NEW t \in 1..(Len(v) + 1),
         t >= Len(v)
  PROVE  /\ T!Known(t) \in ShownTurn /\ T!Known(t).turn = t
         /\ t = Len(v) => Agrees(v, T!Known(t), partial) /\ (selecting = None => Full(v, T!Known(t), partial))
         /\ t # Len(v) => T!Known(t).text = <<>>
<1> DEFINE n == Len(shown.turns)
<1>1. /\ Len(v) \in Nat /\ n \in Nat /\ n <= Len(v) /\ t \in Nat /\ t > 0
      /\ shown.turns \in Seq(ShownTurn) /\ DOMAIN shown.turns = 1..n
      /\ selecting = None => Len(v) = 0 \/ n > 0
  BY ShowsRow
<1>2. InRow(shown.turns, Len(v) - n) /\ Len(v) - n \in Int BY ShowsRow
<1>3. T!Place(shown.turns, t) = IF Len(v) - n < t /\ t <= Len(v) THEN t - (Len(v) - n) ELSE 0
  BY <1>1, <1>2, PlaceInRow
<1>4. CASE t = Len(v) /\ n > 0
  <2>1. T!Place(shown.turns, t) = n /\ n # 0 BY <1>1, <1>3, <1>4
  <2>2. T!Known(t) = shown.turns[n] BY <2>1 DEF T!Known
  <2>3. n \in 1..n BY <1>1, <1>4
  <2>4. shown.turns[n].turn = t /\ Agrees(v, shown.turns[n], partial)
    <3>1. Agrees(v, shown.turns[n], partial) BY <2>3 DEF Shows
    <3>2. shown.turns[n].turn = Len(v) - n + n BY <1>2, <2>3 DEF InRow
    <3> QED BY <1>1, <1>4, <3>1, <3>2
  <2>5. selecting = None => Full(v, shown.turns[n], partial) BY <2>3 DEF Shows
  <2> QED BY <1>1, <1>4, <2>2, <2>3, <2>4, <2>5
<1>5. CASE t = Len(v) /\ n = 0
  <2>1. T!Place(shown.turns, t) = 0 BY <1>1, <1>3, <1>5
  <2>2. T!Known(t) = [turn |-> t, status |-> None, text |-> <<>>, item |-> FALSE]
    BY <2>1 DEF T!Known
  <2>3. selecting # None BY <1>1, <1>5
  <2> QED BY <1>1, <1>5, <2>2, <2>3 DEF ShownTurn, Agrees
<1>6. CASE t # Len(v)
  <2>1. T!Place(shown.turns, t) = 0 BY <1>1, <1>3, <1>6
  <2>2. T!Known(t) = [turn |-> t, status |-> None, text |-> <<>>, item |-> FALSE]
    BY <2>1 DEF T!Known
  <2> QED BY <1>1, <1>6, <2>2 DEF ShownTurn
<1> QED BY <1>1, <1>4, <1>5, <1>6

\* A turn is combined with what is known of it: the others stay as they are.
ChangedLast(merged, t, next) ==
  LET n == Len(merged)
  IN  /\ merged \in Seq(ShownTurn) /\ n \in Nat /\ n > 0 /\ n <= t
      /\ selecting = None => n + shown.earlier = t
      /\ \A i \in 1..(n - 1) :
           i \in 1..Len(shown.turns) /\ merged[i] = shown.turns[i] /\ merged[i].turn = t - n + i
      /\ merged[n] = T!Combined(T!Known(t), next)

LEMMA TurnChanged ==
  ASSUME NEW v \in Devices, shown \in ShownThread, Shows(v), NEW t \in 1..(Len(v) + 1),
         t >= Len(v), NEW next \in ShownTurn, next.turn = t, next.item \/ next.text = <<>>
  PROVE  ChangedLast(T!Merged(shown.turns, <<next>>), t, next)
         /\ (t # Len(v) => T!Merged(shown.turns, <<next>>) = Append(shown.turns, next))
<1> DEFINE k == Len(shown.turns)
           merged == T!Merged(shown.turns, <<next>>)
<1>1. /\ Len(v) \in Nat /\ k \in Nat /\ k <= Len(v) /\ t \in Nat /\ t > 0
      /\ shown.turns \in Seq(ShownTurn) /\ DOMAIN shown.turns = 1..k /\ shown.earlier \in Nat
      /\ selecting = None => k + shown.earlier = Len(v) /\ (Len(v) = 0 \/ k > 0)
  BY ShowsRow
<1>2. InRow(shown.turns, Len(v) - k) /\ Len(v) - k \in Int BY ShowsRow
<1>3. /\ k > 0 /\ t = Len(v) - k + k =>
           /\ merged \in Seq(ShownTurn) /\ Len(merged) = k
           /\ \A i \in 1..(k - 1) : merged[i] = shown.turns[i]
           /\ merged[k] = T!Combined(shown.turns[k], next)
      /\ t = Len(v) - k + k + 1 => merged = Append(shown.turns, next)
  <2>1. PICK a \in Int : a = Len(v) - k BY <1>2
  <2>2. InRow(shown.turns, a) /\ k = Len(shown.turns) BY <1>2, <2>1
  <2> HIDE DEF k
  <2>3. /\ k > 0 /\ next.turn = a + k =>
           /\ merged \in Seq(ShownTurn) /\ Len(merged) = k
           /\ \A i \in 1..(k - 1) : merged[i] = shown.turns[i]
           /\ merged[k] = T!Combined(shown.turns[k], next)
        /\ next.turn = a + k + 1 => merged = Append(shown.turns, next)
    <3>1. shown.turns \in Seq(ShownTurn) /\ k \in Nat BY <1>1
    <3>2. a \in Int BY <2>1
    <3> QED BY <2>2, <3>1, <3>2, MergedOne, SMTT(30)
  <2> HIDE DEF merged
  <2> QED BY <2>1, <2>3
<1>0. \A i \in 1..k : shown.turns[i].turn = Len(v) - k + i BY <1>2 DEF InRow
<1> HIDE DEF merged, k
<1>4. T!Place(shown.turns, t) = IF Len(v) - k < t /\ t <= Len(v) THEN t - (Len(v) - k) ELSE 0
  BY <1>1, <1>2, PlaceInRow
<1>5. ASSUME t = Len(v) /\ k > 0 PROVE ChangedLast(merged, t, next)
  <2>1. T!Place(shown.turns, t) = k /\ k # 0 BY <1>1, <1>4, <1>5
  <2>2. T!Known(t) = shown.turns[k] BY <2>1 DEF T!Known
  <2>3. /\ merged \in Seq(ShownTurn) /\ Len(merged) = k
        /\ \A i \in 1..(k - 1) : merged[i] = shown.turns[i]
        /\ merged[k] = T!Combined(shown.turns[k], next)
    BY <1>1, <1>3, <1>5
  <2>4. \A i \in 1..(k - 1) : i \in 1..k /\ shown.turns[i].turn = t - k + i
    BY <1>0, <1>1, <1>5
  <2>5. selecting = None => k + shown.earlier = t BY <1>1, <1>5
  <2>6. k > 0 /\ k <= t BY <1>1, <1>5
  <2>7. \A i \in 1..(k - 1) : i \in 1..Len(shown.turns) /\ merged[i].turn = t - k + i
    BY <2>3, <2>4 DEF k
  <2>8. merged[k] = T!Combined(T!Known(t), next) BY <2>2, <2>3
  <2> QED BY <1>1, <1>5, <2>3, <2>5, <2>6, <2>7, <2>8 DEF ChangedLast
<1>6. ASSUME t # Len(v) \/ k = 0 PROVE ChangedLast(merged, t, next)
  <2>1. T!Place(shown.turns, t) = 0 BY <1>1, <1>4, <1>6
  <2>2. T!Known(t) = [turn |-> t, status |-> None, text |-> <<>>, item |-> FALSE]
    BY <2>1 DEF T!Known
  <2>3. t = Len(v) + 1 \/ (k = 0 /\ t = Len(v) /\ selecting # None) BY <1>1, <1>6
  <2>4. k = 0 /\ t = Len(v) => merged = Append(shown.turns, next)
    <3> SUFFICES ASSUME k = 0, t = Len(v) PROVE merged = Append(shown.turns, next) OBVIOUS
    <3>1. InRow(shown.turns, t - 1) /\ t - 1 \in Int /\ t = t - 1 + k + 1 BY <1>1 DEF InRow, k
    <3> QED BY <1>1, <3>1, MergedOne DEF k, merged
  <2>5. merged = Append(shown.turns, next) BY <1>1, <1>3, <2>3, <2>4
  <2>6. /\ merged \in Seq(ShownTurn) /\ Len(merged) = k + 1
        /\ \A i \in 1..k : merged[i] = shown.turns[i]
        /\ merged[k + 1] = next
    BY <1>1, <2>5, AppendProperties DEF k
  <2>7. T!Combined(T!Known(t), next) = next
    <3>1. next = [turn |-> t, status |-> next.status, text |-> next.text, item |-> next.item]
      BY DEF ShownTurn
    <3>2. /\ T!Combined(T!Known(t), next).turn = t
          /\ T!Combined(T!Known(t), next).status = next.status
          /\ T!Combined(T!Known(t), next).text = next.text
          /\ T!Combined(T!Known(t), next).item = next.item
      BY <2>2 DEF T!Combined, T!FullerText, ShownTurn
    <3>3. T!Combined(T!Known(t), next) \in ShownTurn
      <4>1. T!Known(t) \in ShownTurn BY <1>1, <2>2 DEF ShownTurn
      <4> QED BY <4>1, CombinedType
    <3> QED BY <3>1, <3>2, <3>3 DEF ShownTurn
  <2>8. k + 1 \in Nat /\ k + 1 > 0 /\ k + 1 <= t BY <1>1, <2>3
  <2>9. selecting = None => k + 1 + shown.earlier = t BY <1>1, <2>3
  <2>10. \A i \in 1..k : /\ i \in 1..Len(shown.turns) /\ shown.turns[i].turn = Len(v) - k + i
                          /\ shown.turns[i].turn = t - (k + 1) + i
    <3>1. \A i \in 1..k : shown.turns[i].turn = Len(v) - k + i BY <1>0
    <3>2. k = 0 \/ Len(v) - k = t - (k + 1) BY <1>1, <2>3
    <3>3. \A i \in 1..k : i \in 1..Len(shown.turns) BY DEF k
    <3>4. k = 0 => \A i \in 1..k : FALSE BY <1>1
    <3> QED BY <3>1, <3>2, <3>3, <3>4
  <2>11. k + 1 - 1 = k BY <1>1
  <2>12. merged[k + 1] = T!Combined(T!Known(t), next) BY <2>6, <2>7
  <2>13. PICK n : n = k + 1 OBVIOUS
  <2>14. Len(merged) = n /\ n \in Nat /\ n > 0 /\ n <= t /\ n - 1 = k
    BY <1>1, <2>6, <2>8, <2>11, <2>13
  <2>15. /\ selecting = None => n + shown.earlier = t
         /\ \A i \in 1..k : shown.turns[i].turn = t - n + i
         /\ merged[n] = T!Combined(T!Known(t), next)
    BY <2>9, <2>10, <2>12, <2>13
  <2>16. \A i \in 1..(n - 1) :
           /\ i \in 1..Len(shown.turns) /\ merged[i] = shown.turns[i]
           /\ merged[i].turn = t - n + i
    BY <2>6, <2>10, <2>14, <2>15
  <2> QED BY <2>6, <2>14, <2>15, <2>16 DEF ChangedLast
<1>7. t # Len(v) => merged = Append(shown.turns, next) BY <1>1, <1>3
<1>8. (t = Len(v) /\ k > 0) \/ t # Len(v) \/ k = 0 BY <1>1
<1> QED BY <1>5, <1>6, <1>7, <1>8 DEF merged

\* The last turn of the device changed, and what is shown of it: the rest is shown as before.
LEMMA ShowsAfter ==
  ASSUME NEW v \in Devices, NEW w \in Devices, shown \in ShownThread, Shows(v),
         NEW t \in Nat, t = Len(w), t > 0, Len(v) <= t,
         \A i \in 1..(t - 1) : i \in 1..Len(v) /\ w[i] = v[i],
         NEW next, ChangedLast(shown'.turns, t, next),
         NEW last, last = T!Combined(T!Known(t), next), last.turn = t,
         Agrees(w, last, partial'), selecting = None => Full(w, last, partial'),
         shown'.earlier = shown.earlier, selecting' = selecting,
         partial \subseteq partial', partial' \subseteq partial \cup {t},
         t \in partial' => w[t].text > 0,
         shown'.status \in {None, StatusIn(w)}, selecting = None => shown'.status # None,
         selecting \in {"active", "idle"} /\ shown'.status = None => selecting = StatusIn(w)
  PROVE  Shows(w)'
<1> DEFINE n == Len(shown'.turns)
<1>1. /\ n \in Nat /\ n > 0 /\ n <= t
      /\ selecting = None => n + shown.earlier = t
      /\ \A i \in 1..(n - 1) :
           i \in 1..Len(shown.turns) /\ shown'.turns[i] = shown.turns[i]
           /\ shown'.turns[i].turn = t - n + i
      /\ shown'.turns[n] = last
  BY DEF ChangedLast
<1> HIDE DEF n
<1>2. \A i \in 1..(t - 1) : i # t /\ (i \in partial' <=> i \in partial) OBVIOUS
<1>3. ASSUME NEW i \in 1..n
      PROVE  /\ shown'.turns[i].turn = t - n + i /\ Agrees(w, shown'.turns[i], partial')
             /\ selecting = None => Full(w, shown'.turns[i], partial')
  <2>1. CASE i = n
    <3>1. t - n + n = t BY <1>1
    <3> QED BY <1>1, <2>1, <3>1
  <2>2. CASE i # n
    <3>1. i \in 1..(n - 1) BY <1>1, <2>2
    <3>2. PICK turn : turn = shown.turns[i] OBVIOUS
    <3>3. shown'.turns[i] = turn /\ turn.turn = t - n + i /\ i \in 1..Len(shown.turns)
      BY <1>1, <3>1, <3>2
    <3>4. turn.turn \in 1..(t - 1) BY <1>1, <3>1, <3>3
    <3>5. Agrees(v, turn, partial) /\ (selecting = None => Full(v, turn, partial)) BY <3>2, <3>3 DEF Shows
    <3>6. w[turn.turn] = v[turn.turn] /\ turn.turn \in 1..Len(w) BY <3>4
    <3>7. Trusted(w, turn.turn, partial') <=> Trusted(v, turn.turn, partial) BY <1>2, <3>4, <3>6 DEF Trusted
    <3>8. Agrees(w, turn, partial') BY <3>5, <3>6, <3>7 DEF Agrees
    <3>9. selecting = None => Full(w, turn, partial') BY <3>5, <3>6, <3>7 DEF Full
    <3> QED BY <3>3, <3>8, <3>9
  <2> QED BY <2>1, <2>2
<1>4. \A u \in partial' : u \in 1..Len(w) /\ w[u].text > 0
  <2>1. \A u \in partial : u \in 1..Len(v) /\ v[u].text > 0 BY DEF Shows
  <2>2. Len(v) \in Nat BY DEF Devices
  <2>3. SUFFICES ASSUME NEW u \in partial', u # t PROVE u \in 1..Len(w) /\ w[u].text > 0
    <3>1. t \in 1..Len(w) OBVIOUS
    <3> QED BY <3>1
  <2>4. u \in partial BY <2>3
  <2>6. u \in 1..(t - 1) BY <2>1, <2>2, <2>3, <2>4
  <2> QED BY <2>1, <2>4, <2>6
<1>5. selecting' = None =>
        /\ n + shown'.earlier = Len(w) /\ (shown'.earlier = 0 \/ shown'.earlier < Len(w))
        /\ shown'.status # None
  <2> SUFFICES ASSUME selecting' = None
               PROVE  /\ n + shown'.earlier = Len(w)
                      /\ shown'.earlier = 0 \/ shown'.earlier < Len(w)
                      /\ shown'.status # None
    OBVIOUS
  <2>1. shown.earlier \in Nat BY DEF ShownThread
  <2> QED BY <1>1, <2>1
<1>6. shown'.earlier <= Len(w)
  <2>1. shown.earlier \in Nat BY DEF ShownThread
  <2>2. shown.earlier <= Len(v) /\ Len(v) \in Nat BY DEF Shows, Devices
  <2> QED BY <2>1, <2>2
<1> QED BY <1>1, <1>3, <1>4, <1>5, <1>6 DEF Shows, n

\* The last turn is under way, and changes.
LEMMA ChangesIs ==
  ASSUME NEW v \in Devices, NEW turn \in DeviceTurn, NEW w, Changes(v, w, turn)
  PROVE  /\ Len(w) = Len(v) /\ Len(v) \in Nat /\ Len(v) > 0 /\ w[Len(v)] = turn
         /\ v[Len(v)] \in DeviceTurn /\ ~v[Len(v)].done
         /\ StatusIn(v) = "active" /\ StatusIn(w) = IF turn.done THEN "idle" ELSE "active"
         /\ \A i \in 1..(Len(v) - 1) : i \in 1..Len(v) /\ w[i] = v[i]
<1>1. v \in Seq(DeviceTurn) /\ Len(v) \in Nat /\ Len(v) > 0 /\ ~v[Len(v)].done
  BY DEF Devices, Changes, UnderWay
<1>2. w = [v EXCEPT ![Len(v)] = turn] BY DEF Changes
<1>3. Len(v) \in 1..Len(v) /\ DOMAIN v = 1..Len(v) BY <1>1
<1>4. w \in Seq(DeviceTurn) /\ Len(w) = Len(v) /\ w[Len(v)] = turn BY <1>1, <1>2, <1>3, ExceptSeq
<1>5. \A i \in 1..(Len(v) - 1) : i \in 1..Len(v) /\ w[i] = v[i] BY <1>1, <1>2
<1>6. StatusIn(v) = "active" BY DEF StatusIn, Changes
<1>7. StatusIn(w) = IF turn.done THEN "idle" ELSE "active" BY <1>1, <1>4 DEF StatusIn, UnderWay
<1> QED BY <1>1, <1>3, <1>4, <1>5, <1>6, <1>7

LEMMA AddedIs ==
  ASSUME NEW v \in Devices
  PROVE  /\ Len(Append(v, Fresh)) = Len(v) + 1 /\ Len(v) \in Nat
         /\ Append(v, Fresh)[Len(v) + 1] = Fresh
         /\ StatusIn(Append(v, Fresh)) = "active"
         /\ \A i \in 1..Len(v) : Append(v, Fresh)[i] = v[i]
<1>1. v \in Seq(DeviceTurn) /\ Len(v) \in Nat /\ Fresh \in DeviceTurn
  BY DEF Devices, Fresh, DeviceTurn
<1>2. /\ Len(Append(v, Fresh)) = Len(v) + 1 /\ Append(v, Fresh)[Len(v) + 1] = Fresh
      /\ \A i \in 1..Len(v) : Append(v, Fresh)[i] = v[i]
  BY <1>1
<1>3. StatusIn(Append(v, Fresh)) = "active" BY <1>1, <1>2 DEF StatusIn, UnderWay, Fresh
<1> QED BY <1>1, <1>2, <1>3

\* What is known of a turn is combined with what is reported of it.
LEMMA CombinedIs ==
  ASSUME shown \in ShownThread, NEW v \in Devices, Shows(v), NEW t \in 1..(Len(v) + 1),
         t >= Len(v), NEW next \in ShownTurn
  PROVE  LET last == T!Combined(T!Known(t), next)
         IN  /\ last \in ShownTurn /\ last.turn = t
             /\ last.status = IF next.status = None THEN T!Known(t).status ELSE next.status
             /\ last.text = IF next.item /\ next.text # <<>> THEN next.text ELSE T!Known(t).text
  BY KnownIs, CombinedType DEF T!Combined, T!FullerText

\* The page applies a turn that begins, one that goes on, and one that ends.
LEMMA BeginningShows ==
  ASSUME T!TranscriptAssumption,
         shown \in ShownThread, NEW v \in Devices, NEW w \in Devices, Shows(v),
         w = Append(v, Fresh) \/ (w = v /\ UnderWay(v)),
         NEW next, next = [turn |-> Len(w), status |-> "running", text |-> <<>>, item |-> FALSE],
         shown' = [shown EXCEPT !.status = "active", !.turns = T!Merged(@, <<next>>)],
         UNCHANGED <<selecting, partial>>
  PROVE  Shows(w)' /\ shown' \in ShownThread /\ ChangedLast(shown'.turns, Len(w), next)
<1> DEFINE t == Len(w)
           known == T!Known(t)
           last == T!Combined(known, next)
<1>0. /\ v \in Seq(DeviceTurn) /\ Len(v) \in Nat BY DEF Devices
<1>1. /\ t \in Nat /\ t > 0 /\ t \in 1..(Len(v) + 1) /\ t >= Len(v)
      /\ \A i \in 1..(t - 1) : i \in 1..Len(v) /\ w[i] = v[i]
      /\ StatusIn(w) = "active" /\ ~w[t].done
      /\ w = v \/ (t # Len(v) /\ w[t].text = 0)
  <2>1. CASE w = Append(v, Fresh)
    <3>1. Fresh.done = FALSE /\ Fresh.text = 0 BY DEF Fresh
    <3> QED BY <1>0, <2>1, <3>1, AddedIs
  <2>2. CASE w = v /\ UnderWay(v) BY <1>0, <2>2 DEF UnderWay, StatusIn
  <2> QED BY <2>1, <2>2
<1> HIDE DEF t
<1>2. next \in ShownTurn /\ next.turn = t /\ next.text = <<>> /\ ~next.item /\ next.status = "running"
  BY <1>1 DEF t, ShownTurn
<1>3. None # "running" BY DEF T!TranscriptAssumption
<1>4. ChangedLast(T!Merged(shown.turns, <<next>>), t, next) BY <1>1, <1>2, TurnChanged
<1>5. /\ shown'.turns = T!Merged(shown.turns, <<next>>) /\ shown'.status = "active"
      /\ shown'.earlier = shown.earlier
  BY DEF ShownThread
<1>6. shown' \in ShownThread
  <2>1. T!Merged(shown.turns, <<next>>) \in Seq(ShownTurn) BY <1>4 DEF ChangedLast
  <2> QED BY <2>1 DEF ShownThread
<1>7. /\ last.turn = t /\ last.status = "running" /\ last.text = known.text
  BY <1>1, <1>2, <1>3, CombinedIs
<1>8. /\ w # v => known.text = <<>>
      /\ w = v => Agrees(v, known, partial) /\ (selecting = None => Full(v, known, partial))
      /\ known.turn = t
  <2>1. /\ t # Len(v) => known.text = <<>>
        /\ t = Len(v) => Agrees(v, known, partial) /\ (selecting = None => Full(v, known, partial))
        /\ known.turn = t
    BY <1>1, KnownIs
  <2> QED BY <1>1, <2>1 DEF t
<1>9. State(w[t]) = "running" BY <1>1 DEF State
<1> HIDE DEF last, known
<1>10. Agrees(w, last, partial) /\ (selecting = None => Full(w, last, partial))
  <2>1. CASE w = v
    BY <1>3, <1>7, <1>8, <1>9, <2>1 DEF Agrees, Full
  <2>2. CASE w # v
    <3>1. last.text = <<>> /\ w[t].text = 0 BY <1>1, <1>7, <1>8, <2>2
    <3>2. T!Text(0) = <<>> BY TextFacts
    <3>3. t \in 1..Len(w) BY <1>1 DEF t
    <3> QED BY <1>3, <1>7, <1>9, <3>1, <3>2, <3>3 DEF Agrees, Full
  <2> QED BY <2>1, <2>2
<1>11. t \in partial => w[t].text > 0
  <2>1. \A u \in partial : u \in 1..Len(v) /\ v[u].text > 0 BY DEF Shows
  <2>2. t # Len(v) => t \notin 1..Len(v) BY <1>0, <1>1
  <2> QED BY <1>1, <2>1, <2>2
<1>12. ChangedLast(shown'.turns, t, next) BY <1>4, <1>5
<1>13. Shows(w)'
  <2>1. None # "active" BY DEF T!TranscriptAssumption
  <2>2. t = Len(w) /\ Len(v) <= t BY <1>0, <1>1 DEF t
  <2>3. last = T!Combined(T!Known(t), next) BY DEF last, known
  <2> QED BY <1>1, <1>5, <1>7, <1>10, <1>11, <1>12, <2>1, <2>2, <2>3, ShowsAfter
<1> QED BY <1>6, <1>12, <1>13 DEF t

LEMMA ChangeShows ==
  ASSUME T!TranscriptAssumption,
         shown \in ShownThread, NEW v \in Devices, NEW w \in Devices, Shows(v),
         NEW turn \in DeviceTurn, Changes(v, w, turn),
         NEW next \in ShownTurn, next.turn = Len(v), next.item \/ next.text = <<>>,
         NEW status, shown' = [shown EXCEPT !.status = status, !.turns = T!Merged(@, <<next>>)],
         UNCHANGED selecting,
         partial \subseteq partial', partial' \subseteq partial \cup {Len(v)},
         Len(v) \in partial' => turn.text > 0,
         \/ ~turn.done /\ status = shown.status /\ next.status = None
         \/ turn.done /\ status = "idle" /\ next.status = "done",
         NEW text, text = IF next.item /\ next.text # <<>> THEN next.text ELSE T!Known(Len(v)).text,
         Len(v) \notin partial' \/ turn.whole =>
           text \in {<<>>, T!Text(turn.text)} /\ (selecting = None => text = T!Text(turn.text))
  PROVE  Shows(w)' /\ shown' \in ShownThread /\ ChangedLast(shown'.turns, Len(w), next)
<1> DEFINE t == Len(v)
           known == T!Known(t)
           last == T!Combined(known, next)
<1>1. /\ Len(w) = t /\ t \in Nat /\ t > 0 /\ w[t] = turn
      /\ v[t] \in DeviceTurn /\ ~v[t].done
      /\ StatusIn(v) = "active" /\ StatusIn(w) = IF turn.done THEN "idle" ELSE "active"
      /\ \A i \in 1..(t - 1) : i \in 1..Len(v) /\ w[i] = v[i]
  BY ChangesIs
<1> HIDE DEF t
<1>2. t \in 1..(Len(v) + 1) /\ t >= Len(v) /\ next.turn = t /\ t = Len(v) BY <1>1 DEF t
<1>3. None \notin {"", "active", "idle", "running", "done"} BY DEF T!TranscriptAssumption
<1>4. ChangedLast(T!Merged(shown.turns, <<next>>), t, next) BY <1>1, <1>2, TurnChanged
<1>5. /\ shown'.turns = T!Merged(shown.turns, <<next>>) /\ shown'.status = status
      /\ shown'.earlier = shown.earlier
  BY DEF ShownThread
<1>6. shown' \in ShownThread
  <2>1. T!Merged(shown.turns, <<next>>) \in Seq(ShownTurn) BY <1>4 DEF ChangedLast
  <2>2. status \in {None, "active", "idle"} BY DEF ShownThread
  <2> QED BY <2>1, <2>2 DEF ShownThread
<1>7. /\ last.turn = t /\ last.text = text
      /\ last.status = IF next.status = None THEN known.status ELSE next.status
  BY <1>1, <1>2, CombinedIs DEF t
<1>8. /\ known.turn = t /\ Agrees(v, known, partial)
      /\ selecting = None => Full(v, known, partial)
  BY <1>1, <1>2, KnownIs
<1>9. State(v[t]) = "running" /\ State(w[t]) = IF turn.done THEN "done" ELSE "running"
  BY <1>1 DEF State
<1> HIDE DEF last, known
<1>10. last.status \in {None, State(w[t])} /\ (selecting = None => last.status # None)
  <2>1. known.status \in {None, "running"} /\ (selecting = None => known.status # None)
    BY <1>8, <1>9 DEF Agrees, Full
  <2> QED BY <1>3, <1>7, <1>9, <2>1
<1>11. Agrees(w, last, partial') /\ (selecting = None => Full(w, last, partial'))
  <2>1. t \in 1..Len(w) BY <1>1
  <2>2. Trusted(w, t, partial') =>
          text \in {<<>>, T!Text(w[t].text)} /\ (selecting = None => text = T!Text(w[t].text))
    BY <1>1, <1>2 DEF Trusted
  <2> QED BY <1>7, <1>10, <2>1, <2>2 DEF Agrees, Full
<1>12. ChangedLast(shown'.turns, t, next) BY <1>4, <1>5
<1>13. /\ status \in {None, StatusIn(w)} /\ (selecting = None => status # None)
       /\ selecting \in {"active", "idle"} /\ status = None => selecting = StatusIn(w)
  <2>1. /\ shown.status \in {None, StatusIn(v)} /\ (selecting = None => shown.status # None)
        /\ selecting \in {"active", "idle"} /\ shown.status = None => selecting = StatusIn(v)
    BY DEF Shows
  <2> QED BY <1>1, <1>3, <2>1
<1>14. Shows(w)'
  <2>1. last = T!Combined(T!Known(t), next) BY DEF last, known
  <2>2. t \in partial' => w[t].text > 0 BY <1>1, <1>2
  <2>3. Len(v) <= t /\ partial' \subseteq partial \cup {t} BY <1>1, <1>2
  <2> QED BY <1>1, <1>5, <1>7, <1>11, <1>12, <1>13, <2>1, <2>2, <2>3, ShowsAfter
<1> QED BY <1>1, <1>6, <1>12, <1>14

\* What the page knows of a turn under way, of which a text is trusted.
LEMMA KnownText ==
  ASSUME shown \in ShownThread, NEW v \in Devices, Shows(v), Len(v) > 0
  PROVE  LET text == T!Known(Len(v)).text
         IN  /\ text \in Seq(Nat) /\ v[Len(v)] \in DeviceTurn
             /\ Len(v) \in partial => v[Len(v)].text > 0
             /\ Len(v) \notin partial \/ v[Len(v)].whole =>
                  /\ text \in {<<>>, T!Text(v[Len(v)].text)}
                  /\ selecting = None => text = T!Text(v[Len(v)].text)
<1>1. v \in Seq(DeviceTurn) /\ Len(v) \in Nat BY DEF Devices
<1>2. Len(v) \in 1..(Len(v) + 1) /\ Len(v) >= Len(v) BY <1>1
<1>3. PICK t : t = Len(v) OBVIOUS
<1>4. /\ T!Known(t) \in ShownTurn /\ T!Known(t).turn = t
      /\ Agrees(v, T!Known(t), partial)
      /\ selecting = None => Full(v, T!Known(t), partial)
  BY <1>2, <1>3, KnownIs
<1>5. T!Known(t).text \in Seq(Nat) BY <1>4 DEF ShownTurn
<1>6. v[t] \in DeviceTurn BY <1>1, <1>3
<1>7. t \in partial => v[t].text > 0 BY DEF Shows
<1>8. Trusted(v, t, partial) =>
        /\ T!Known(t).text \in {<<>>, T!Text(v[t].text)}
        /\ selecting = None => T!Known(t).text = T!Text(v[t].text)
  BY <1>4 DEF Agrees, Full
<1> QED BY <1>3, <1>5, <1>6, <1>7, <1>8 DEF Trusted

\* Messages have the fields of their kind.
LEMMA MessageFields ==
  ASSUME NEW m \in PageMessages
  PROVE  /\ m.kind \in T!Events \/ m \in AnswerMessages
         /\ m.kind \in T!Events <=> m.kind \notin T!Answers
         /\ m.kind \in T!Events => m.turn \in Nat
         /\ m.kind = "delta" => m.delta \in Nat
         /\ m.kind = "item" => m.text \in Seq(Nat)
         /\ m.kind \in T!Answers => m \in AnswerMessages /\ m.call \in PageCalls
         /\ m.kind = "start" => m.call \in PageCalls /\ m.call.kind = "start"
  BY DEF PageMessages, AnswerMessages, PageCalls, T!Events, T!Answers

LEMMA EventTurn ==
  ASSUME NEW m \in PageMessages, m.kind \in T!Events
  PROVE  m.turn \in Nat /\ m.turn > 0
<1>1. m \notin AnswerMessages BY DEF AnswerMessages, T!Events
<1>2. m.turn \in Nat \ {0} BY <1>1 DEF PageMessages
<1> QED BY <1>2

\* The page applies an event: it shows the device as the event reports it.
LEMMA EventShows ==
  ASSUME T!TranscriptAssumption,
         shown \in ShownThread, NEW v \in Devices, NEW w \in Devices, Shows(v),
         NEW m \in PageMessages, m.kind \in T!Events, Reports(m, v, w),
         m.kind = "start" => m.call.epoch # 0,
         IF m.kind = "start"
         THEN shown' = [shown EXCEPT
                !.turns = IF \E i \in DOMAIN @ : @[i].turn = m.turn THEN @
                          ELSE Append(@, [turn |-> m.turn, status |-> "running",
                                          text |-> <<>>, item |-> FALSE]),
                !.status = "active"]
         ELSE shown' = T!Applied(m),
         partial' = IF m.kind = "delta" /\ m.delta # Len(T!Known(m.turn).text) + 1
                    THEN partial \cup {m.turn} ELSE partial,
         UNCHANGED selecting
  PROVE  /\ Shows(w)' /\ shown' \in ShownThread
         /\ \E next : ChangedLast(shown'.turns, Len(w), next)
<1>1. /\ m.turn = Len(w) /\ Len(w) > 0 /\ Len(v) \in Nat /\ Len(w) \in Nat
      /\ Len(v) = Len(w) \/ (Len(v) + 1 = Len(w) /\ w = Append(v, Fresh))
  BY EventMoves
<1>2. CASE m.kind = "start"
  <2> DEFINE next == [turn |-> Len(w), status |-> "running", text |-> <<>>, item |-> FALSE]
  <2>1. w = Append(v, Fresh) /\ partial' = partial BY <1>2 DEF Reports
  <2>2. Len(w) = Len(v) + 1 BY <2>1, AddedIs
  <2>3. /\ shown.turns \in Seq(ShownTurn) /\ DOMAIN shown.turns = 1..Len(shown.turns)
        /\ Len(shown.turns) \in Nat /\ InRow(shown.turns, Len(v) - Len(shown.turns))
    BY ShowsRow
  <2>4. ~ \E i \in DOMAIN shown.turns : shown.turns[i].turn = m.turn
    BY <1>1, <2>2, <2>3 DEF InRow
  <2>5. shown' = [shown EXCEPT !.turns = Append(@, next), !.status = "active"]
    BY <1>1, <1>2, <2>4 DEF ShownThread
  <2>6. next \in ShownTurn BY <1>1 DEF ShownTurn
  <2>7. T!Merged(shown.turns, <<next>>) = Append(shown.turns, next)
    <3>1. Len(w) \in 1..(Len(v) + 1) /\ Len(w) >= Len(v) /\ Len(w) # Len(v) BY <1>1, <2>2
    <3>2. next.turn = Len(w) /\ next.text = <<>> OBVIOUS
    <3> HIDE DEF next
    <3> QED BY <2>6, <3>1, <3>2, TurnChanged
  <2>8. shown' = [shown EXCEPT !.status = "active", !.turns = T!Merged(@, <<next>>)]
    <3> HIDE DEF next
    <3> QED BY <2>5, <2>7 DEF ShownThread
  <2> QED BY <2>1, <2>8, BeginningShows
<1>3. CASE m.kind = "started"
  <2> DEFINE next == [turn |-> Len(w), status |-> "running", text |-> <<>>, item |-> FALSE]
  <2>1. w = Append(v, Fresh) \/ (w = v /\ UnderWay(v)) BY <1>3 DEF Reports
  <2>2. shown' = [shown EXCEPT !.status = "active", !.turns = T!Merged(shown.turns, <<next>>)]
    BY <1>1, <1>3 DEF T!Applied
  <2>3. shown' = [shown EXCEPT !.status = "active", !.turns = T!Merged(@, <<next>>)]
    <3> HIDE DEF next
    <3> QED BY <2>2 DEF ShownThread
  <2>4. partial' = partial BY <1>3
  <2> QED BY <2>1, <2>3, <2>4, BeginningShows
<1>4. ASSUME m.kind \in {"delta", "item", "completed"}
      PROVE  m.turn = Len(v) /\ Len(v) > 0 /\ Len(w) = Len(v) /\ v[Len(v)] \in DeviceTurn
  <2>1. m.turn = Len(v) /\ \E turn : Changes(v, w, turn) BY <1>4 DEF Reports
  <2>2. Len(v) > 0 BY <2>1 DEF Changes, UnderWay
  <2> QED BY <1>1, <2>1, <2>2, KnownText
<1>5. CASE m.kind = "delta"
  <2> DEFINE t == Len(v)
             text == Append(T!Known(t).text, m.delta)
             next == [turn |-> t, status |-> None, item |-> TRUE, text |-> text]
             turn == [text |-> m.delta, done |-> FALSE, whole |-> FALSE]
  <2>1. /\ m.turn = t /\ m.delta = v[t].text + 1 /\ Changes(v, w, turn) /\ m.delta \in Nat
        /\ t > 0 /\ v[t] \in DeviceTurn
    BY <1>4, <1>5, MessageFields DEF Reports
  <2>2. /\ T!Known(t).text \in Seq(Nat)
        /\ t \notin partial => T!Known(t).text \in {<<>>, T!Text(v[t].text)}
    BY <2>1, KnownText
  <2>3. text \in Seq(Nat) /\ text # <<>> BY <2>1, <2>2
  <2>4. next \in ShownTurn BY <1>1, <2>1, <2>3 DEF ShownTurn
  <2>5. shown' = [shown EXCEPT !.turns = T!Merged(shown.turns, <<next>>)]
    BY <1>5, <2>1 DEF T!Applied
  <2>6. shown' = [shown EXCEPT !.status = shown.status, !.turns = T!Merged(@, <<next>>)]
    <3> HIDE DEF next
    <3> QED BY <2>5 DEF ShownThread
  <2>7. /\ partial \subseteq partial' /\ partial' \subseteq partial \cup {t}
        /\ t \notin partial' => t \notin partial /\ m.delta = Len(T!Known(t).text) + 1
    BY <1>5, <2>1
  <2>8. turn \in DeviceTurn /\ turn.text = m.delta /\ turn.text > 0 /\ ~turn.done /\ ~turn.whole
    BY <2>1 DEF DeviceTurn
  <2>9. t \notin partial' => text = T!Text(m.delta)
    <3> SUFFICES ASSUME t \notin partial' PROVE text = T!Text(m.delta) OBVIOUS
    <3>1. m.delta = Len(T!Known(t).text) + 1 /\ T!Known(t).text \in {<<>>, T!Text(v[t].text)}
      BY <2>2, <2>7
    <3>2. v[t].text \in Nat BY <2>1 DEF DeviceTurn
    <3>3. PICK n \in Nat : n = v[t].text BY <3>2
    <3>4. /\ T!Text(n + 1) = Append(T!Text(n), n + 1) /\ Len(T!Text(n)) = n
          /\ T!Text(n) = <<>> <=> n = 0
      BY TextFacts
    <3>5. m.delta = n + 1 BY <2>1, <3>3
    <3>6. T!Known(t).text = T!Text(n)
      <4>1. CASE T!Known(t).text = <<>>
        <5>1. Len(T!Known(t).text) = 0 BY <4>1
        <5> QED BY <3>1, <3>4, <3>5, <4>1, <5>1
      <4> QED BY <3>1, <3>3, <4>1
    <3> QED BY <3>4, <3>5, <3>6
  <2>10. /\ next.turn = Len(v) /\ next.item /\ next.status = None
         /\ text = IF next.item /\ next.text # <<>> THEN next.text ELSE T!Known(Len(v)).text
    BY <2>3
  <2> HIDE DEF next, text, turn
  <2>11. Len(v) \notin partial' \/ turn.whole =>
           text \in {<<>>, T!Text(turn.text)} /\ (selecting = None => text = T!Text(turn.text))
    BY <2>8, <2>9
  <2>12. PICK status : status = shown.status OBVIOUS
  <2>13. shown' = [shown EXCEPT !.status = status, !.turns = T!Merged(@, <<next>>)] BY <2>6, <2>12
  <2>14. Len(v) \in partial' => turn.text > 0 BY <2>8
  <2>15. ~turn.done /\ status = shown.status /\ next.status = None BY <2>8, <2>10, <2>12
  <2>16. partial \subseteq partial' /\ partial' \subseteq partial \cup {Len(v)} BY <2>7
  <2>17. turn \in DeviceTurn /\ Changes(v, w, turn) BY <2>1, <2>8
  <2>18. next.item \/ next.text = <<>> BY <2>10
  <2>19. Shows(w)' /\ shown' \in ShownThread /\ ChangedLast(shown'.turns, Len(w), next)
    BY <2>4, <2>10, <2>11, <2>13, <2>14, <2>15, <2>16, <2>17, <2>18, ChangeShows
  <2> QED BY <2>19
<1>6. CASE m.kind = "item"
  <2> DEFINE t == Len(v)
             next == [turn |-> t, status |-> None, item |-> TRUE, text |-> m.text]
             text == IF m.text # <<>> THEN m.text ELSE T!Known(t).text
  <2>1. PICK whole \in BOOLEAN :
          /\ m.text = IF whole THEN T!Text(v[t].text) ELSE <<>>
          /\ Changes(v, w, [text |-> v[t].text, done |-> FALSE, whole |-> whole])
    BY <1>6 DEF Reports
  <2> DEFINE turn == [text |-> v[t].text, done |-> FALSE, whole |-> whole]
  <2>2. /\ m.turn = t /\ t > 0 /\ v[t] \in DeviceTurn /\ m.text \in Seq(Nat) BY <1>4, <1>6, MessageFields
  <2>3. v[t].text \in Nat BY <2>2 DEF DeviceTurn
  <2>4. /\ t \in partial => v[t].text > 0
        /\ t \notin partial \/ v[t].whole =>
             /\ T!Known(t).text \in {<<>>, T!Text(v[t].text)}
             /\ selecting = None => T!Known(t).text = T!Text(v[t].text)
    BY <2>2, KnownText
  <2>5. next \in ShownTurn BY <1>1, <2>2 DEF ShownTurn
  <2>6. shown' = [shown EXCEPT !.turns = T!Merged(shown.turns, <<next>>)]
    BY <1>6, <2>2 DEF T!Applied
  <2>7. shown' = [shown EXCEPT !.status = shown.status, !.turns = T!Merged(@, <<next>>)]
    <3> HIDE DEF next
    <3> QED BY <2>6 DEF ShownThread
  <2>8. partial' = partial BY <1>6
  <2>9. turn \in DeviceTurn /\ turn.text = v[t].text /\ ~turn.done /\ turn.whole = whole
    BY <2>3 DEF DeviceTurn
  <2>10. /\ next.turn = Len(v) /\ next.item /\ next.status = None
         /\ text = IF next.item /\ next.text # <<>> THEN next.text ELSE T!Known(Len(v)).text
    OBVIOUS
  <2>11. t \notin partial \/ whole =>
           /\ text \in {<<>>, T!Text(v[t].text)}
           /\ selecting = None => text = T!Text(v[t].text)
    <3>1. T!Text(v[t].text) = <<>> <=> v[t].text = 0 BY <2>3, TextFacts
    <3>2. CASE t \notin partial
      <4>1. m.text = <<>> \/ m.text = T!Text(v[t].text) BY <2>1
      <4> QED BY <2>4, <3>2, <4>1
    <3>3. CASE whole /\ t \in partial
      <4>1. m.text = T!Text(v[t].text) /\ m.text # <<>> BY <2>1, <2>3, <2>4, <3>1, <3>3
      <4> QED BY <4>1
    <3> QED BY <3>2, <3>3
  <2> HIDE DEF next, text, turn
  <2>12. Changes(v, w, turn) BY <2>1 DEF turn
  <2>13. /\ Len(v) \in partial' => turn.text > 0
         /\ Len(v) \notin partial' \/ turn.whole =>
              text \in {<<>>, T!Text(turn.text)} /\ (selecting = None => text = T!Text(turn.text))
    BY <2>4, <2>8, <2>9, <2>11
  <2>14. partial \subseteq partial' /\ partial' \subseteq partial \cup {Len(v)} BY <2>8
  <2>15. PICK status : status = shown.status OBVIOUS
  <2>16. /\ shown' = [shown EXCEPT !.status = status, !.turns = T!Merged(@, <<next>>)]
         /\ text = IF next.item /\ next.text # <<>> THEN next.text ELSE T!Known(Len(v)).text
         /\ next.item \/ next.text = <<>>
         /\ ~turn.done /\ status = shown.status /\ next.status = None
    BY <2>7, <2>9, <2>10, <2>15
  <2>17. Shows(w)' /\ shown' \in ShownThread /\ ChangedLast(shown'.turns, Len(w), next)
    BY <2>5, <2>9, <2>10, <2>12, <2>13, <2>14, <2>16, ChangeShows
  <2> QED BY <2>17
<1>7. CASE m.kind = "completed"
  <2> DEFINE t == Len(v)
             next == [turn |-> t, status |-> "done", text |-> <<>>, item |-> FALSE]
             turn == [text |-> v[t].text, done |-> TRUE, whole |-> v[t].whole]
  <2>1. /\ m.turn = t /\ Changes(v, w, turn) /\ t > 0 /\ v[t] \in DeviceTurn
    BY <1>4, <1>7 DEF Reports
  <2>2. /\ t \in partial => v[t].text > 0
        /\ t \notin partial \/ v[t].whole =>
             /\ T!Known(t).text \in {<<>>, T!Text(v[t].text)}
             /\ selecting = None => T!Known(t).text = T!Text(v[t].text)
    BY <2>1, KnownText
  <2>3. next \in ShownTurn BY <1>1, <2>1 DEF ShownTurn
  <2>4. shown' = [shown EXCEPT !.status = "idle", !.turns = T!Merged(shown.turns, <<next>>)]
    BY <1>7, <2>1 DEF T!Applied
  <2>5. shown' = [shown EXCEPT !.status = "idle", !.turns = T!Merged(@, <<next>>)]
    <3> HIDE DEF next
    <3> QED BY <2>4 DEF ShownThread
  <2>6. partial' = partial BY <1>7
  <2>7. turn \in DeviceTurn /\ turn.text = v[t].text /\ turn.done /\ turn.whole = v[t].whole
    BY <2>1 DEF DeviceTurn
  <2>8. next.turn = Len(v) /\ ~next.item /\ next.text = <<>> /\ next.status = "done" OBVIOUS
  <2> HIDE DEF next, turn
  <2>9. PICK text : text = T!Known(Len(v)).text OBVIOUS
  <2>10. /\ text = IF next.item /\ next.text # <<>> THEN next.text ELSE T!Known(Len(v)).text
         /\ Len(v) \notin partial' \/ turn.whole =>
              text \in {<<>>, T!Text(turn.text)} /\ (selecting = None => text = T!Text(turn.text))
    BY <2>2, <2>6, <2>7, <2>8, <2>9
  <2> QED BY <2>1, <2>2, <2>3, <2>5, <2>6, <2>7, <2>8, <2>10, ChangeShows
<1> QED BY <1>2, <1>3, <1>5, <1>6, <1>7 DEF T!Events

-----------------------------------------------------------------------------
(* The transcript: listed turns are joined to what is shown                 *)

\* What an answer lists is what the device has.
LEMMA ListingIs ==
  ASSUME T!TranscriptAssumption, NEW v \in Devices, NEW w, NEW m \in PageMessages,
         m.kind \in {"read", "earlier"}, Reports(m, v, w),
         NEW before \in Nat, before = IF m.kind = "read" THEN Len(v) ELSE m.call.cursor
  PROVE  /\ w = v /\ before <= Len(v) /\ Len(v) \in Nat
         /\ m.earlier \in Nat /\ m.earlier <= before /\ (m.earlier = 0 \/ m.earlier < before)
         /\ m.turns \in Seq(ShownTurn) /\ Len(m.turns) = before - m.earlier
         /\ InRow(m.turns, m.earlier)
         /\ \A i \in 1..(before - m.earlier) :
              /\ m.turns[i] \in ShownTurn /\ m.turns[i].turn = m.earlier + i
              /\ m.turns[i].status = State(v[m.earlier + i])
              /\ m.turns[i].text = T!Text(v[m.earlier + i].text)
<1>1. v \in Seq(DeviceTurn) /\ Len(v) \in Nat BY DEF Devices
<1>2. m \in AnswerMessages BY MessageFields DEF T!Answers
<1>3. m.earlier \in Nat /\ m.turns \in Seq(ShownTurn) BY <1>2 DEF AnswerMessages
<1>4. /\ w = v /\ before <= Len(v) /\ m.earlier <= before /\ (m.earlier = 0 \/ m.earlier < before)
      /\ m.turns = [i \in 1..(before - m.earlier) |-> TurnIn(v, m.earlier + i)]
  BY DEF Reports
<1>5. before - m.earlier \in Nat BY <1>3, <1>4
<1>6. DOMAIN m.turns = 1..(before - m.earlier) BY <1>4
<1>7. Len(m.turns) = before - m.earlier BY <1>3, <1>5, <1>6, LenProperties
<1>8. \A i \in 1..(before - m.earlier) :
        /\ m.turns[i] \in ShownTurn /\ m.turns[i].turn = m.earlier + i
        /\ m.turns[i].status = State(v[m.earlier + i])
        /\ m.turns[i].text = T!Text(v[m.earlier + i].text)
  <2> TAKE i \in 1..(before - m.earlier)
  <2>1. m.turns[i] = TurnIn(v, m.earlier + i) BY <1>4
  <2>2. m.turns[i] \in ShownTurn BY <1>3, <1>7
  <2> QED BY <2>1, <2>2 DEF TurnIn
<1>9. InRow(m.turns, m.earlier) BY <1>7, <1>8 DEF InRow
<1> QED BY <1>1, <1>3, <1>4, <1>7, <1>8, <1>9

LEMMA ListedFull ==
  ASSUME T!TranscriptAssumption, NEW v \in Devices, NEW turn,
         turn.turn \in 1..Len(v), turn.status = State(v[turn.turn]),
         NEW joined, Trusted(v, turn.turn, joined) => turn.text = T!Text(v[turn.turn].text)
  PROVE  Agrees(v, turn, joined) /\ Full(v, turn, joined)
<1>1. None \notin {"running", "done"} BY DEF T!TranscriptAssumption
<1> QED BY <1>1 DEF Agrees, Full, State

\* What is known of a listed turn fits it.
LEMMA CombinedFull ==
  ASSUME T!TranscriptAssumption, NEW v \in Devices, NEW u \in 1..Len(v),
         NEW listed, listed.turn = u, listed.status = State(v[u]),
         listed.text = T!Text(v[u].text),
         NEW held, held.turn = u, NEW joined, Agrees(v, held, joined)
  PROVE  LET both == T!Combined(listed, held)
         IN  both.turn = u /\ Agrees(v, both, joined) /\ Full(v, both, joined)
<1>1. PICK both : both = T!Combined(listed, held) OBVIOUS
<1>2. /\ both.turn = u
      /\ both.status = IF held.status = None THEN listed.status ELSE held.status
      /\ both.text = IF held.item /\ held.text # <<>> THEN held.text ELSE listed.text
  BY <1>1 DEF T!Combined, T!FullerText
<1>3. both.status = State(v[u]) BY <1>2 DEF Agrees
<1>4. Trusted(v, u, joined) => both.text = T!Text(v[u].text) BY <1>2 DEF Agrees
<1> QED BY <1>1, <1>2, <1>3, <1>4, ListedFull

\* The snapshot is combined with the events that came before it: the page is loaded.
LEMMA ReadShows ==
  ASSUME T!TranscriptAssumption,
         shown \in ShownThread, NEW v \in Devices, Shows(v), NEW w, NEW m \in PageMessages,
         m.kind = "read", Reports(m, v, w), selecting \in {"active", "idle"},
         \A i \in 1..Len(shown.turns) : shown.turns[i].turn > m.earlier,
         selecting' = None, UNCHANGED partial,
         shown' = [status |-> IF shown.status = None THEN selecting ELSE shown.status,
                   turns |-> T!Merged(m.turns, shown.turns), earlier |-> m.earlier]
  PROVE  Shows(v)' /\ shown' \in ShownThread
<1> DEFINE k == Len(shown.turns)
           merged == T!Merged(m.turns, shown.turns)
<1>0. Len(v) \in Nat BY DEF Devices
<1>1. /\ m.earlier \in Nat /\ m.earlier <= Len(v) /\ (m.earlier = 0 \/ m.earlier < Len(v))
      /\ m.turns \in Seq(ShownTurn) /\ Len(m.turns) = Len(v) - m.earlier
      /\ InRow(m.turns, m.earlier)
      /\ \A i \in 1..(Len(v) - m.earlier) :
           /\ m.turns[i] \in ShownTurn /\ m.turns[i].turn = m.earlier + i
           /\ m.turns[i].status = State(v[m.earlier + i])
           /\ m.turns[i].text = T!Text(v[m.earlier + i].text)
  BY <1>0, ListingIs
<1>2. /\ shown.turns \in Seq(ShownTurn) /\ k \in Nat /\ k <= Len(v)
      /\ InRow(shown.turns, Len(v) - k)
  BY ShowsRow
<1>3. PICK a \in Int, b \in Int : a = m.earlier /\ b = Len(v) - k
  <2>1. m.earlier \in Int /\ Len(v) - k \in Int BY <1>0, <1>1, <1>2
  <2> QED BY <2>1, Zenon
<1>4. a <= b /\ b + k <= a + Len(m.turns)
  <2>1. CASE k = 0 BY <1>0, <1>1, <1>2, <1>3, <2>1
  <2>2. CASE k # 0
    <3>1. 1 \in 1..k BY <1>2, <2>2
    <3>2. shown.turns[1].turn = Len(v) - k + 1 BY <1>2, <3>1 DEF InRow
    <3>3. Len(v) - k + 1 > m.earlier BY <3>1, <3>2
    <3>4. Len(v) - k >= m.earlier
      <4>1. m.earlier \in Nat BY <1>1
      <4>2. \A x, y, z \in Nat : x - y + 1 > z => x - y >= z OBVIOUS
      <4> HIDE DEF k
      <4> QED BY <1>0, <1>2, <3>3, <4>1, <4>2
    <3>5. Len(m.turns) = Len(v) - m.earlier BY <1>1
    <3> HIDE DEF k
    <3> QED BY <1>0, <1>1, <1>2, <1>3, <3>4, <3>5
  <2> QED BY <2>1, <2>2
<1>5. /\ merged = Joined(m.turns, shown.turns, a, b)
      /\ merged \in Seq(ShownTurn) /\ Len(merged) = Len(m.turns)
  <2>1. InRow(m.turns, a) /\ InRow(shown.turns, b) BY <1>1, <1>2, <1>3
  <2>2. a <= b /\ b + Len(shown.turns) <= a + Len(m.turns) BY <1>4
  <2>3. m.turns \in Seq(ShownTurn) /\ shown.turns \in Seq(ShownTurn) BY <1>1, <1>2
  <2>4. a \in Int /\ b \in Int BY <1>3
  <2> QED BY <2>1, <2>2, <2>3, <2>4, MergedKnown
<1> HIDE DEF merged, k
<1>6. ASSUME NEW i \in 1..Len(merged)
      PROVE  /\ merged[i].turn = m.earlier + i
             /\ Agrees(v, merged[i], partial) /\ Full(v, merged[i], partial)
  <2>1. i \in 1..(Len(v) - m.earlier) /\ i \in 1..Len(m.turns) BY <1>1, <1>5
  <2>2. PICK listed : listed = m.turns[i] OBVIOUS
  <2>3. PICK u : u = m.earlier + i OBVIOUS
  <2>4. u \in 1..Len(v) /\ u = a + i BY <1>0, <1>1, <1>3, <2>1, <2>3
  <2>5. /\ listed \in ShownTurn /\ listed.turn = u /\ listed.status = State(v[u])
        /\ listed.text = T!Text(v[u].text)
    BY <1>1, <2>1, <2>2, <2>3
  <2>6. CASE ~(b < a + i)
    <3>1. merged[i] = listed BY <1>5, <2>1, <2>2, <2>6 DEF Joined
    <3> QED BY <2>3, <2>4, <2>5, <3>1, ListedFull
  <2>7. CASE b < a + i
    <3>1. a + i <= b + Len(shown.turns) /\ a + i - b \in 1..Len(shown.turns)
      <4>1. PICK n \in Nat : n = Len(v) BY <1>0
      <4>2. PICK s \in Nat : s = k BY <1>2
      <4>3. u \in 1..n /\ b = n - s /\ b < u BY <1>3, <2>4, <2>7, <4>1, <4>2
      <4>4. u <= b + s /\ u - b \in 1..s BY <1>3, <4>3
      <4>5. a + i <= b + s /\ a + i - b \in 1..s BY <2>4, <4>4
      <4> QED BY <4>2, <4>5 DEF k
    <3>2. PICK held : held = shown.turns[a + i - b] OBVIOUS
    <3>3. held \in ShownTurn /\ held.turn = u
      <4>1. held \in ShownTurn BY <1>2, <3>1, <3>2
      <4>2. held.turn = Len(v) - k + (a + i - b) BY <1>2, <3>1, <3>2 DEF InRow, k
      <4> QED BY <1>0, <1>2, <1>3, <2>4, <4>1, <4>2
    <3>4. Agrees(v, held, partial) BY <3>1, <3>2 DEF Shows
    <3>5. merged[i] = T!Combined(listed, held) BY <1>5, <2>1, <2>2, <2>7, <3>1, <3>2 DEF Joined
    <3> QED BY <2>3, <2>4, <2>5, <3>3, <3>4, <3>5, CombinedFull
  <2> QED BY <2>6, <2>7
<1>7. /\ shown'.turns = merged /\ shown'.earlier = m.earlier
      /\ shown'.status = IF shown.status = None THEN selecting ELSE shown.status
  BY DEF merged
<1>8. shown'.status = StatusIn(v) /\ shown'.status # None
  <2>1. /\ shown.status \in {None, StatusIn(v)}
        /\ selecting \in {"active", "idle"} /\ shown.status = None => selecting = StatusIn(v)
    BY DEF Shows
  <2>2. None \notin {"active", "idle"} BY DEF T!TranscriptAssumption
  <2> QED BY <1>7, <2>1, <2>2
<1>9. shown' \in ShownThread
  <2>1. merged \in Seq(ShownTurn) BY <1>5
  <2>2. shown'.status \in {"active", "idle"} BY <1>8 DEF StatusIn
  <2>3. shown' = [status |-> shown'.status, turns |-> merged, earlier |-> m.earlier] BY <1>7
  <2> QED BY <1>1, <2>1, <2>2, <2>3 DEF ShownThread
<1>10. Len(merged) <= Len(v) /\ Len(v) - Len(merged) = m.earlier
       /\ Len(merged) + m.earlier = Len(v)
  BY <1>0, <1>1, <1>5
<1>11. \A i \in 1..Len(merged) :
         /\ merged[i].turn = Len(v) - Len(merged) + i
         /\ Agrees(v, merged[i], partial) /\ Full(v, merged[i], partial)
  BY <1>6, <1>10
<1>12. \A u \in partial : u \in 1..Len(v) /\ v[u].text > 0 BY DEF Shows
<1>13. None \notin {"active", "idle"} BY DEF T!TranscriptAssumption
<1>14. Shows(v)'
  <2>1. \A i \in 1..Len(merged) :
          merged[i].turn = Len(v) - Len(merged) + i /\ Agrees(v, merged[i], partial)
    BY <1>11
  <2>2. \A i \in 1..Len(merged) : Full(v, merged[i], partial) BY <1>11
  <2> QED BY <1>1, <1>7, <1>8, <1>10, <1>12, <1>13, <2>1, <2>2 DEF Shows
<1> QED BY <1>9, <1>14

\* Earlier turns are put before those that are shown, of which they may hold some.
LEMMA EarlierShows ==
  ASSUME T!TranscriptAssumption,
         shown \in ShownThread, NEW v \in Devices, Shows(v), NEW w, NEW m \in PageMessages,
         m.kind = "earlier", Reports(m, v, w), m.call.cursor \in Nat, Joins(m.call.cursor),
         UNCHANGED <<selecting, partial>>,
         shown' = [shown EXCEPT !.turns = T!Merged(m.turns, @), !.earlier = m.earlier]
  PROVE  Shows(v)' /\ shown' \in ShownThread
<1>1. PICK n \in Nat, k \in Nat, s \in Nat :
        n = Len(v) /\ k = Len(shown.turns) /\ s = shown.earlier /\ k + s = n
  <2>1. selecting = None /\ Len(v) \in Nat BY DEF Joins, Devices
  <2> QED BY <2>1, ShowsRow
<1>2. /\ shown.turns \in Seq(ShownTurn) /\ InRow(shown.turns, s)
  <2>1. shown.turns \in Seq(ShownTurn) /\ InRow(shown.turns, Len(v) - Len(shown.turns)) BY ShowsRow
  <2>2. n - k = s BY <1>1
  <2> QED BY <1>1, <2>1, <2>2
<1>3. PICK c \in Nat : c = m.call.cursor OBVIOUS
<1>4. PICK e \in Nat : e = m.earlier BY <1>3, ListingIs
<1>5. /\ c <= n /\ e <= c /\ (e = 0 \/ e < c) /\ e <= s /\ s <= c /\ w = v
      /\ m.turns \in Seq(ShownTurn) /\ Len(m.turns) = c - e /\ InRow(m.turns, e)
      /\ \A i \in 1..(c - e) :
           /\ m.turns[i] \in ShownTurn /\ m.turns[i].turn = e + i
           /\ m.turns[i].status = State(v[e + i])
           /\ m.turns[i].text = T!Text(v[e + i].text)
  <2>1. c = IF m.kind = "read" THEN Len(v) ELSE m.call.cursor BY <1>3
  <2>2. m.earlier = From(m.call.cursor) BY DEF Reports
  <2>3. e <= s /\ s <= c BY <1>1, <1>3, <1>4, <2>2 DEF Joins
  <2>4. /\ c <= Len(v) /\ m.earlier <= c /\ (m.earlier = 0 \/ m.earlier < c) /\ w = v
        /\ m.turns \in Seq(ShownTurn) /\ Len(m.turns) = c - m.earlier /\ InRow(m.turns, m.earlier)
        /\ \A i \in 1..(c - m.earlier) :
             /\ m.turns[i] \in ShownTurn /\ m.turns[i].turn = m.earlier + i
             /\ m.turns[i].status = State(v[m.earlier + i])
             /\ m.turns[i].text = T!Text(v[m.earlier + i].text)
    BY <2>1, ListingIs
  <2> QED BY <1>1, <1>4, <2>3, <2>4
<1>6. PICK merged : merged = T!Merged(m.turns, shown.turns) OBVIOUS
<1>7. /\ merged \in Seq(ShownTurn) /\ Len(merged) = s - e + k
      /\ \A i \in 1..(s - e + k) :
           merged[i] = IF i <= s - e THEN m.turns[i]
                       ELSE IF i <= c - e THEN T!Combined(m.turns[i], shown.turns[i - (s - e)])
                       ELSE shown.turns[i - (s - e)]
  <2>1. e <= s /\ s <= e + (c - e) /\ e + (c - e) <= s + k BY <1>1, <1>5
  <2>2. e <= s /\ s <= e + Len(m.turns) /\ e + Len(m.turns) <= s + Len(shown.turns)
    BY <1>1, <1>5, <2>1
  <2>3. PICK before \in Seq(ShownTurn), after \in Seq(ShownTurn), a \in Int, b \in Int :
          before = m.turns /\ after = shown.turns /\ a = e /\ b = s
    <3>1. e \in Int /\ s \in Int OBVIOUS
    <3> QED BY <1>2, <1>5, <3>1, Zenon
  <2>4. InRow(before, a) /\ InRow(after, b) BY <1>2, <1>5, <2>3
  <2>5. a <= b /\ b <= a + Len(before) /\ a + Len(before) <= b + Len(after) BY <2>2, <2>3
  <2>6. /\ T!Merged(before, after) \in Seq(ShownTurn)
        /\ Len(T!Merged(before, after)) = b - a + Len(after)
        /\ \A i \in 1..(b - a + Len(after)) :
             T!Merged(before, after)[i] =
               IF i <= b - a THEN before[i]
               ELSE IF i <= Len(before) THEN T!Combined(before[i], after[i - (b - a)])
               ELSE after[i - (b - a)]
    BY <2>4, <2>5, MergedOver
  <2>7. Len(before) = c - e /\ Len(after) = k BY <1>1, <1>5, <2>3
  <2> QED BY <1>6, <2>3, <2>6, <2>7
<1>8. ASSUME NEW i \in 1..(s - e + k)
      PROVE  /\ merged[i].turn = e + i
             /\ Agrees(v, merged[i], partial) /\ Full(v, merged[i], partial)
  <2>1. PICK u : u = e + i OBVIOUS
  <2>2. u \in 1..n /\ u \in 1..Len(v)
    <3>1. s - e + k = n - e /\ e <= n BY <1>1, <1>5
    <3> QED BY <1>1, <2>1, <3>1
  <2>3. ASSUME i <= c - e
        PROVE  /\ m.turns[i].turn = u /\ m.turns[i].status = State(v[u])
               /\ m.turns[i].text = T!Text(v[u].text)
    <3>1. i \in 1..(c - e) BY <1>5, <2>3
    <3> QED BY <1>5, <2>1, <3>1
  <2>4. ASSUME ~(i <= s - e)
        PROVE  LET held == shown.turns[i - (s - e)]
               IN  held.turn = u /\ Agrees(v, held, partial) /\ Full(v, held, partial)
    <3>1. PICK j : j = i - (s - e) OBVIOUS
    <3>2. j \in 1..k /\ s + j = u BY <1>5, <2>1, <2>4, <3>1
    <3>3. j \in 1..Len(shown.turns) BY <1>1, <3>2
    <3>4. shown.turns[j].turn = s + j BY <1>2, <3>3 DEF InRow
    <3>5. Agrees(v, shown.turns[j], partial) /\ Full(v, shown.turns[j], partial)
      BY <3>3 DEF Shows, Joins
    <3> QED BY <3>1, <3>2, <3>4, <3>5
  <2>5. CASE i <= s - e
    <3>1. i <= c - e BY <1>5, <2>5
    <3>2. merged[i] = m.turns[i] BY <1>7, <2>5
    <3> QED BY <2>1, <2>2, <2>3, <3>1, <3>2, ListedFull
  <2>6. CASE ~(i <= s - e) /\ i <= c - e
    <3>1. PICK listed, held : listed = m.turns[i] /\ held = shown.turns[i - (s - e)] OBVIOUS
    <3>2. merged[i] = T!Combined(listed, held) BY <1>7, <2>6, <3>1
    <3>3. /\ listed.turn = u /\ listed.status = State(v[u]) /\ listed.text = T!Text(v[u].text)
          /\ held.turn = u /\ Agrees(v, held, partial)
      BY <2>3, <2>4, <2>6, <3>1
    <3>4. LET both == T!Combined(listed, held)
          IN  both.turn = u /\ Agrees(v, both, partial) /\ Full(v, both, partial)
      BY <2>2, <3>3, CombinedFull
    <3> QED BY <2>1, <3>2, <3>4
  <2>7. CASE ~(i <= s - e) /\ ~(i <= c - e)
    <3>1. merged[i] = shown.turns[i - (s - e)] BY <1>7, <2>7
    <3> QED BY <2>1, <2>4, <2>7, <3>1
  <2> QED BY <2>5, <2>6, <2>7
<1>9. /\ shown'.turns = merged /\ shown'.earlier = e /\ shown'.status = shown.status
      /\ shown' \in ShownThread
  <2>1. shown' = [shown EXCEPT !.turns = merged, !.earlier = e] BY <1>4, <1>6 DEF ShownThread
  <2> QED BY <1>7, <2>1 DEF ShownThread
<1>10. Len(merged) = s - e + k /\ Len(merged) <= n /\ n - Len(merged) = e /\ Len(merged) + e = n
  <2>1. s - e + k = n - e /\ e <= n BY <1>1, <1>5
  <2> QED BY <1>7, <2>1
<1>11. \A i \in 1..Len(merged) :
         /\ merged[i].turn = Len(v) - Len(merged) + i
         /\ Agrees(v, merged[i], partial) /\ Full(v, merged[i], partial)
  BY <1>1, <1>8, <1>10
<1>12. /\ \A u \in partial : u \in 1..Len(v) /\ v[u].text > 0
       /\ shown.status \in {None, StatusIn(v)} /\ shown.status # None
  BY DEF Shows, Joins
<1>13. None \notin {"active", "idle"} BY DEF T!TranscriptAssumption
<1>14. (e = 0 \/ e < Len(v)) /\ e <= Len(v) BY <1>1, <1>5
<1>15. Shows(v)'
  <2>1. \A i \in 1..Len(merged) :
          merged[i].turn = Len(v) - Len(merged) + i /\ Agrees(v, merged[i], partial)
    BY <1>11
  <2>2. \A i \in 1..Len(merged) : Full(v, merged[i], partial) BY <1>11
  <2>3. Len(merged) <= Len(v) /\ Len(merged) + e = Len(v) BY <1>1, <1>10
  <2>4. selecting' = None BY DEF Joins
  <2> QED BY <1>9, <1>12, <1>13, <1>14, <2>1, <2>2, <2>3, <2>4 DEF Shows
<1> QED BY <1>9, <1>15

-----------------------------------------------------------------------------
(* The transcript: the states the device went through                       *)

\* No report takes a turn away.
LEMMA ReportsGrow ==
  ASSUME NEW m \in PageMessages, NEW v \in Devices, NEW w \in Devices, Reports(m, v, w)
  PROVE  Len(v) \in Nat /\ Len(w) \in Nat /\ Len(v) <= Len(w)
<1>1. Len(v) \in Nat /\ Len(w) \in Nat BY DEF Devices
<1>2. CASE m.kind \in T!Events /\ (m.kind = "start" => m.call.epoch # 0)
  <2>1. Len(v) = Len(w) \/ Len(v) + 1 = Len(w) BY <1>2, EventMoves
  <2> QED BY <1>1, <2>1
<1>4. CASE m.kind = "start" /\ m.call.epoch = 0 BY <1>1, <1>4 DEF Reports
<1>3. CASE m.kind \in T!Answers
  <2>1. w = v BY <1>3 DEF Reports, T!Answers
  <2> QED BY <1>1, <2>1
<1> QED BY <1>1, <1>2, <1>3, <1>4, MessageFields

\* What is reported is added to the states the device went through, and taken from them.
LEMMA TellsMore ==
  ASSUME NEW q, NEW views, Tells(q, views), NEW m \in PageMessages, NEW w \in Devices,
         Reports(m, views[Len(views)], w)
  PROVE  LET more == Append(views, w)
         IN  Tells(Append(q, m), more) /\ more[Len(more)] = w /\ more[1] = views[1]
<1>1. /\ q \in Seq(PageMessages) /\ views \in Seq(Devices) /\ Len(views) = Len(q) + 1
      /\ Len(q) \in Nat /\ \A k \in 1..Len(q) : Reports(q[k], views[k], views[k + 1])
      /\ \A k \in 1..Len(views) : Len(views[k]) <= Len(views[Len(views)])
  BY DEF Tells
<1> DEFINE q2 == Append(q, m)
           more == Append(views, w)
<1>2. /\ q2 \in Seq(PageMessages) /\ Len(q2) = Len(q) + 1 /\ q2[Len(q) + 1] = m
      /\ \A k \in 1..Len(q) : q2[k] = q[k]
  BY <1>1
<1>3. /\ more \in Seq(Devices) /\ Len(more) = Len(q) + 2 /\ more[Len(q) + 2] = w
      /\ \A k \in 1..(Len(q) + 1) : more[k] = views[k]
  BY <1>1
<1> HIDE DEF q2, more
<1>4. ASSUME NEW k \in 1..Len(q2) PROVE Reports(q2[k], more[k], more[k + 1])
  <2>1. CASE k = Len(q) + 1
    <3>1. k \in 1..(Len(q) + 1) /\ k + 1 = Len(q) + 2 BY <1>1, <2>1
    <3>2. q2[k] = m /\ more[k] = views[Len(views)] /\ more[k + 1] = w
      BY <1>1, <1>2, <1>3, <2>1, <3>1
    <3> QED BY <3>2
  <2>2. CASE k # Len(q) + 1
    <3>1. k \in 1..Len(q) /\ k \in 1..(Len(q) + 1) /\ k + 1 \in 1..(Len(q) + 1) BY <1>1, <1>2, <2>2
    <3>2. q2[k] = q[k] /\ more[k] = views[k] /\ more[k + 1] = views[k + 1] BY <1>2, <1>3, <3>1
    <3> QED BY <1>1, <3>1, <3>2
  <2> QED BY <2>1, <2>2
<1>7. \A k \in 1..Len(more) : Len(more[k]) <= Len(more[Len(more)])
  <2> TAKE k \in 1..Len(more)
  <2>1. views[Len(views)] \in Devices
    <3>1. Len(views) \in 1..Len(views) BY <1>1
    <3> QED BY <1>1, <3>1
  <2>2. Len(views[Len(views)]) \in Nat /\ Len(w) \in Nat /\ Len(views[Len(views)]) <= Len(w)
    BY <2>1, ReportsGrow
  <2>3. k \in 1..(Len(q) + 1) \/ k = Len(q) + 2 BY <1>1, <1>3
  <2>4. CASE k \in 1..(Len(q) + 1)
    <3>1. k \in 1..Len(views) /\ more[k] = views[k] BY <1>1, <1>3, <2>4
    <3>2. Len(views[k]) <= Len(views[Len(views)]) BY <1>1, <3>1
    <3>3. Len(views[k]) \in Nat
      <4>1. views[k] \in Devices BY <1>1, <3>1
      <4> QED BY <4>1 DEF Devices
    <3>4. Len(views[k]) <= Len(w) BY <2>2, <3>2, <3>3
    <3> QED BY <1>3, <3>1, <3>4
  <2>5. CASE k = Len(q) + 2
    <3>1. Len(w) <= Len(w) BY <2>2
    <3> QED BY <1>3, <2>5, <3>1
  <2> QED BY <2>3, <2>4, <2>5
<1>5. Tells(q2, more) BY <1>1, <1>2, <1>3, <1>4, <1>7 DEF Tells
<1>6. 1 \in 1..(Len(q) + 1) BY <1>1
<1> QED BY <1>3, <1>5, <1>6 DEF q2, more

LEMMA TellsLess ==
  ASSUME NEW q, NEW views, Tells(q, views), q # <<>>
  PROVE  LET less == Tail(views)
         IN  /\ Tells(Tail(q), less) /\ less[1] = views[2] /\ less[Len(less)] = views[Len(views)]
             /\ Head(q) \in PageMessages /\ Head(q) = q[1] /\ views[1] \in Devices /\ views[2] \in Devices
             /\ Reports(Head(q), views[1], views[2])
<1>1. /\ q \in Seq(PageMessages) /\ views \in Seq(Devices) /\ Len(views) = Len(q) + 1
      /\ Len(q) \in Nat /\ \A k \in 1..Len(q) : Reports(q[k], views[k], views[k + 1])
      /\ \A k \in 1..Len(views) : Len(views[k]) <= Len(views[Len(views)])
  BY DEF Tells
<1>2. Len(q) > 0 /\ views # <<>> BY <1>1, EmptySeq
<1> DEFINE q2 == Tail(q)
           less == Tail(views)
<1>3. /\ q2 \in Seq(PageMessages) /\ Len(q2) = Len(q) - 1 /\ \A k \in 1..(Len(q) - 1) : q2[k] = q[k + 1]
      /\ Head(q) = q[1]
  BY <1>1, <1>2
<1>4. /\ less \in Seq(Devices) /\ Len(less) = Len(q) /\ \A k \in 1..Len(q) : less[k] = views[k + 1]
  BY <1>1, <1>2
<1> HIDE DEF q2, less
<1>5. ASSUME NEW k \in 1..Len(q2) PROVE Reports(q2[k], less[k], less[k + 1])
  <2>1. k \in 1..(Len(q) - 1) /\ k \in 1..Len(q) /\ k + 1 \in 1..Len(q) BY <1>1, <1>3
  <2>2. q2[k] = q[k + 1] /\ less[k] = views[k + 1] /\ less[k + 1] = views[k + 1 + 1]
    BY <1>3, <1>4, <2>1
  <2> QED BY <1>1, <2>1, <2>2
<1>11. \A k \in 1..Len(less) : Len(less[k]) <= Len(less[Len(less)])
  <2> TAKE k \in 1..Len(less)
  <2>1. k \in 1..Len(q) /\ k + 1 \in 1..Len(views) /\ Len(q) \in 1..Len(q) /\ Len(q) + 1 = Len(views)
    BY <1>1, <1>2, <1>4
  <2>2. less[k] = views[k + 1] /\ less[Len(less)] = views[Len(views)] BY <1>4, <2>1
  <2> QED BY <1>1, <2>1, <2>2
<1>6. Tells(q2, less) BY <1>1, <1>3, <1>4, <1>5, <1>11 DEF Tells
<1>7. 1 \in 1..Len(q) /\ Len(q) \in 1..Len(q) /\ 1 + 1 = 2 BY <1>1, <1>2
<1>8. less[1] = views[2] /\ less[Len(less)] = views[Len(views)] BY <1>1, <1>4, <1>7
<1>9. views[1] \in Devices /\ views[2] \in Devices /\ q[1] \in PageMessages BY <1>1, <1>7
<1>10. Reports(Head(q), views[1], views[2]) BY <1>1, <1>3, <1>7
<1> QED BY <1>3, <1>6, <1>8, <1>9, <1>10 DEF q2, less

\* The device as the page will know it when every message has come.
LEMMA KeptDevice ==
  ASSUME NEW views, WentThrough(views)
  PROVE  /\ device \in Devices /\ device \in Seq(DeviceTurn) /\ Len(device) \in Nat
         /\ Len(device) <= MaxTurns
         /\ views \in Seq(Devices) /\ Len(views) \in Nat /\ Len(views) > 0 /\ views[1] \in Devices
         /\ toPage \in Seq(PageMessages) /\ Len(toPage) \in Nat /\ Len(views) = Len(toPage) + 1
<1>1. /\ views \in Seq(Devices) /\ toPage \in Seq(PageMessages) /\ Len(views) = Len(toPage) + 1
      /\ device = views[Len(views)]
  BY DEF WentThrough, Tells
<1>2. Len(toPage) \in Nat /\ Len(views) \in 1..Len(views) /\ 1 \in 1..Len(views) BY <1>1
<1>3. device \in Devices /\ views[1] \in Devices BY <1>1, <1>2
<1>4. device \in Seq(DeviceTurn) /\ Len(device) <= MaxTurns BY <1>3 DEF Devices
<1> QED BY <1>1, <1>2, <1>3, <1>4

LEMMA DeviceStatus ==
  ASSUME device \in Devices
  PROVE  (T!Active <=> UnderWay(device)) /\ T!Status = StatusIn(device)
<1>1. /\ device \in Seq(DeviceTurn) /\ Len(device) \in Nat /\ DOMAIN device = 1..Len(device)
      /\ \A t \in 1..(Len(device) - 1) : device[t].done
  BY DEF Devices
<1>2. ASSUME NEW t \in DOMAIN device, ~device[t].done PROVE UnderWay(device)
  <2>1. t = Len(device) /\ Len(device) > 0 BY <1>1, <1>2
  <2> QED BY <1>2, <2>1 DEF UnderWay
<1>3. ASSUME UnderWay(device) PROVE \E t \in DOMAIN device : ~device[t].done
  <2>1. Len(device) \in DOMAIN device BY <1>1, <1>3 DEF UnderWay
  <2> QED BY <1>3, <2>1 DEF UnderWay
<1>4. T!Active <=> UnderWay(device) BY <1>2, <1>3 DEF T!Active
<1> QED BY <1>4 DEF T!Status, StatusIn

-----------------------------------------------------------------------------
(* The transcript: calls that are under way                                 *)

\* A call is as it was, or is given up.
SameCall(now, then) ==
  /\ now.kind = then.kind /\ now.epoch \in {0, then.epoch}
  /\ now.kind = "earlier" => now.cursor = then.cursor
\* No call comes up, and no answer: each of those left was known before, in the same order.
CallsLeft(d, e) ==
  /\ toDevice' \in Seq(PageCalls) /\ selection' = selection
  /\ \A i \in 1..Len(toDevice') :
       i + d \in 1..Len(toDevice) /\ SameCall(toDevice'[i], toDevice[i + d])
  /\ \A i \in 1..Len(toPage') : toPage'[i].kind \in T!Answers =>
       /\ i + e \in 1..Len(toPage) /\ toPage'[i].kind = toPage[i + e].kind
       /\ SameCall(toPage'[i].call, toPage[i + e].call)
NonePending ==
  /\ \A i \in 1..Len(toDevice) : ~Pending(toDevice[i], selection)
  /\ \A i \in 1..Len(toPage) : ~Answering(toPage[i], selection)

LEMMA CallsKnownStay ==
  ASSUME CallsKnown, NEW d \in {0, 1}, NEW e \in {0, 1}, CallsLeft(d, e), selection \in Nat,
         Len(device) \in Nat, Len(device') \in Nat, Len(device) <= Len(device')
  PROVE  CallsKnown'
<1>1. ASSUME NEW i \in 1..Len(toDevice')
      PROVE  /\ toDevice'[i].epoch <= selection
             /\ toDevice'[i].kind = "earlier" =>
                  toDevice'[i].cursor <= Len(device') /\ toDevice'[i].cursor > 0
  <2>1. PICK j \in 1..Len(toDevice) : SameCall(toDevice'[i], toDevice[j]) BY DEF CallsLeft
  <2>2. /\ toDevice[j].epoch <= selection
        /\ toDevice[j].kind = "earlier" => toDevice[j].cursor <= Len(device) /\ toDevice[j].cursor > 0
    BY DEF CallsKnown
  <2>3. PICK now, then : now = toDevice'[i] /\ then = toDevice[j] OBVIOUS
  <2>4. now.kind = "earlier" => now.cursor \in Nat
    <3>1. now \in PageCalls BY <2>3 DEF CallsLeft
    <3> QED BY <3>1 DEF PageCalls
  <2>5. SameCall(now, then) BY <2>1, <2>3
  <2>6. now.epoch <= selection BY <2>2, <2>3, <2>5 DEF SameCall
  <2>7. now.kind = "earlier" => now.cursor <= Len(device') /\ now.cursor > 0
    BY <2>2, <2>3, <2>4, <2>5 DEF SameCall
  <2> QED BY <2>3, <2>6, <2>7
<1>2. ASSUME NEW i \in 1..Len(toPage'), toPage'[i].kind \in T!Answers
      PROVE  toPage'[i].call.epoch <= selection
  <2>1. PICK j \in 1..Len(toPage) :
          toPage'[i].kind = toPage[j].kind /\ SameCall(toPage'[i].call, toPage[j].call)
    BY <1>2 DEF CallsLeft
  <2>2. toPage[j].call.epoch <= selection BY <1>2, <2>1 DEF CallsKnown
  <2> QED BY <2>1, <2>2 DEF SameCall
<1> QED BY <1>1, <1>2 DEF CallsKnown, CallsLeft

\* What is pending was pending.
LEMMA PendingStays ==
  ASSUME NEW d, NEW e, CallsLeft(d, e), selection # 0
  PROVE  /\ \A i \in 1..Len(toDevice') : Pending(toDevice'[i], selection) =>
              /\ i + d \in 1..Len(toDevice) /\ Pending(toDevice[i + d], selection)
              /\ toDevice'[i].kind = toDevice[i + d].kind
         /\ \A i \in 1..Len(toPage') : Answering(toPage'[i], selection) =>
              /\ i + e \in 1..Len(toPage) /\ Answering(toPage[i + e], selection)
              /\ toPage'[i].call.kind = toPage[i + e].call.kind
  BY DEF CallsLeft, SameCall, Pending, Answering

LEMMA OnePendingStays ==
  ASSUME OnePending, NEW d \in {0, 1}, NEW e \in {0, 1}, CallsLeft(d, e), selection # 0,
         selecting' = selecting \/ NonePending'
  PROVE  OnePending'
<1>1. /\ \A i \in 1..Len(toDevice') : Pending(toDevice'[i], selection) =>
           /\ i + d \in 1..Len(toDevice) /\ Pending(toDevice[i + d], selection)
           /\ toDevice'[i].kind = toDevice[i + d].kind
      /\ \A i \in 1..Len(toPage') : Answering(toPage'[i], selection) =>
           /\ i + e \in 1..Len(toPage) /\ Answering(toPage[i + e], selection)
           /\ toPage'[i].call.kind = toPage[i + e].call.kind
  BY PendingStays
<1>2. selection' = selection BY DEF CallsLeft
<1>3. \A i, j \in 1..Len(toDevice') : Pending(toDevice'[i], selection) /\ Pending(toDevice'[j], selection) => i = j
  <2> TAKE i \in 1..Len(toDevice'), j \in 1..Len(toDevice')
  <2> HAVE Pending(toDevice'[i], selection) /\ Pending(toDevice'[j], selection)
  <2>1. i + d = j + d BY <1>1 DEF OnePending
  <2> QED BY <2>1
<1>4. \A i, j \in 1..Len(toPage') : Answering(toPage'[i], selection) /\ Answering(toPage'[j], selection) => i = j
  <2> TAKE i \in 1..Len(toPage'), j \in 1..Len(toPage')
  <2> HAVE Answering(toPage'[i], selection) /\ Answering(toPage'[j], selection)
  <2>1. i + e = j + e BY <1>1 DEF OnePending
  <2> QED BY <2>1
<1>5. \A i \in 1..Len(toDevice'), j \in 1..Len(toPage') :
        ~(Pending(toDevice'[i], selection) /\ Answering(toPage'[j], selection))
  BY <1>1 DEF OnePending
<1>6. \A i \in 1..Len(toDevice') : Pending(toDevice'[i], selection) => Fits(toDevice'[i], selecting')
  BY <1>1, <1>2 DEF OnePending, Fits, NonePending
<1>7. \A i \in 1..Len(toPage') : Answering(toPage'[i], selection) => Fits(toPage'[i].call, selecting')
  BY <1>1, <1>2 DEF OnePending, Fits, NonePending
<1> QED BY <1>2, <1>3, <1>4, <1>5, <1>6, <1>7 DEF OnePending

\* Earlier turns that are awaited were awaited.
LEMMA MoreStays ==
  ASSUME NEW d, NEW e, CallsLeft(d, e), selection # 0
  PROVE  /\ \A i \in 1..Len(toDevice') : More(toDevice'[i]) =>
              /\ i + d \in 1..Len(toDevice) /\ More(toDevice[i + d])
              /\ toDevice'[i].cursor = toDevice[i + d].cursor
         /\ \A i \in 1..Len(toPage') : MoreOf(toPage'[i]) =>
              /\ i + e \in 1..Len(toPage) /\ MoreOf(toPage[i + e])
              /\ toPage'[i].call.cursor = toPage[i + e].call.cursor
<1>1. ASSUME NEW i \in 1..Len(toDevice'), More(toDevice'[i])
      PROVE  /\ i + d \in 1..Len(toDevice) /\ More(toDevice[i + d])
             /\ toDevice'[i].cursor = toDevice[i + d].cursor
  BY <1>1 DEF CallsLeft, SameCall, More
<1>2. ASSUME NEW i \in 1..Len(toPage'), MoreOf(toPage'[i])
      PROVE  /\ i + e \in 1..Len(toPage) /\ MoreOf(toPage[i + e])
             /\ toPage'[i].call.cursor = toPage[i + e].call.cursor
  BY <1>2 DEF CallsLeft, SameCall, More, MoreOf, T!Answers
<1> QED BY <1>1, <1>2

LEMMA EarlierOrderedStays ==
  ASSUME EarlierOrdered, NEW d \in {0, 1}, NEW e \in {0, 1}, CallsLeft(d, e), selection # 0
  PROVE  EarlierOrdered'
<1>1. /\ \A i \in 1..Len(toDevice') : More(toDevice'[i]) =>
           /\ i + d \in 1..Len(toDevice) /\ More(toDevice[i + d])
           /\ toDevice'[i].cursor = toDevice[i + d].cursor
      /\ \A i \in 1..Len(toPage') : MoreOf(toPage'[i]) =>
           /\ i + e \in 1..Len(toPage) /\ MoreOf(toPage[i + e])
           /\ toPage'[i].call.cursor = toPage[i + e].call.cursor
  BY MoreStays
<1>2. ASSUME NEW i \in 1..Len(toDevice'), NEW j \in 1..Len(toDevice'), i <= j,
             More(toDevice'[i]), More(toDevice'[j])
      PROVE  toDevice'[j].cursor <= toDevice'[i].cursor
  <2>1. i + d <= j + d BY <1>2
  <2> QED BY <1>1, <1>2, <2>1 DEF EarlierOrdered
<1>3. ASSUME NEW i \in 1..Len(toPage'), NEW j \in 1..Len(toPage'), i <= j,
             MoreOf(toPage'[i]), MoreOf(toPage'[j])
      PROVE  toPage'[j].call.cursor <= toPage'[i].call.cursor
  <2>1. i + e <= j + e BY <1>3
  <2> QED BY <1>1, <1>3, <2>1 DEF EarlierOrdered
<1>4. ASSUME NEW i \in 1..Len(toDevice'), NEW j \in 1..Len(toPage'),
             More(toDevice'[i]), MoreOf(toPage'[j])
      PROVE  toDevice'[i].cursor <= toPage'[j].call.cursor
  BY <1>1, <1>4 DEF EarlierOrdered
<1>5. selection' = selection BY DEF CallsLeft
<1> QED BY <1>2, <1>3, <1>4, <1>5 DEF EarlierOrdered, More, MoreOf

\* When nothing is loaded yet, or opening broke off, none are awaited.
LEMMA EarlierJoinsStays ==
  ASSUME EarlierJoins, NEW d, NEW e, CallsLeft(d, e), selection # 0,
         (selecting' = selecting /\ shown'.earlier = shown.earlier) \/ selecting # None
  PROVE  EarlierJoins'
<1>1. /\ \A i \in 1..Len(toDevice') : More(toDevice'[i]) =>
           /\ i + d \in 1..Len(toDevice) /\ More(toDevice[i + d])
           /\ toDevice'[i].cursor = toDevice[i + d].cursor
      /\ \A i \in 1..Len(toPage') : MoreOf(toPage'[i]) =>
           /\ i + e \in 1..Len(toPage) /\ MoreOf(toPage[i + e])
           /\ toPage'[i].call.cursor = toPage[i + e].call.cursor
  BY MoreStays
<1>2. ASSUME NEW c, Joins(c)
      PROVE  selecting' = None /\ From(c) <= shown'.earlier /\ shown'.earlier <= c
  BY <1>2 DEF Joins
<1>3. ASSUME NEW i \in 1..Len(toDevice'), More(toDevice'[i])
      PROVE  /\ selecting' = None /\ From(toDevice'[i].cursor) <= shown'.earlier
             /\ shown'.earlier <= toDevice'[i].cursor
  <2>1. Joins(toDevice[i + d].cursor) BY <1>1, <1>3 DEF EarlierJoins
  <2> QED BY <1>1, <1>2, <1>3, <2>1
<1>4. ASSUME NEW i \in 1..Len(toPage'), MoreOf(toPage'[i])
      PROVE  /\ selecting' = None /\ From(toPage'[i].call.cursor) <= shown'.earlier
             /\ shown'.earlier <= toPage'[i].call.cursor
  <2>1. Joins(toPage[i + e].call.cursor) BY <1>1, <1>4 DEF EarlierJoins
  <2> QED BY <1>1, <1>2, <1>4, <2>1
<1>5. selection' = selection BY DEF CallsLeft
<1> QED BY <1>3, <1>4, <1>5 DEF EarlierJoins, Joins, More, MoreOf, From

-----------------------------------------------------------------------------
(* The transcript: the device moves and answers                             *)

\* When the device stands as the model bounds it, all that is reported and held is recent.
LEMMA RecentIs ==
  ASSUME T!Recent, toPage \in Seq(PageMessages), shown # None => shown \in ShownThread
  PROVE  /\ \A i \in 1..Len(toPage) :
              toPage[i].kind \in T!Events => Len(device) + 1 - toPage[i].turn < PageOfTurns
         /\ shown # None /\ T!Opening =>
              \A i \in 1..Len(shown.turns) : Len(device) + 1 - shown.turns[i].turn < PageOfTurns
<1>1. DOMAIN toPage = 1..Len(toPage) BY LenProperties
<1>2. ASSUME NEW i \in 1..Len(toPage), toPage[i].kind \in T!Events
      PROVE  Len(device) + 1 - toPage[i].turn < PageOfTurns
  BY <1>1, <1>2, Zenon DEF T!Recent
<1>3. ASSUME shown # None, T!Opening, NEW i \in 1..Len(shown.turns)
      PROVE  Len(device) + 1 - shown.turns[i].turn < PageOfTurns
  <2>1. shown.turns \in Seq(ShownTurn) BY <1>3 DEF ShownThread
  <2>2. DOMAIN shown.turns = 1..Len(shown.turns) BY <2>1, LenProperties
  <2> QED BY <1>3, <2>2, Zenon DEF T!Recent
<1> QED BY <1>2, <1>3

\* Events are added to what is under way, and the head of the calls may be taken.
EventsAdded ==
  /\ Len(toPage) <= Len(toPage') /\ toPage' \in Seq(PageMessages)
  /\ \A i \in 1..Len(toPage) : toPage'[i] = toPage[i]
  /\ \A i \in (Len(toPage) + 1)..Len(toPage') :
       /\ toPage'[i].kind \in T!Events /\ toPage'[i].turn = Len(device')
       /\ toPage'[i].kind = "start" => i < Len(toPage') /\ toPage'[i + 1].kind = "started"
CallTaken == toDevice' = toDevice \/ (toDevice # <<>> /\ toDevice' = Tail(toDevice))
PageStays == UNCHANGED <<connected, selection, selecting, shown>>

LEMMA CallsTaken ==
  ASSUME toDevice \in Seq(PageCalls), CallTaken
  PROVE  /\ toDevice' \in Seq(PageCalls) /\ Len(toDevice') \in Nat
         /\ \E d \in {0, 1} : \A i \in 1..Len(toDevice') :
              i + d \in 1..Len(toDevice) /\ toDevice'[i] = toDevice[i + d]
<1>1. CASE toDevice' = toDevice
  <2>1. \A i \in 1..Len(toDevice') : i + 0 \in 1..Len(toDevice) /\ toDevice'[i] = toDevice[i + 0]
    BY <1>1
  <2> QED BY <1>1, <2>1
<1>2. CASE toDevice # <<>> /\ toDevice' = Tail(toDevice)
  <2>1. \A i \in 1..Len(toDevice') : i + 1 \in 1..Len(toDevice) /\ toDevice'[i] = toDevice[i + 1]
    BY <1>2
  <2> QED BY <1>2, <2>1
<1> QED BY <1>1, <1>2 DEF CallTaken

LEMMA EventsLeave ==
  ASSUME CallsKnown, toPage \in Seq(PageMessages), EventsAdded, CallTaken, PageStays
  PROVE  \E d \in {0, 1} : CallsLeft(d, 0)
<1>1. toDevice' \in Seq(PageCalls) BY CallsTaken DEF CallsKnown
<1>2. PICK d \in {0, 1} : \A i \in 1..Len(toDevice') :
        i + d \in 1..Len(toDevice) /\ toDevice'[i] = toDevice[i + d]
  BY CallsTaken DEF CallsKnown
<1>3. Len(toPage) \in Nat /\ Len(toPage') \in Nat BY DEF EventsAdded
<1>4. \A x : x \in T!Events => x \notin T!Answers BY DEF T!Events, T!Answers
<1>5. ASSUME NEW i \in 1..Len(toPage'), toPage'[i].kind \in T!Answers
      PROVE  i + 0 \in 1..Len(toPage) /\ toPage'[i] = toPage[i + 0]
  <2>1. i \in 1..Len(toPage) \/ i \in (Len(toPage) + 1)..Len(toPage') BY <1>3
  <2>2. i \in 1..Len(toPage) /\ toPage'[i] = toPage[i] BY <1>4, <1>5, <2>1 DEF EventsAdded
  <2>3. i + 0 = i OBVIOUS
  <2> QED BY <2>2, <2>3
<1> QED BY <1>1, <1>2, <1>5 DEF CallsLeft, SameCall, PageStays

LEMMA EventsKeepCalls ==
  ASSUME T!TranscriptAssumption, CallsKnown, StartsPaired, ReportsNear, Awaits,
         toPage \in Seq(PageMessages), selection \in Nat,
         shown # None => shown \in ShownThread /\ selection # 0,
         EventsAdded, CallTaken, PageStays, Len(device) \in Nat,
         Len(device') = Len(device) \/ (Len(device') = Len(device) + 1 /\ T!Recent)
  PROVE  CallsKnown' /\ StartsPaired' /\ ReportsNear' /\ Awaits'
<1>1. PICK d \in {0, 1} : CallsLeft(d, 0) BY EventsLeave
<1>2. Len(toPage) \in Nat /\ Len(toPage') \in Nat BY DEF EventsAdded
<1>3. \A i \in 1..Len(toPage') : i \in 1..Len(toPage) \/ i \in (Len(toPage) + 1)..Len(toPage')
  BY <1>2
<1>4. \A x : x \in T!Events => x \notin T!Answers BY DEF T!Events, T!Answers
<1>5. PageOfTurns \in Nat /\ PageOfTurns > 0
  <2>1. PageOfTurns \in Nat \ {0} BY DEF T!TranscriptAssumption
  <2> QED BY <2>1
<1>6. CallsKnown'
  <2>1. Len(device') \in Nat /\ Len(device) <= Len(device') OBVIOUS
  <2>2. 0 \in {0, 1} OBVIOUS
  <2> QED BY <1>1, <2>1, <2>2, CallsKnownStay
<1>7. StartsPaired'
  <2>1. ASSUME NEW i \in 1..Len(toPage'), toPage'[i].kind = "start"
        PROVE  /\ i < Len(toPage') /\ toPage'[i + 1].kind = "started"
               /\ toPage'[i + 1].turn = toPage'[i].turn
    <3>1. CASE i \in 1..Len(toPage)
      <4>1. toPage'[i] = toPage[i] BY <3>1 DEF EventsAdded
      <4>2. i < Len(toPage) /\ toPage[i + 1].kind = "started" /\ toPage[i + 1].turn = toPage[i].turn
        BY <2>1, <3>1, <4>1 DEF StartsPaired
      <4>3. i + 1 \in 1..Len(toPage) /\ i < Len(toPage') BY <1>2, <3>1, <4>2 DEF EventsAdded
      <4>4. toPage'[i + 1] = toPage[i + 1] BY <4>3 DEF EventsAdded
      <4> QED BY <4>1, <4>2, <4>3, <4>4
    <3>2. CASE i \in (Len(toPage) + 1)..Len(toPage')
      <4>1. i < Len(toPage') /\ toPage'[i + 1].kind = "started" /\ toPage'[i].turn = Len(device')
        BY <2>1, <3>2 DEF EventsAdded
      <4>2. i + 1 \in (Len(toPage) + 1)..Len(toPage') BY <1>2, <3>2, <4>1
      <4>3. toPage'[i + 1].turn = Len(device') BY <4>2 DEF EventsAdded
      <4> QED BY <4>1, <4>3
    <3> QED BY <1>3, <3>1, <3>2
  <2> QED BY <2>1 DEF StartsPaired
<1>8. ASSUME NEW x \in Nat, Len(device) - x < PageOfTurns,
             T!Recent => Len(device) + 1 - x < PageOfTurns
      PROVE  Len(device') - x < PageOfTurns
  BY <1>5, <1>8
<1>9. ReportsNear'
  <2>1. ASSUME NEW i \in 1..Len(toPage'), toPage'[i].kind \in T!Events
        PROVE  Len(device') - toPage'[i].turn < PageOfTurns
    <3>1. CASE i \in 1..Len(toPage)
      <4>1. toPage'[i] = toPage[i] BY <3>1 DEF EventsAdded
      <4>2. PICK x \in Nat : x = toPage[i].turn
        <5>1. toPage[i] \in PageMessages BY <3>1
        <5> QED BY <2>1, <4>1, <5>1, MessageFields
      <4>3. Len(device) - x < PageOfTurns BY <2>1, <3>1, <4>1, <4>2 DEF ReportsNear
      <4>4. T!Recent => Len(device) + 1 - x < PageOfTurns BY <2>1, <3>1, <4>1, <4>2, RecentIs
      <4> QED BY <1>8, <4>1, <4>2, <4>3, <4>4
    <3>2. CASE i \in (Len(toPage) + 1)..Len(toPage')
      <4>1. toPage'[i].turn = Len(device') BY <3>2 DEF EventsAdded
      <4>2. Len(device') \in Nat OBVIOUS
      <4>3. Len(device') - Len(device') = 0 BY <4>2
      <4> QED BY <1>5, <4>1, <4>3
    <3> QED BY <1>3, <3>1, <3>2
  <2> QED BY <2>1 DEF ReportsNear
<1>10. ASSUME Live PROVE OnePending' /\ EarlierJoins' /\ EarlierOrdered' /\ Near'
  <2>1. /\ OnePending /\ EarlierJoins /\ EarlierOrdered /\ Near /\ shown # None /\ selection # 0
        /\ shown \in ShownThread
    BY <1>10 DEF Awaits, Live
  <2>2. UNCHANGED <<selecting, shown>> /\ 0 \in {0, 1} BY DEF PageStays
  <2>3. OnePending' BY <1>1, <2>1, <2>2, OnePendingStays
  <2>4. EarlierOrdered' BY <1>1, <2>1, <2>2, EarlierOrderedStays
  <2>5. EarlierJoins' BY <1>1, <2>1, <2>2, EarlierJoinsStays
  <2>6. ASSUME T!Opening, NEW i \in 1..Len(shown.turns)
        PROVE  Len(device') - shown.turns[i].turn < PageOfTurns
    <3>1. PICK x \in Nat : x = shown.turns[i].turn
      <4>1. shown.turns \in Seq(ShownTurn) BY <2>1 DEF ShownThread
      <4>2. shown.turns[i] \in ShownTurn BY <4>1
      <4> QED BY <4>2 DEF ShownTurn
    <3>2. Len(device) - x < PageOfTurns BY <2>1, <2>6, <3>1 DEF Near
    <3>3. T!Recent => Len(device) + 1 - x < PageOfTurns BY <2>1, <2>6, <3>1, RecentIs
    <3> QED BY <1>8, <3>1, <3>2, <3>3
  <2>7. ASSUME NEW k \in 1..Len(toPage'), toPage'[k].kind = "read", Answering(toPage'[k], selection)
        PROVE  /\ \A i \in 1..Len(shown.turns) : shown.turns[i].turn > toPage'[k].earlier
               /\ \A i \in 1..(k - 1) :
                    toPage'[i].kind \in T!Events => toPage'[i].turn > toPage'[k].earlier
    <3>1. k \in 1..Len(toPage) /\ toPage'[k] = toPage[k]
      BY <1>3, <1>4, <2>7 DEF Answering, EventsAdded
    <3>2. \A i \in 1..(k - 1) : i \in 1..Len(toPage) BY <1>2, <3>1
    <3>3. \A i \in 1..(k - 1) : toPage'[i] = toPage[i] BY <3>2 DEF EventsAdded
    <3> QED BY <2>1, <2>7, <3>1, <3>3 DEF Near
  <2>8. Near' BY <2>2, <2>6, <2>7 DEF Near, T!Opening, PageStays
  <2> QED BY <2>3, <2>4, <2>5, <2>8
<1> QED BY <1>6, <1>7, <1>9, <1>10 DEF Awaits, Live, PageStays

\* Before the device reports, nothing of it is shown, and that fits every device.
LEMMA NothingShown ==
  ASSUME T!TranscriptAssumption, Empty, NEW v \in Devices
  PROVE  Shows(v)
<1>1. Len(v) \in Nat BY DEF Devices
<1>2. selecting \notin {None, "active", "idle"} BY DEF Empty, T!TranscriptAssumption
<1>3. 0 <= Len(v) /\ \A i \in 1..0 : FALSE BY <1>1
<1>4. Len(shown.turns) = 0 BY DEF Empty
<1> QED BY <1>2, <1>3, <1>4 DEF Empty, Shows

\* Errors tell of no change.
LEMMA ToldNothing ==
  ASSUME NEW q \in Seq(PageMessages), \A i \in 1..Len(q) : q[i].kind = "error", NEW w \in Devices
  PROVE  \E views \in Seq(Devices) : Tells(q, views) /\ views[1] = w /\ views[Len(views)] = w
<1>1. PICK n \in Nat : n = Len(q) OBVIOUS
<1>2. PICK views : views = [k \in 1..(n + 1) |-> w] OBVIOUS
<1>3. views \in Seq(Devices) /\ Len(views) = n + 1 /\ \A k \in 1..(n + 1) : views[k] = w
  BY <1>2
<1>4. \A k \in 1..Len(q) : Reports(q[k], views[k], views[k + 1])
  <2> TAKE k \in 1..Len(q)
  <2>1. k \in 1..(n + 1) /\ k + 1 \in 1..(n + 1) BY <1>1
  <2>2. q[k].kind = "error" /\ views[k] = w /\ views[k + 1] = w BY <1>3, <2>1
  <2> QED BY <2>2 DEF Reports
<1>5. 1 \in 1..(n + 1) /\ n + 1 \in 1..(n + 1) BY <1>1
<1>6. \A k \in 1..Len(views) : Len(views[k]) <= Len(views[Len(views)])
  <2>1. Len(w) \in Nat /\ Len(w) <= Len(w)
    <3>1. Len(w) \in Nat BY DEF Devices
    <3> QED BY <3>1
  <2> QED BY <1>3, <1>5, <2>1
<1> QED BY <1>1, <1>3, <1>4, <1>5, <1>6 DEF Tells

\* A step of the device is told to the page, once the device reports to it.
DeviceTold ==
  IF subscribed
  THEN \A views \in Seq(Devices) : WentThrough(views) =>
         \E more \in Seq(Devices) :
           Tells(toPage', more) /\ more[Len(more)] = device' /\ more[1] = views[1]
  ELSE toPage' = toPage /\ toDevice' = toDevice

DeviceTypes ==
  \A t \in 1..Len(device) : device[t].text <= MaxText /\ (~device[t].done => ~device[t].whole)

LEMMA KeptNow ==
  ASSUME TranscriptKept
  PROVE  /\ TranscriptTypes /\ DeviceTypes /\ device \in Devices /\ Len(device) \in Nat
         /\ toPage \in Seq(PageMessages) /\ Len(toPage) \in Nat
         /\ toDevice \in Seq(PageCalls) /\ Len(toDevice) \in Nat /\ selection \in Nat
         /\ shown # None => shown \in ShownThread /\ selection # 0
         /\ \E views \in Seq(Devices) : WentThrough(views)
<1>1. PICK views \in Seq(Devices) : WentThrough(views) BY DEF TranscriptKept
<1>2. /\ device \in Devices /\ Len(device) \in Nat
      /\ toPage \in Seq(PageMessages) /\ Len(toPage) \in Nat
  BY <1>1, KeptDevice
<1>3. selection \in 0..MaxSelections BY DEF TranscriptKept, TranscriptTypes
<1>4. toDevice \in Seq(PageCalls) BY DEF TranscriptKept, CallsKnown
<1>5. shown # None => shown \in ShownThread /\ selection # 0 BY DEF TranscriptKept, TranscriptTypes
<1>6. TranscriptTypes /\ DeviceTypes BY DEF TranscriptKept, TranscriptTypes, DeviceTypes
<1> QED BY <1>1, <1>2, <1>3, <1>4, <1>5, <1>6

LEMMA DeviceStepKeeps ==
  ASSUME T!TranscriptAssumption, TranscriptKept, EventsAdded, CallTaken,
         UNCHANGED <<subscribed, connected, selection, selecting, shown, partial>>,
         device' \in Devices, DeviceTypes', DeviceTold,
         Len(device') = Len(device) \/ (Len(device') = Len(device) + 1 /\ T!Recent)
  PROVE  TranscriptKept'
<1>1. PICK views \in Seq(Devices) : WentThrough(views) BY DEF TranscriptKept
<1>2. /\ Len(device) \in Nat /\ toPage \in Seq(PageMessages) /\ selection \in Nat
      /\ shown # None => shown \in ShownThread /\ selection # 0
  BY KeptNow
<1>3. CallsKnown' /\ StartsPaired' /\ ReportsNear' /\ Awaits'
  <2>1. PageStays BY DEF PageStays
  <2> QED BY <1>2, <2>1, EventsKeepCalls DEF TranscriptKept
<1>4. TranscriptTypes'
  <2>1. TranscriptTypes BY DEF TranscriptKept
  <2>2. CASE subscribed
    <3>1. connected BY <2>1, <2>2 DEF TranscriptTypes
    <3> QED BY <2>1, <2>2, <3>1 DEF TranscriptTypes, DeviceTypes
  <2>3. CASE ~subscribed
    <3>1. toPage' = toPage /\ toDevice' = toDevice BY <2>3 DEF DeviceTold
    <3> QED BY <2>1, <2>3, <3>1 DEF TranscriptTypes, DeviceTypes, Live, Empty
  <2> QED BY <2>2, <2>3
<1>5. \E more \in Seq(Devices) : WentThrough(more)'
  <2>1. CASE subscribed
    <3>1. PICK more \in Seq(Devices) :
            Tells(toPage', more) /\ more[Len(more)] = device' /\ more[1] = views[1]
      BY <1>1, <2>1 DEF DeviceTold
    <3>2. Live' => Shows(more[1])'
      <4>1. Live => Shows(views[1]) BY <1>1 DEF WentThrough
      <4> QED BY <3>1, <4>1 DEF Shows, Live
    <3> QED BY <3>1, <3>2 DEF WentThrough
  <2>2. CASE ~subscribed
    <3>1. toPage' = toPage /\ \A i \in 1..Len(toPage) : toPage[i].kind = "error"
      BY <2>2 DEF DeviceTold, TranscriptKept, TranscriptTypes
    <3>2. PICK w \in Devices : w = device' OBVIOUS
    <3>3. PICK more \in Seq(Devices) : Tells(toPage, more) /\ more[1] = w /\ more[Len(more)] = w
      BY <1>2, <3>1, ToldNothing
    <3>4. Live' => Shows(more[1])'
      <4>1. Live => Empty BY <2>2 DEF TranscriptKept, TranscriptTypes
      <4>2. Live => Shows(w) BY <4>1, NothingShown
      <4> QED BY <3>3, <4>2 DEF Shows, Live
    <3> QED BY <3>1, <3>2, <3>3, <3>4 DEF WentThrough
  <2> QED BY <2>1, <2>2
<1>6. shown' # None /\ ~connected' => \E v \in Devices : Shows(v)'
  BY DEF TranscriptKept, Shows
<1> QED BY <1>3, <1>4, <1>5, <1>6 DEF TranscriptKept

\* Messages that report a step of the device, or two.
LEMMA OneTold ==
  ASSUME \E views \in Seq(Devices) : WentThrough(views),
         NEW m \in PageMessages, m.kind \in T!Events, m.kind # "start", m.turn = Len(device'),
         device' \in Devices, Reports(m, device, device'),
         toPage' = IF subscribed THEN Append(toPage, m) ELSE toPage, toDevice' = toDevice
  PROVE  EventsAdded /\ CallTaken /\ DeviceTold
<1>1. toPage \in Seq(PageMessages) /\ Len(toPage) \in Nat BY KeptDevice
<1>2. PICK w \in Devices : w = device' OBVIOUS
<1>3. EventsAdded
  <2>1. CASE subscribed
    <3>1. PICK q : q = Append(toPage, m) OBVIOUS
    <3>2. /\ q \in Seq(PageMessages) /\ Len(q) = Len(toPage) + 1 /\ q[Len(toPage) + 1] = m
          /\ \A i \in 1..Len(toPage) : q[i] = toPage[i]
      BY <1>1, <3>1
    <3>3. toPage' = q BY <2>1, <3>1
    <3>4. \A i \in (Len(toPage) + 1)..Len(q) : q[i] = m
      <4>1. \A i \in (Len(toPage) + 1)..Len(q) : i = Len(toPage) + 1 BY <1>1, <3>2
      <4> QED BY <3>2, <4>1
    <3>5. Len(toPage) <= Len(q) BY <1>1, <3>2
    <3> QED BY <3>2, <3>3, <3>4, <3>5 DEF EventsAdded
  <2>2. CASE ~subscribed
    <3>1. toPage' = toPage BY <2>2
    <3>2. \A i \in (Len(toPage) + 1)..Len(toPage) : FALSE BY <1>1
    <3> QED BY <1>1, <3>1, <3>2 DEF EventsAdded
  <2> QED BY <2>1, <2>2
<1>4. DeviceTold
  <2>1. CASE subscribed
    <3>1. ASSUME NEW views \in Seq(Devices), WentThrough(views)
          PROVE  \E more \in Seq(Devices) :
                   Tells(toPage', more) /\ more[Len(more)] = device' /\ more[1] = views[1]
      <4>1. Tells(toPage, views) /\ device = views[Len(views)] BY <3>1 DEF WentThrough
      <4>2. PICK more : more = Append(views, w) OBVIOUS
      <4>3. Tells(Append(toPage, m), more) /\ more[Len(more)] = w /\ more[1] = views[1]
        BY <1>2, <4>1, <4>2, TellsMore
      <4>4. more \in Seq(Devices) BY <3>1, <4>2
      <4> QED BY <1>2, <2>1, <4>3, <4>4
    <3> QED BY <2>1, <3>1 DEF DeviceTold
  <2>2. CASE ~subscribed BY <2>2 DEF DeviceTold
  <2> QED BY <2>1, <2>2
<1> QED BY <1>3, <1>4 DEF CallTaken

LEMMA TwoTold ==
  ASSUME \E views \in Seq(Devices) : WentThrough(views),
         NEW a \in PageMessages, a.kind \in T!Events, a.turn = Len(device'),
         NEW b \in PageMessages, b.kind \in T!Events, b.turn = Len(device'), b.kind # "start",
         a.kind = "start" => b.kind = "started",
         device' \in Devices, NEW mid \in Devices, Reports(a, device, mid), Reports(b, mid, device'),
         toPage' = IF subscribed THEN toPage \o <<a, b>> ELSE toPage,
         CallTaken, subscribed \/ toDevice' = toDevice
  PROVE  EventsAdded /\ DeviceTold
<1>1. toPage \in Seq(PageMessages) /\ Len(toPage) \in Nat BY KeptDevice
<1>2. PICK w \in Devices : w = device' OBVIOUS
<1>3. PICK q : q = Append(Append(toPage, a), b) OBVIOUS
<1>4. /\ q \in Seq(PageMessages) /\ Len(q) = Len(toPage) + 2
      /\ q[Len(toPage) + 1] = a /\ q[Len(toPage) + 2] = b
      /\ \A i \in 1..Len(toPage) : q[i] = toPage[i]
  <2>1. PICK p : p = Append(toPage, a) OBVIOUS
  <2>2. /\ p \in Seq(PageMessages) /\ Len(p) = Len(toPage) + 1 /\ p[Len(toPage) + 1] = a
        /\ \A i \in 1..Len(toPage) : p[i] = toPage[i]
    BY <1>1, <2>1
  <2>3. /\ q \in Seq(PageMessages) /\ Len(q) = Len(p) + 1 /\ q[Len(p) + 1] = b
        /\ \A i \in 1..Len(p) : q[i] = p[i]
    BY <1>3, <2>1, <2>2
  <2>4. Len(p) + 1 = Len(toPage) + 2 /\ Len(toPage) + 1 \in 1..Len(p)
        /\ \A i \in 1..Len(toPage) : i \in 1..Len(p)
    BY <1>1, <2>2
  <2> QED BY <2>2, <2>3, <2>4
<1>5. subscribed => toPage' = q
  <2>1. toPage \o <<a, b>> = q BY <1>1, <1>3
  <2> QED BY <2>1
<1>6. EventsAdded
  <2>1. CASE subscribed
    <3>1. \A i \in (Len(toPage) + 1)..Len(q) :
            (q[i] = a /\ i < Len(q) /\ q[i + 1] = b) \/ q[i] = b
      <4>1. \A i \in (Len(toPage) + 1)..Len(q) :
              (i = Len(toPage) + 1 /\ i + 1 = Len(toPage) + 2 /\ i < Len(q)) \/ i = Len(toPage) + 2
        BY <1>1, <1>4
      <4> QED BY <1>4, <4>1
    <3>2. Len(toPage) <= Len(q) BY <1>1, <1>4
    <3>3. \A i \in (Len(toPage) + 1)..Len(q) :
            /\ q[i].kind \in T!Events /\ q[i].turn = Len(device')
            /\ q[i].kind = "start" => i < Len(q) /\ q[i + 1].kind = "started"
      BY <3>1
    <3>4. /\ Len(toPage) <= Len(toPage') /\ toPage' \in Seq(PageMessages)
          /\ \A i \in 1..Len(toPage) : toPage'[i] = toPage[i]
          /\ \A i \in (Len(toPage) + 1)..Len(toPage') :
               /\ toPage'[i].kind \in T!Events /\ toPage'[i].turn = Len(device')
               /\ toPage'[i].kind = "start" => i < Len(toPage') /\ toPage'[i + 1].kind = "started"
      <4>1. toPage' = q BY <1>5, <2>1
      <4> QED BY <1>4, <3>2, <3>3, <4>1
    <3> QED BY <3>4 DEF EventsAdded
  <2>2. CASE ~subscribed
    <3>1. toPage' = toPage BY <2>2
    <3>2. \A i \in (Len(toPage) + 1)..Len(toPage) : FALSE BY <1>1
    <3> QED BY <1>1, <3>1, <3>2 DEF EventsAdded
  <2> QED BY <2>1, <2>2
<1>7. DeviceTold
  <2>1. CASE subscribed
    <3>1. ASSUME NEW views \in Seq(Devices), WentThrough(views)
          PROVE  \E more \in Seq(Devices) :
                   Tells(toPage', more) /\ more[Len(more)] = device' /\ more[1] = views[1]
      <4>1. Tells(toPage, views) /\ device = views[Len(views)] BY <3>1 DEF WentThrough
      <4>2. PICK some : some = Append(views, mid) OBVIOUS
      <4>3. Tells(Append(toPage, a), some) /\ some[Len(some)] = mid /\ some[1] = views[1]
        BY <4>1, <4>2, TellsMore
      <4>4. PICK more : more = Append(some, w) OBVIOUS
      <4>5. Tells(q, more) /\ more[Len(more)] = w /\ more[1] = some[1]
        BY <1>2, <1>3, <4>3, <4>4, TellsMore
      <4>6. more \in Seq(Devices) BY <4>5 DEF Tells
      <4> QED BY <1>2, <1>5, <2>1, <4>3, <4>5, <4>6
    <3> QED BY <2>1, <3>1 DEF DeviceTold
  <2>2. CASE ~subscribed BY <2>2 DEF DeviceTold
  <2> QED BY <2>1, <2>2
<1> QED BY <1>6, <1>7

\* A device whose turns are over takes another one.
LEMMA NextTurnIs ==
  ASSUME T!TranscriptAssumption, device \in Devices, DeviceTypes, T!NextTurn
  PROVE  /\ device' = Append(device, Fresh) /\ device' \in Devices /\ DeviceTypes'
         /\ Len(device') = Len(device) + 1 /\ Len(device') \in Nat \ {0} /\ T!Recent
         /\ UnderWay(device')
<1>1. /\ device \in Seq(DeviceTurn) /\ Len(device) \in Nat /\ DOMAIN device = 1..Len(device)
      /\ Len(device) < MaxTurns /\ \A t \in 1..Len(device) : device[t].done
  BY DEF Devices, T!NextTurn, T!Active
<1>2. PICK w : w = Append(device, Fresh) OBVIOUS
<1>3. device' = w BY <1>2 DEF T!NextTurn, Fresh
<1>4. Fresh \in DeviceTurn BY DEF Fresh, DeviceTurn
<1>5. /\ w \in Seq(DeviceTurn) /\ Len(w) = Len(device) + 1 /\ w[Len(device) + 1] = Fresh
      /\ \A t \in 1..Len(device) : w[t] = device[t]
  BY <1>1, <1>2, <1>4
<1>6. \A t \in 1..Len(w) : t \in 1..Len(device) \/ t = Len(device) + 1 BY <1>1, <1>5
<1>7. MaxTurns \in Nat /\ MaxText \in Nat BY DEF T!TranscriptAssumption
<1>8. w \in Devices
  <2>1. Len(w) <= MaxTurns BY <1>1, <1>5, <1>7
  <2>2. \A t \in 1..(Len(w) - 1) : t \in 1..Len(device) BY <1>1, <1>5
  <2> QED BY <1>1, <1>5, <2>1, <2>2 DEF Devices
<1>9. \A t \in 1..Len(w) : w[t].text <= MaxText /\ (~w[t].done => ~w[t].whole)
  <2> TAKE t \in 1..Len(w)
  <2>1. CASE t \in 1..Len(device) BY <1>5, <2>1 DEF DeviceTypes
  <2>2. CASE t = Len(device) + 1 BY <1>5, <1>7, <2>2 DEF Fresh
  <2> QED BY <1>6, <2>1, <2>2
<1>10. UnderWay(w) BY <1>1, <1>5 DEF UnderWay, Fresh
<1> QED BY <1>1, <1>2, <1>3, <1>5, <1>8, <1>9, <1>10 DEF DeviceTypes, T!NextTurn

\* A turn is started on the device.
LEMMA TurnStartsKeeps ==
  ASSUME T!TranscriptAssumption, TranscriptKept, T!TurnStarts
  PROVE  TranscriptKept'
<1>1. /\ device' = Append(device, Fresh) /\ device' \in Devices /\ DeviceTypes'
      /\ Len(device') = Len(device) + 1 /\ Len(device') \in Nat \ {0} /\ T!Recent
  BY NextTurnIs, KeptNow DEF T!TurnStarts
<1>2. PICK n : n = Len(device') OBVIOUS
<1> DEFINE m == [kind |-> "started", turn |-> n]
<1>3. m \in PageMessages BY <1>1, <1>2 DEF PageMessages
<1>4. m.kind = "started" /\ m.turn = n OBVIOUS
<1>5. toPage' = IF subscribed THEN Append(toPage, m) ELSE toPage
  <2>1. n = Len(device) + 1 BY <1>1, <1>2
  <2> QED BY <2>1 DEF T!TurnStarts, T!Report
<1>6. toDevice' = toDevice /\ UNCHANGED <<subscribed, connected, selection, selecting, shown, partial>>
  BY DEF T!TurnStarts, T!page
<1> HIDE DEF m
<1>7. Reports(m, device, device') BY <1>1, <1>2, <1>4 DEF Reports
<1>8. m.kind \in T!Events BY <1>4 DEF T!Events
<1>9. EventsAdded /\ CallTaken /\ DeviceTold
  BY <1>1, <1>2, <1>3, <1>4, <1>5, <1>6, <1>7, <1>8, KeptNow, OneTold
<1> QED BY <1>1, <1>6, <1>9, DeviceStepKeeps

\* The turns of a device are changed field by field.
LEMMA TextChanged ==
  ASSUME NEW turn \in DeviceTurn, NEW text
  PROVE  [turn EXCEPT !.text = text] = [text |-> text, done |-> turn.done, whole |-> turn.whole]
<1>1. PICK a, b, c : turn = [text |-> a, done |-> b, whole |-> c] BY DEF DeviceTurn
<1>2. turn.text = a /\ turn.done = b /\ turn.whole = c BY <1>1
<1>3. [turn EXCEPT !.text = text] = [text |-> text, done |-> b, whole |-> c] BY <1>1
<1> QED BY <1>2, <1>3

LEMMA DoneChanged ==
  ASSUME NEW turn \in DeviceTurn, NEW whole
  PROVE  [[turn EXCEPT !.done = TRUE] EXCEPT !.whole = whole]
         = [text |-> turn.text, done |-> TRUE, whole |-> whole]
<1>1. PICK a, b, c : turn = [text |-> a, done |-> b, whole |-> c] BY DEF DeviceTurn
<1>2. turn.text = a /\ turn.done = b /\ turn.whole = c BY <1>1
<1>3. PICK ended : ended = [turn EXCEPT !.done = TRUE] OBVIOUS
<1>4. ended = [text |-> a, done |-> TRUE, whole |-> c] BY <1>1, <1>3
<1>5. [ended EXCEPT !.whole = whole] = [text |-> a, done |-> TRUE, whole |-> whole]
  <2>1. PICK d : d = TRUE OBVIOUS
  <2>2. ended = [text |-> a, done |-> d, whole |-> c] BY <1>4, <2>1
  <2>3. [ended EXCEPT !.whole = whole] = [text |-> a, done |-> d, whole |-> whole] BY <2>2
  <2> QED BY <2>1, <2>3
<1> QED BY <1>2, <1>3, <1>5

\* The last turn of the device, which is under way.
LEMMA LastTurn ==
  ASSUME device \in Devices, T!Active
  PROVE  /\ UnderWay(device) /\ Len(device) \in Nat \ {0} /\ Len(device) \in DOMAIN device
         /\ device[Len(device)] \in DeviceTurn /\ ~device[Len(device)].done
<1>1. UnderWay(device) BY DeviceStatus
<1>2. device \in Seq(DeviceTurn) /\ Len(device) \in Nat BY DEF Devices
<1>3. Len(device) \in 1..Len(device) BY <1>1, <1>2 DEF UnderWay
<1> QED BY <1>1, <1>2, <1>3 DEF UnderWay

\* The device after a change of its last turn.
LEMMA DeviceChanged ==
  ASSUME T!TranscriptAssumption, device \in Devices, T!Active, NEW turn \in DeviceTurn,
         turn.text <= MaxText, ~turn.done => ~turn.whole,
         NEW w, Changes(device, w, turn), DeviceTypes
  PROVE  /\ w \in Devices /\ Len(w) = Len(device)
         /\ \A t \in 1..Len(w) : w[t].text <= MaxText /\ (~w[t].done => ~w[t].whole)
<1>1. /\ device \in Seq(DeviceTurn) /\ Len(device) \in Nat /\ DOMAIN device = 1..Len(device)
      /\ \A t \in 1..(Len(device) - 1) : device[t].done
      /\ Len(device) <= MaxTurns
  BY DEF Devices
<1>2. w = [device EXCEPT ![Len(device)] = turn] BY DEF Changes
<1>3. w \in Seq(DeviceTurn) /\ Len(w) = Len(device)
  <2>1. Len(device) \in 1..Len(device) BY LastTurn
  <2> QED BY <1>1, <1>2, <2>1, ExceptSeq
<1>4. \A t \in 1..Len(device) : w[t] = IF t = Len(device) THEN turn ELSE device[t]
  BY <1>1, <1>2
<1>5. w \in Devices
  <2>1. \A t \in 1..(Len(device) - 1) : t \in 1..Len(device) /\ t # Len(device)
    <3>1. Len(device) \in Nat BY <1>1
    <3> QED BY <3>1
  <2> QED BY <1>1, <1>3, <1>4, <2>1 DEF Devices
<1>6. \A t \in 1..Len(w) : w[t].text <= MaxText /\ (~w[t].done => ~w[t].whole)
  BY <1>3, <1>4 DEF DeviceTypes
<1> QED BY <1>3, <1>5, <1>6

\* A turn on the device goes on.
LEMMA DeltaKeeps ==
  ASSUME T!TranscriptAssumption, TranscriptKept, T!Delta
  PROVE  TranscriptKept'
<1>1. device \in Devices /\ DeviceTypes /\ T!Active BY KeptNow DEF T!Delta
<1>2. /\ UnderWay(device) /\ Len(device) \in Nat \ {0} /\ Len(device) \in DOMAIN device
      /\ device[Len(device)] \in DeviceTurn /\ ~device[Len(device)].done
  BY <1>1, LastTurn
<1>3. PICK last : last = device[Len(device)] OBVIOUS
<1>4. /\ last \in DeviceTurn /\ last.text \in Nat /\ last.done = FALSE /\ last.whole = FALSE
      /\ last.text < MaxText /\ last.text + 1 <= MaxText
  <2>1. ~last.whole
    <3>1. Len(device) \in 1..Len(device) BY <1>2
    <3> QED BY <1>1, <1>2, <1>3, <3>1 DEF DeviceTypes
  <2>2. last.text < MaxText BY <1>3 DEF T!Delta
  <2>3. last \in DeviceTurn /\ last.text \in Nat /\ last.done = FALSE /\ last.whole = FALSE
    BY <1>2, <1>3, <2>1 DEF DeviceTurn
  <2>4. MaxText \in Nat BY DEF T!TranscriptAssumption
  <2>5. last.text + 1 <= MaxText BY <2>2, <2>3, <2>4
  <2> QED BY <2>2, <2>3, <2>5
<1>5. PICK text \in Nat : text = last.text + 1 BY <1>4
<1>6. PICK turn \in DeviceTurn : turn = [text |-> text, done |-> FALSE, whole |-> FALSE]
  BY <1>5 DEF DeviceTurn
<1>7. turn = [last EXCEPT !.text = text]
  <2>1. [last EXCEPT !.text = text] = [text |-> text, done |-> last.done, whole |-> last.whole]
    BY <1>4, TextChanged
  <2> QED BY <1>4, <1>6, <2>1
<1>8. PICK w : w = [device EXCEPT ![Len(device)] = turn] OBVIOUS
<1>9. device' = w BY <1>3, <1>5, <1>7, <1>8 DEF T!Delta
<1>10. Changes(device, w, turn) BY <1>2, <1>8 DEF Changes
<1>11. /\ w \in Devices /\ Len(w) = Len(device)
       /\ \A t \in 1..Len(w) : w[t].text <= MaxText /\ (~w[t].done => ~w[t].whole)
  <2>1. turn.text <= MaxText /\ (~turn.done => ~turn.whole) BY <1>4, <1>5, <1>6
  <2> QED BY <1>1, <1>10, <2>1, DeviceChanged
<1>12. w[Len(device)] = turn BY <1>1, <1>10, ChangesIs
<1> DEFINE m == [kind |-> "delta", turn |-> Len(device), delta |-> text]
<1>13. m \in PageMessages BY <1>2, <1>5 DEF PageMessages
<1>14. m.kind = "delta" /\ m.turn = Len(device) /\ m.delta = text OBVIOUS
<1>15. toPage' = IF subscribed THEN Append(toPage, m) ELSE toPage
  <2>1. device'[Len(device)].text = text BY <1>6, <1>9, <1>12
  <2> QED BY <2>1 DEF T!Delta, T!Report
<1>16. toDevice' = toDevice /\ UNCHANGED <<subscribed, connected, selection, selecting, shown, partial>>
  BY DEF T!Delta, T!page
<1> HIDE DEF m
<1>17. Reports(m, device, w) BY <1>3, <1>4, <1>5, <1>6, <1>10, <1>14 DEF Reports
<1>18. m.kind \in T!Events BY <1>14 DEF T!Events
<1>19. EventsAdded /\ CallTaken /\ DeviceTold
  BY <1>9, <1>11, <1>13, <1>14, <1>15, <1>16, <1>17, <1>18, KeptNow, OneTold
<1>20. DeviceTypes' BY <1>9, <1>11 DEF DeviceTypes
<1> QED BY <1>9, <1>11, <1>16, <1>19, <1>20, DeviceStepKeeps

\* A turn on the device ends: two reports, and a state of the device between them.
LEMMA TurnEndsKeeps ==
  ASSUME T!TranscriptAssumption, TranscriptKept, NEW whole \in BOOLEAN, T!TurnEnds(whole)
  PROVE  TranscriptKept'
<1>1. device \in Devices /\ DeviceTypes /\ T!Active BY KeptNow DEF T!TurnEnds
<1>2. /\ UnderWay(device) /\ Len(device) \in Nat \ {0} /\ Len(device) \in DOMAIN device
      /\ device[Len(device)] \in DeviceTurn /\ ~device[Len(device)].done
  BY <1>1, LastTurn
<1>3. PICK last \in DeviceTurn : last = device[Len(device)] BY <1>2
<1>4. PICK text \in Nat : text = last.text BY DEF DeviceTurn
<1>5. text <= MaxText
  <2>1. Len(device) \in 1..Len(device) BY <1>2
  <2> QED BY <1>1, <1>3, <1>4, <2>1 DEF DeviceTypes
<1>6. PICK turn \in DeviceTurn : turn = [text |-> text, done |-> TRUE, whole |-> whole]
  BY DEF DeviceTurn
<1>7. PICK half \in DeviceTurn : half = [text |-> text, done |-> FALSE, whole |-> whole]
  BY DEF DeviceTurn
<1>8. PICK w : w = [device EXCEPT ![Len(device)] = turn] OBVIOUS
<1>9. PICK mid : mid = [device EXCEPT ![Len(device)] = half] OBVIOUS
<1>10. device' = w
  <2>1. turn = [[last EXCEPT !.done = TRUE] EXCEPT !.whole = whole]
    <3>1. [[last EXCEPT !.done = TRUE] EXCEPT !.whole = whole]
          = [text |-> last.text, done |-> TRUE, whole |-> whole]
      BY <1>3, DoneChanged
    <3> QED BY <1>4, <1>6, <3>1
  <2>2. device' = [[device EXCEPT ![Len(device)].done = TRUE] EXCEPT ![Len(device)].whole = whole]
    BY DEF T!TurnEnds
  <2> QED BY <1>2, <1>3, <1>8, <2>1, <2>2
<1>11. Changes(device, w, turn) BY <1>2, <1>8 DEF Changes
<1>12. /\ w \in Devices /\ Len(w) = Len(device)
       /\ \A t \in 1..Len(w) : w[t].text <= MaxText /\ (~w[t].done => ~w[t].whole)
  <2>1. turn.text <= MaxText /\ (~turn.done => ~turn.whole) BY <1>5, <1>6
  <2> QED BY <1>1, <1>11, <2>1, DeviceChanged
<1>13. Changes(device, mid, half) BY <1>2, <1>9 DEF Changes
<1>14. /\ Len(mid) = Len(device) /\ mid[Len(device)] = half BY <1>1, <1>13, ChangesIs
<1>15. mid \in Devices
  <2>1. device \in Seq(DeviceTurn) /\ DOMAIN device = 1..Len(device) /\ Len(device) <= MaxTurns
        /\ \A t \in 1..(Len(device) - 1) : device[t].done
    BY <1>1 DEF Devices
  <2>2. mid \in Seq(DeviceTurn)
    <3>1. Len(device) \in 1..Len(device) BY <1>2
    <3> QED BY <1>9, <2>1, <3>1, ExceptSeq
  <2>3. \A t \in 1..(Len(device) - 1) : mid[t] = device[t] BY <1>1, <1>13, ChangesIs
  <2> QED BY <1>14, <2>1, <2>2, <2>3 DEF Devices
<1>16. Changes(mid, w, turn)
  <2>1. UnderWay(mid) BY <1>2, <1>7, <1>14 DEF UnderWay
  <2>2. w = [mid EXCEPT ![Len(device)] = turn] BY <1>2, <1>8, <1>9
  <2> QED BY <1>14, <2>1, <2>2 DEF Changes
<1> DEFINE a == [kind |-> "item", turn |-> Len(device),
                 text |-> IF whole THEN T!Text(text) ELSE <<>>]
           b == [kind |-> "completed", turn |-> Len(device)]
<1>17. (IF whole THEN T!Text(text) ELSE <<>>) \in Seq(Nat) BY TextFacts
<1>18. a \in PageMessages /\ b \in PageMessages BY <1>2, <1>17 DEF PageMessages
<1>19. /\ a.kind = "item" /\ a.turn = Len(device) /\ a.text = IF whole THEN T!Text(text) ELSE <<>>
       /\ b.kind = "completed" /\ b.turn = Len(device)
  OBVIOUS
<1>20. toPage' = IF subscribed THEN toPage \o <<a, b>> ELSE toPage
  BY <1>3, <1>4 DEF T!TurnEnds
<1>21. toDevice' = toDevice /\ UNCHANGED <<subscribed, connected, selection, selecting, shown, partial>>
  BY DEF T!TurnEnds, T!page
<1> HIDE DEF a, b
<1>22. Reports(a, device, mid)
  <2>1. half = [text |-> device[Len(device)].text, done |-> FALSE, whole |-> whole]
    BY <1>3, <1>4, <1>7
  <2>2. a.text = IF whole THEN T!Text(device[Len(device)].text) ELSE <<>> BY <1>3, <1>4, <1>19
  <2>3. \E every \in BOOLEAN :
          /\ a.text = IF every THEN T!Text(device[Len(device)].text) ELSE <<>>
          /\ Changes(device, mid, [text |-> device[Len(device)].text, done |-> FALSE, whole |-> every])
    BY <1>13, <2>1, <2>2
  <2> QED BY <1>19, <2>3 DEF Reports
<1>23. Reports(b, mid, w)
  <2>1. turn = [text |-> mid[Len(mid)].text, done |-> TRUE, whole |-> mid[Len(mid)].whole]
    BY <1>6, <1>7, <1>14
  <2>2. b.turn = Len(mid) BY <1>14, <1>19
  <2> QED BY <1>16, <1>19, <2>1, <2>2 DEF Reports
<1>24. a.kind \in T!Events /\ b.kind \in T!Events BY <1>19 DEF T!Events
<1>25. CallTaken BY <1>21 DEF CallTaken
<1>26. EventsAdded /\ DeviceTold
  BY <1>10, <1>12, <1>15, <1>18, <1>19, <1>20, <1>21, <1>22, <1>23, <1>24, <1>25, KeptNow, TwoTold
<1>27. DeviceTypes' BY <1>10, <1>12 DEF DeviceTypes
<1> QED BY <1>10, <1>12, <1>21, <1>25, <1>26, <1>27, DeviceStepKeeps


\* The device serves the start of a turn.
LEMMA ServeStartKeeps ==
  ASSUME T!TranscriptAssumption, TranscriptKept,
         NEW call \in [kind : {"start"}, epoch : Nat],
         toDevice # <<>>, toDevice' = Tail(toDevice), subscribed, T!NextTurn,
         toPage' = toPage \o <<[kind |-> "start", call |-> call, turn |-> Len(device')],
                               [kind |-> "started", turn |-> Len(device')]>>,
         UNCHANGED <<subscribed, connected, selection, selecting, shown, partial>>
  PROVE  TranscriptKept'
<1>1. device \in Devices /\ DeviceTypes BY KeptNow
<1>2. CallTaken BY DEF CallTaken
<1>3. /\ device' = Append(device, Fresh) /\ device' \in Devices /\ DeviceTypes'
      /\ Len(device') = Len(device) + 1 /\ Len(device') \in Nat \ {0} /\ T!Recent
      /\ UnderWay(device')
  BY <1>1, NextTurnIs
<1>4. PICK w \in Devices : w = device' BY <1>3
<1> DEFINE a == [kind |-> "start", call |-> call, turn |-> Len(w)]
           b == [kind |-> "started", turn |-> Len(w)]
<1>5. a \in PageMessages /\ b \in PageMessages BY <1>3, <1>4 DEF PageMessages
<1>6. /\ a.kind = "start" /\ a.call = call /\ a.turn = Len(w)
      /\ b.kind = "started" /\ b.turn = Len(w)
  OBVIOUS
<1>7. toPage' = IF subscribed THEN toPage \o <<a, b>> ELSE toPage BY <1>4
<1> HIDE DEF a, b
<1>8. PICK mid \in Devices : mid = IF call.epoch = 0 THEN device ELSE w
  <2>1. (IF call.epoch = 0 THEN device ELSE w) \in Devices BY <1>1
  <2> QED BY <2>1, Zenon
<1>9. Reports(a, device, mid)
  <2>1. CASE call.epoch = 0 BY <1>6, <1>8, <2>1 DEF Reports
  <2>2. CASE call.epoch # 0 BY <1>3, <1>4, <1>6, <1>8, <2>2 DEF Reports
  <2> QED BY <2>1, <2>2
<1>10. Reports(b, mid, w)
  <2>1. CASE call.epoch = 0 BY <1>3, <1>4, <1>6, <1>8, <2>1 DEF Reports
  <2>2. CASE call.epoch # 0 BY <1>3, <1>4, <1>6, <1>8, <2>2 DEF Reports
  <2> QED BY <2>1, <2>2
<1>11. a.kind \in T!Events /\ b.kind \in T!Events /\ b.kind # "start" BY <1>6 DEF T!Events
<1>12. EventsAdded /\ DeviceTold
  BY <1>2, <1>4, <1>5, <1>6, <1>7, <1>9, <1>10, <1>11, KeptNow, TwoTold
<1> QED BY <1>2, <1>3, <1>12, DeviceStepKeeps

\* The device answers the first call, also with an error.
Answered(m) ==
  /\ toDevice # <<>> /\ toDevice' = Tail(toDevice) /\ toPage' = Append(toPage, m)
  /\ m.call = Head(toDevice) /\ m.kind \in {"error", Head(toDevice).kind}
  /\ UNCHANGED <<device, connected, selection, selecting, shown, partial>>

LEMMA AnswerAdded ==
  ASSUME toDevice \in Seq(PageCalls), toPage \in Seq(PageMessages),
         NEW m \in AnswerMessages, Answered(m)
  PROVE  /\ m \in PageMessages /\ m.kind \in T!Answers /\ m.kind \notin T!Events /\ m.kind # "start"
         /\ Len(toDevice) \in Nat /\ 1 \in 1..Len(toDevice) /\ m.call = toDevice[1]
         /\ m.kind \in {"error", toDevice[1].kind}
         /\ Len(toPage) \in Nat /\ toPage' \in Seq(PageMessages) /\ Len(toPage') = Len(toPage) + 1
         /\ toPage'[Len(toPage) + 1] = m
         /\ \A i \in 1..Len(toPage) : i \in 1..Len(toPage') /\ toPage'[i] = toPage[i]
         /\ \A i \in 1..Len(toPage') : i \in 1..Len(toPage) \/ i = Len(toPage) + 1
         /\ toDevice' \in Seq(PageCalls)
         /\ \A i \in 1..Len(toDevice') :
              i + 1 \in 1..Len(toDevice) /\ toDevice'[i] = toDevice[i + 1] /\ i + 1 # 1 /\ 1 <= i + 1
<1>1. PICK q : q = toPage' OBVIOUS
<1>2. PICK rest : rest = toDevice' OBVIOUS
<1>3. /\ Len(toDevice) \in Nat /\ Len(toPage) \in Nat
      /\ 1 \in 1..Len(toDevice) /\ Head(toDevice) = toDevice[1]
  BY DEF Answered
<1>4. m \in PageMessages /\ m.kind \in T!Answers /\ m.kind \notin T!Events /\ m.kind # "start"
  BY DEF PageMessages, AnswerMessages, T!Answers, T!Events
<1>5. q = Append(toPage, m) /\ rest = Tail(toDevice) /\ toDevice # <<>> BY <1>1, <1>2 DEF Answered
<1>6. /\ q \in Seq(PageMessages) /\ Len(q) = Len(toPage) + 1 /\ q[Len(toPage) + 1] = m
      /\ \A i \in 1..Len(toPage) : q[i] = toPage[i]
  BY <1>3, <1>4, <1>5
<1>7. /\ \A i \in 1..Len(toPage) : i \in 1..Len(q)
      /\ \A i \in 1..Len(q) : i \in 1..Len(toPage) \/ i = Len(toPage) + 1
  BY <1>3, <1>6
<1>8. /\ rest \in Seq(PageCalls)
      /\ \A i \in 1..Len(rest) :
           i + 1 \in 1..Len(toDevice) /\ rest[i] = toDevice[i + 1] /\ i + 1 # 1 /\ 1 <= i + 1
  BY <1>3, <1>5
<1>9. m.call = toDevice[1] /\ m.kind \in {"error", toDevice[1].kind} BY <1>3 DEF Answered
<1> QED BY <1>1, <1>2, <1>3, <1>4, <1>6, <1>7, <1>8, <1>9

LEMMA AnswerKeepsCalls ==
  ASSUME CallsKnown, StartsPaired, ReportsNear, toPage \in Seq(PageMessages),
         NEW m \in AnswerMessages, Answered(m)
  PROVE  CallsKnown' /\ StartsPaired' /\ ReportsNear'
<1>1. PICK q : q = toPage' OBVIOUS
<1>2. PICK rest : rest = toDevice' OBVIOUS
<1>3. /\ m.kind \notin T!Events /\ m.kind # "start" /\ 1 \in 1..Len(toDevice) /\ m.call = toDevice[1]
      /\ Len(toPage) \in Nat /\ Len(q) = Len(toPage) + 1 /\ q[Len(toPage) + 1] = m
      /\ \A i \in 1..Len(toPage) : i \in 1..Len(q) /\ q[i] = toPage[i]
      /\ \A i \in 1..Len(q) : i \in 1..Len(toPage) \/ i = Len(toPage) + 1
      /\ rest \in Seq(PageCalls)
      /\ \A i \in 1..Len(rest) : i + 1 \in 1..Len(toDevice) /\ rest[i] = toDevice[i + 1]
  BY <1>1, <1>2, AnswerAdded DEF CallsKnown
<1>4. device' = device /\ selection' = selection BY DEF Answered
<1>5. CallsKnown'
  <2>1. \A i \in 1..Len(rest) :
          /\ rest[i].epoch <= selection
          /\ rest[i].kind = "earlier" => rest[i].cursor <= Len(device) /\ rest[i].cursor > 0
    BY <1>3 DEF CallsKnown
  <2>2. \A i \in 1..Len(q) : q[i].kind \in T!Answers => q[i].call.epoch <= selection
    BY <1>3 DEF CallsKnown
  <2> QED BY <1>1, <1>2, <1>3, <1>4, <2>1, <2>2 DEF CallsKnown
<1>6. StartsPaired'
  <2>1. ASSUME NEW i \in 1..Len(q), q[i].kind = "start"
        PROVE  i < Len(q) /\ q[i + 1].kind = "started" /\ q[i + 1].turn = q[i].turn
    <3>1. i \in 1..Len(toPage) /\ q[i] = toPage[i] BY <1>3, <2>1
    <3>2. i < Len(toPage) /\ toPage[i + 1].kind = "started" /\ toPage[i + 1].turn = toPage[i].turn
      BY <2>1, <3>1 DEF StartsPaired
    <3>3. i + 1 \in 1..Len(toPage) /\ i < Len(q) BY <1>3, <3>1, <3>2
    <3> QED BY <1>3, <3>1, <3>2, <3>3
  <2> QED BY <1>1, <2>1 DEF StartsPaired
<1>7. ReportsNear'
  <2>1. \A i \in 1..Len(q) : q[i].kind \in T!Events => Len(device) - q[i].turn < PageOfTurns
    BY <1>3 DEF ReportsNear
  <2> QED BY <1>1, <1>4, <2>1 DEF ReportsNear
<1> QED BY <1>5, <1>6, <1>7

\* What the answer lists reaches back behind all that is awaited.
LEMMA AnswerAwaited ==
  ASSUME T!TranscriptAssumption, CallsKnown, ReportsNear, OnePending, EarlierJoins, EarlierOrdered, Near,
         toPage \in Seq(PageMessages), Len(device) \in Nat, shown \in ShownThread,
         NEW m \in AnswerMessages, Answered(m),
         m.kind = "read" => m.earlier = 0 \/ m.earlier <= Len(device) - PageOfTurns
  PROVE  OnePending' /\ EarlierJoins' /\ EarlierOrdered' /\ Near'
<1>1. PICK q : q = toPage' OBVIOUS
<1>2. PICK rest : rest = toDevice' OBVIOUS
<1>3. /\ m.kind \in T!Answers /\ m.kind \notin T!Events
      /\ Len(toDevice) \in Nat /\ 1 \in 1..Len(toDevice)
      /\ m.call = toDevice[1] /\ m.kind \in {"error", toDevice[1].kind}
      /\ Len(toPage) \in Nat /\ Len(q) = Len(toPage) + 1 /\ q[Len(toPage) + 1] = m
      /\ toDevice \in Seq(PageCalls) /\ rest \in Seq(PageCalls)
  BY <1>1, <1>2, AnswerAdded DEF CallsKnown
<1>4. \A i \in 1..Len(toPage) : i \in 1..Len(q) /\ q[i] = toPage[i] BY <1>1, AnswerAdded DEF CallsKnown
<1>5. \A i \in 1..Len(q) : i \in 1..Len(toPage) \/ i = Len(toPage) + 1
  BY <1>1, AnswerAdded DEF CallsKnown
<1>6. \A i \in 1..Len(rest) :
        i + 1 \in 1..Len(toDevice) /\ rest[i] = toDevice[i + 1] /\ i + 1 # 1 /\ 1 <= i + 1
  BY <1>2, AnswerAdded DEF CallsKnown
<1>7. UNCHANGED <<device, selection, selecting, shown>> BY DEF Answered
<1>8. Answering(m, selection) <=> Pending(toDevice[1], selection)
  BY <1>3 DEF Answering
<1>9. MoreOf(m) => More(toDevice[1]) BY <1>3 DEF MoreOf
<1>10. OnePending'
  <2>1. \A i, j \in 1..Len(rest) : Pending(rest[i], selection) /\ Pending(rest[j], selection) => i = j
    <3> TAKE i \in 1..Len(rest), j \in 1..Len(rest)
    <3> HAVE Pending(rest[i], selection) /\ Pending(rest[j], selection)
    <3>1. i + 1 = j + 1 BY <1>6 DEF OnePending
    <3> QED BY <3>1
  <2>2. Pending(toDevice[1], selection) =>
          /\ \A i \in 1..Len(rest) : ~Pending(rest[i], selection)
          /\ \A j \in 1..Len(toPage) : ~Answering(toPage[j], selection)
    BY <1>3, <1>6 DEF OnePending
  <2>3. \A i, j \in 1..Len(q) : Answering(q[i], selection) /\ Answering(q[j], selection) => i = j
    BY <1>3, <1>4, <1>5, <1>8, <2>2 DEF OnePending
  <2>4. \A i \in 1..Len(rest), j \in 1..Len(q) : ~(Pending(rest[i], selection) /\ Answering(q[j], selection))
    BY <1>3, <1>4, <1>5, <1>6, <1>8, <2>2 DEF OnePending
  <2>5. \A i \in 1..Len(rest) : Pending(rest[i], selection) => Fits(rest[i], selecting)
    BY <1>6 DEF OnePending
  <2>6. \A i \in 1..Len(q) : Answering(q[i], selection) => Fits(q[i].call, selecting)
    BY <1>3, <1>4, <1>5, <1>8 DEF OnePending
  <2> QED BY <1>1, <1>2, <1>7, <2>1, <2>3, <2>4, <2>5, <2>6 DEF OnePending
<1>11. EarlierJoins'
  <2>1. \A i \in 1..Len(rest) : More(rest[i]) => Joins(rest[i].cursor)
    BY <1>6 DEF EarlierJoins
  <2>2. \A i \in 1..Len(q) : MoreOf(q[i]) => Joins(q[i].call.cursor)
    BY <1>3, <1>4, <1>5, <1>9 DEF EarlierJoins
  <2> QED BY <1>1, <1>2, <1>7, <2>1, <2>2 DEF EarlierJoins, Joins, More, MoreOf, From
<1>12. EarlierOrdered'
  <2>1. ASSUME NEW i \in 1..Len(rest), NEW j \in 1..Len(rest), i <= j, More(rest[i]), More(rest[j])
        PROVE  rest[j].cursor <= rest[i].cursor
    <3>1. i + 1 <= j + 1 BY <2>1
    <3> QED BY <1>6, <2>1, <3>1 DEF EarlierOrdered
  <2>2. ASSUME NEW i \in 1..Len(q), NEW j \in 1..Len(q), i <= j, MoreOf(q[i]), MoreOf(q[j])
        PROVE  q[j].call.cursor <= q[i].call.cursor
    <3>1. CASE j \in 1..Len(toPage)
      <4>1. i \in 1..Len(toPage) BY <1>3, <1>5, <2>2, <3>1
      <4> QED BY <1>4, <2>2, <3>1, <4>1 DEF EarlierOrdered
    <3>2. CASE j = Len(toPage) + 1 /\ i \in 1..Len(toPage)
      <4>1. More(toDevice[1]) /\ q[j].call = toDevice[1] BY <1>3, <1>9, <2>2, <3>2
      <4> QED BY <1>3, <1>4, <2>2, <3>2, <4>1 DEF EarlierOrdered
    <3>3. CASE j = Len(toPage) + 1 /\ i = Len(toPage) + 1
      <4>1. More(toDevice[1]) /\ q[j].call = toDevice[1] /\ q[i].call = toDevice[1]
        BY <1>3, <1>9, <2>2, <3>3
      <4>2. 1 <= 1 OBVIOUS
      <4> QED BY <1>3, <4>1, <4>2 DEF EarlierOrdered
    <3> QED BY <1>5, <3>1, <3>2, <3>3
  <2>3. ASSUME NEW i \in 1..Len(rest), NEW j \in 1..Len(q), More(rest[i]), MoreOf(q[j])
        PROVE  rest[i].cursor <= q[j].call.cursor
    <3>1. i + 1 \in 1..Len(toDevice) /\ More(toDevice[i + 1]) /\ 1 <= i + 1
          /\ rest[i] = toDevice[i + 1]
      BY <1>6, <2>3
    <3>2. CASE j \in 1..Len(toPage) BY <1>4, <2>3, <3>1, <3>2 DEF EarlierOrdered
    <3>3. CASE j = Len(toPage) + 1
      <4>1. More(toDevice[1]) /\ q[j].call = toDevice[1] BY <1>3, <1>9, <2>3, <3>3
      <4> QED BY <1>3, <3>1, <4>1 DEF EarlierOrdered
    <3> QED BY <1>5, <3>2, <3>3
  <2> QED BY <1>1, <1>2, <1>7, <2>1, <2>2, <2>3 DEF EarlierOrdered, More, MoreOf
<1>13. Near'
  <2>1. ASSUME NEW k \in 1..Len(q), q[k].kind = "read", Answering(q[k], selection)
        PROVE  /\ \A i \in 1..Len(shown.turns) : shown.turns[i].turn > q[k].earlier
               /\ \A i \in 1..(k - 1) : q[i].kind \in T!Events => q[i].turn > q[k].earlier
    <3>1. CASE k \in 1..Len(toPage)
      <4>1. \A i \in 1..(k - 1) : i \in 1..Len(toPage) BY <1>3, <3>1
      <4> QED BY <1>4, <2>1, <3>1, <4>1 DEF Near
    <3>2. CASE k = Len(toPage) + 1
      <4>1. q[k] = m /\ m.kind = "read" BY <1>3, <2>1, <3>2
      <4>2. Fits(toDevice[1], selecting) BY <1>3, <1>8, <2>1, <4>1 DEF OnePending
      <4>3. T!Opening
        <5>1. toDevice[1].kind = "read" BY <1>3, <4>1
        <5> QED BY <4>2, <5>1 DEF Fits, T!Opening
      <4>4. PICK e \in Nat : e = m.earlier
        <5>1. m.earlier \in Nat BY <4>1 DEF AnswerMessages
        <5> QED BY <5>1
      <4>5. e = 0 \/ e <= Len(device) - PageOfTurns BY <4>1, <4>4
      <4>6. ASSUME NEW t \in Nat, t > 0, Len(device) - t < PageOfTurns PROVE t > e
        <5>1. PageOfTurns \in Nat BY DEF T!TranscriptAssumption
        <5> QED BY <4>5, <4>6, <5>1
      <4>7. \A i \in 1..Len(shown.turns) : shown.turns[i].turn > e
        <5> TAKE i \in 1..Len(shown.turns)
        <5>1. shown.turns \in Seq(ShownTurn) BY DEF ShownThread
        <5>2. shown.turns[i] \in ShownTurn BY <5>1
        <5>3. shown.turns[i].turn \in Nat /\ shown.turns[i].turn > 0 BY <5>2 DEF ShownTurn
        <5>4. Len(device) - shown.turns[i].turn < PageOfTurns BY <4>3 DEF Near
        <5> QED BY <4>6, <5>3, <5>4
      <4>8. \A i \in 1..(k - 1) : q[i].kind \in T!Events => q[i].turn > e
        <5> TAKE i \in 1..(k - 1)
        <5> HAVE q[i].kind \in T!Events
        <5>1. i \in 1..Len(toPage) BY <1>3, <3>2
        <5>2. q[i] = toPage[i] /\ toPage[i] \in PageMessages BY <1>4, <5>1
        <5>3. toPage[i].turn \in Nat /\ toPage[i].turn > 0
          <6>1. toPage[i].kind \in T!Events BY <5>2
          <6> QED BY <5>2, <6>1, EventTurn
        <5>4. Len(device) - toPage[i].turn < PageOfTurns BY <5>1, <5>2 DEF ReportsNear
        <5> QED BY <4>6, <5>2, <5>3, <5>4
      <4> QED BY <4>1, <4>4, <4>7, <4>8
    <3> QED BY <1>5, <3>1, <3>2
  <2>2. T!Opening => \A i \in 1..Len(shown.turns) : Len(device) - shown.turns[i].turn < PageOfTurns
    BY DEF Near
  <2> QED BY <1>1, <1>7, <2>1, <2>2 DEF Near, T!Opening
<1> QED BY <1>10, <1>11, <1>12, <1>13

\* The device lists its turns as they are.
LEMMA ListingSent ==
  ASSUME T!TranscriptAssumption, device \in Devices,
         NEW call \in PageCalls, call.kind \in {"read", "earlier"},
         NEW before \in Nat, before = IF call.kind = "read" THEN Len(device) ELSE call.cursor,
         before <= Len(device),
         NEW limit \in Nat,
         limit = PageOfTurns \/ (call.kind = "read" /\ limit = MaxTurns),
         NEW m, m = T!Listing(call, before, limit)
  PROVE  /\ m \in AnswerMessages /\ m.kind = call.kind /\ m.call = call
         /\ Reports(m, device, device)
         /\ m.kind = "read" => m.earlier = 0 \/ m.earlier <= Len(device) - PageOfTurns
<1>1. /\ device \in Seq(DeviceTurn) /\ Len(device) \in Nat /\ Len(device) <= MaxTurns
      /\ MaxTurns \in Nat /\ PageOfTurns \in Nat /\ PageOfTurns > 0
  <2>1. MaxTurns \in Nat /\ PageOfTurns \in Nat \ {0} BY DEF T!TranscriptAssumption
  <2>2. PageOfTurns \in Nat /\ PageOfTurns > 0 BY <2>1
  <2>3. device \in Seq(DeviceTurn) /\ Len(device) \in Nat /\ Len(device) <= MaxTurns BY DEF Devices
  <2> QED BY <2>1, <2>2, <2>3
<1>2. PICK from : from = IF before > limit THEN before - limit ELSE 0 OBVIOUS
<1>3. from \in Nat /\ from <= before /\ (from = 0 \/ from < before)
  <2>1. limit > 0 \/ ~(before > limit) BY <1>1
  <2> QED BY <1>2, <2>1
<1>4. call.kind = "read" => from = 0 \/ from <= Len(device) - PageOfTurns
  <2>1. CASE limit = PageOfTurns
    <3>1. before <= Len(device) OBVIOUS
    <3> QED BY <1>1, <1>2, <2>1, <3>1
  <2>2. CASE call.kind = "read" /\ limit = MaxTurns BY <1>1, <1>2, <2>2
  <2> QED BY <2>1, <2>2
<1>5. ASSUME NEW t \in 1..Len(device)
      PROVE  T!Listed(t) = TurnIn(device, t) /\ TurnIn(device, t) \in ShownTurn
  <2>1. device[t] \in DeviceTurn BY <1>1
  <2>2. T!Listed(t) = TurnIn(device, t) BY DEF T!Listed, TurnIn, State
  <2>3. T!Text(device[t].text) \in Seq(Nat) BY <2>1, TextFacts DEF DeviceTurn
  <2>4. t \in Nat \ {0} BY <1>1
  <2>5. State(device[t]) \in {None, "running", "done"} BY DEF State
  <2>6. (device[t].text > 0) \in BOOLEAN BY <2>1 DEF DeviceTurn
  <2> QED BY <2>2, <2>3, <2>4, <2>5, <2>6 DEF TurnIn, ShownTurn
<1>6. PICK k \in Nat : k = before - from
  <2>1. \A a, b \in Nat : b <= a => a - b \in Nat OBVIOUS
  <2>2. before - from \in Nat BY <1>3, <2>1
  <2> QED BY <2>2
<1>7. \A i \in 1..k : from + i \in 1..Len(device) BY <1>1, <1>3, <1>6
<1>8. PICK turns : turns = [i \in 1..k |-> T!Listed(from + i)] OBVIOUS
<1>9. turns \in Seq(ShownTurn)
  <2>1. \A i \in 1..k : T!Listed(from + i) \in ShownTurn BY <1>5, <1>7
  <2> QED BY <1>8, <2>1
<1>10. turns = [i \in 1..k |-> TurnIn(device, from + i)] BY <1>5, <1>7, <1>8
<1>11. m = [kind |-> call.kind, call |-> call, turns |-> turns, earlier |-> from]
  BY <1>2, <1>6, <1>8 DEF T!Listing
<1>12. m.kind = call.kind /\ m.call = call /\ m.turns = turns /\ m.earlier = from BY <1>11
<1>13. m \in AnswerMessages BY <1>3, <1>9, <1>11 DEF AnswerMessages
<1>14. Reports(m, device, device)
  <2>1. m.turns = [i \in 1..(before - m.earlier) |-> TurnIn(device, m.earlier + i)]
    BY <1>6, <1>10, <1>12
  <2>2. before = IF m.kind = "read" THEN Len(device) ELSE m.call.cursor BY <1>12
  <2>3. m.earlier <= before /\ (m.earlier = 0 \/ m.earlier < before) BY <1>3, <1>12
  <2>4. m.kind \in {"read", "earlier"} /\ m.call.kind = m.kind BY <1>12
  <2>5. m.kind = "earlier" => m.earlier = From(m.call.cursor)
    <3>1. ASSUME call.kind = "earlier" PROVE from = From(call.cursor)
      <4>1. limit = PageOfTurns /\ before = call.cursor BY <3>1
      <4> QED BY <1>2, <4>1 DEF From
    <3> QED BY <1>12, <3>1
  <2>6. before <= Len(device) OBVIOUS
  <2> QED BY <2>1, <2>2, <2>3, <2>4, <2>5, <2>6 DEF Reports
<1> QED BY <1>4, <1>12, <1>13, <1>14

LEMMA AnswerKeeps ==
  ASSUME T!TranscriptAssumption, TranscriptKept,
         NEW m \in AnswerMessages, Answered(m), Reports(m, device, device),
         m.kind = "read" => m.earlier = 0 \/ m.earlier <= Len(device) - PageOfTurns,
         subscribed' = IF m.kind = "resume" THEN TRUE ELSE subscribed
  PROVE  TranscriptKept'
<1>1. PICK views \in Seq(Devices) : WentThrough(views) BY DEF TranscriptKept
<1>2. /\ TranscriptTypes /\ CallsKnown /\ Len(device) \in Nat /\ device \in Devices
      /\ toPage \in Seq(PageMessages) /\ toDevice \in Seq(PageCalls)
      /\ shown # None => shown \in ShownThread /\ selection # 0
  BY KeptNow DEF TranscriptKept
<1>3. CallsKnown' /\ StartsPaired' /\ ReportsNear' BY <1>2, AnswerKeepsCalls DEF TranscriptKept
<1>4. Awaits'
  <2>1. Live' => Live /\ shown \in ShownThread BY <1>2 DEF Live, Answered
  <2>2. ASSUME Live, shown \in ShownThread PROVE OnePending' /\ EarlierJoins' /\ EarlierOrdered' /\ Near'
    BY <1>2, <2>2, AnswerAwaited DEF TranscriptKept, Awaits
  <2> QED BY <2>1, <2>2 DEF Awaits
<1>5. connected BY <1>2 DEF TranscriptTypes, Answered
<1>6. TranscriptTypes'
  <2>1. UNCHANGED <<device, connected, selection, selecting, shown, partial>> BY DEF Answered
  <2>2. subscribed' \in BOOLEAN BY <1>2 DEF TranscriptTypes
  <2>3. ASSUME ~subscribed'
        PROVE  /\ \A i \in 1..Len(toPage') : toPage'[i].kind = "error"
               /\ \A i \in 1..Len(toDevice') : toDevice'[i].kind \in {"resume", "start"}
               /\ Live => Empty
    <3>1. ~subscribed /\ m.kind # "resume" BY <2>3
    <3>2. /\ \A i \in 1..Len(toPage) : toPage[i].kind = "error"
          /\ \A i \in 1..Len(toDevice) : toDevice[i].kind \in {"resume", "start"}
          /\ Live => Empty
      BY <1>2, <3>1 DEF TranscriptTypes
    <3>3. m.kind \in {"error", toDevice[1].kind} /\ 1 \in 1..Len(toDevice) /\ m.kind # "start"
      BY <1>2, AnswerAdded
    <3>4. m.kind = "error" BY <3>1, <3>2, <3>3
    <3>5. PICK q, rest : q = toPage' /\ rest = toDevice' OBVIOUS
    <3>6. \A i \in 1..Len(q) : q[i].kind = "error" BY <1>2, <3>2, <3>4, <3>5, AnswerAdded
    <3>7. \A i \in 1..Len(rest) : i + 1 \in 1..Len(toDevice) /\ rest[i] = toDevice[i + 1]
      BY <1>2, <3>5, AnswerAdded
    <3>8. \A i \in 1..Len(rest) : rest[i].kind \in {"resume", "start"} BY <3>2, <3>7
    <3> QED BY <3>2, <3>5, <3>6, <3>8
  <2>4. Live' => Live BY <2>1 DEF Live
  <2>5. Empty => Empty' BY <2>1 DEF Empty
  <2> QED BY <1>2, <1>5, <2>1, <2>2, <2>3, <2>4, <2>5 DEF TranscriptTypes
<1>7. \E more \in Seq(Devices) : WentThrough(more)'
  <2>1. Tells(toPage, views) /\ device = views[Len(views)] BY <1>1 DEF WentThrough
  <2>2. m \in PageMessages /\ toPage' = Append(toPage, m) /\ device' = device
    BY DEF PageMessages, Answered
  <2>3. PICK more : more = Append(views, device) OBVIOUS
  <2>4. Tells(toPage', more) /\ more[Len(more)] = device /\ more[1] = views[1]
    BY <1>2, <2>1, <2>2, <2>3, TellsMore
  <2>5. more \in Seq(Devices) BY <2>4 DEF Tells
  <2>6. Live' => Shows(more[1])'
    <3>1. Live => Shows(views[1]) BY <1>1 DEF WentThrough
    <3> QED BY <2>4, <3>1 DEF Shows, Live, Answered
  <2> QED BY <2>2, <2>4, <2>5, <2>6 DEF WentThrough
<1>8. connected' BY <1>5 DEF Answered
<1> QED BY <1>3, <1>4, <1>6, <1>7, <1>8 DEF TranscriptKept

\* The device serves a call.
LEMMA ServeKeeps ==
  ASSUME T!TranscriptAssumption, TranscriptKept, T!Serve
  PROVE  TranscriptKept'
<1>1. /\ toDevice # <<>> /\ toDevice' = Tail(toDevice)
      /\ UNCHANGED <<connected, selection, selecting, shown, partial>>
  BY DEF T!Serve, T!page
<1>2. PICK call : call = Head(toDevice) OBVIOUS
<1>3. device \in Devices /\ Len(device) \in Nat BY KeptNow
<1>4. call \in PageCalls /\ call = toDevice[1] /\ 1 \in 1..Len(toDevice)
  BY <1>1, <1>2 DEF TranscriptKept, CallsKnown
<1>5. CASE /\ toPage' = Append(toPage, [kind |-> "error", call |-> call])
           /\ UNCHANGED <<device, subscribed>>
  <2> DEFINE m == [kind |-> "error", call |-> call]
  <2>1. m \in AnswerMessages BY <1>4 DEF AnswerMessages
  <2>2. m.kind = "error" /\ m.call = call OBVIOUS
  <2>3. toPage' = Append(toPage, m) BY <1>5
  <2> HIDE DEF m
  <2>4. Reports(m, device, device) BY <2>2 DEF Reports
  <2>5. Answered(m) BY <1>1, <1>2, <1>5, <2>2, <2>3 DEF Answered
  <2> QED BY <1>5, <2>1, <2>2, <2>4, <2>5, AnswerKeeps
<1>6. CASE /\ call.kind = "resume" /\ subscribed' = TRUE
           /\ toPage' = Append(toPage, [kind |-> "resume", call |-> call, status |-> T!Status])
           /\ UNCHANGED device
  <2> DEFINE m == [kind |-> "resume", call |-> call, status |-> T!Status]
  <2>1. m \in AnswerMessages BY <1>4 DEF AnswerMessages, T!Status
  <2>2. m.kind = "resume" /\ m.call = call /\ m.status = T!Status OBVIOUS
  <2>3. Reports(m, device, device)
    <3>1. m.status = StatusIn(device) BY <1>3, <2>2, DeviceStatus
    <3> QED BY <1>6, <2>2, <3>1 DEF Reports
  <2>4. toPage' = Append(toPage, m) BY <1>6
  <2> HIDE DEF m
  <2>5. Answered(m) BY <1>1, <1>2, <1>6, <2>2, <2>4 DEF Answered
  <2> QED BY <1>6, <2>1, <2>2, <2>3, <2>5, AnswerKeeps
<1>7. CASE /\ call.kind \in {"read", "earlier"}
           /\ LET before == IF call.kind = "read" THEN Len(device) ELSE call.cursor
              IN  \E limit \in {PageOfTurns} \cup (IF call.kind = "read" THEN {MaxTurns} ELSE {}) :
                    toPage' = Append(toPage, T!Listing(call, before, limit))
           /\ UNCHANGED <<device, subscribed>>
  <2>1. PICK before \in Nat : before = IF call.kind = "read" THEN Len(device) ELSE call.cursor
    BY <1>3, <1>4, <1>7 DEF PageCalls
  <2>2. PICK limit \in {PageOfTurns} \cup (IF call.kind = "read" THEN {MaxTurns} ELSE {}) :
          toPage' = Append(toPage, T!Listing(call, before, limit))
    BY <1>7, <2>1
  <2>3. limit \in Nat /\ (limit = PageOfTurns \/ (call.kind = "read" /\ limit = MaxTurns))
    BY <2>2 DEF T!TranscriptAssumption
  <2>4. before <= Len(device)
    <3>1. CASE call.kind = "read" BY <1>3, <2>1, <3>1
    <3>2. CASE call.kind = "earlier" BY <1>4, <2>1, <3>2 DEF TranscriptKept, CallsKnown
    <3> QED BY <1>7, <3>1, <3>2
  <2>5. PICK m : m = T!Listing(call, before, limit) OBVIOUS
  <2>6. /\ m \in AnswerMessages /\ m.kind = call.kind /\ m.call = call
        /\ Reports(m, device, device)
        /\ m.kind = "read" => m.earlier = 0 \/ m.earlier <= Len(device) - PageOfTurns
    BY <1>3, <1>4, <1>7, <2>1, <2>3, <2>4, <2>5, ListingSent, SMTT(30)
  <2>7. toPage' = Append(toPage, m) BY <2>2, <2>5
  <2>8. m.kind # "resume" BY <1>7, <2>6
  <2>9. Answered(m) BY <1>1, <1>2, <1>7, <2>6, <2>7 DEF Answered
  <2> QED BY <1>7, <2>6, <2>8, <2>9, AnswerKeeps
<1>8. CASE /\ call.kind = "start" /\ subscribed /\ T!NextTurn
           /\ toPage' = toPage \o <<[kind |-> "start", call |-> call, turn |-> Len(device')],
                                    [kind |-> "started", turn |-> Len(device')]>>
           /\ UNCHANGED subscribed
  <2>1. call \in [kind : {"start"}, epoch : Nat] BY <1>4, <1>8 DEF PageCalls
  <2> QED BY <1>1, <1>8, <2>1, ServeStartKeeps
<1> QED BY <1>2, <1>5, <1>6, <1>7, <1>8 DEF T!Serve

-----------------------------------------------------------------------------
(* The transcript: the page asks, and what it asked for comes to nothing    *)

\* What is shown of an open connection does not reach back behind the device.
LEMMA EarlierBounded ==
  ASSUME TranscriptKept, Live
  PROVE  /\ shown \in ShownThread /\ selection # 0 /\ shown.earlier \in Nat
         /\ shown.earlier <= Len(device)
<1>1. PICK views \in Seq(Devices) : WentThrough(views) BY DEF TranscriptKept
<1>2. views[1] \in Devices /\ 1 \in 1..Len(views) /\ Len(device) \in Nat
  <2>1. Len(views) \in Nat /\ Len(views) > 0 /\ views[1] \in Devices /\ Len(device) \in Nat
    BY <1>1, KeptDevice
  <2> QED BY <2>1
<1>3. Len(views[1]) <= Len(device) BY <1>1, <1>2 DEF WentThrough, Tells
<1>4. Shows(views[1]) BY <1>1 DEF WentThrough
<1>5. shown \in ShownThread /\ selection # 0 BY KeptNow DEF Live
<1>6. shown.earlier \in Nat BY <1>5 DEF ShownThread
<1>7. shown.earlier <= Len(views[1]) BY <1>4 DEF Shows
<1>8. Len(views[1]) \in Nat BY <1>2 DEF Devices
<1> QED BY <1>2, <1>3, <1>5, <1>6, <1>7, <1>8

\* The page asks the device once more.
LEMMA AskKeeps ==
  ASSUME T!TranscriptAssumption, TranscriptKept, Live,
         NEW call \in PageCalls, call.epoch = selection, toDevice' = Append(toDevice, call),
         UNCHANGED <<device, subscribed, connected, toPage, selection, selecting, shown, partial>>,
         \/ call.kind = "start"
         \/ /\ call.kind = "earlier" /\ selecting = None /\ subscribed
            /\ call.cursor = shown.earlier /\ call.cursor > 0
  PROVE  TranscriptKept'
<1>1. /\ selection # 0 /\ shown \in ShownThread
      /\ shown.earlier \in Nat /\ shown.earlier <= Len(device)
  BY EarlierBounded
<1>2. PICK rest : rest = toDevice' OBVIOUS
<1>3. toDevice \in Seq(PageCalls) /\ Len(toDevice) \in Nat BY DEF TranscriptKept, CallsKnown
<1>4. /\ rest \in Seq(PageCalls) /\ Len(rest) = Len(toDevice) + 1 /\ rest[Len(toDevice) + 1] = call
      /\ \A i \in 1..Len(toDevice) : rest[i] = toDevice[i]
  BY <1>2, <1>3
<1>5. \A i \in 1..Len(rest) : i \in 1..Len(toDevice) \/ i = Len(toDevice) + 1 BY <1>3, <1>4
<1>6. CallsKnown'
  <2>1. call.kind = "earlier" => call.cursor <= Len(device) /\ call.cursor > 0
    BY <1>1
  <2>2. call.epoch <= selection
    <3>1. selection \in Nat BY KeptNow
    <3> QED BY <3>1
  <2>3. \A i \in 1..Len(rest) :
          /\ rest[i].epoch <= selection
          /\ rest[i].kind = "earlier" => rest[i].cursor <= Len(device) /\ rest[i].cursor > 0
    BY <1>4, <1>5, <2>1, <2>2 DEF TranscriptKept, CallsKnown
  <2> QED BY <1>2, <1>4, <2>3 DEF TranscriptKept, CallsKnown
<1>7. OnePending /\ EarlierJoins /\ EarlierOrdered /\ Near BY DEF TranscriptKept, Awaits
<1>8. OnePending'
  <2>1. ~Pending(call, selection) BY DEF Pending
  <2>2. \A i \in 1..Len(rest) : Pending(rest[i], selection) => i \in 1..Len(toDevice) /\ rest[i] = toDevice[i]
    BY <1>4, <1>5, <2>1
  <2>3. \A i, j \in 1..Len(rest) : Pending(rest[i], selection) /\ Pending(rest[j], selection) => i = j
    BY <1>7, <2>2 DEF OnePending
  <2>4. \A i \in 1..Len(rest), j \in 1..Len(toPage) :
          ~(Pending(rest[i], selection) /\ Answering(toPage[j], selection))
    BY <1>7, <2>2 DEF OnePending
  <2>5. \A i \in 1..Len(rest) : Pending(rest[i], selection) => Fits(rest[i], selecting)
    BY <1>7, <2>2 DEF OnePending
  <2> QED BY <1>2, <1>7, <2>3, <2>4, <2>5 DEF OnePending
<1>9. More(call) => Joins(call.cursor)
  <2>1. ASSUME More(call) PROVE Joins(call.cursor)
    <3>1. selecting = None /\ call.cursor = shown.earlier BY <2>1 DEF More
    <3>2. PageOfTurns \in Nat /\ PageOfTurns > 0
      <4>1. PageOfTurns \in Nat \ {0} BY DEF T!TranscriptAssumption
      <4> QED BY <4>1
    <3>3. From(shown.earlier) <= shown.earlier BY <1>1, <3>2 DEF From
    <3> QED BY <1>1, <3>1, <3>3 DEF Joins
  <2> QED BY <2>1
<1>10. EarlierJoins'
  <2>1. \A i \in 1..Len(rest) : More(rest[i]) => Joins(rest[i].cursor)
    BY <1>4, <1>5, <1>7, <1>9 DEF EarlierJoins
  <2> QED BY <1>2, <1>7, <2>1 DEF EarlierJoins, Joins, More, MoreOf, From
<1>11. EarlierOrdered'
  <2>1. More(call) => call.cursor = shown.earlier BY DEF More
  <2>2. ASSUME NEW i \in 1..Len(rest), NEW j \in 1..Len(rest), i <= j, More(rest[i]), More(rest[j])
        PROVE  rest[j].cursor <= rest[i].cursor
    <3>1. CASE j \in 1..Len(toDevice)
      <4>1. i \in 1..Len(toDevice) BY <1>3, <1>5, <2>2, <3>1
      <4> QED BY <1>4, <1>7, <2>2, <3>1, <4>1 DEF EarlierOrdered
    <3>2. CASE j = Len(toDevice) + 1 /\ i \in 1..Len(toDevice)
      <4>1. Joins(toDevice[i].cursor) /\ rest[i] = toDevice[i] BY <1>4, <1>7, <2>2, <3>2 DEF EarlierJoins
      <4>2. rest[j].cursor = shown.earlier BY <1>4, <2>1, <2>2, <3>2
      <4> QED BY <4>1, <4>2 DEF Joins
    <3>3. CASE j = Len(toDevice) + 1 /\ i = Len(toDevice) + 1
      <4>1. rest[j].cursor = shown.earlier /\ rest[i].cursor = shown.earlier
        BY <1>4, <2>1, <2>2, <3>3
      <4> QED BY <1>1, <4>1
    <3> QED BY <1>5, <3>1, <3>2, <3>3
  <2>3. ASSUME NEW i \in 1..Len(rest), NEW j \in 1..Len(toPage), More(rest[i]), MoreOf(toPage[j])
        PROVE  rest[i].cursor <= toPage[j].call.cursor
    <3>1. CASE i \in 1..Len(toDevice) BY <1>4, <1>7, <2>3, <3>1 DEF EarlierOrdered
    <3>2. CASE i = Len(toDevice) + 1
      <4>1. Joins(toPage[j].call.cursor) BY <1>7, <2>3 DEF EarlierJoins
      <4>2. rest[i].cursor = shown.earlier BY <1>4, <2>1, <2>3, <3>2
      <4> QED BY <4>1, <4>2 DEF Joins
    <3> QED BY <1>5, <3>1, <3>2
  <2> QED BY <1>2, <1>7, <2>2, <2>3 DEF EarlierOrdered, More, MoreOf
<1>12. Near' BY <1>7 DEF Near, T!Opening
<1>13. StartsPaired' /\ ReportsNear' BY DEF TranscriptKept, StartsPaired, ReportsNear
<1>14. TranscriptTypes'
  <2>1. TranscriptTypes /\ connected BY DEF TranscriptKept, Live
  <2>2. ~subscribed => \A i \in 1..Len(rest) : rest[i].kind \in {"resume", "start"}
    BY <1>4, <1>5, <2>1 DEF TranscriptTypes
  <2>3. Live' = Live /\ (Empty => Empty') BY DEF Live, Empty
  <2> QED BY <1>2, <2>1, <2>2, <2>3 DEF TranscriptTypes
<1>15. \E views \in Seq(Devices) : WentThrough(views)'
  BY DEF TranscriptKept, WentThrough, Shows, Live
<1>16. connected' BY DEF Live
<1> QED BY <1>6, <1>8, <1>10, <1>11, <1>12, <1>13, <1>14, <1>15, <1>16 DEF TranscriptKept, Awaits

\* The page asks for earlier turns.
LEMMA EarlierKeeps ==
  ASSUME T!TranscriptAssumption, TranscriptKept, T!Earlier
  PROVE  TranscriptKept'
<1>1. Live BY DEF T!Earlier, Live
<1>2. selection \in Nat /\ shown.earlier \in Nat BY <1>1, EarlierBounded, KeptNow
<1>3. shown.earlier # 0 BY <1>2 DEF T!Earlier
<1>4. selecting = None /\ subscribed
  <2>1. TranscriptTypes BY KeptNow
  <2> QED BY <1>1, <1>3, <2>1 DEF TranscriptTypes, Live, Empty
<1> DEFINE call == [kind |-> "earlier", epoch |-> selection, cursor |-> shown.earlier]
<1>5. call \in PageCalls BY <1>2 DEF PageCalls
<1>6. call.kind = "earlier" /\ call.epoch = selection /\ call.cursor = shown.earlier OBVIOUS
<1>7. /\ toDevice' = Append(toDevice, call) /\ shown.earlier > 0
      /\ UNCHANGED <<device, subscribed, connected, toPage, selection, selecting, shown, partial>>
  BY DEF T!Earlier, T!page
<1> HIDE DEF call
<1> QED BY <1>1, <1>4, <1>5, <1>6, <1>7, AskKeeps

\* The page sends a message.
LEMMA SendKeeps ==
  ASSUME T!TranscriptAssumption, TranscriptKept, T!Send
  PROVE  TranscriptKept'
<1>1. Live BY DEF T!Send, Live
<1>2. selection \in Nat BY KeptNow
<1> DEFINE call == [kind |-> "start", epoch |-> selection]
<1>3. call \in PageCalls BY <1>2 DEF PageCalls
<1>4. call.kind = "start" /\ call.epoch = selection OBVIOUS
<1>5. /\ toDevice' = Append(toDevice, call)
      /\ UNCHANGED <<device, subscribed, connected, toPage, selection, selecting, shown, partial>>
  BY DEF T!Send, T!page
<1> HIDE DEF call
<1> QED BY <1>1, <1>3, <1>4, <1>5, AskKeeps

\* A conversation that is opened again awaits its own answers only.
LEMMA SelectKeeps ==
  ASSUME T!TranscriptAssumption, TranscriptKept, T!Select
  PROVE  TranscriptKept'
<1>1. /\ TranscriptTypes /\ CallsKnown /\ toPage \in Seq(PageMessages) /\ device \in Devices
      /\ selection \in Nat /\ selection < MaxSelections /\ MaxSelections \in Nat
  BY KeptNow DEF TranscriptKept, T!Select, T!TranscriptAssumption
<1>2. PICK number \in Nat : number = selection + 1 BY <1>1
<1>3. PICK call \in PageCalls : call = [kind |-> "resume", epoch |-> number] BY DEF PageCalls
<1>4. /\ selection' = number /\ partial' = {}
      /\ shown' = [status |-> None, turns |-> <<>>, earlier |-> 0]
      /\ IF connected THEN selecting' = "" /\ toDevice' = Append(toDevice, call)
                      ELSE selecting' = "failed" /\ toDevice' = toDevice
      /\ UNCHANGED <<device, subscribed, connected, toPage>>
  BY <1>2, <1>3 DEF T!Select
<1>5. shown'.turns = <<>> /\ shown'.status = None /\ shown'.earlier = 0 /\ Len(shown'.turns) = 0
  BY <1>4
<1>6. number > selection /\ number # 0 /\ number > 0 /\ number \in 0..MaxSelections BY <1>1, <1>2
<1>7. PICK rest : rest = toDevice' OBVIOUS
<1>8. toDevice \in Seq(PageCalls) /\ Len(toDevice) \in Nat BY <1>1 DEF CallsKnown
<1>9. /\ rest \in Seq(PageCalls)
      /\ \A i \in 1..Len(rest) : (i \in 1..Len(toDevice) /\ rest[i] = toDevice[i])
                                 \/ (i = Len(toDevice) + 1 /\ rest[i] = call)
  <2>1. CASE connected
    <3>1. rest = Append(toDevice, call) BY <1>4, <1>7, <2>1
    <3>2. /\ rest \in Seq(PageCalls) /\ Len(rest) = Len(toDevice) + 1 /\ rest[Len(toDevice) + 1] = call
          /\ \A i \in 1..Len(toDevice) : rest[i] = toDevice[i]
      BY <1>8, <3>1
    <3>3. \A i \in 1..Len(rest) : i \in 1..Len(toDevice) \/ i = Len(toDevice) + 1 BY <1>8, <3>2
    <3> QED BY <3>2, <3>3
  <2>2. CASE ~connected BY <1>4, <1>7, <1>8, <2>2
  <2> QED BY <2>1, <2>2
<1>11. call.kind = "resume" /\ call.epoch = number BY <1>3
<1>12. \A i \in 1..Len(toDevice) : toDevice[i].epoch \in Nat /\ toDevice[i].epoch <= selection
  <2> TAKE i \in 1..Len(toDevice)
  <2>1. toDevice[i] \in PageCalls BY <1>8
  <2> QED BY <1>1, <2>1 DEF CallsKnown, PageCalls
<1>14. \A i \in 1..Len(toPage) : toPage[i].kind \in T!Answers =>
         toPage[i].call.epoch \in Nat /\ toPage[i].call.epoch <= selection
  <2> TAKE i \in 1..Len(toPage)
  <2> HAVE toPage[i].kind \in T!Answers
  <2>1. toPage[i] \in PageMessages BY <1>1
  <2>2. toPage[i].call \in PageCalls BY <2>1, MessageFields
  <2> QED BY <1>1, <2>2 DEF CallsKnown, PageCalls
<1>15. \A e \in Nat : e <= selection => e <= number /\ e # number BY <1>1, <1>2
<1>16. CallsKnown'
  <2>1. \A i \in 1..Len(rest) :
          /\ rest[i].epoch <= number
          /\ rest[i].kind = "earlier" => rest[i].cursor <= Len(device) /\ rest[i].cursor > 0
    <3> TAKE i \in 1..Len(rest)
    <3>1. CASE i \in 1..Len(toDevice) /\ rest[i] = toDevice[i]
      BY <1>1, <1>12, <1>15, <3>1 DEF CallsKnown
    <3>2. CASE rest[i] = call
      <4>1. number <= number OBVIOUS
      <4> QED BY <1>11, <3>2, <4>1
    <3> QED BY <1>9, <3>1, <3>2
  <2>2. \A i \in 1..Len(toPage) : toPage[i].kind \in T!Answers => toPage[i].call.epoch <= number
    BY <1>14, <1>15
  <2> QED BY <1>4, <1>7, <1>9, <2>1, <2>2 DEF CallsKnown
<1>17. \A i \in 1..Len(toPage) : ~Answering(toPage[i], number) /\ ~MoreOf(toPage[i])'
  BY <1>4, <1>14, <1>15 DEF Answering, Pending, MoreOf, More, T!Answers
<1>18. \A i \in 1..Len(rest) : Pending(rest[i], number) => i = Len(toDevice) + 1
  BY <1>9, <1>12, <1>15 DEF Pending
<1>24. \A i \in 1..Len(rest) : ~More(rest[i])'
  BY <1>4, <1>9, <1>11, <1>12, <1>15 DEF More
<1>19. Awaits'
  <2>0. Live' => connected BY <1>4 DEF Live
  <2>1. ASSUME connected PROVE OnePending'
    <3>1. \A i, j \in 1..Len(rest) : Pending(rest[i], number) /\ Pending(rest[j], number) => i = j
      BY <1>18
    <3>2. \A i \in 1..Len(rest) : Pending(rest[i], number) => Fits(rest[i], "")
      <4>1. Fits(call, "") BY <1>11 DEF Fits
      <4> QED BY <1>9, <1>12, <1>15, <4>1 DEF Pending
    <3> QED BY <1>4, <1>7, <1>17, <2>1, <3>1, <3>2 DEF OnePending
  <2>2. EarlierJoins' /\ EarlierOrdered'
    BY <1>4, <1>7, <1>17, <1>24 DEF EarlierJoins, EarlierOrdered
  <2>3. Near'
    <3>1. \A i \in 1..0 : FALSE OBVIOUS
    <3>2. \A i \in 1..Len(shown'.turns) : FALSE BY <1>5, <3>1
    <3> QED BY <1>4, <1>17, <3>2 DEF Near
  <2> QED BY <2>0, <2>1, <2>2, <2>3 DEF Awaits
<1>20. StartsPaired' /\ ReportsNear'
  BY <1>4 DEF TranscriptKept, StartsPaired, ReportsNear
<1>21. shown' \in ShownThread
  <2>1. <<>> \in Seq(ShownTurn) /\ 0 \in Nat OBVIOUS
  <2> QED BY <1>4, <2>1 DEF ShownThread
<1>22. TranscriptTypes'
  <2>1. ~subscribed => /\ \A i \in 1..Len(toPage) : toPage[i].kind = "error"
                       /\ \A i \in 1..Len(toDevice) : toDevice[i].kind \in {"resume", "start"}
    BY <1>1 DEF TranscriptTypes
  <2>2. ~subscribed => \A i \in 1..Len(rest) : rest[i].kind \in {"resume", "start"}
    BY <1>9, <1>11, <2>1
  <2>3. Empty' BY <1>4, <1>5 DEF Empty
  <2>4. selecting' \in {"", "failed"} /\ selection' \in 0..MaxSelections /\ selection' # 0
    BY <1>4, <1>6
  <2>5. ~connected => ~subscribed /\ toDevice' = <<>> /\ toPage' = <<>>
    BY <1>1, <1>4 DEF TranscriptTypes
  <2> QED BY <1>1, <1>4, <1>5, <1>7, <1>21, <2>1, <2>2, <2>3, <2>4, <2>5 DEF TranscriptTypes
<1>25. ASSUME NEW v \in Devices PROVE Shows(v)'
  <2>1. Len(v) \in Nat BY DEF Devices
  <2>2. 0 <= Len(v) /\ \A i \in 1..0 : FALSE BY <2>1
  <2>3. selecting' \notin {None, "active", "idle"} BY <1>4 DEF T!TranscriptAssumption
  <2> QED BY <1>4, <1>5, <2>2, <2>3 DEF Shows
<1>23. \E views \in Seq(Devices) : WentThrough(views)'
  <2>1. PICK views \in Seq(Devices) : WentThrough(views) BY DEF TranscriptKept
  <2>2. Tells(toPage', views) /\ device' = views[Len(views)] BY <1>4, <2>1 DEF WentThrough
  <2>3. PICK v \in Devices : v = views[1] BY <2>1, KeptDevice
  <2>4. Shows(v)' BY <1>25
  <2> QED BY <2>2, <2>3, <2>4 DEF WentThrough
<1>26. \E v \in Devices : Shows(v)' BY <1>1, <1>25
<1> QED BY <1>16, <1>19, <1>20, <1>22, <1>23, <1>26 DEF TranscriptKept

\* The page shows no conversation any more.
LEMMA LeaveKeeps ==
  ASSUME TranscriptKept, T!Leave
  PROVE  TranscriptKept'
<1>1. /\ UNCHANGED <<device, subscribed, connected, toDevice, toPage, selection, selecting>>
      /\ shown' = None /\ partial' = {}
  BY DEF T!Leave
<1>2. ~Live' BY <1>1 DEF Live
<1>3. TranscriptTypes' BY <1>1, <1>2 DEF TranscriptKept, TranscriptTypes
<1>4. CallsKnown' /\ StartsPaired' /\ ReportsNear'
  BY <1>1 DEF TranscriptKept, CallsKnown, StartsPaired, ReportsNear
<1>5. \E views \in Seq(Devices) : WentThrough(views)' BY <1>1, <1>2 DEF TranscriptKept, WentThrough
<1> QED BY <1>1, <1>2, <1>3, <1>4, <1>5 DEF TranscriptKept, Awaits

\* What opens the conversation breaks off: what is shown stays that of the device.
LEMMA BreaksOff ==
  ASSUME T!TranscriptAssumption, NEW v, Shows(v), UNCHANGED <<shown, partial>>,
         selecting' = selecting \/ selecting' = "failed"
  PROVE  Shows(v)'
<1>1. CASE selecting' = selecting BY <1>1 DEF Shows
<1>2. CASE selecting' = "failed"
  <2>1. selecting' \notin {None, "active", "idle"} BY <1>2 DEF T!TranscriptAssumption
  <2> QED BY <2>1 DEF Shows
<1> QED BY <1>1, <1>2

\* The connection breaks: what is shown is that of the device as it was by then.
LEMMA DisconnectKeeps ==
  ASSUME T!TranscriptAssumption, TranscriptKept, T!Disconnect
  PROVE  TranscriptKept'
<1>1. /\ connected /\ connected' = FALSE /\ toDevice' = <<>> /\ toPage' = <<>> /\ subscribed' = FALSE
      /\ selecting' = IF T!Opening THEN "failed" ELSE selecting
      /\ UNCHANGED <<device, selection, shown, partial>>
  BY DEF T!Disconnect
<1>2. TranscriptTypes /\ device \in Devices BY KeptNow
<1>3. ~Live' BY <1>1 DEF Live
<1>4. Len(toDevice') = 0 /\ Len(toPage') = 0 /\ \A i \in 1..0 : FALSE BY <1>1
<1>5. T!Opening => selecting # None BY DEF T!Opening, T!TranscriptAssumption
<1>6. TranscriptTypes'
  <2>1. /\ \A i \in 1..Len(toPage') : toPage'[i].kind = "error"
        /\ \A i \in 1..Len(toDevice') : toDevice'[i].kind \in {"resume", "start"}
    BY <1>4
  <2> QED BY <1>1, <1>2, <1>3, <1>5, <2>1 DEF TranscriptTypes
<1>7. CallsKnown' /\ StartsPaired' /\ ReportsNear'
  <2>1. <<>> \in Seq(PageCalls) OBVIOUS
  <2> QED BY <1>1, <1>4, <2>1 DEF CallsKnown, StartsPaired, ReportsNear
<1>8. shown # None => \E v \in Devices : Shows(v)'
  <2>1. PICK views \in Seq(Devices) : WentThrough(views) BY DEF TranscriptKept
  <2>2. PICK v \in Devices : v = views[1] BY <2>1, KeptDevice
  <2>3. ASSUME shown # None PROVE Shows(v)'
    <3>1. Shows(v) BY <1>1, <2>1, <2>2, <2>3 DEF WentThrough, Live
    <3> QED BY <1>1, <3>1, BreaksOff
  <2> QED BY <2>3
<1>9. \E views \in Seq(Devices) : WentThrough(views)'
  <2>1. <<>> \in Seq(PageMessages) /\ \A i \in 1..Len(<<>>) : <<>>[i].kind = "error" BY <1>4
  <2>2. PICK views \in Seq(Devices) : Tells(<<>>, views) /\ views[1] = device /\ views[Len(views)] = device
    BY <1>2, <2>1, ToldNothing
  <2> QED BY <1>1, <1>3, <2>2 DEF WentThrough
<1> QED BY <1>1, <1>3, <1>6, <1>7, <1>8, <1>9 DEF TranscriptKept, Awaits

\* The device is connected again.
LEMMA ReconnectKeeps ==
  ASSUME TranscriptKept, T!Reconnect
  PROVE  TranscriptKept'
<1>1. /\ connected' = TRUE /\ selecting' = None /\ shown' = None /\ partial' = {}
      /\ UNCHANGED <<device, subscribed, toDevice, toPage, selection>>
  BY DEF T!Reconnect
<1>2. ~Live' BY <1>1 DEF Live
<1>3. TranscriptTypes' BY <1>1, <1>2 DEF TranscriptKept, TranscriptTypes
<1>4. CallsKnown' /\ StartsPaired' /\ ReportsNear'
  BY <1>1 DEF TranscriptKept, CallsKnown, StartsPaired, ReportsNear
<1>5. \E views \in Seq(Devices) : WentThrough(views)' BY <1>1, <1>2 DEF TranscriptKept, WentThrough
<1> QED BY <1>1, <1>2, <1>3, <1>4, <1>5 DEF TranscriptKept, Awaits

\* A call is given up: it counts for nothing any more, and opening breaks off if it was
\* awaited for that.
GivenUp ==
  /\ CallsLeft(0, 0) /\ toPage' \in Seq(PageMessages) /\ Len(toPage') = Len(toPage)
  /\ \A i \in 1..Len(toPage) :
       /\ toPage'[i].kind = toPage[i].kind
       /\ toPage[i].kind \in T!Events => toPage'[i].turn = toPage[i].turn
       /\ toPage[i].kind = "read" => toPage'[i].earlier = toPage[i].earlier
  /\ \A views \in Seq(Devices) : Tells(toPage, views) =>
       \E some \in Seq(Devices) :
         Tells(toPage', some) /\ some[1] = views[1] /\ some[Len(some)] = views[Len(views)]
  /\ \/ selecting' = selecting
     \/ selecting' = "failed" /\ (Live => NonePending' /\ selecting # None)

LEMMA GivenUpKeeps ==
  ASSUME T!TranscriptAssumption, TranscriptKept, connected, GivenUp,
         UNCHANGED <<device, subscribed, connected, selection, shown, partial>>
  PROVE  TranscriptKept'
<1>1. /\ TranscriptTypes /\ CallsKnown /\ StartsPaired /\ ReportsNear /\ Len(device) \in Nat
      /\ selection \in Nat /\ toPage \in Seq(PageMessages) /\ Len(toPage) \in Nat
      /\ shown # None => selection # 0
  BY KeptNow DEF TranscriptKept
<1>2. PICK q : q = toPage' OBVIOUS
<1>3. /\ Len(q) = Len(toPage)
      /\ \A i \in 1..Len(toPage) :
           /\ q[i].kind = toPage[i].kind
           /\ toPage[i].kind \in T!Events => q[i].turn = toPage[i].turn
           /\ toPage[i].kind = "read" => q[i].earlier = toPage[i].earlier
  BY <1>2 DEF GivenUp
<1>4. CallsLeft(0, 0) /\ 0 \in {0, 1} BY DEF GivenUp
<1>5. CallsKnown'
  <2>1. Len(device) <= Len(device') /\ Len(device') \in Nat BY <1>1
  <2> QED BY <1>1, <1>4, <2>1, CallsKnownStay
<1>6. StartsPaired'
  <2>1. ASSUME NEW i \in 1..Len(q), q[i].kind = "start"
        PROVE  i < Len(q) /\ q[i + 1].kind = "started" /\ q[i + 1].turn = q[i].turn
    <3>1. i < Len(toPage) /\ toPage[i + 1].kind = "started" /\ toPage[i + 1].turn = toPage[i].turn
          /\ toPage[i].kind = "start"
      BY <1>1, <1>3, <2>1 DEF StartsPaired
    <3>2. i + 1 \in 1..Len(toPage) BY <1>1, <1>3, <3>1
    <3>3. toPage[i].kind \in T!Events /\ toPage[i + 1].kind \in T!Events BY <3>1 DEF T!Events
    <3> QED BY <1>3, <3>1, <3>2, <3>3
  <2> QED BY <1>2, <2>1 DEF StartsPaired
<1>7. ReportsNear' BY <1>1, <1>2, <1>3 DEF ReportsNear
<1>8. ASSUME Live PROVE OnePending' /\ EarlierJoins' /\ EarlierOrdered' /\ Near'
  <2>1. /\ selection # 0 /\ OnePending /\ EarlierJoins /\ EarlierOrdered /\ Near
    BY <1>1, <1>8 DEF TranscriptKept, Awaits, Live
  <2>2. selecting' = selecting \/ (NonePending' /\ selecting # None /\ selecting' = "failed")
    BY <1>8 DEF GivenUp
  <2>3. OnePending' BY <1>4, <2>1, <2>2, OnePendingStays
  <2>4. EarlierOrdered' BY <1>4, <2>1, EarlierOrderedStays
  <2>5. EarlierJoins' BY <1>4, <2>1, <2>2, EarlierJoinsStays
  <2>6. Near'
    <3>1. ASSUME NEW k \in 1..Len(q), q[k].kind = "read", Answering(q[k], selection)
          PROVE  /\ \A i \in 1..Len(shown.turns) : shown.turns[i].turn > q[k].earlier
                 /\ \A i \in 1..(k - 1) : q[i].kind \in T!Events => q[i].turn > q[k].earlier
      <4>1. k + 0 \in 1..Len(toPage) /\ Answering(toPage[k + 0], selection)
        BY <1>2, <1>4, <2>1, <3>1, PendingStays
      <4>2. k \in 1..Len(toPage) /\ Answering(toPage[k], selection) /\ toPage[k].kind = "read"
            /\ q[k].earlier = toPage[k].earlier
        BY <1>3, <3>1, <4>1
      <4>3. /\ \A i \in 1..Len(shown.turns) : shown.turns[i].turn > toPage[k].earlier
            /\ \A i \in 1..(k - 1) : toPage[i].kind \in T!Events => toPage[i].turn > toPage[k].earlier
        BY <2>1, <4>2 DEF Near
      <4>4. \A i \in 1..(k - 1) : i \in 1..Len(toPage) BY <1>1, <4>2
      <4> QED BY <1>3, <4>2, <4>3, <4>4
    <3>2. T!Opening' => T!Opening BY <2>2 DEF T!Opening
    <3>3. T!Opening' =>
            \A i \in 1..Len(shown.turns) : Len(device) - shown.turns[i].turn < PageOfTurns
      BY <2>1, <3>2 DEF Near
    <3> QED BY <1>2, <3>1, <3>3 DEF Near
  <2> QED BY <2>3, <2>4, <2>5, <2>6
<1>9. Awaits' BY <1>8 DEF Awaits, Live
<1>10. TranscriptTypes'
  <2>1. PICK rest : rest = toDevice' OBVIOUS
  <2>2. \A i \in 1..Len(rest) : i + 0 \in 1..Len(toDevice) /\ rest[i].kind = toDevice[i + 0].kind
    BY <1>4, <2>1 DEF CallsLeft, SameCall
  <2>3. ASSUME ~subscribed
        PROVE  /\ \A i \in 1..Len(q) : q[i].kind = "error"
               /\ \A i \in 1..Len(rest) : rest[i].kind \in {"resume", "start"}
               /\ Live' => Empty'
    <3>1. /\ \A i \in 1..Len(toPage) : toPage[i].kind = "error"
          /\ \A i \in 1..Len(toDevice) : toDevice[i].kind \in {"resume", "start"}
          /\ Live => Empty
      BY <1>1, <2>3 DEF TranscriptTypes
    <3>2. Live' => Empty' BY <3>1 DEF Live, Empty, GivenUp
    <3> QED BY <1>3, <2>2, <3>1, <3>2
  <2>4. shown # None => Live BY DEF Live
  <2>5. selecting' \in {None, "", "active", "idle", "failed"} BY <1>1 DEF TranscriptTypes, GivenUp
  <2>6. shown # None /\ selecting' # None => selecting # None BY <2>4 DEF GivenUp
  <2> QED BY <1>1, <1>2, <2>1, <2>3, <2>5, <2>6 DEF TranscriptTypes
<1>11. \E views \in Seq(Devices) : WentThrough(views)'
  <2>1. PICK views \in Seq(Devices) : WentThrough(views) BY DEF TranscriptKept
  <2>2. PICK some \in Seq(Devices) :
          Tells(toPage', some) /\ some[1] = views[1] /\ some[Len(some)] = views[Len(views)]
    BY <2>1 DEF GivenUp, WentThrough
  <2>3. Live' => Shows(some[1])'
    <3>1. PICK v : v = views[1] OBVIOUS
    <3>2. Live => Shows(v) BY <2>1, <3>1 DEF WentThrough
    <3>3. Live => Shows(v)' BY <3>2, BreaksOff DEF GivenUp
    <3> QED BY <2>2, <3>1, <3>3 DEF Live
  <2> QED BY <2>1, <2>2, <2>3 DEF WentThrough
<1> QED BY <1>5, <1>6, <1>7, <1>9, <1>10, <1>11 DEF TranscriptKept

\* A call that is given up is the same but for its epoch.
LEMMA CallMarked ==
  ASSUME NEW call \in PageCalls
  PROVE  LET marked == [call EXCEPT !.epoch = 0]
         IN  marked \in PageCalls /\ SameCall(marked, call) /\ marked.epoch = 0
<1>1. CASE call \in [kind : {"resume", "read", "start"}, epoch : Nat]
  BY <1>1 DEF PageCalls, SameCall
<1>2. CASE call \in [kind : {"earlier"}, epoch : Nat, cursor : Nat]
  BY <1>2 DEF PageCalls, SameCall
<1> QED BY <1>1, <1>2 DEF PageCalls

LEMMA MessageMarked ==
  ASSUME NEW m \in PageMessages, m.kind \in T!Answers \cup {"start"},
         NEW marked, marked = [m EXCEPT !.call.epoch = 0]
  PROVE  /\ marked \in PageMessages /\ marked.kind = m.kind
         /\ SameCall(marked.call, m.call) /\ marked.call.epoch = 0
         /\ m.kind = "start" => marked.turn = m.turn
         /\ m.kind = "resume" => marked.status = m.status
         /\ m.kind \in {"read", "earlier"} => marked.earlier = m.earlier /\ marked.turns = m.turns
<1>1. m.call \in PageCalls BY MessageFields
<1>2. PICK call : call = [m.call EXCEPT !.epoch = 0] OBVIOUS
<1>3. call \in PageCalls /\ SameCall(call, m.call) /\ call.epoch = 0 BY <1>1, <1>2, CallMarked
<1>4. marked = [m EXCEPT !.call = call] BY <1>2
<1>5. CASE m.kind = "start"
  <2>1. m \in [kind : {"start"}, call : [kind : {"start"}, epoch : Nat], turn : Nat \ {0}]
    BY <1>5 DEF PageMessages, AnswerMessages
  <2>2. call \in [kind : {"start"}, epoch : Nat] BY <1>2, <2>1
  <2> QED BY <1>3, <1>4, <1>5, <2>1, <2>2 DEF PageMessages
<1>6. CASE m.kind = "error"
  <2>1. m \in [kind : {"error"}, call : PageCalls] BY <1>6 DEF PageMessages, AnswerMessages
  <2>2. marked \in [kind : {"error"}, call : PageCalls] BY <1>3, <1>4, <2>1
  <2> QED BY <1>3, <1>4, <1>6, <2>1, <2>2 DEF PageMessages, AnswerMessages
<1>7. CASE m.kind = "resume"
  <2>1. m \in [kind : {"resume"}, call : PageCalls, status : {"active", "idle"}]
    BY <1>7 DEF PageMessages, AnswerMessages
  <2>2. marked \in [kind : {"resume"}, call : PageCalls, status : {"active", "idle"}]
    BY <1>3, <1>4, <2>1
  <2> QED BY <1>3, <1>4, <1>7, <2>1, <2>2 DEF PageMessages, AnswerMessages
<1>8. CASE m.kind \in {"read", "earlier"}
  <2>1. m \in [kind : {"read", "earlier"}, call : PageCalls, turns : Seq(ShownTurn), earlier : Nat]
    BY <1>8 DEF PageMessages, AnswerMessages
  <2>2. marked \in [kind : {"read", "earlier"}, call : PageCalls, turns : Seq(ShownTurn), earlier : Nat]
    BY <1>3, <1>4, <2>1
  <2> QED BY <1>3, <1>4, <1>8, <2>1, <2>2 DEF PageMessages, AnswerMessages
<1> QED BY <1>5, <1>6, <1>7, <1>8 DEF T!Answers

\* An answer that comes too late says the same of the device.
LEMMA MarkedReports ==
  ASSUME NEW m \in PageMessages, m.kind \in T!Answers,
         NEW marked, marked = [m EXCEPT !.call.epoch = 0],
         NEW v, NEW w, Reports(m, v, w)
  PROVE  Reports(marked, v, w)
<1>1. /\ marked.kind = m.kind /\ SameCall(marked.call, m.call)
      /\ m.kind = "resume" => marked.status = m.status
      /\ m.kind \in {"read", "earlier"} => marked.earlier = m.earlier /\ marked.turns = m.turns
  BY MessageMarked
<1>2. CASE m.kind = "error" BY <1>1, <1>2 DEF Reports
<1>3. CASE m.kind = "resume" BY <1>1, <1>3 DEF Reports, SameCall
<1>4. CASE m.kind = "read" BY <1>1, <1>4 DEF Reports, SameCall
<1>5. CASE m.kind = "earlier"
  <2>1. m.call.kind = "earlier" BY <1>5 DEF Reports
  <2> QED BY <1>1, <1>5, <2>1 DEF Reports, SameCall
<1> QED BY <1>2, <1>3, <1>4, <1>5 DEF T!Answers

\* The messages under way, one of them marked, tell of the same device: the turn of a start
\* that comes too late is added by the report that follows it.
LEMMA MarkedTells ==
  ASSUME StartsPaired, NEW views \in Seq(Devices), Tells(toPage, views),
         NEW i \in 1..Len(toPage), toPage[i].kind \in T!Answers \cup {"start"},
         NEW q, q = [toPage EXCEPT ![i].call.epoch = 0]
  PROVE  \E some \in Seq(Devices) :
           Tells(q, some) /\ some[1] = views[1] /\ some[Len(some)] = views[Len(views)]
<1>1. /\ toPage \in Seq(PageMessages) /\ Len(toPage) \in Nat /\ Len(views) = Len(toPage) + 1
      /\ \A k \in 1..Len(toPage) : Reports(toPage[k], views[k], views[k + 1])
      /\ \A k \in 1..Len(views) : Len(views[k]) <= Len(views[Len(views)])
  BY DEF Tells
<1>2. PICK m \in PageMessages : m = toPage[i] BY <1>1
<1>3. PICK marked : marked = [m EXCEPT !.call.epoch = 0] OBVIOUS
<1>4. q = [toPage EXCEPT ![i] = marked] BY <1>2, <1>3
<1>5. /\ marked \in PageMessages /\ marked.kind = m.kind /\ marked.call.epoch = 0
      /\ m.kind = "start" => marked.turn = m.turn
  <2>1. m.kind \in T!Answers \cup {"start"} BY <1>2
  <2> QED BY <1>3, <2>1, MessageMarked
<1>6. /\ q \in Seq(PageMessages) /\ Len(q) = Len(toPage)
      /\ \A k \in 1..Len(toPage) : q[k] = IF k = i THEN marked ELSE toPage[k]
  <2>1. PICK e \in PageMessages : e = marked BY <1>5
  <2>2. /\ [toPage EXCEPT ![i] = e] \in Seq(PageMessages)
        /\ Len([toPage EXCEPT ![i] = e]) = Len(toPage)
        /\ \A j \in 1..Len(toPage) : [toPage EXCEPT ![i] = e][j] = IF j = i THEN e ELSE toPage[j]
    BY <1>1, ExceptSeq
  <2> QED BY <1>4, <2>1, <2>2
<1>7. CASE m.kind \in T!Answers
  <2>1. ASSUME NEW k \in 1..Len(q) PROVE Reports(q[k], views[k], views[k + 1])
    <3>1. k \in 1..Len(toPage) BY <1>6
    <3>2. CASE k = i
      <4>1. Reports(m, views[k], views[k + 1]) BY <1>1, <1>2, <3>1, <3>2
      <4>2. Reports(marked, views[k], views[k + 1]) BY <1>3, <1>7, <4>1, MarkedReports
      <4> QED BY <1>6, <3>1, <3>2, <4>2
    <3>3. CASE k # i BY <1>1, <1>6, <3>1, <3>3
    <3> QED BY <3>2, <3>3
  <2>2. Tells(q, views) BY <1>1, <1>6, <2>1 DEF Tells
  <2> QED BY <2>2
<1>8. CASE m.kind = "start" /\ m.call.epoch = 0
  <2>1. ASSUME NEW k \in 1..Len(q) PROVE Reports(q[k], views[k], views[k + 1])
    <3>1. k \in 1..Len(toPage) BY <1>6
    <3>2. CASE k = i
      <4>1. Reports(m, views[k], views[k + 1]) BY <1>1, <1>2, <3>1, <3>2
      <4>2. views[k + 1] = views[k] BY <1>8, <4>1 DEF Reports
      <4>3. Reports(marked, views[k], views[k + 1]) BY <1>5, <1>8, <4>2 DEF Reports
      <4> QED BY <1>6, <3>1, <3>2, <4>3
    <3>3. CASE k # i BY <1>1, <1>6, <3>1, <3>3
    <3> QED BY <3>2, <3>3
  <2>2. Tells(q, views) BY <1>1, <1>6, <2>1 DEF Tells
  <2> QED BY <2>2
<1>9. CASE m.kind = "start" /\ m.call.epoch # 0
  <2>1. /\ i < Len(toPage) /\ i + 1 \in 1..Len(toPage) /\ i + 1 \in 1..Len(views) /\ i \in 1..Len(views)
        /\ i + 2 \in 1..Len(views) /\ (i + 1) + 1 = i + 2
        /\ toPage[i + 1].kind = "started" /\ toPage[i + 1].turn = m.turn
    <3>1. /\ i < Len(toPage)
          /\ toPage[i + 1].kind = "started" /\ toPage[i + 1].turn = m.turn
      BY <1>2, <1>9 DEF StartsPaired
    <3> QED BY <1>1, <3>1
  <2>2. PICK v \in Devices, w \in Devices, x \in Devices :
          v = views[i] /\ w = views[i + 1] /\ x = views[i + 2]
    <3>1. views[i] \in Devices /\ views[i + 1] \in Devices /\ views[i + 2] \in Devices BY <2>1
    <3> QED BY <3>1, Zenon
  <2>3. Len(v) \in Nat /\ w = Append(v, Fresh) /\ m.turn = Len(w) /\ Len(w) = Len(v) + 1
    <3>1. v \in Seq(DeviceTurn) /\ Len(v) \in Nat BY DEF Devices
    <3>2. Reports(m, v, w) BY <1>1, <1>2, <2>2
    <3>3. w = Append(v, Fresh) /\ m.turn = Len(w) BY <1>9, <3>2 DEF Reports
    <3> QED BY <3>1, <3>3
  <2>4. x = w
    <3>1. Reports(toPage[i + 1], w, x) BY <1>1, <2>1, <2>2
    <3>2. Len(w) = Len(x) /\ (x = Append(w, Fresh) \/ x = w) BY <2>1, <2>3, <3>1 DEF Reports
    <3>3. w \in Seq(DeviceTurn) BY DEF Devices
    <3>4. Len(Append(w, Fresh)) = Len(w) + 1 BY <3>3
    <3> QED BY <2>3, <3>2, <3>4
  <2>5. PICK some : some = [views EXCEPT ![i + 1] = v] OBVIOUS
  <2>6. /\ some \in Seq(Devices) /\ Len(some) = Len(views)
        /\ \A k \in 1..Len(views) : some[k] = IF k = i + 1 THEN v ELSE views[k]
    <3>1. DOMAIN views = 1..Len(views) BY LenProperties
    <3>2. some \in Seq(Devices) /\ Len(some) = Len(views) BY <2>1, <2>5, ExceptSeq
    <3> QED BY <2>5, <3>1, <3>2
  <2>7. ASSUME NEW k \in 1..Len(q) PROVE Reports(q[k], some[k], some[k + 1])
    <3>0. k \in 1..Len(toPage) /\ k \in 1..Len(views) /\ k + 1 \in 1..Len(views) BY <1>1, <1>6
    <3>1. CASE k = i
      <4>1. q[k] = marked /\ some[k] = v /\ some[k + 1] = v
        <5>1. k # i + 1 BY <3>0, <3>1
        <5> QED BY <1>6, <2>2, <2>6, <3>0, <3>1, <5>1
      <4>2. Reports(marked, v, v) BY <1>5, <1>9 DEF Reports
      <4> QED BY <4>1, <4>2
    <3>2. CASE k = i + 1
      <4>1. k # i /\ k + 1 # i + 1 /\ k + 1 = i + 2 BY <3>0, <3>2
      <4>2. q[k] = toPage[i + 1] /\ some[k] = v /\ some[k + 1] = w
        BY <1>6, <2>2, <2>4, <2>6, <3>0, <3>2, <4>1
      <4>3. Reports(toPage[i + 1], v, w) BY <2>1, <2>3 DEF Reports
      <4> QED BY <4>2, <4>3
    <3>3. CASE k # i /\ k # i + 1
      <4>1. k + 1 # i + 1 BY <3>0, <3>3
      <4>2. q[k] = toPage[k] /\ some[k] = views[k] /\ some[k + 1] = views[k + 1]
        BY <1>6, <2>6, <3>0, <3>3, <4>1
      <4> QED BY <1>1, <3>0, <4>2
    <3> QED BY <3>1, <3>2, <3>3
  <2>8. some[Len(some)] = views[Len(views)] /\ some[1] = views[1]
    <3>1. Len(views) \in 1..Len(views) /\ Len(views) # i + 1 /\ 1 \in 1..Len(views) /\ 1 # i + 1
      BY <1>1, <2>1
    <3> QED BY <2>6, <3>1
  <2>9. \A k \in 1..Len(some) : Len(some[k]) <= Len(some[Len(some)])
    <3> TAKE k \in 1..Len(some)
    <3>1. k \in 1..Len(views) /\ (some[k] = views[k] \/ some[k] = views[i]) BY <2>2, <2>6
    <3> QED BY <1>1, <2>1, <2>8, <3>1
  <2>10. Tells(q, some) BY <1>1, <1>6, <2>6, <2>7, <2>9 DEF Tells
  <2> QED BY <2>6, <2>8, <2>10
<1> QED BY <1>2, <1>7, <1>8, <1>9

\* A call to open the conversation that is given up is the only one.
LEMMA FailedIs ==
  ASSUME T!TranscriptAssumption, NEW call, selecting' = T!Failed(call),
         Pending(call, selection) /\ Live => NonePending' /\ Fits(call, selecting)
  PROVE  \/ selecting' = selecting
         \/ selecting' = "failed" /\ (Live => NonePending' /\ selecting # None)
<1>1. CASE ~Pending(call, selection) BY <1>1 DEF T!Failed, Pending
<1>2. CASE Pending(call, selection)
  <2>1. selecting' = "failed" BY <1>2 DEF T!Failed, Pending
  <2>2. Live => selecting # None
    BY <1>2 DEF Fits, Pending, T!TranscriptAssumption
  <2> QED BY <1>2, <2>1, <2>2
<1> QED BY <1>1, <1>2

LEMMA TimesOutKeeps ==
  ASSUME T!TranscriptAssumption, TranscriptKept, T!TimesOut
  PROVE  TranscriptKept'
<1>1. /\ TranscriptTypes /\ toPage \in Seq(PageMessages) /\ toDevice \in Seq(PageCalls)
      /\ Len(toPage) \in Nat /\ Len(toDevice) \in Nat /\ StartsPaired
      /\ DOMAIN toPage = 1..Len(toPage) /\ DOMAIN toDevice = 1..Len(toDevice)
      /\ shown # None => selection # 0
  <2>1. DOMAIN toPage = 1..Len(toPage) /\ DOMAIN toDevice = 1..Len(toDevice)
    BY KeptNow, LenProperties
  <2> QED BY <2>1, KeptNow DEF TranscriptKept
<1>2. UNCHANGED <<device, subscribed, connected, selection, shown, partial>> BY DEF T!TimesOut
<1>3. Live => OnePending /\ selection # 0 BY <1>1 DEF TranscriptKept, Awaits, Live
<1>4. ASSUME NEW i \in 1..Len(toDevice), selecting' = T!Failed(toDevice[i]),
             toDevice' = [toDevice EXCEPT ![i].epoch = 0], toPage' = toPage
      PROVE  connected /\ GivenUp
  <2>1. connected
    <3>1. ~connected => Len(toDevice) = 0 BY <1>1 DEF TranscriptTypes
    <3> QED BY <1>1, <3>1
  <2>2. PICK marked : marked = [toDevice[i] EXCEPT !.epoch = 0] OBVIOUS
  <2>3. marked \in PageCalls /\ SameCall(marked, toDevice[i]) /\ marked.epoch = 0
    <3>1. toDevice[i] \in PageCalls BY <1>1
    <3> QED BY <2>2, <3>1, CallMarked
  <2>4. PICK rest : rest = toDevice' OBVIOUS
  <2>5. rest = [toDevice EXCEPT ![i] = marked] BY <1>4, <2>2, <2>4
  <2>6. /\ rest \in Seq(PageCalls) /\ Len(rest) = Len(toDevice)
        /\ \A j \in 1..Len(toDevice) : rest[j] = IF j = i THEN marked ELSE toDevice[j]
    <3>1. rest \in Seq(PageCalls) /\ Len(rest) = Len(toDevice) BY <1>1, <2>3, <2>5, ExceptSeq
    <3> QED BY <1>1, <2>5, <3>1
  <2>7. CallsLeft(0, 0)
    <3>1. \A j \in 1..Len(rest) : j + 0 \in 1..Len(toDevice) /\ SameCall(rest[j], toDevice[j + 0])
      <4> TAKE j \in 1..Len(rest)
      <4>1. j \in 1..Len(toDevice) /\ j + 0 = j BY <1>1, <2>6
      <4>2. SameCall(toDevice[j], toDevice[j]) BY DEF SameCall
      <4> QED BY <2>3, <2>6, <4>1, <4>2
    <3>2. \A j \in 1..Len(toPage) : j + 0 \in 1..Len(toPage) /\ SameCall(toPage[j].call, toPage[j + 0].call)
                                    /\ toPage[j].kind = toPage[j + 0].kind
      <4> TAKE j \in 1..Len(toPage)
      <4>1. j \in 1..Len(toPage) /\ j + 0 = j BY <1>1
      <4> QED BY <4>1 DEF SameCall
    <3> QED BY <1>2, <1>4, <2>4, <2>6, <3>1, <3>2 DEF CallsLeft
  <2>8. ASSUME Pending(toDevice[i], selection), Live PROVE NonePending' /\ Fits(toDevice[i], selecting)
    <3>1. OnePending /\ selection # 0 BY <1>3, <2>8
    <3>2. \A j \in 1..Len(rest) : ~Pending(rest[j], selection)
      BY <2>3, <2>6, <2>8, <3>1 DEF OnePending, Pending
    <3>3. \A j \in 1..Len(toPage) : ~Answering(toPage[j], selection) BY <2>8, <3>1 DEF OnePending
    <3>4. Fits(toDevice[i], selecting) BY <2>8, <3>1 DEF OnePending
    <3> QED BY <1>2, <1>4, <2>4, <3>2, <3>3, <3>4 DEF NonePending
  <2>9. \/ selecting' = selecting
        \/ selecting' = "failed" /\ (Live => NonePending' /\ selecting # None)
    <3>1. CASE Pending(toDevice[i], selection)
      BY <1>4, <2>8, FailedIs
    <3>2. CASE ~Pending(toDevice[i], selection)
      BY <1>4, <3>2 DEF T!Failed, Pending
    <3> QED BY <3>1, <3>2
  <2>10. toPage' \in Seq(PageMessages) /\ Len(toPage') = Len(toPage) BY <1>1, <1>4
  <2> QED BY <1>4, <2>1, <2>7, <2>9, <2>10 DEF GivenUp
<1>5. ASSUME NEW i \in 1..Len(toPage), toPage[i].kind \in T!Answers \cup {"start"},
             selecting' = T!Failed(toPage[i].call),
             toPage' = [toPage EXCEPT ![i].call.epoch = 0], toDevice' = toDevice
      PROVE  connected /\ GivenUp
  <2>1. connected
    <3>1. ~connected => Len(toPage) = 0 BY <1>1 DEF TranscriptTypes
    <3> QED BY <1>1, <3>1
  <2>2. PICK m \in PageMessages : m = toPage[i] BY <1>1
  <2>3. PICK marked : marked = [m EXCEPT !.call.epoch = 0] OBVIOUS
  <2>4. /\ marked \in PageMessages /\ marked.kind = m.kind
        /\ SameCall(marked.call, m.call) /\ marked.call.epoch = 0
        /\ m.kind = "start" => marked.turn = m.turn
        /\ m.kind = "read" => marked.earlier = m.earlier
    <3>1. m.kind \in T!Answers \cup {"start"} BY <1>5, <2>2
    <3> QED BY <2>3, <3>1, MessageMarked
  <2>5. PICK q : q = toPage' OBVIOUS
  <2>6. q = [toPage EXCEPT ![i] = marked] BY <1>5, <2>2, <2>3, <2>5
  <2>7. /\ q \in Seq(PageMessages) /\ Len(q) = Len(toPage)
        /\ \A j \in 1..Len(toPage) : q[j] = IF j = i THEN marked ELSE toPage[j]
    <3>1. q \in Seq(PageMessages) /\ Len(q) = Len(toPage) BY <1>1, <2>4, <2>6, ExceptSeq
    <3> QED BY <1>1, <2>6, <3>1
  <2>8. CallsLeft(0, 0)
    <3>1. \A j \in 1..Len(q) : j + 0 \in 1..Len(toPage) /\ q[j].kind = toPage[j + 0].kind
                               /\ SameCall(q[j].call, toPage[j + 0].call)
      <4> TAKE j \in 1..Len(q)
      <4>1. j \in 1..Len(toPage) /\ j + 0 = j BY <1>1, <2>7
      <4>2. SameCall(toPage[j].call, toPage[j].call) BY DEF SameCall
      <4> QED BY <2>2, <2>4, <2>7, <4>1, <4>2
    <3>2. \A j \in 1..Len(toDevice) : j + 0 \in 1..Len(toDevice) /\ SameCall(toDevice[j], toDevice[j + 0])
      <4> TAKE j \in 1..Len(toDevice)
      <4>1. j \in 1..Len(toDevice) /\ j + 0 = j BY <1>1
      <4> QED BY <4>1 DEF SameCall
    <3> QED BY <1>1, <1>2, <1>5, <2>5, <3>1, <3>2 DEF CallsLeft
  <2>9. \A j \in 1..Len(toPage) :
          /\ q[j].kind = toPage[j].kind
          /\ toPage[j].kind \in T!Events => q[j].turn = toPage[j].turn
          /\ toPage[j].kind = "read" => q[j].earlier = toPage[j].earlier
    <3>1. m.kind \in T!Events => m.kind = "start" BY <1>5, <2>2 DEF T!Events, T!Answers
    <3> QED BY <2>2, <2>4, <2>7, <3>1
  <2>10. \A views \in Seq(Devices) : Tells(toPage, views) =>
           \E some \in Seq(Devices) :
             Tells(q, some) /\ some[1] = views[1] /\ some[Len(some)] = views[Len(views)]
    <3>1. q = [toPage EXCEPT ![i].call.epoch = 0] BY <1>5, <2>5
    <3> QED BY <1>1, <1>5, <3>1, MarkedTells
  <2>11. ASSUME Pending(m.call, selection), Live PROVE NonePending' /\ Fits(m.call, selecting)
    <3>1. OnePending /\ selection # 0 BY <1>3, <2>11
    <3>2. m.kind \in T!Answers
      <4>1. m.kind # "start" BY <2>11, MessageFields DEF Pending
      <4> QED BY <1>5, <2>2, <4>1
    <3>3. Answering(toPage[i], selection) BY <2>2, <2>11, <3>2 DEF Answering
    <3>4. \A j \in 1..Len(q) : ~Answering(q[j], selection)
      BY <2>4, <2>7, <3>1, <3>3 DEF OnePending, Answering, Pending
    <3>5. \A j \in 1..Len(toDevice) : ~Pending(toDevice[j], selection) BY <3>1, <3>3 DEF OnePending
    <3>6. Fits(m.call, selecting) BY <2>2, <3>1, <3>3 DEF OnePending
    <3> QED BY <1>2, <1>5, <2>5, <3>4, <3>5, <3>6 DEF NonePending
  <2>12. \/ selecting' = selecting
         \/ selecting' = "failed" /\ (Live => NonePending' /\ selecting # None)
    <3>1. CASE Pending(m.call, selection)
      BY <1>5, <2>2, <2>11, FailedIs
    <3>2. CASE ~Pending(m.call, selection)
      BY <1>5, <2>2, <3>2 DEF T!Failed, Pending
    <3> QED BY <3>1, <3>2
  <2> QED BY <2>1, <2>5, <2>7, <2>8, <2>9, <2>10, <2>12 DEF GivenUp
<1>6. connected /\ GivenUp
  BY <1>1, <1>4, <1>5 DEF T!TimesOut
<1> QED BY <1>2, <1>6, GivenUpKeeps

-----------------------------------------------------------------------------
(* The transcript: the page receives                                        *)

\* A message is taken from those under way.
MessageTaken ==
  /\ toPage # <<>> /\ toPage' = Tail(toPage)
  /\ UNCHANGED <<device, subscribed, connected, selection>>

LEMMA MessagesLeft ==
  ASSUME TranscriptKept, MessageTaken
  PROVE  /\ toPage \in Seq(PageMessages) /\ Len(toPage) \in Nat /\ 1 \in 1..Len(toPage)
         /\ Head(toPage) = toPage[1] /\ toPage[1] \in PageMessages
         /\ toPage' \in Seq(PageMessages) /\ Len(toPage') \in Nat
         /\ \A i \in 1..Len(toPage') :
              i + 1 \in 1..Len(toPage) /\ toPage'[i] = toPage[i + 1] /\ i + 1 # 1
         /\ connected /\ (toPage[1].kind # "error" => subscribed)
         /\ Len(device) \in Nat /\ selection \in Nat
         /\ shown # None => Live /\ selection # 0 /\ shown \in ShownThread
<1>1. /\ toPage \in Seq(PageMessages) /\ Len(toPage) \in Nat /\ TranscriptTypes
      /\ Len(device) \in Nat /\ selection \in Nat
      /\ shown # None => shown \in ShownThread /\ selection # 0
  BY KeptNow
<1>2. PICK q : q = Tail(toPage) OBVIOUS
<1>3. /\ q \in Seq(PageMessages) /\ Len(q) = Len(toPage) - 1 /\ Len(toPage) > 0 /\ Len(q) \in Nat
      /\ \A i \in 1..Len(q) : q[i] = toPage[i + 1]
  BY <1>1, <1>2 DEF MessageTaken
<1>4. \A i \in 1..Len(q) : i + 1 \in 1..Len(toPage) /\ i + 1 # 1 BY <1>1, <1>3
<1>5. 1 \in 1..Len(toPage) BY <1>1, <1>3
<1>6. Head(toPage) = toPage[1] /\ toPage[1] \in PageMessages BY <1>1, <1>5
<1>7. connected /\ (toPage[1].kind # "error" => subscribed)
  <2>1. connected BY <1>1 DEF TranscriptTypes, MessageTaken
  <2>2. ~subscribed => toPage[1].kind = "error" BY <1>1, <1>5 DEF TranscriptTypes
  <2> QED BY <2>1, <2>2
<1>8. shown # None => Live BY <1>7 DEF Live
<1> QED BY <1>1, <1>2, <1>3, <1>4, <1>5, <1>6, <1>7, <1>8 DEF MessageTaken

\* What is left stands as it did.
LEMMA ReportsLeft ==
  ASSUME TranscriptKept, MessageTaken
  PROVE  StartsPaired' /\ ReportsNear'
<1>1. PICK q : q = toPage' OBVIOUS
<1>2. /\ Len(toPage) \in Nat /\ Len(q) \in Nat /\ Len(q) + 1 = Len(toPage)
      /\ \A i \in 1..Len(q) : i + 1 \in 1..Len(toPage) /\ q[i] = toPage[i + 1]
  <2>1. Len(q) = Len(toPage) - 1 BY <1>1, MessagesLeft DEF MessageTaken
  <2> QED BY <1>1, <2>1, MessagesLeft
<1>3. ASSUME NEW i \in 1..Len(q), q[i].kind = "start"
      PROVE  i < Len(q) /\ q[i + 1].kind = "started" /\ q[i + 1].turn = q[i].turn
  <2>1. PICK j \in 1..Len(toPage) : j = i + 1 /\ q[i] = toPage[j] BY <1>2
  <2>2. j < Len(toPage) /\ toPage[j + 1].kind = "started" /\ toPage[j + 1].turn = toPage[j].turn
    BY <1>3, <2>1 DEF TranscriptKept, StartsPaired
  <2>3. i < Len(q) /\ i + 1 \in 1..Len(q) BY <1>2, <2>1, <2>2
  <2>4. q[i + 1] = toPage[j + 1] BY <1>2, <2>1, <2>3
  <2> QED BY <2>1, <2>2, <2>3, <2>4
<1>4. StartsPaired' BY <1>1, <1>3 DEF StartsPaired
<1>5. \A i \in 1..Len(q) : q[i].kind \in T!Events => Len(device) - q[i].turn < PageOfTurns
  BY <1>2 DEF TranscriptKept, ReportsNear
<1>6. ReportsNear' BY <1>1, <1>5 DEF ReportsNear, MessageTaken
<1> QED BY <1>4, <1>6

LEMMA AnswersLeft ==
  ASSUME TranscriptKept, MessageTaken
  PROVE  /\ \A i \in 1..Len(toPage') : toPage'[i].kind \in T!Answers =>
              /\ i + 1 \in 1..Len(toPage) /\ toPage'[i].kind = toPage[i + 1].kind
              /\ SameCall(toPage'[i].call, toPage[i + 1].call)
         /\ \A i \in 1..Len(toPage') : toPage'[i].kind \in T!Answers => toPage'[i].call.epoch <= selection
         /\ toDevice' = toDevice => CallsLeft(0, 1) /\ CallsKnown'
<1>1. PICK q : q = toPage' OBVIOUS
<1>2. \A i \in 1..Len(q) : i + 1 \in 1..Len(toPage) /\ q[i] = toPage[i + 1] BY <1>1, MessagesLeft
<1>3. \A i \in 1..Len(q) : q[i].kind \in T!Answers =>
        /\ i + 1 \in 1..Len(toPage) /\ q[i].kind = toPage[i + 1].kind
        /\ SameCall(q[i].call, toPage[i + 1].call)
  BY <1>2 DEF SameCall
<1>4. \A i \in 1..Len(q) : q[i].kind \in T!Answers => q[i].call.epoch <= selection
  BY <1>2 DEF TranscriptKept, CallsKnown
<1>5. ASSUME toDevice' = toDevice PROVE CallsLeft(0, 1)
  <2>1. \A i \in 1..Len(toDevice) : i + 0 \in 1..Len(toDevice) /\ SameCall(toDevice[i], toDevice[i + 0])
    <3> TAKE i \in 1..Len(toDevice)
    <3>1. i + 0 = i OBVIOUS
    <3> QED BY <3>1 DEF SameCall
  <2>2. toDevice \in Seq(PageCalls) BY KeptNow
  <2> QED BY <1>1, <1>3, <1>5, <2>1, <2>2 DEF CallsLeft, MessageTaken
<1>6. ASSUME toDevice' = toDevice PROVE CallsKnown'
  BY <1>1, <1>4, <1>6 DEF TranscriptKept, CallsKnown, MessageTaken
<1> QED BY <1>1, <1>3, <1>4, <1>5, <1>6

LEMMA TypesLeft ==
  ASSUME TranscriptKept, MessageTaken, toDevice' = toDevice \/ subscribed,
         selecting' \in {None, "", "active", "idle", "failed"},
         shown' # None => shown' \in ShownThread /\ selection # 0, partial' \subseteq 1..MaxTurns,
         subscribed \/ (Live' => Empty'),
         shown' # None /\ selecting' # None => shown'.earlier = 0
  PROVE  TranscriptTypes'
<1>1. PICK q : q = toPage' OBVIOUS
<1>2. \A i \in 1..Len(q) : i + 1 \in 1..Len(toPage) /\ q[i] = toPage[i + 1] BY <1>1, MessagesLeft
<1>3. TranscriptTypes /\ connected BY KeptNow, MessagesLeft
<1>4. ASSUME ~subscribed
      PROVE  /\ \A i \in 1..Len(q) : q[i].kind = "error"
             /\ \A i \in 1..Len(toDevice') : toDevice'[i].kind \in {"resume", "start"}
  BY <1>2, <1>3, <1>4 DEF TranscriptTypes
<1> QED BY <1>1, <1>3, <1>4 DEF TranscriptTypes, MessageTaken

\* What the page holds after a message was held before it or is reported by it.
HeldBefore ==
  \A i \in 1..Len(shown'.turns) :
    \/ \E j \in 1..Len(shown.turns) : shown'.turns[i].turn = shown.turns[j].turn
    \/ toPage[1].kind \in T!Events /\ shown'.turns[i].turn = toPage[1].turn

\* What is left of the messages, and held on the page, is recent.
LEMMA LeftNear ==
  ASSUME TranscriptKept, MessageTaken, Live,
         \/ HeldBefore /\ (T!Opening' => T!Opening)
         \/ ~T!Opening' /\ \A k \in 1..Len(toPage') : ~Answering(toPage'[k], selection)
  PROVE  Near'
<1>1. PICK q : q = toPage' OBVIOUS
<1>2. /\ Len(toPage) \in Nat /\ 1 \in 1..Len(toPage) /\ Len(q) \in Nat
      /\ \A i \in 1..Len(q) : i + 1 \in 1..Len(toPage) /\ q[i] = toPage[i + 1]
  BY <1>1, MessagesLeft
<1>3. Near /\ ReportsNear BY DEF TranscriptKept, Awaits
<1>5. CASE ~T!Opening' /\ \A k \in 1..Len(q) : ~Answering(q[k], selection)
  BY <1>1, <1>5 DEF Near, MessageTaken
<1>6. CASE HeldBefore /\ (T!Opening' => T!Opening)
  <2>1. ASSUME T!Opening', NEW i \in 1..Len(shown'.turns)
        PROVE  Len(device) - shown'.turns[i].turn < PageOfTurns
    BY <1>2, <1>3, <1>6, <2>1 DEF Near, ReportsNear, HeldBefore
  <2>2. ASSUME NEW k \in 1..Len(q), q[k].kind = "read" /\ Answering(q[k], selection)
        PROVE  /\ \A i \in 1..Len(shown'.turns) : shown'.turns[i].turn > q[k].earlier
               /\ \A i \in 1..(k - 1) : q[i].kind \in T!Events => q[i].turn > q[k].earlier
    <3>1. PICK j \in 1..Len(toPage) : j = k + 1 BY <1>2
    <3>2. q[k] = toPage[j] BY <1>2, <3>1
    <3>3. /\ \A i \in 1..Len(shown.turns) : shown.turns[i].turn > q[k].earlier
          /\ \A i \in 1..(j - 1) : toPage[i].kind \in T!Events => toPage[i].turn > q[k].earlier
      BY <1>3, <2>2, <3>2 DEF Near
    <3>4. 1 \in 1..(j - 1) BY <1>2, <3>1
    <3>5. \A i \in 1..(k - 1) : i \in 1..Len(q) /\ i + 1 \in 1..(j - 1) BY <1>2, <3>1
    <3>6. \A i \in 1..Len(shown'.turns) : shown'.turns[i].turn > q[k].earlier
      BY <1>6, <3>3, <3>4 DEF HeldBefore
    <3>7. \A i \in 1..(k - 1) : q[i].kind \in T!Events => q[i].turn > q[k].earlier
      BY <1>2, <3>3, <3>5
    <3> QED BY <3>6, <3>7
  <2> QED BY <1>1, <2>1, <2>2 DEF Near, MessageTaken
<1> QED BY <1>1, <1>5, <1>6

\* The page takes a message: it shows the device as it was after that message.
LEMMA MessageKeeps ==
  ASSUME TranscriptKept, MessageTaken, TranscriptTypes', CallsKnown', Awaits', Live' => Live,
         Live' => \A v, w \in Devices : Shows(v) /\ Reports(toPage[1], v, w) => Shows(w)'
  PROVE  TranscriptKept'
<1>1. PICK views \in Seq(Devices) : WentThrough(views) BY DEF TranscriptKept
<1>2. PICK less : less = Tail(views) OBVIOUS
<1>3. /\ Tells(Tail(toPage), less) /\ less[1] = views[2] /\ less[Len(less)] = views[Len(views)]
      /\ Head(toPage) = toPage[1] /\ views[1] \in Devices /\ views[2] \in Devices
      /\ Reports(toPage[1], views[1], views[2])
  BY <1>1, <1>2, TellsLess DEF WentThrough, MessageTaken
<1>4. ASSUME Live' PROVE Shows(less[1])'
  <2>1. Shows(views[1]) BY <1>1, <1>4 DEF WentThrough
  <2>2. PICK w \in Devices : w = views[2] BY <1>3
  <2>3. Shows(w)' BY <1>3, <1>4, <2>1, <2>2
  <2> QED BY <1>3, <2>2, <2>3
<1>5. less \in Seq(Devices) BY <1>3 DEF Tells
<1>6. WentThrough(less)' BY <1>1, <1>3, <1>4 DEF WentThrough, MessageTaken
<1>7. StartsPaired' /\ ReportsNear' /\ connected' BY ReportsLeft, MessagesLeft DEF MessageTaken
<1> QED BY <1>5, <1>6, <1>7 DEF TranscriptKept

\* What the page knew of the device before a message, and what the message says.
LEMMA HeadReports ==
  ASSUME TranscriptKept, MessageTaken
  PROVE  \E v, w \in Devices : Reports(toPage[1], v, w) /\ (Live => Shows(v))
<1>1. PICK views \in Seq(Devices) : WentThrough(views) BY DEF TranscriptKept
<1>2. /\ views[1] \in Devices /\ views[2] \in Devices
      /\ Reports(toPage[1], views[1], views[2])
  BY <1>1, TellsLess, MessagesLeft DEF WentThrough, MessageTaken
<1> QED BY <1>1, <1>2 DEF WentThrough

\* When the answer that is awaited comes nothing else is.
LEMMA LastPending ==
  ASSUME TranscriptKept, MessageTaken, Live, toPage[1].kind \in T!Answers,
         Pending(toPage[1].call, selection)
  PROVE  /\ Fits(toPage[1].call, selecting)
         /\ \A i \in 1..Len(toDevice) : ~Pending(toDevice[i], selection)
         /\ \A i \in 1..Len(toPage') : ~Answering(toPage'[i], selection)
         /\ toDevice' = toDevice => NonePending'
<1>1. Answering(toPage[1], selection) BY DEF Answering
<1>2. PICK q : q = toPage' OBVIOUS
<1>3. /\ 1 \in 1..Len(toPage)
      /\ \A i \in 1..Len(q) : i + 1 \in 1..Len(toPage) /\ q[i] = toPage[i + 1] /\ i + 1 # 1
  BY <1>2, MessagesLeft
<1>4. OnePending BY DEF TranscriptKept, Awaits
<1>5. /\ Fits(toPage[1].call, selecting)
      /\ \A i \in 1..Len(toDevice) : ~Pending(toDevice[i], selection)
  BY <1>1, <1>3, <1>4 DEF OnePending
<1>6. \A i \in 1..Len(q) : ~Answering(q[i], selection) BY <1>1, <1>3, <1>4 DEF OnePending
<1>7. toDevice' = toDevice => NonePending' BY <1>2, <1>5, <1>6 DEF NonePending, MessageTaken
<1> QED BY <1>2, <1>5, <1>6, <1>7

\* No earlier turns are awaited before the conversation is loaded.
LEMMA NoneMore ==
  ASSUME TranscriptKept, Live, selecting # None
  PROVE  /\ \A i \in 1..Len(toDevice) : ~More(toDevice[i])
         /\ \A i \in 1..Len(toPage) : ~MoreOf(toPage[i])
  BY DEF TranscriptKept, Awaits, EarlierJoins, Joins

LEMMA AllHeld ==
  ASSUME shown'.turns = shown.turns
  PROVE  HeldBefore
  BY DEF HeldBefore

\* An answer changes nothing of what is shown: it is dropped, or opening breaks off.
LEMMA NothingAnswered ==
  ASSUME T!TranscriptAssumption, TranscriptKept, MessageTaken,
         UNCHANGED <<shown, partial, toDevice>>,
         shown # None => toPage[1].kind \in T!Answers \/ (toPage[1].kind = "start" /\ toPage[1].call.epoch = 0),
         \/ selecting' = selecting
         \/ selecting' = "failed" /\ (Live => NonePending' /\ selecting # None)
  PROVE  TranscriptKept'
<1>1. /\ TranscriptTypes /\ connected /\ selection \in Nat /\ CallsLeft(0, 1) /\ CallsKnown'
      /\ shown # None => Live /\ selection # 0 /\ shown \in ShownThread
  BY KeptNow, MessagesLeft, AnswersLeft
<1>2. Live' => Live BY DEF Live, MessageTaken
<1>3. TranscriptTypes'
  <2>1. selecting' \in {None, "", "active", "idle", "failed"} BY <1>1 DEF TranscriptTypes
  <2>2. subscribed \/ (Live' => Empty') BY <1>1, <1>2 DEF TranscriptTypes, Empty
  <2>3. shown' # None /\ selecting' # None => shown'.earlier = 0 BY <1>1 DEF TranscriptTypes
  <2>4. (shown' # None => shown' \in ShownThread /\ selection # 0) /\ partial' \subseteq 1..MaxTurns
    BY <1>1 DEF TranscriptTypes
  <2> QED BY <2>1, <2>2, <2>3, <2>4, TypesLeft
<1>4. ASSUME Live' PROVE OnePending' /\ EarlierJoins' /\ EarlierOrdered' /\ Near'
  <2>1. /\ Live /\ selection # 0 /\ OnePending /\ EarlierJoins /\ EarlierOrdered
    BY <1>1, <1>2, <1>4 DEF TranscriptKept, Awaits, Live
  <2>2. selecting' = selecting \/ (NonePending' /\ selecting # None /\ selecting' = "failed")
    BY <2>1
  <2>3. OnePending' BY <1>1, <2>1, <2>2, OnePendingStays
  <2>4. EarlierOrdered' BY <1>1, <2>1, EarlierOrderedStays
  <2>5. EarlierJoins' BY <1>1, <2>1, <2>2, EarlierJoinsStays
  <2>6. T!Opening' => T!Opening BY <2>2 DEF T!Opening
  <2>7. Near' BY <2>1, <2>6, AllHeld, LeftNear
  <2> QED BY <2>3, <2>4, <2>5, <2>7
<1>5. Awaits' BY <1>4 DEF Awaits
<1>6. ASSUME Live', NEW v \in Devices, NEW w \in Devices, Shows(v), Reports(toPage[1], v, w)
      PROVE  Shows(w)'
  <2>1. w = v
    <3>1. shown # None BY <1>2, <1>6 DEF Live
    <3> QED BY <1>6, <3>1 DEF Reports, T!Answers
  <2>2. Shows(v)' BY <1>6, BreaksOff
  <2> QED BY <2>1, <2>2
<1> QED BY <1>1, <1>2, <1>3, <1>5, <1>6, MessageKeeps

\* A call that opens the conversation fails, or its answer finds none shown.
LEMMA FailedKeeps ==
  ASSUME T!TranscriptAssumption, TranscriptKept, MessageTaken,
         toPage[1].kind \in T!Answers, selecting' = T!Failed(toPage[1].call),
         UNCHANGED <<shown, partial, toDevice>>
  PROVE  TranscriptKept'
<1>1. Pending(toPage[1].call, selection) /\ Live => NonePending' /\ Fits(toPage[1].call, selecting)
  BY LastPending
<1>2. \/ selecting' = selecting
      \/ selecting' = "failed" /\ (Live => NonePending' /\ selecting # None)
  BY <1>1, FailedIs
<1> QED BY <1>2, NothingAnswered

\* A report reaches the page.
LEMMA EventKeeps ==
  ASSUME T!TranscriptAssumption, TranscriptKept, MessageTaken, shown # None,
         NEW m, m = toPage[1], m.kind \in T!Events, m.kind = "start" => m.call.epoch # 0,
         IF m.kind = "start"
         THEN shown' = [shown EXCEPT
                !.turns = IF \E i \in DOMAIN @ : @[i].turn = m.turn THEN @
                          ELSE Append(@, [turn |-> m.turn, status |-> "running",
                                          text |-> <<>>, item |-> FALSE]),
                !.status = "active"]
         ELSE shown' = T!Applied(m),
         partial' = IF m.kind = "delta" /\ m.delta # Len(T!Known(m.turn).text) + 1
                    THEN partial \cup {m.turn} ELSE partial,
         UNCHANGED <<selecting, toDevice>>
  PROVE  TranscriptKept'
<1>1. /\ shown \in ShownThread /\ m \in PageMessages /\ 1 \in 1..Len(toPage) /\ Live /\ subscribed
      /\ selection # 0 /\ TranscriptTypes /\ CallsLeft(0, 1) /\ CallsKnown'
  <2>1. m.kind # "error" BY DEF T!Events
  <2> QED BY <2>1, KeptNow, MessagesLeft, AnswersLeft
<1>2. shown'.earlier = shown.earlier
  <2>1. PICK status, turns, earlier : shown = [status |-> status, turns |-> turns, earlier |-> earlier]
    BY <1>1 DEF ShownThread
  <2>2. CASE m.kind = "start" BY <2>1, <2>2
  <2>3. CASE m.kind # "start" BY <2>1, <2>3 DEF T!Applied, T!Events
  <2> QED BY <2>2, <2>3
<1>3. OnePending' /\ EarlierJoins' /\ EarlierOrdered'
  <2>1. OnePending /\ EarlierJoins /\ EarlierOrdered BY <1>1 DEF TranscriptKept, Awaits
  <2>2. OnePending' BY <1>1, <2>1, OnePendingStays
  <2>3. EarlierJoins' BY <1>1, <1>2, <2>1, EarlierJoinsStays
  <2>4. EarlierOrdered' BY <1>1, <2>1, EarlierOrderedStays
  <2> QED BY <2>2, <2>3, <2>4
<1>4. ASSUME NEW v \in Devices, NEW w \in Devices, Shows(v), Reports(m, v, w)
      PROVE  /\ Shows(w)' /\ shown' \in ShownThread
             /\ \E next : ChangedLast(shown'.turns, Len(w), next)
  BY <1>1, <1>4, EventShows
<1>5. PICK v \in Devices, w \in Devices : Shows(v) /\ Reports(m, v, w) BY <1>1, HeadReports
<1>6. Shows(w)' /\ shown' \in ShownThread /\ m.turn = Len(w) BY <1>1, <1>4, <1>5, EventMoves
<1>7. HeldBefore
  <2>1. PICK next : ChangedLast(shown'.turns, Len(w), next) BY <1>4, <1>5
  <2>2. PICK merged : merged = shown'.turns OBVIOUS
  <2>3. PICK n \in Nat : n = Len(merged) /\ n > 0 BY <2>1, <2>2 DEF ChangedLast
  <2>4. \A i \in 1..(n - 1) : i \in 1..Len(shown.turns) /\ merged[i] = shown.turns[i]
    BY <2>1, <2>2, <2>3 DEF ChangedLast
  <2>5. merged[n].turn = Len(w)
    <3>1. n \in 1..n BY <2>3
    <3>2. merged[n].turn = Len(w) - n + n BY <1>6, <2>2, <2>3, <3>1 DEF Shows
    <3>3. Len(w) \in Nat BY DEF Devices
    <3> QED BY <2>3, <3>2, <3>3
  <2>6. \A i \in 1..n : i \in 1..(n - 1) \/ i = n BY <2>3
  <2> QED BY <1>6, <2>2, <2>3, <2>4, <2>5, <2>6 DEF HeldBefore
<1>8. Near'
  <2>1. T!Opening' => T!Opening BY DEF T!Opening
  <2> QED BY <1>1, <1>7, <2>1, LeftNear
<1>9. TranscriptTypes'
  <2>1. selecting' \in {None, "", "active", "idle", "failed"} BY <1>1 DEF TranscriptTypes
  <2>2. shown' # None /\ selecting' # None => shown'.earlier = 0 BY <1>1, <1>2 DEF TranscriptTypes
  <2>3. partial' \subseteq 1..MaxTurns
    <3>1. m.turn \in 1..MaxTurns
      <4>1. Len(w) <= MaxTurns /\ Len(w) \in Nat BY DEF Devices
      <4> QED BY <1>1, <1>6, <4>1, EventTurn
    <3>2. partial \subseteq 1..MaxTurns BY <1>1 DEF TranscriptTypes
    <3> QED BY <3>1, <3>2
  <2> QED BY <1>1, <1>6, <2>1, <2>2, <2>3, TypesLeft
<1>10. Awaits' BY <1>3, <1>8 DEF Awaits
<1> QED BY <1>1, <1>4, <1>9, <1>10, MessageKeeps

\* The answer to resume reaches the page, which asks for the turns.
LEMMA ResumedKeeps ==
  ASSUME T!TranscriptAssumption, TranscriptKept, MessageTaken,
         NEW m, m = toPage[1], m.kind = "resume", m.call.epoch = selection,
         selecting' = m.status,
         toDevice' = Append(toDevice, [kind |-> "read", epoch |-> selection]),
         UNCHANGED <<shown, partial>>
  PROVE  TranscriptKept'
<1>1. /\ TranscriptTypes /\ selection \in Nat /\ m \in PageMessages /\ subscribed
      /\ toDevice \in Seq(PageCalls) /\ Len(toDevice) \in Nat
      /\ shown # None => Live /\ selection # 0 /\ shown \in ShownThread
      /\ \A i \in 1..Len(toPage') : toPage'[i].kind \in T!Answers => toPage'[i].call.epoch <= selection
  BY KeptNow, MessagesLeft, AnswersLeft
<1>2. Live' => Live BY DEF Live, MessageTaken
<1>3. m.status \in {"active", "idle"} BY <1>1 DEF PageMessages, AnswerMessages
<1>4. m.call.kind = "resume" /\ m.kind \in T!Answers
  <2>1. PICK v \in Devices, w \in Devices : Reports(m, v, w) BY HeadReports
  <2> QED BY <2>1 DEF Reports, T!Answers
<1>5. ASSUME Live
      PROVE  /\ selecting = "" /\ selecting # None
             /\ \A i \in 1..Len(toDevice) : ~Pending(toDevice[i], selection)
             /\ \A i \in 1..Len(toPage') : ~Answering(toPage'[i], selection)
  <2>1. Pending(m.call, selection) BY <1>4 DEF Pending
  <2>2. /\ Fits(m.call, selecting)
        /\ \A i \in 1..Len(toDevice) : ~Pending(toDevice[i], selection)
        /\ \A i \in 1..Len(toPage') : ~Answering(toPage'[i], selection)
    BY <1>4, <1>5, <2>1, LastPending
  <2> QED BY <1>4, <2>2 DEF Fits, T!TranscriptAssumption
<1>6. PICK call \in PageCalls : call = [kind |-> "read", epoch |-> selection]
  BY <1>1 DEF PageCalls
<1>7. call.kind = "read" /\ call.epoch = selection BY <1>6
<1>8. PICK rest : rest = toDevice' OBVIOUS
<1>9. /\ rest \in Seq(PageCalls) /\ Len(rest) = Len(toDevice) + 1 /\ rest[Len(toDevice) + 1] = call
      /\ \A i \in 1..Len(toDevice) : rest[i] = toDevice[i]
  <2>1. rest = Append(toDevice, call) BY <1>6, <1>8
  <2> QED BY <1>1, <2>1
<1>10. \A i \in 1..Len(rest) : i \in 1..Len(toDevice) \/ i = Len(toDevice) + 1 BY <1>1, <1>9
<1>11. CallsKnown'
  <2>1. selection <= selection BY <1>1
  <2>2. \A i \in 1..Len(rest) :
          /\ rest[i].epoch <= selection
          /\ rest[i].kind = "earlier" => rest[i].cursor <= Len(device) /\ rest[i].cursor > 0
    BY <1>7, <1>9, <1>10, <2>1 DEF TranscriptKept, CallsKnown
  <2> QED BY <1>1, <1>8, <1>9, <2>2 DEF CallsKnown, MessageTaken
<1>12. ASSUME Live' PROVE OnePending' /\ EarlierJoins' /\ EarlierOrdered' /\ Near'
  <2>0. Live BY <1>2, <1>12
  <2>1. OnePending'
    <3>1. \A i \in 1..Len(rest) : Pending(rest[i], selection) => i = Len(toDevice) + 1
      BY <1>5, <1>9, <1>10, <2>0
    <3>2. \A i, j \in 1..Len(rest) : Pending(rest[i], selection) /\ Pending(rest[j], selection) => i = j
      BY <3>1
    <3>3. Fits(call, m.status) BY <1>3, <1>7 DEF Fits
    <3>4. \A i \in 1..Len(rest) : Pending(rest[i], selection) => Fits(rest[i], m.status)
      BY <1>9, <3>1, <3>3
    <3>5. PICK q : q = toPage' OBVIOUS
    <3>6. \A i \in 1..Len(q) : ~Answering(q[i], selection) BY <1>5, <2>0, <3>5
    <3>7. /\ \A i, j \in 1..Len(q) : Answering(q[i], selection) /\ Answering(q[j], selection) => i = j
          /\ \A i \in 1..Len(rest), j \in 1..Len(q) :
               ~(Pending(rest[i], selection) /\ Answering(q[j], selection))
          /\ \A i \in 1..Len(q) : Answering(q[i], selection) => Fits(q[i].call, m.status)
      BY <3>6
    <3>8. selection' = selection BY DEF MessageTaken
    <3> QED BY <1>8, <3>2, <3>4, <3>5, <3>7, <3>8 DEF OnePending
  <2>2. PICK q : q = toPage' OBVIOUS
  <2>3. /\ \A i \in 1..Len(rest) : ~More(rest[i])
        /\ \A i \in 1..Len(q) : ~MoreOf(q[i])
    <3>1. /\ \A i \in 1..Len(toDevice) : ~More(toDevice[i])
          /\ \A i \in 1..Len(toPage) : ~MoreOf(toPage[i])
      BY <1>5, <2>0, NoneMore
    <3>2. \A i \in 1..Len(q) : i + 1 \in 1..Len(toPage) /\ q[i] = toPage[i + 1]
      BY <2>2, MessagesLeft
    <3>3. ~More(call) BY <1>7 DEF More
    <3>4. \A i \in 1..Len(rest) : ~More(rest[i]) BY <1>9, <1>10, <3>1, <3>3
    <3>5. \A i \in 1..Len(q) : ~MoreOf(q[i]) BY <3>1, <3>2
    <3> QED BY <3>4, <3>5
  <2>4. EarlierJoins' /\ EarlierOrdered'
    BY <1>8, <2>2, <2>3 DEF EarlierJoins, EarlierOrdered, More, MoreOf, MessageTaken
  <2>5. T!Opening BY <1>5, <2>0 DEF T!Opening
  <2>6. Near' BY <2>0, <2>5, AllHeld, LeftNear
  <2> QED BY <2>1, <2>4, <2>6
<1>13. Awaits' BY <1>12 DEF Awaits
<1>14. TranscriptTypes'
  <2>1. shown' # None /\ selecting' # None => shown'.earlier = 0 BY <1>1, <1>5 DEF TranscriptTypes
  <2>2. (shown' # None => shown' \in ShownThread /\ selection # 0) /\ partial' \subseteq 1..MaxTurns
    BY <1>1 DEF TranscriptTypes
  <2> QED BY <1>1, <1>3, <2>1, <2>2, TypesLeft
<1>15. ASSUME Live', NEW v \in Devices, NEW w \in Devices, Shows(v), Reports(toPage[1], v, w)
       PROVE  Shows(w)'
  <2>1. w = v /\ m.status = StatusIn(v) BY <1>15 DEF Reports
  <2>2. selecting' # None BY <1>3 DEF T!TranscriptAssumption
  <2>3. Shows(v)' BY <1>15, <2>1, <2>2 DEF Shows
  <2> QED BY <2>1, <2>3
<1> QED BY <1>2, <1>11, <1>13, <1>14, <1>15, MessageKeeps

\* The turns reach the page: they are put before those reported meanwhile.
LEMMA ReadKeeps ==
  ASSUME T!TranscriptAssumption, TranscriptKept, MessageTaken, shown # None,
         NEW m, m = toPage[1], m.kind = "read", m.call.epoch = selection,
         selecting' = None,
         shown' = [status |-> IF shown.status = None THEN selecting ELSE shown.status,
                   turns |-> T!Merged(m.turns, shown.turns), earlier |-> m.earlier],
         UNCHANGED <<toDevice, partial>>
  PROVE  TranscriptKept'
<1>1. /\ shown \in ShownThread /\ m \in PageMessages /\ 1 \in 1..Len(toPage) /\ Live /\ subscribed
      /\ selection # 0 /\ TranscriptTypes /\ CallsKnown'
  BY KeptNow, MessagesLeft, AnswersLeft
<1>2. m.call.kind = "read" /\ m.kind \in T!Answers
  <2>1. PICK v \in Devices, w \in Devices : Reports(m, v, w) BY HeadReports
  <2> QED BY <2>1 DEF Reports, T!Answers
<1>3. /\ Pending(m.call, selection) /\ Fits(m.call, selecting) /\ NonePending'
      /\ \A i \in 1..Len(toPage') : ~Answering(toPage'[i], selection)
  <2>1. Pending(m.call, selection) BY <1>2 DEF Pending
  <2> QED BY <1>1, <1>2, <2>1, LastPending
<1>4. selecting \in {"active", "idle"} /\ selecting # None
  BY <1>2, <1>3 DEF Fits, T!TranscriptAssumption
<1>5. \A i \in 1..Len(shown.turns) : shown.turns[i].turn > m.earlier
  <2>1. Answering(m, selection) BY <1>2, <1>3 DEF Answering
  <2> QED BY <1>1, <2>1 DEF TranscriptKept, Awaits, Near
<1>6. OnePending'
  <2>1. OnePending /\ CallsLeft(0, 1) BY <1>1, AnswersLeft DEF TranscriptKept, Awaits
  <2> QED BY <1>1, <1>3, <2>1, OnePendingStays
<1>7. EarlierJoins' /\ EarlierOrdered'
  <2>1. PICK q : q = toPage' OBVIOUS
  <2>2. /\ \A i \in 1..Len(toDevice) : ~More(toDevice[i])
        /\ \A i \in 1..Len(toPage) : ~MoreOf(toPage[i])
    BY <1>1, <1>4, NoneMore
  <2>3. \A i \in 1..Len(q) : i + 1 \in 1..Len(toPage) /\ q[i] = toPage[i + 1]
    BY <2>1, MessagesLeft
  <2>4. \A i \in 1..Len(q) : ~MoreOf(q[i]) BY <2>2, <2>3
  <2> QED BY <2>1, <2>2, <2>4 DEF EarlierJoins, EarlierOrdered, More, MoreOf, MessageTaken
<1>8. Near'
  <2>1. ~T!Opening' BY DEF T!Opening, T!TranscriptAssumption
  <2> QED BY <1>1, <1>3, <2>1, LeftNear
<1>9. ASSUME NEW v \in Devices, NEW w \in Devices, Shows(v), Reports(m, v, w)
      PROVE  Shows(w)' /\ shown' \in ShownThread
  <2>1. w = v BY <1>9 DEF Reports
  <2>2. Shows(v)' /\ shown' \in ShownThread BY <1>1, <1>4, <1>5, <1>9, ReadShows
  <2> QED BY <2>1, <2>2
<1>10. shown' \in ShownThread
  <2>1. PICK v \in Devices, w \in Devices : Shows(v) /\ Reports(m, v, w) BY <1>1, HeadReports
  <2> QED BY <1>9, <2>1
<1>11. TranscriptTypes'
  <2>1. partial' \subseteq 1..MaxTurns BY <1>1 DEF TranscriptTypes
  <2> QED BY <1>1, <1>10, <2>1, TypesLeft
<1>12. Awaits' BY <1>6, <1>7, <1>8 DEF Awaits
<1> QED BY <1>1, <1>9, <1>11, <1>12, MessageKeeps

\* Later calls for earlier turns, which were made with cursors that are not later, join what
\* is shown after these turns.
LEMMA JoinsStill ==
  ASSUME NEW c \in Nat, Joins(c), NEW d \in Nat, Joins(d), d <= c, shown.earlier \in Nat,
         PageOfTurns \in Nat, selecting' = None, shown'.earlier = From(c)
  PROVE  Joins(d)'
<1>1. From(c) <= shown.earlier /\ shown.earlier <= c /\ shown.earlier <= d BY DEF Joins
<1>2. From(c) \in Nat /\ From(d) \in Nat /\ From(d) <= From(c) BY DEF From
<1>3. From(d) <= shown'.earlier /\ shown'.earlier <= d BY <1>1, <1>2
<1> QED BY <1>3 DEF Joins, From

\* Earlier turns reach the page.
LEMMA EarlierTurnsKeep ==
  ASSUME T!TranscriptAssumption, TranscriptKept, MessageTaken, shown # None,
         NEW m, m = toPage[1], m.kind = "earlier", m.call.epoch = selection,
         shown' = [shown EXCEPT !.turns = T!Merged(m.turns, @), !.earlier = m.earlier],
         UNCHANGED <<selecting, toDevice, partial>>
  PROVE  TranscriptKept'
<1>1. /\ shown \in ShownThread /\ m \in PageMessages /\ 1 \in 1..Len(toPage) /\ Live /\ subscribed
      /\ selection # 0 /\ TranscriptTypes /\ CallsLeft(0, 1) /\ CallsKnown' /\ 0 \in {0, 1} /\ 1 \in {0, 1}
      /\ toDevice \in Seq(PageCalls) /\ toPage \in Seq(PageMessages)
  BY KeptNow, MessagesLeft, AnswersLeft
<1>2. PICK v0 \in Devices, w0 \in Devices : Shows(v0) /\ Reports(m, v0, w0) BY <1>1, HeadReports
<1>3. m.call.kind = "earlier" /\ m.earlier = From(m.call.cursor) BY <1>2 DEF Reports
<1>4. OnePending /\ EarlierJoins /\ EarlierOrdered BY <1>1 DEF TranscriptKept, Awaits
<1>5. PICK c \in Nat : c = m.call.cursor
  <2>1. m.call \in PageCalls
    <3>1. m.kind \in T!Answers BY DEF T!Answers
    <3> QED BY <1>1, <3>1, MessageFields
  <2> QED BY <1>3, <2>1 DEF PageCalls
<1>6. More(m.call) /\ MoreOf(m) /\ Joins(c) BY <1>1, <1>3, <1>4, <1>5 DEF More, MoreOf, EarlierJoins
<1>7. selecting = None BY <1>6 DEF Joins
<1>8. PICK q : q = toPage' OBVIOUS
<1>9. \A i \in 1..Len(q) : i + 1 \in 1..Len(toPage) /\ q[i] = toPage[i + 1] /\ 1 <= i + 1
  <2>1. \A i \in 1..Len(q) : i + 1 \in 1..Len(toPage) /\ q[i] = toPage[i + 1] BY <1>8, MessagesLeft
  <2>2. \A i \in 1..Len(q) : 1 <= i + 1 OBVIOUS
  <2> QED BY <2>1, <2>2
<1>10. OnePending' BY <1>1, <1>4, OnePendingStays
<1>11. EarlierOrdered' BY <1>1, <1>4, EarlierOrderedStays
<1>12. shown'.earlier = From(c) BY <1>1, <1>3, <1>5 DEF ShownThread
<1>13. EarlierJoins'
  <2>1. shown.earlier \in Nat /\ PageOfTurns \in Nat BY <1>1 DEF ShownThread, T!TranscriptAssumption
  <2>2. ASSUME NEW i \in 1..Len(toDevice), More(toDevice[i]) PROVE Joins(toDevice[i].cursor)'
    <3>1. PICK d : d = toDevice[i].cursor OBVIOUS
    <3>2. d \in Nat
      <4>1. toDevice[i] \in PageCalls BY <1>1
      <4> QED BY <2>2, <3>1, <4>1 DEF PageCalls, More
    <3>3. Joins(d) /\ d <= c BY <1>1, <1>4, <1>5, <1>6, <2>2, <3>1 DEF EarlierJoins, EarlierOrdered
    <3>4. Joins(d)' BY <1>6, <1>7, <1>12, <2>1, <3>2, <3>3, JoinsStill
    <3> QED BY <3>1, <3>4 DEF Joins
  <2>3. ASSUME NEW i \in 1..Len(q), MoreOf(q[i]) PROVE Joins(q[i].call.cursor)'
    <3>1. PICK j \in 1..Len(toPage) : j = i + 1 /\ q[i] = toPage[j] /\ 1 <= j BY <1>9
    <3>2. PICK d : d = toPage[j].call.cursor OBVIOUS
    <3>3. MoreOf(toPage[j]) BY <2>3, <3>1
    <3>4. d \in Nat
      <4>1. toPage[j] \in PageMessages /\ toPage[j].kind \in T!Answers
        BY <1>1, <3>3 DEF MoreOf, T!Answers
      <4>2. toPage[j].call \in PageCalls BY <4>1, MessageFields
      <4> QED BY <3>2, <3>3, <4>2 DEF PageCalls, More, MoreOf
    <3>5. Joins(d) /\ d <= c
      BY <1>1, <1>4, <1>5, <1>6, <3>1, <3>2, <3>3 DEF EarlierJoins, EarlierOrdered
    <3>6. Joins(d)' BY <1>6, <1>7, <1>12, <2>1, <3>4, <3>5, JoinsStill
    <3> QED BY <3>1, <3>2, <3>6 DEF Joins
  <2>4. toDevice' = toDevice /\ selection' = selection BY DEF MessageTaken
  <2> QED BY <1>8, <2>2, <2>3, <2>4 DEF EarlierJoins, Joins, More, MoreOf, From
<1>14. Near'
  <2>1. ~T!Opening' BY <1>7 DEF T!Opening, T!TranscriptAssumption
  <2>2. \A i \in 1..Len(toPage) : ~Answering(toPage[i], selection)
    <3> TAKE i \in 1..Len(toPage)
    <3>1. ~Fits(toPage[i].call, selecting) \/ toPage[i].call.kind \notin {"resume", "read"}
      BY <1>7 DEF Fits, T!TranscriptAssumption
    <3> QED BY <1>4, <3>1 DEF OnePending, Answering, Pending
  <2>3. \A i \in 1..Len(q) : ~Answering(q[i], selection) BY <1>9, <2>2
  <2> QED BY <1>1, <1>8, <2>1, <2>3, LeftNear
<1>15. ASSUME NEW v \in Devices, NEW w \in Devices, Shows(v), Reports(m, v, w)
       PROVE  Shows(w)' /\ shown' \in ShownThread
  <2>1. w = v BY <1>15 DEF Reports
  <2>2. m.call.cursor \in Nat /\ Joins(m.call.cursor) BY <1>5, <1>6
  <2>3. Shows(v)' /\ shown' \in ShownThread BY <1>1, <1>15, <2>2, EarlierShows
  <2> QED BY <2>1, <2>3
<1>16. shown' \in ShownThread BY <1>2, <1>15
<1>17. TranscriptTypes'
  <2>1. partial' \subseteq 1..MaxTurns BY <1>1 DEF TranscriptTypes
  <2> QED BY <1>1, <1>7, <1>16, <2>1, TypesLeft
<1>18. Awaits' BY <1>10, <1>11, <1>13, <1>14 DEF Awaits
<1> QED BY <1>1, <1>15, <1>17, <1>18, MessageKeeps

\* A message reaches the page.
LEMMA ReceiveKeeps ==
  ASSUME T!TranscriptAssumption, TranscriptKept, T!Receive
  PROVE  TranscriptKept'
<1>1. MessageTaken BY DEF T!Receive, MessageTaken
<1>2. PICK m : m = toPage[1] OBVIOUS
<1>3. m = Head(toPage) /\ m \in PageMessages BY <1>1, <1>2, MessagesLeft
<1>4. m.kind \in T!Events \/ m.kind \in T!Answers BY <1>3, MessageFields
<1>5. PICK ours \in BOOLEAN : ours <=> m.kind \in T!Answers /\ m.call.epoch = selection
  OBVIOUS
<1>6. CASE m.kind = "resume"
  <2>1. m.kind \in T!Answers BY <1>6 DEF T!Answers
  <2>2. CASE ours
    <3>1. m.call.epoch = selection BY <1>5, <2>2
    <3>2. /\ selecting' = m.status
          /\ toDevice' = Append(toDevice, [kind |-> "read", epoch |-> selection])
          /\ UNCHANGED <<shown, partial>>
      BY <1>3, <1>6, <2>1, <3>1 DEF T!Receive
    <3> QED BY <1>1, <1>2, <1>6, <3>1, <3>2, ResumedKeeps
  <2>3. CASE ~ours
    <3>1. m.call.epoch # selection BY <1>5, <2>1, <2>3
    <3>2. UNCHANGED <<selecting, toDevice, shown, partial>> BY <1>3, <1>6, <3>1 DEF T!Receive
    <3> QED BY <1>1, <1>2, <2>1, <3>2, NothingAnswered
  <2> QED BY <2>2, <2>3
<1>7. CASE m.kind = "read"
  <2>1. m.kind \in T!Answers BY <1>7 DEF T!Answers
  <2>2. CASE ours /\ shown # None
    <3>1. m.call.epoch = selection BY <1>5, <2>2
    <3>2. /\ selecting' = None
          /\ shown' = [status |-> IF shown.status = None THEN selecting ELSE shown.status,
                       turns |-> T!Merged(m.turns, shown.turns), earlier |-> m.earlier]
          /\ UNCHANGED <<toDevice, partial>>
      BY <1>3, <1>7, <2>1, <2>2, <3>1 DEF T!Receive
    <3> QED BY <1>1, <1>2, <1>7, <2>2, <3>1, <3>2, ReadKeeps
  <2>3. CASE ~(ours /\ shown # None)
    <3>1. m.call.epoch # selection \/ shown = None BY <1>5, <2>1, <2>3
    <3>2. selecting' = T!Failed(m.call) /\ UNCHANGED <<toDevice, shown, partial>>
      BY <1>3, <1>7, <3>1 DEF T!Receive
    <3> QED BY <1>1, <1>2, <2>1, <3>2, FailedKeeps
  <2> QED BY <2>2, <2>3
<1>8. CASE m.kind = "earlier"
  <2>1. m.kind \in T!Answers BY <1>8 DEF T!Answers
  <2>2. CASE ours /\ shown # None
    <3>1. m.call.epoch = selection BY <1>5, <2>2
    <3>2. /\ shown' = [shown EXCEPT !.turns = T!Merged(m.turns, @), !.earlier = m.earlier]
          /\ UNCHANGED <<selecting, toDevice, partial>>
      BY <1>3, <1>8, <2>1, <2>2, <3>1 DEF T!Receive
    <3> QED BY <1>1, <1>2, <1>8, <2>2, <3>1, <3>2, EarlierTurnsKeep
  <2>3. CASE ~(ours /\ shown # None)
    <3>1. m.call.epoch # selection \/ shown = None BY <1>5, <2>1, <2>3
    <3>2. UNCHANGED <<selecting, toDevice, shown, partial>> BY <1>3, <1>8, <3>1 DEF T!Receive
    <3> QED BY <1>1, <1>2, <2>1, <3>2, NothingAnswered
  <2> QED BY <2>2, <2>3
<1>9. CASE m.kind = "error"
  <2>1. m.kind \in T!Answers BY <1>9 DEF T!Answers
  <2>2. selecting' = T!Failed(m.call) /\ UNCHANGED <<toDevice, shown, partial>>
    BY <1>3, <1>9 DEF T!Receive
  <2> QED BY <1>1, <1>2, <2>1, <2>2, FailedKeeps
<1>10. CASE m.kind = "start"
  <2>1. CASE shown = None \/ m.call.epoch = 0
    <3>1. UNCHANGED <<selecting, toDevice, shown, partial>> BY <1>3, <1>10, <2>1 DEF T!Receive
    <3> QED BY <1>1, <1>2, <1>10, <2>1, <3>1, NothingAnswered
  <2>2. CASE ~(shown = None \/ m.call.epoch = 0)
    <3>1. /\ shown' = [shown EXCEPT
                 !.turns = IF \E i \in DOMAIN @ : @[i].turn = m.turn THEN @
                           ELSE Append(@, [turn |-> m.turn, status |-> "running",
                                           text |-> <<>>, item |-> FALSE]),
                 !.status = "active"]
          /\ UNCHANGED <<selecting, toDevice, partial>>
      BY <1>3, <1>10, <2>2 DEF T!Receive
    <3>2. m.kind \in T!Events BY <1>10 DEF T!Events
    <3> QED BY <1>1, <1>2, <1>10, <2>2, <3>1, <3>2, EventKeeps
  <2> QED BY <2>1, <2>2
<1>11. CASE m.kind \in {"started", "delta", "item", "completed"}
  <2>1. CASE shown = None
    <3>1. UNCHANGED <<selecting, toDevice, shown, partial>> BY <1>3, <1>11, <2>1 DEF T!Receive
    <3> QED BY <1>1, <2>1, <3>1, NothingAnswered
  <2>2. CASE shown # None
    <3>1. /\ shown' = T!Applied(m)
          /\ partial' = IF m.kind = "delta" /\ m.delta # Len(T!Known(m.turn).text) + 1
                        THEN partial \cup {m.turn} ELSE partial
          /\ UNCHANGED <<selecting, toDevice>>
      BY <1>3, <1>11, <2>2 DEF T!Receive
    <3>2. m.kind \in T!Events /\ m.kind # "start" BY <1>11 DEF T!Events
    <3> QED BY <1>1, <1>2, <2>2, <3>1, <3>2, EventKeeps
  <2> QED BY <2>1, <2>2
<1> QED BY <1>4, <1>6, <1>7, <1>8, <1>9, <1>10, <1>11 DEF T!Events, T!Answers

LEMMA TranscriptNextKeeps ==
  ASSUME T!TranscriptAssumption, TranscriptKept, [T!Next]_(T!vars)
  PROVE  TranscriptKept'
<1>1. CASE UNCHANGED T!vars
  <2> USE <1>1 DEF T!vars
  <2>1. TranscriptTypes' /\ CallsKnown'
    BY DEF TranscriptKept, TranscriptTypes, CallsKnown, Live, Empty
  <2>2. StartsPaired' /\ ReportsNear' BY DEF TranscriptKept, StartsPaired, ReportsNear
  <2>3. ASSUME Live' PROVE OnePending' /\ EarlierJoins' /\ EarlierOrdered' /\ Near'
    <3>1. OnePending /\ EarlierJoins /\ EarlierOrdered /\ Near
      BY <2>3 DEF TranscriptKept, Awaits, Live
    <3>2. OnePending' BY <3>1 DEF OnePending
    <3>3. EarlierJoins' BY <3>1 DEF EarlierJoins, Joins, More, MoreOf
    <3>4. EarlierOrdered' BY <3>1 DEF EarlierOrdered, More, MoreOf
    <3>5. Near' BY <3>1 DEF Near, T!Opening
    <3> QED BY <3>2, <3>3, <3>4, <3>5
  <2>4. \A v : Shows(v) => Shows(v)' BY DEF Shows
  <2>5. shown # None /\ ~connected => \E v \in Devices : Shows(v)' BY <2>4 DEF TranscriptKept
  <2>6. \E views \in Seq(Devices) : WentThrough(views)'
    <3>1. PICK views \in Seq(Devices) : WentThrough(views) BY DEF TranscriptKept
    <3>2. PICK v : v = views[1] OBVIOUS
    <3>3. Live' => Shows(v)' BY <2>4, <3>1, <3>2 DEF WentThrough, Live
    <3> QED BY <3>1, <3>2, <3>3 DEF WentThrough
  <2>7. Awaits' BY <2>3 DEF Awaits
  <2> QED BY <2>1, <2>2, <2>5, <2>6, <2>7 DEF TranscriptKept
<1>2. CASE T!Next
  BY <1>2, TurnStartsKeeps, DeltaKeeps, TurnEndsKeeps, ServeKeeps, SelectKeeps, LeaveKeeps,
     EarlierKeeps, SendKeeps, ReceiveKeeps, TimesOutKeeps, DisconnectKeeps, ReconnectKeeps
     DEF T!Next
<1> QED BY <1>1, <1>2

-----------------------------------------------------------------------------
(* The transcript: from its first state on                                  *)

\* Nothing is under way at first, whatever the device has.
LEMMA TranscriptStarts ==
  ASSUME T!TranscriptAssumption, device \in Devices, DeviceTypes,
         subscribed = FALSE, connected = TRUE, toDevice = <<>>, toPage = <<>>, selection = 0,
         selecting = None, shown = None, partial = {}
  PROVE  TranscriptKept
<1>1. \A i \in 1..0 : FALSE OBVIOUS
<1>2. Len(toDevice) = 0 /\ Len(toPage) = 0 OBVIOUS
<1>3. MaxSelections \in Nat BY DEF T!TranscriptAssumption
<1>4. ~Live BY DEF Live
<1>5. TranscriptTypes
  <2>1. selection \in 0..MaxSelections BY <1>3
  <2>2. selecting \in {None, "", "active", "idle", "failed"} OBVIOUS
  <2>3. /\ \A i \in 1..Len(toPage) : toPage[i].kind = "error"
        /\ \A i \in 1..Len(toDevice) : toDevice[i].kind \in {"resume", "start"}
    BY <1>1, <1>2
  <2> QED BY <1>4, <2>1, <2>2, <2>3 DEF TranscriptTypes, DeviceTypes
<1>6. CallsKnown
  <2>1. <<>> \in Seq(PageCalls) OBVIOUS
  <2> QED BY <1>1, <1>2, <2>1 DEF CallsKnown
<1>7. StartsPaired /\ ReportsNear BY <1>1, <1>2 DEF StartsPaired, ReportsNear
<1>8. Awaits BY <1>4 DEF Awaits
<1>9. \E views \in Seq(Devices) : WentThrough(views)
  <2>1. <<>> \in Seq(PageMessages) /\ \A i \in 1..Len(<<>>) : <<>>[i].kind = "error" BY <1>1, <1>2
  <2>2. PICK views \in Seq(Devices) : Tells(<<>>, views) /\ views[1] = device /\ views[Len(views)] = device
    BY <2>1, ToldNothing
  <2> QED BY <1>4, <2>2 DEF WentThrough
<1> QED BY <1>5, <1>6, <1>7, <1>8, <1>9 DEF TranscriptKept

LEMMA TranscriptInit == T!TranscriptAssumption /\ T!Init => TranscriptKept
<1> SUFFICES ASSUME T!TranscriptAssumption, T!Init PROVE TranscriptKept OBVIOUS
<1>1. MaxTurns \in Nat /\ MaxText \in Nat /\ 1 <= MaxText /\ Before \subseteq 0..MaxTurns
  <2>1. MaxTurns \in Nat /\ MaxText \in Nat \ {0} /\ Before \subseteq 0..MaxTurns
    BY DEF T!TranscriptAssumption
  <2> QED BY <2>1
<1>2. PICK n \in Before, done \in BOOLEAN :
        device = [t \in 1..n |-> [text |-> 1, done |-> t < n \/ done, whole |-> FALSE]]
  BY DEF T!Init
<1>3. n \in Nat /\ n <= MaxTurns BY <1>1, <1>2
<1>4. \A t \in 1..n :
        /\ device[t] = [text |-> 1, done |-> t < n \/ done, whole |-> FALSE]
        /\ device[t] \in DeviceTurn
  BY <1>2 DEF DeviceTurn
<1>5. device = [t \in 1..n |-> device[t]] BY <1>2
<1>6. device \in Seq(DeviceTurn) /\ Len(device) = n BY <1>3, <1>4, <1>5
<1>7. device \in Devices
  <2>1. \A t \in 1..(n - 1) : t \in 1..n /\ t < n BY <1>3
  <2>2. ASSUME NEW t \in 1..(n - 1) PROVE device[t].done
    <3>1. PICK b \in BOOLEAN : b = (t < n \/ done) OBVIOUS
    <3>2. b = TRUE BY <2>1, <3>1
    <3>3. device[t] = [text |-> 1, done |-> b, whole |-> FALSE] BY <1>4, <2>1, <3>1, Zenon
    <3> QED BY <3>2, <3>3
  <2> QED BY <1>3, <1>6, <2>2 DEF Devices
<1>8. DeviceTypes BY <1>1, <1>4, <1>6 DEF DeviceTypes
<1> QED BY <1>7, <1>8, TranscriptStarts DEF T!Init

\* The transcript of the other parts is empty.
LEMMA TranscriptAlone ==
  ASSUME T!TranscriptAssumption, device = <<>>, subscribed = FALSE, connected = TRUE,
         toDevice = <<>>, toPage = <<>>, selection = 0, selecting = None, shown = None, partial = {}
  PROVE  TranscriptKept
<1>1. \A t \in 1..0 : FALSE OBVIOUS
<1>2. Len(device) = 0 /\ device \in Seq(DeviceTurn) OBVIOUS
<1>3. \A t \in 1..(0 - 1) : FALSE OBVIOUS
<1>4. 0 <= MaxTurns
  <2>1. MaxTurns \in Nat BY DEF T!TranscriptAssumption
  <2> QED BY <2>1
<1>5. device \in Devices BY <1>2, <1>3, <1>4 DEF Devices
<1>6. DeviceTypes BY <1>1, <1>2 DEF DeviceTypes
<1> QED BY <1>5, <1>6, TranscriptStarts

\* What is shown is a part of some device.
LEMMA SomeShown ==
  ASSUME TranscriptKept, shown # None
  PROVE  \E v \in Devices : Shows(v)
<1>1. CASE connected
  <2>1. PICK views \in Seq(Devices) : WentThrough(views) BY DEF TranscriptKept
  <2>2. PICK v \in Devices : v = views[1] BY <2>1, KeptDevice
  <2>3. Shows(v) BY <1>1, <2>1, <2>2 DEF WentThrough, Live
  <2> QED BY <2>3
<1>2. CASE ~connected BY <1>2 DEF TranscriptKept
<1> QED BY <1>1, <1>2

\* The types of the transcript.
LEMMA TranscriptTyped ==
  ASSUME T!TranscriptAssumption, TranscriptKept
  PROVE  T!TypeOK
<1>1. TranscriptTypes /\ DeviceTypes /\ device \in Devices BY KeptNow
<1>2. /\ device \in Seq(DeviceTurn) /\ DOMAIN device = 1..Len(device) /\ Len(device) \in Nat
      /\ MaxTurns \in Nat /\ MaxText \in Nat
  <2>1. MaxTurns \in Nat /\ MaxText \in Nat BY DEF T!TranscriptAssumption
  <2> QED BY <1>1, <2>1 DEF Devices
<1>3. \A t \in DOMAIN device : device[t].text \in 0..MaxText /\ device[t].done \in BOOLEAN
  <2> TAKE t \in DOMAIN device
  <2>1. device[t] \in DeviceTurn /\ device[t].text <= MaxText BY <1>1, <1>2 DEF DeviceTypes
  <2>2. device[t].text \in Nat /\ device[t].done \in BOOLEAN BY <2>1 DEF DeviceTurn
  <2> QED BY <1>2, <2>1, <2>2
<1>4. ASSUME shown # None
      PROVE  /\ shown.status \in {None, "active", "idle"} /\ shown.earlier \in 0..MaxTurns
             /\ \A i \in DOMAIN shown.turns :
                  shown.turns[i].turn \in T!Turns /\ shown.turns[i].status \in {None, "running", "done"}
  <2>1. shown \in ShownThread BY <1>1, <1>4 DEF TranscriptTypes
  <2>2. PICK v \in Devices : Shows(v) BY <1>4, SomeShown
  <2>3. Len(v) \in Nat /\ Len(v) <= MaxTurns BY DEF Devices
  <2>4. /\ shown.turns \in Seq(ShownTurn) /\ DOMAIN shown.turns = 1..Len(shown.turns)
        /\ shown.earlier \in Nat
    BY <2>1, <2>2, ShowsRow
  <2>5. \A i \in DOMAIN shown.turns :
          shown.turns[i].turn \in T!Turns /\ shown.turns[i].status \in {None, "running", "done"}
    <3> TAKE i \in DOMAIN shown.turns
    <3>1. shown.turns[i] \in ShownTurn BY <2>4
    <3>2. shown.turns[i].turn \in 1..Len(v) BY <2>2, <2>4 DEF Shows, Agrees
    <3>3. shown.turns[i].turn \in T!Turns BY <1>2, <2>3, <3>2 DEF T!Turns
    <3> QED BY <3>1, <3>3 DEF ShownTurn
  <2>6. shown.earlier \in 0..MaxTurns
    <3>1. shown.earlier <= Len(v) BY <2>2 DEF Shows
    <3> QED BY <1>2, <2>3, <2>4, <3>1
  <2>7. shown.status \in {None, "active", "idle"} BY <2>1 DEF ShownThread
  <2> QED BY <2>5, <2>6, <2>7
<1>5. partial \subseteq T!Turns BY <1>1 DEF TranscriptTypes, T!Turns
<1>6. /\ {subscribed, connected} \subseteq BOOLEAN /\ selection \in 0..MaxSelections
      /\ selecting \in {None, "", "active", "idle", "failed"}
  BY <1>1 DEF TranscriptTypes
<1> QED BY <1>3, <1>4, <1>5, <1>6 DEF T!TypeOK

\* When no message is under way the device is where its reports left it, and it is shown.
LEMMA TranscriptShown ==
  ASSUME T!TranscriptAssumption, TranscriptKept
  PROVE  T!TranscriptWhole
<1> SUFFICES ASSUME shown # None, connected, toPage = <<>>
             PROVE  LET n == Len(shown.turns)
                        Of(t) == IF device[t].done THEN "done" ELSE "running"
                        Sure(t) == t \notin partial \/ device[t].whole
                    IN  /\ n <= Len(device) /\ shown.status \in {None, T!Status}
                        /\ \A i \in 1..n :
                             LET t == shown.turns[i].turn
                             IN  /\ t = Len(device) - n + i
                                 /\ shown.turns[i].status \in {None, Of(t)}
                                 /\ Sure(t) => shown.turns[i].text \in {<<>>, T!Text(device[t].text)}
                        /\ selecting = None =>
                             /\ n + shown.earlier = Len(device) /\ shown.status # None
                             /\ \A i \in 1..n :
                                  LET t == shown.turns[i].turn
                                  IN  /\ shown.turns[i].status # None
                                      /\ device[t].done /\ Sure(t) =>
                                           shown.turns[i].text = T!Text(device[t].text)
  BY DEF T!TranscriptWhole
<1>1. PICK views \in Seq(Devices) : WentThrough(views) BY DEF TranscriptKept
<1>2. Shows(device)
  <2>1. Len(views) = Len(toPage) + 1 /\ device = views[Len(views)]
    BY <1>1 DEF WentThrough, Tells
  <2>2. Len(views) = 1 BY <2>1
  <2> QED BY <1>1, <2>1, <2>2 DEF WentThrough, Live
<1>3. device \in Devices /\ T!Status = StatusIn(device) BY KeptNow, DeviceStatus
<1>4. PICK n : n = Len(shown.turns) OBVIOUS
<1>5. n <= Len(device) /\ shown.status \in {None, T!Status} BY <1>2, <1>3, <1>4 DEF Shows
<1>6. ASSUME NEW i \in 1..n
      PROVE  LET t == shown.turns[i].turn
             IN  /\ t = Len(device) - n + i
                 /\ shown.turns[i].status \in {None, IF device[t].done THEN "done" ELSE "running"}
                 /\ t \notin partial \/ device[t].whole =>
                      shown.turns[i].text \in {<<>>, T!Text(device[t].text)}
  <2>1. PICK turn : turn = shown.turns[i] OBVIOUS
  <2>2. turn.turn = Len(device) - n + i /\ Agrees(device, turn, partial)
    BY <1>2, <1>4, <2>1 DEF Shows
  <2> QED BY <2>1, <2>2 DEF Agrees, State, Trusted
<1>7. ASSUME selecting = None
      PROVE  /\ n + shown.earlier = Len(device) /\ shown.status # None
             /\ \A i \in 1..n :
                  LET t == shown.turns[i].turn
                  IN  /\ shown.turns[i].status # None
                      /\ device[t].done /\ (t \notin partial \/ device[t].whole) =>
                           shown.turns[i].text = T!Text(device[t].text)
  <2>1. n + shown.earlier = Len(device) /\ shown.status # None BY <1>2, <1>4, <1>7 DEF Shows
  <2>2. ASSUME NEW i \in 1..n
        PROVE  LET t == shown.turns[i].turn
               IN  /\ shown.turns[i].status # None
                   /\ device[t].done /\ (t \notin partial \/ device[t].whole) =>
                        shown.turns[i].text = T!Text(device[t].text)
    <3>1. PICK turn : turn = shown.turns[i] OBVIOUS
    <3>2. Full(device, turn, partial) BY <1>2, <1>4, <1>7, <3>1 DEF Shows
    <3> QED BY <3>1, <3>2 DEF Full, Trusted
  <2> QED BY <2>1, <2>2
<1> QED BY <1>4, <1>5, <1>6, <1>7

-----------------------------------------------------------------------------
(* The page                                                                 *)

PageKept ==
  /\ BridgeKept /\ DialogKept /\ CloudKept /\ PanelKept /\ ModelsKept /\ DrawingKept
  /\ TranscriptKept

\* A step of the page is one of a part, or leaves the part alone.
LEMMA PartsMove ==
  ASSUME [Next]_vars
  PROVE  /\ [B!Next]_(B!vars) /\ [D!Next]_(D!vars) /\ [C!Next]_(C!vars)
         /\ [P!Next]_(P!vars) /\ [M!Next]_(M!vars) /\ [F!Next]_(F!vars)
         /\ [T!Next]_(T!vars)
<1> USE DEF Only, vars, bridge, dialog, connections, transcript, side, models, drawing
<1>1. [B!Next]_(B!vars) BY DEF Next, B!vars, B!bridge, B!guest, B!frame, B!world
<1>2. [D!Next]_(D!vars) BY DEF Next, D!vars, D!dialog, D!secret
<1>3. [C!Next]_(C!vars) BY DEF Next, C!vars, C!views, C!requests
<1>4. [P!Next]_(P!vars) BY DEF Next, P!vars
<1>5. [M!Next]_(M!vars) BY DEF Next, M!vars
<1>6. [F!Next]_(F!vars) BY DEF Next, F!vars
<1>7. [T!Next]_(T!vars) BY DEF Next, T!vars
<1> QED BY <1>1, <1>2, <1>3, <1>4, <1>5, <1>6, <1>7

LEMMA PageInvariance == Spec => []PageKept
<1> USE PageAssumption
<1>1. Init => PageKept
  <2>1. Init => TranscriptKept
    BY TranscriptInit, TranscriptAlone DEF Init, PageAssumption
  <2> QED
    BY <2>1, BridgeInit, DialogInit, CloudInit, PanelInit, ModelsInit, DrawingInit
       DEF Init, PageKept, PageAssumption
<1>2. PageKept /\ [Next]_vars => PageKept'
  BY PartsMove, BridgeNextKeeps, DialogNextKeeps, CloudNextKeeps, PanelNextKeeps,
     ModelsNextKeeps, DrawingNextKeeps, TranscriptNextKeeps DEF PageKept, PageAssumption
<1> QED BY <1>1, <1>2, PTL DEF Spec

\* Dropped files are given in the order they were dropped and once, and a request for approval
\* is answered once: for every number of calls, drops, listeners, connections and requests.
THEOREM GivenTheorem == Spec => []GivenOnce
<1>1. PageKept => GivenOnce BY DEF PageKept, BridgeKept, Ordered, CloudKept, GivenOnce
<1> QED BY <1>1, PageInvariance, PTL

\* A revealed secret has a timer, a list of models that is offered is whole, and an element
\* holds one drawing, the latest: however many operations, searches and drawings overlap.
THEOREM ShownTheorem == Spec => []ShownWhole
<1>1. PageKept => ShownWhole
  BY DrawingShown DEF PageKept, DialogKept, PanelKept, ModelsKept, DrawingKept, ShownWhole
<1> QED BY <1>1, PageInvariance, PTL

\* When nothing is under way on an open connection the page shows the latest turns of the
\* device, in order and once, and of none a state or a text that is not its own; unless opening
\* the conversation broke off it shows all of them from the first that was loaded on, with their
\* state and the whole text of what is done (cloud.js mergeTurns and applyEvent): for every number
\* of turns, of deltas, of reports under way and of times the conversation is opened, and every
\* length of an answer, whatever calls fail, are given up or are lost with the connection, if fewer
\* turns begin while a snapshot or a report is under way than one answer lists (Transcript!Recent).
THEOREM TranscriptTheorem == Spec => []TranscriptWhole
<1>1. PageKept => TranscriptWhole
  BY PageAssumption, TranscriptTyped, TranscriptShown DEF PageKept, PageAssumption, TranscriptWhole
<1> QED BY <1>1, PageInvariance, PTL
=============================================================================
