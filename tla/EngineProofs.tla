----------------------------- MODULE EngineProofs -----------------------------
(***************************************************************************)
(* What the input items say (every call answered once and in order, images *)
(* shown late and once) is kept by each way the engine adds to them: these *)
(* are facts about sequences.  The rest of the invariant says where in a   *)
(* round the engine is, and which calls have run.                          *)
(***************************************************************************)
EXTENDS MCEngine, SequenceTheorems, FiniteSetTheorems, TLAPS

\* The items are as the API and the model expect them, with these calls to be answered.
Sound(items, places, waiting, refused) ==
  /\ items \in Seq(ItemType)
  /\ Agree(items, waiting) /\ Answered(items) /\ Latest(items, places, refused)

\* A round is over when no call waits for its output; an old state waits for its user.
InRound ==
  /\ phase \in {"round", "sent", "resent"} => pending = <<>>
  /\ phase \in {"calls", "waiting"} => pending # <<>>
  /\ protocol_version = 0 => phase = "waiting"
  /\ \A i, j \in DOMAIN pending : pending[i] = pending[j] => i = j

\* What has run was not called in a later round, and is not among the calls that wait.
RunsBefore ==
  /\ executed \in Seq(Nat \X Ids)
  /\ \A i \in DOMAIN executed :
       /\ executed[i][1] >= rounds_left
       /\ phase \in {"sent", "resent"} => executed[i][1] > rounds_left
       /\ phase \in {"calls", "waiting"} /\ executed[i][1] = rounds_left =>
            \A j \in DOMAIN pending : executed[i][2] # pending[j]

Whole ==
  /\ TypeOK /\ requests \in Int
  /\ Sound(Upgrade.items, Upgrade.shown, pending, text_only)
  /\ InRound /\ RunsBefore /\ ExecutedOnce /\ BudgetKept

-----------------------------------------------------------------------------
(* Counting                                                                 *)

\* A function on 1..n is a sequence of n elements.
LEMMA FunctionIsSeq ==
  ASSUME NEW Elements, NEW n \in Nat, NEW f \in [1..n -> Elements]
  PROVE  f \in Seq(Elements) /\ Len(f) = n
<1>1. f \in UNION {[1..m -> Elements] : m \in Nat} BY Zenon
<1>2. f \in Seq(Elements) BY <1>1, SeqDef, Zenon
<1>3. DOMAIN f = 1..n OBVIOUS
<1>4. DOMAIN f = 1..Len(f) /\ Len(f) \in Nat BY <1>2, LenProperties
<1>5. Len(f) = n BY <1>3, <1>4
<1> QED BY <1>2, <1>5

\* What is counted is finite.
LEMMA CountIsNat ==
  ASSUME NEW items, NEW kind, NEW p \in Nat
  PROVE  /\ IsFiniteSet({q \in 1..p : items[q].kind = kind})
         /\ Count(items, kind, p) \in Nat
<1> DEFINE counted == {q \in 1..p : items[q].kind = kind}
<1>1. IsFiniteSet(1..p) BY FS_Interval
<1>2. counted \in SUBSET (1..p) OBVIOUS
<1> HIDE DEF counted
<1>3. IsFiniteSet(counted) BY <1>1, <1>2, FS_Subset
<1>4. Cardinality(counted) \in Nat BY <1>3, FS_CardinalityType
<1> QED BY <1>3, <1>4 DEF counted, Count

\* A count depends on what stands up to its place.
LEMMA SameCount ==
  ASSUME NEW items, NEW others, NEW kind, NEW p \in Nat,
         \A q \in 1..p : items[q].kind = kind <=> others[q].kind = kind
  PROVE  Count(items, kind, p) = Count(others, kind, p)
<1>1. {q \in 1..p : items[q].kind = kind} = {q \in 1..p : others[q].kind = kind} OBVIOUS
<1> QED BY <1>1 DEF Count

\* One place more.
LEMMA CountStep ==
  ASSUME NEW items, NEW kind, NEW p \in Nat
  PROVE  Count(items, kind, p + 1) =
           Count(items, kind, p) + (IF items[p + 1].kind = kind THEN 1 ELSE 0)
<1> DEFINE upTo(n) == {q \in 1..n : items[q].kind = kind}
<1>1. IsFiniteSet(upTo(p)) BY CountIsNat
<1>2. CASE items[p + 1].kind = kind
  <2>1. upTo(p + 1) = upTo(p) \cup {p + 1} BY <1>2
  <2>2. p + 1 \notin upTo(p) OBVIOUS
  <2> QED BY <1>1, <1>2, <2>1, <2>2, FS_AddElement DEF Count
<1>3. CASE items[p + 1].kind # kind
  <2>1. upTo(p + 1) = upTo(p) BY <1>3
  <2>2. Count(items, kind, p + 1) = Count(items, kind, p) BY <2>1 DEF Count
  <2>3. Count(items, kind, p) \in Nat BY CountIsNat
  <2> QED BY <1>3, <2>2, <2>3
<1> QED BY <1>2, <1>3

\* A count does not shrink from a place to a later one.
LEMMA CountGrows ==
  ASSUME NEW items, NEW kind, NEW last \in Nat, NEW p \in 0..last
  PROVE  Count(items, kind, p) <= Count(items, kind, last)
<1> DEFINE upTo(n) == {q \in 1..n : items[q].kind = kind}
<1>1. IsFiniteSet(upTo(last)) BY CountIsNat
<1>2. upTo(p) \in SUBSET upTo(last) OBVIOUS
<1> HIDE DEF upTo
<1>3. Cardinality(upTo(p)) <= Cardinality(upTo(last)) BY <1>1, <1>2, FS_Subset
<1> QED BY <1>3 DEF Count, upTo

\* An item is appended.
LEMMA AppendCounts ==
  ASSUME NEW items \in Seq(ItemType), NEW item \in ItemType
  PROVE  LET more == Append(items, item)
         IN  /\ more \in Seq(ItemType) /\ Len(more) = Len(items) + 1 /\ Len(items) \in Nat
             /\ \A p \in 1..Len(items) : more[p] = items[p]
             /\ more[Len(items) + 1] = item
             /\ \A kind : \A p \in 0..Len(items) : Count(more, kind, p) = Count(items, kind, p)
             /\ \A kind : Count(more, kind, Len(more)) =
                  Count(items, kind, Len(items)) + (IF item.kind = kind THEN 1 ELSE 0)
<1> DEFINE more == Append(items, item)
<1>1. /\ more \in Seq(ItemType) /\ Len(more) = Len(items) + 1 /\ Len(items) \in Nat
      /\ \A p \in 1..Len(items) : more[p] = items[p]
      /\ more[Len(items) + 1] = item
  BY AppendProperties, LenProperties
<1> HIDE DEF more
<1>2. ASSUME NEW kind, NEW p \in 0..Len(items) PROVE Count(more, kind, p) = Count(items, kind, p)
  BY <1>1, SameCount
<1>3. ASSUME NEW kind
      PROVE  Count(more, kind, Len(more)) =
               Count(items, kind, Len(items)) + (IF item.kind = kind THEN 1 ELSE 0)
  BY <1>1, <1>2, CountStep
<1> QED BY <1>1, <1>2, <1>3 DEF more

\* A run of calls is appended.
LEMMA CallsCounts ==
  ASSUME NEW items \in Seq(ItemType), NEW ids \in Seq(Ids)
  PROVE  LET more == items \o [i \in 1..Len(ids) |-> Call(ids[i])]
             last == Len(items)
         IN  /\ more \in Seq(ItemType) /\ Len(more) = last + Len(ids)
             /\ last \in Nat /\ Len(ids) \in Nat
             /\ \A p \in 1..last : more[p] = items[p]
             /\ \A i \in 1..Len(ids) : more[last + i] = Call(ids[i])
             /\ \A kind : \A p \in 0..last : Count(more, kind, p) = Count(items, kind, p)
             /\ \A i \in 0..Len(ids) :
                  /\ Count(more, "call", last + i) = Count(items, "call", last) + i
                  /\ Count(more, "output", last + i) = Count(items, "output", last)
<1> DEFINE calls == [i \in 1..Len(ids) |-> Call(ids[i])]
           more == items \o calls
           last == Len(items)
<1>1. last \in Nat /\ Len(ids) \in Nat BY LenProperties
<1>2. \A i \in 1..Len(ids) : Call(ids[i]) \in ItemType
  BY <1>1, ElementOfSeq DEF Call, ItemType
<1>3. calls \in Seq(ItemType) /\ Len(calls) = Len(ids)
  <2>1. calls \in [1..Len(ids) -> ItemType] BY <1>2
  <2> HIDE DEF calls
  <2> QED BY <1>1, <2>1, FunctionIsSeq
<1>4. /\ more \in Seq(ItemType) /\ Len(more) = last + Len(ids)
      /\ \A p \in 1..last : more[p] = items[p]
      /\ \A i \in 1..Len(ids) : more[last + i] = calls[i]
  <2> HIDE DEF calls
  <2>1. \A p \in 1..last : p \in 1..(last + Len(ids)) /\ p <= last BY <1>1
  <2>2. \A i \in 1..Len(ids) : /\ last + i \in 1..(last + Len(ids)) /\ ~ (last + i <= last)
                               /\ (last + i) - last = i
    BY <1>1
  <2>3. /\ more \in Seq(ItemType) /\ Len(more) = last + Len(ids)
        /\ \A q \in 1..(last + Len(ids)) : more[q] = IF q <= last THEN items[q] ELSE calls[q - last]
    <3>1. /\ more \in Seq(ItemType) /\ Len(more) = last + Len(calls)
          /\ \A q \in 1..(last + Len(calls)) : more[q] = IF q <= last THEN items[q] ELSE calls[q - last]
      BY <1>3, ConcatProperties
    <3> QED BY <1>3, <3>1
  <2> QED BY <2>1, <2>2, <2>3
<1>5. \A i \in 1..Len(ids) : more[last + i] = Call(ids[i])
  <2> HIDE DEF more, last
  <2> QED BY <1>4
<1> HIDE DEF more, last
<1>6. ASSUME NEW kind, NEW p \in 0..last PROVE Count(more, kind, p) = Count(items, kind, p)
  BY <1>1, <1>4, SameCount
<1>7. ASSUME NEW i \in 0..Len(ids)
      PROVE  /\ Count(more, "call", last + i) = Count(items, "call", last) + i
             /\ Count(more, "output", last + i) = Count(items, "output", last)
  <2> DEFINE old == {q \in 1..last : more[q].kind = "call"}
             new == (last + 1)..(last + i)
             all == {q \in 1..(last + i) : more[q].kind = "call"}
  <2>0. \A q \in new : more[q].kind = "call"
    <3> TAKE q \in new
    <3>1. q - last \in 1..Len(ids) /\ last + (q - last) = q BY <1>1
    <3>2. more[q] = Call(ids[q - last]) BY <1>5, <3>1
    <3> QED BY <3>2 DEF Call
  <2>1. all = old \cup new /\ old \cap new = {}
    BY <1>1, <2>0
  <2>2. IsFiniteSet(old) /\ Cardinality(old) \in Nat
    BY <1>1, CountIsNat DEF Count
  <2>3. IsFiniteSet(new) /\ Cardinality(new) = i
    <3>1. last + 1 \in Int /\ last + i \in Int BY <1>1
    <3>2. IsFiniteSet(new) /\ Cardinality(new) =
            IF last + 1 > last + i THEN 0 ELSE (last + i) - (last + 1) + 1
      BY <3>1, FS_Interval
    <3> QED BY <1>1, <3>2
  <2>4. Cardinality(old \cap new) = 0
    BY <2>1, FS_EmptySet
  <2>5. Cardinality(all) = Cardinality(old) + i
    <3> HIDE DEF old, new, all
    <3>1. Cardinality(old \cup new) = Cardinality(old) + Cardinality(new) - Cardinality(old \cap new)
      BY <2>2, <2>3, FS_Union
    <3> QED BY <2>1, <2>2, <2>3, <2>4, <3>1
  <2>6. {q \in 1..(last + i) : more[q].kind = "output"} = {q \in 1..last : more[q].kind = "output"}
    BY <1>1, <2>0
  <2>7. Count(more, "call", last) = Count(items, "call", last)
        /\ Count(more, "output", last) = Count(items, "output", last)
    BY <1>1, <1>6
  <2> QED BY <2>5, <2>6, <2>7 DEF Count
<1> QED BY <1>1, <1>4, <1>5, <1>6, <1>7 DEF more, last

\* Observations become other observations, or notes that there was one.
LEMMA RelabelCounts ==
  ASSUME NEW items \in Seq(ItemType), NEW places, NEW label \in Shown,
         \A p \in places : p \in DOMAIN items => items[p].kind \in Shown,
         NEW new, new = Relabel(items, places, label)
  PROVE  /\ new \in Seq(ItemType) /\ Len(new) = Len(items) /\ DOMAIN new = DOMAIN items
         /\ \A p \in DOMAIN items :
              /\ p \in places => new[p].kind = label
              /\ p \notin places => new[p] = items[p]
         /\ \A counted \in {"call", "output"} : \A p \in 0..Len(items) :
              Count(new, counted, p) = Count(items, counted, p)
<1>1. Len(items) \in Nat /\ DOMAIN items = 1..Len(items) BY LenProperties
<1>2. \A p \in DOMAIN items : items[p] \in ItemType BY <1>1, ElementOfSeq
<1>3. Item(label) \in ItemType /\ Item(label).kind = label BY DEF Item, ItemType
<1>4. new = [p \in 1..Len(items) |-> IF p \in places THEN Item(label) ELSE items[p]]
  BY <1>1 DEF Relabel
<1>5. new \in Seq(ItemType) /\ Len(new) = Len(items) /\ DOMAIN new = DOMAIN items
  <2>1. new \in [1..Len(items) -> ItemType] BY <1>1, <1>2, <1>3, <1>4
  <2> QED BY <1>1, <2>1, FunctionIsSeq
<1>6. \A p \in DOMAIN items :
        /\ p \in places => new[p].kind = label
        /\ p \notin places => new[p] = items[p]
  BY <1>1, <1>3, <1>4
<1>7. ASSUME NEW counted \in {"call", "output"}, NEW p \in 0..Len(items)
      PROVE  Count(new, counted, p) = Count(items, counted, p)
  <2>1. ASSUME NEW q \in 1..p
        PROVE  new[q].kind = counted <=> items[q].kind = counted
    <3>1. q \in DOMAIN items BY <1>1
    <3>2. counted \notin Shown BY DEF Shown
    <3>3. CASE q \in places
      <4>1. items[q].kind \in Shown BY <3>1, <3>3
      <4>2. new[q].kind \in Shown BY <1>6, <3>1, <3>3
      <4> QED BY <3>2, <4>1, <4>2
    <3>4. CASE q \notin places BY <1>6, <3>1, <3>4
    <3> QED BY <3>3, <3>4
  <2> QED BY <1>1, <2>1, SameCount
<1> QED BY <1>5, <1>6, <1>7

-----------------------------------------------------------------------------
(* Ways to add to the items                                                 *)

\* The first of the calls gets its output.
LEMMA OutputIsSound ==
  ASSUME NEW items, NEW places, NEW refused, NEW waiting \in Seq(Ids), waiting # <<>>,
         Sound(items, places, waiting, refused)
  PROVE  Sound(Append(items, Output(Head(waiting))), places, Tail(waiting), refused)
<1> DEFINE last == Len(items)
           item == Output(Head(waiting))
           more == Append(items, item)
           answered == Count(items, "output", last)
<1>1. /\ items \in Seq(ItemType) /\ DOMAIN items = 1..last /\ last \in Nat
      /\ Len(waiting) \in Nat \ {0}
  BY LenProperties, EmptySeq DEF Sound
<1>2. /\ Head(waiting) \in Ids /\ Head(waiting) = waiting[1]
      /\ Tail(waiting) \in Seq(Ids) /\ Len(Tail(waiting)) = Len(waiting) - 1
      /\ \A i \in 1..(Len(waiting) - 1) : Tail(waiting)[i] = waiting[i + 1]
  BY HeadTailProperties
<1>3. item \in ItemType /\ item.kind = "output" BY <1>2 DEF Output, ItemType
<1>4. /\ more \in Seq(ItemType) /\ Len(more) = last + 1
      /\ \A p \in 1..last : more[p] = items[p]
      /\ more[last + 1] = item
      /\ \A kind : \A p \in 0..last : Count(more, kind, p) = Count(items, kind, p)
      /\ \A kind : Count(more, kind, Len(more)) =
           Count(items, kind, last) + (IF item.kind = kind THEN 1 ELSE 0)
  BY <1>1, <1>3, AppendCounts
<1>5. DOMAIN more = 1..(last + 1) BY <1>4, LenProperties
<1>6. answered \in Nat /\ Count(items, "call", last) \in Nat BY <1>1, CountIsNat
<1> HIDE DEF more, item, last
<1>7. /\ Count(more, "output", last + 1) = answered + 1
      /\ Count(more, "call", last + 1) = Count(items, "call", last)
  BY <1>3, <1>4, <1>6
<1>8. Agree(more, Tail(waiting))
  <2> DEFINE n(p) == Count(items, "call", p)
             behind(p) == \E q \in DOMAIN more : /\ q > p /\ more[q] = Output(more[p].id)
                                                 /\ Count(more, "output", q) = n(p)
  <2>1. Count(items, "call", last) = answered + Len(waiting) BY DEF Sound, Agree, last
  <2>2. ASSUME NEW p \in DOMAIN more, more[p].kind = "call"
        PROVE  /\ Count(more, "call", p) = n(p) /\ n(p) \in Nat
               /\ n(p) > answered + 1 => more[p].id = Tail(waiting)[n(p) - (answered + 1)]
               /\ n(p) <= answered + 1 => behind(p)
    <3>1. p \in 1..last /\ p \in DOMAIN items /\ p \in Nat BY <1>1, <1>3, <1>4, <1>5, <2>2
    <3>2. more[p] = items[p] /\ Count(more, "call", p) = n(p) BY <1>1, <1>4, <3>1
    <3>3. n(p) \in Nat BY <3>1, CountIsNat
    <3>4. n(p) <= answered + Len(waiting)
      BY <1>1, <2>1, <3>1, CountGrows
    <3>5. /\ n(p) > answered => items[p].id = waiting[n(p) - answered]
          /\ n(p) <= answered => \E q \in DOMAIN items : /\ q > p /\ items[q] = Output(items[p].id)
                                                         /\ Count(items, "output", q) = n(p)
      BY <2>2, <3>1, <3>2 DEF Sound, Agree, last
    <3> HIDE DEF n
    <3>6. ASSUME n(p) > answered + 1 PROVE more[p].id = Tail(waiting)[n(p) - (answered + 1)]
      <4>1. n(p) - (answered + 1) \in 1..(Len(waiting) - 1)
            /\ (n(p) - (answered + 1)) + 1 = n(p) - answered
        BY <1>1, <1>6, <3>3, <3>4, <3>6
      <4>2. Tail(waiting)[n(p) - (answered + 1)] = waiting[n(p) - answered] BY <1>2, <4>1
      <4>3. n(p) > answered BY <1>6, <3>3, <3>6
      <4>4. items[p].id = waiting[n(p) - answered] BY <3>5, <4>3, Zenon
      <4> QED BY <3>2, <4>2, <4>4, Zenon
    <3>7. ASSUME n(p) = answered + 1 PROVE behind(p)
      <4>1. items[p].id = waiting[1] BY <1>6, <3>5, <3>7
      <4>2. more[last + 1] = Output(more[p].id) BY <1>2, <1>4, <3>2, <4>1 DEF item
      <4>3. last + 1 \in DOMAIN more /\ last + 1 > p BY <1>1, <1>5, <3>1
      <4> QED BY <1>7, <3>7, <4>2, <4>3
    <3>8. ASSUME n(p) <= answered PROVE behind(p)
      <4>1. PICK q \in 1..last : /\ q > p /\ items[q] = Output(items[p].id)
                                 /\ Count(items, "output", q) = n(p)
        BY <1>1, <3>5, <3>8
      <4>2. more[q] = items[q] /\ Count(more, "output", q) = Count(items, "output", q)
        BY <1>1, <1>4
      <4>3. q \in DOMAIN more BY <1>1, <1>5
      <4> QED BY <3>2, <4>1, <4>2, <4>3
    <3>9. ASSUME n(p) <= answered + 1 PROVE behind(p)
      <4>1. n(p) = answered + 1 \/ n(p) <= answered BY <1>6, <3>3, <3>9
      <4> QED BY <3>7, <3>8, <4>1
    <3> QED BY <3>2, <3>3, <3>6, <3>9, Zenon
  <2>3. Count(more, "call", Len(more)) = (answered + 1) + Len(Tail(waiting))
    BY <1>1, <1>2, <1>4, <1>6, <1>7, <2>1
  <2>4. Count(more, "output", Len(more)) = answered + 1 BY <1>4, <1>7
  <2> QED BY <2>2, <2>3, <2>4 DEF Agree
<1>9. Answered(more)
  <2>1. \A p \in DOMAIN more : more[p].kind \in Shown => p \in 1..last
    BY <1>1, <1>3, <1>4, <1>5 DEF Shown
  <2>2. \A p \in 1..last : items[p].kind \in Shown => Count(items, "call", p) = Count(items, "output", p)
    BY <1>1 DEF Sound, Answered
  <2>3. \A p \in 1..last : /\ more[p] = items[p]
                           /\ Count(more, "call", p) = Count(items, "call", p)
                           /\ Count(more, "output", p) = Count(items, "output", p)
    BY <1>1, <1>4
  <2> QED BY <2>1, <2>2, <2>3 DEF Answered
<1>10. Latest(more, places, refused)
  <2>1. {p \in DOMAIN more : more[p].kind \in Shown} = {p \in DOMAIN items : items[p].kind \in Shown}
    BY <1>1, <1>3, <1>4, <1>5 DEF Shown
  <2>2. \A p \in places : more[p] = items[p] BY <1>1, <1>4 DEF Sound, Latest
  <2> QED BY <2>1, <2>2 DEF Sound, Latest
<1> QED BY <1>4, <1>8, <1>9, <1>10 DEF Sound, more, item

\* An item that is neither a call nor an output changes no count.
LEMMA OtherAgrees ==
  ASSUME NEW items \in Seq(ItemType), NEW waiting, Agree(items, waiting), Answered(items),
         NEW label \in {"text"} \cup Shown,
         label \in Shown => waiting = <<>>
  PROVE  LET more == Append(items, Item(label))
         IN  Agree(more, waiting) /\ Answered(more)
<1> DEFINE last == Len(items)
           item == Item(label)
           more == Append(items, item)
           answered == Count(items, "output", last)
<1>1. DOMAIN items = 1..last /\ last \in Nat BY LenProperties
<1>2. item \in ItemType /\ item.kind = label BY DEF Item, ItemType, Shown
<1>3. /\ more \in Seq(ItemType) /\ Len(more) = last + 1
      /\ \A p \in 1..last : more[p] = items[p]
      /\ more[last + 1] = item
      /\ \A kind : \A p \in 0..last : Count(more, kind, p) = Count(items, kind, p)
      /\ \A kind : Count(more, kind, Len(more)) =
           Count(items, kind, last) + (IF item.kind = kind THEN 1 ELSE 0)
  BY <1>1, <1>2, AppendCounts
<1>4. DOMAIN more = 1..(last + 1) BY <1>3, LenProperties
<1>5. answered \in Nat /\ Count(items, "call", last) \in Nat BY <1>1, CountIsNat
<1>6. label # "call" /\ label # "output" BY DEF Shown
<1> HIDE DEF more, item, last
<1>7. /\ Count(more, "output", last + 1) = answered
      /\ Count(more, "call", last + 1) = Count(items, "call", last)
  BY <1>2, <1>3, <1>5, <1>6
<1>8. \A p \in 1..last : /\ more[p] = items[p] /\ p \in DOMAIN more /\ p \in DOMAIN items
                         /\ Count(more, "call", p) = Count(items, "call", p)
                         /\ Count(more, "output", p) = Count(items, "output", p)
  BY <1>1, <1>3, <1>4
<1>9. Agree(more, waiting)
  <2>1. \A p \in DOMAIN more : more[p].kind = "call" => p \in 1..last
    BY <1>1, <1>2, <1>3, <1>4, <1>6
  <2>2. Len(more) = last + 1 BY <1>3
  <2>3. Count(items, "call", last) = answered + Len(waiting) BY DEF Agree, last
  <2>4. ASSUME NEW p \in DOMAIN more, more[p].kind = "call", Count(more, "call", p) > answered
        PROVE  more[p].id = waiting[Count(more, "call", p) - answered]
    <3>1. p \in 1..last /\ items[p].kind = "call" BY <1>8, <2>1, <2>4
    <3>2. Count(items, "call", p) > answered BY <1>8, <2>4, <3>1
    <3>3. items[p].id = waiting[Count(items, "call", p) - answered]
      BY <1>8, <3>1, <3>2 DEF Agree, last
    <3> QED BY <1>8, <3>1, <3>3
  <2>5. ASSUME NEW p \in DOMAIN more, more[p].kind = "call", Count(more, "call", p) <= answered
        PROVE  \E q \in DOMAIN more : /\ q > p /\ more[q] = Output(more[p].id)
                                      /\ Count(more, "output", q) = Count(more, "call", p)
    <3>1. p \in 1..last /\ items[p].kind = "call" BY <1>8, <2>1, <2>5
    <3>2. Count(items, "call", p) <= answered BY <1>8, <2>5, <3>1
    <3>3. PICK q \in DOMAIN items : /\ q > p /\ items[q] = Output(items[p].id)
                                    /\ Count(items, "output", q) = Count(items, "call", p)
      BY <1>8, <3>1, <3>2 DEF Agree, last
    <3> QED BY <1>1, <1>8, <3>1, <3>3
  <2> QED BY <1>7, <2>2, <2>3, <2>4, <2>5 DEF Agree
<1>10. Answered(more)
  <2>1. ASSUME NEW p \in DOMAIN more, more[p].kind \in Shown
        PROVE  Count(more, "call", p) = Count(more, "output", p)
    <3>1. CASE p \in 1..last BY <1>8, <2>1, <3>1 DEF Answered
    <3>2. CASE p = last + 1
      <4>1. waiting = <<>> BY <1>2, <1>3, <2>1, <3>2
      <4>2. Count(items, "call", last) = answered + 0 BY <4>1, EmptySeq DEF Agree, last
      <4> QED BY <1>5, <1>7, <3>2, <4>2
    <3> QED BY <1>1, <1>4, <3>1, <3>2
  <2> QED BY <2>1 DEF Answered
<1> QED BY <1>9, <1>10, Zenon DEF more, item

\* The model says something before its calls.
LEMMA TextIsSound ==
  ASSUME NEW items, NEW places, NEW waiting, NEW refused, Sound(items, places, waiting, refused)
  PROVE  Sound(Append(items, Item("text")), places, waiting, refused)
<1> DEFINE more == Append(items, Item("text"))
<1>1. items \in Seq(ItemType) /\ DOMAIN items = 1..Len(items) /\ Len(items) \in Nat
  BY LenProperties DEF Sound
<1>2. Item("text") \in ItemType /\ Item("text").kind \notin Shown BY DEF Item, ItemType, Shown
<1>3. /\ more \in Seq(ItemType) /\ DOMAIN more = 1..(Len(items) + 1)
      /\ \A p \in 1..Len(items) : more[p] = items[p]
      /\ more[Len(items) + 1] = Item("text")
  BY <1>1, <1>2, AppendProperties, LenProperties
<1>4. Agree(more, waiting) /\ Answered(more) BY <1>1, OtherAgrees DEF Shown, Sound
<1> HIDE DEF more
<1>5. {p \in DOMAIN more : more[p].kind \in Shown} = {p \in DOMAIN items : items[p].kind \in Shown}
  BY <1>1, <1>2, <1>3
<1>6. \A p \in places : more[p] = items[p] BY <1>1, <1>3 DEF Sound, Latest
<1>7. Latest(more, places, refused) BY <1>5, <1>6 DEF Sound, Latest
<1> QED BY <1>3, <1>4, <1>7 DEF Sound, more

\* All observations become one thing that is no image: nothing is left to refuse.
LEMMA RelabelIsSound ==
  ASSUME NEW items, NEW places, NEW waiting, NEW refused, NEW label \in {"released", "note"},
         Sound(items, places, waiting, refused)
  PROVE  Sound(Relabel(items, places, label), places, waiting, TRUE)
<1> DEFINE new == Relabel(items, places, label)
           answered == Count(items, "output", Len(items))
<1>1. items \in Seq(ItemType) /\ DOMAIN items = 1..Len(items) /\ Len(items) \in Nat
  BY LenProperties DEF Sound
<1>2. places = {p \in DOMAIN items : items[p].kind \in Shown} BY DEF Sound, Latest
<1>3. /\ new \in Seq(ItemType) /\ Len(new) = Len(items) /\ DOMAIN new = DOMAIN items
      /\ \A p \in DOMAIN items :
           /\ p \in places => new[p].kind = label
           /\ p \notin places => new[p] = items[p]
      /\ \A counted \in {"call", "output"} : \A p \in 0..Len(items) :
           Count(new, counted, p) = Count(items, counted, p)
  <2>1. label \in Shown BY DEF Shown
  <2> HIDE DEF new
  <2> QED BY <1>1, <1>2, <2>1, RelabelCounts DEF new
<1> HIDE DEF new
<1>4. \A p \in DOMAIN items :
        /\ Count(new, "call", p) = Count(items, "call", p)
        /\ Count(new, "output", p) = Count(items, "output", p)
  BY <1>1, <1>3
<1>5. /\ Count(new, "call", Len(new)) = Count(items, "call", Len(items))
      /\ Count(new, "output", Len(new)) = answered
  BY <1>1, <1>3
<1>6. label # "call" /\ label # "image" /\ label \in Shown BY DEF Shown
<1>7. Agree(new, waiting)
  <2>1. \A p \in DOMAIN items : new[p].kind = "call" => new[p] = items[p]
    BY <1>3, <1>6
  <2>2. Count(items, "call", Len(items)) = answered + Len(waiting) BY DEF Sound, Agree
  <2>3. ASSUME NEW p \in DOMAIN new, new[p].kind = "call", Count(new, "call", p) > answered
        PROVE  new[p].id = waiting[Count(new, "call", p) - answered]
    <3>1. p \in DOMAIN items /\ items[p].kind = "call" BY <1>3, <2>1, <2>3
    <3>2. Count(items, "call", p) > answered BY <1>4, <2>3, <3>1
    <3>3. items[p].id = waiting[Count(items, "call", p) - answered]
      BY <3>1, <3>2 DEF Sound, Agree
    <3> QED BY <1>4, <2>1, <2>3, <3>1, <3>3
  <2>4. ASSUME NEW p \in DOMAIN new, new[p].kind = "call", Count(new, "call", p) <= answered
        PROVE  \E q \in DOMAIN new : /\ q > p /\ new[q] = Output(new[p].id)
                                     /\ Count(new, "output", q) = Count(new, "call", p)
    <3>1. p \in DOMAIN items /\ items[p].kind = "call" BY <1>3, <2>1, <2>4
    <3>2. Count(items, "call", p) <= answered BY <1>4, <2>4, <3>1
    <3>3. PICK q \in DOMAIN items : /\ q > p /\ items[q] = Output(items[p].id)
                                    /\ Count(items, "output", q) = Count(items, "call", p)
      BY <3>1, <3>2 DEF Sound, Agree
    <3>4. items[q].kind \notin Shown BY <3>3 DEF Output, Shown
    <3>5. new[q] = items[q] BY <1>2, <1>3, <3>4
    <3> QED BY <1>3, <1>4, <2>1, <2>4, <3>1, <3>3, <3>5
  <2> QED BY <1>5, <2>2, <2>3, <2>4 DEF Agree
<1>8. {p \in DOMAIN new : new[p].kind \in Shown} = places
  BY <1>2, <1>3, <1>6
<1>9. Answered(new)
  <2>1. \A p \in places : Count(items, "call", p) = Count(items, "output", p)
    BY <1>2 DEF Sound, Answered
  <2> QED BY <1>2, <1>4, <1>8, <2>1 DEF Answered
<1>10. Latest(new, places, TRUE)
  <2>1. \A p \in places : new[p].kind # "image" BY <1>2, <1>3, <1>6
  <2> QED BY <1>8, <2>1 DEF Latest
<1> QED BY <1>3, <1>7, <1>9, <1>10 DEF Sound, new

\* The images of the round are shown, after all others have gone and when no call waits.
LEMMA ShowIsSound ==
  ASSUME NEW items, NEW places, NEW refused \in BOOLEAN, NEW label \in {"image", "note"},
         Sound(items, places, <<>>, TRUE), refused => label = "note"
  PROVE  Sound(Append(items, Item(label)), places \cup {Len(items) + 1}, <<>>, refused)
<1> DEFINE more == Append(items, Item(label))
           last == Len(items)
<1>1. items \in Seq(ItemType) /\ DOMAIN items = 1..last /\ last \in Nat
  BY LenProperties DEF Sound
<1>2. Item(label) \in ItemType /\ Item(label).kind = label /\ label \in Shown
  BY DEF Item, ItemType, Shown
<1>3. /\ more \in Seq(ItemType) /\ DOMAIN more = 1..(last + 1)
      /\ \A p \in 1..last : more[p] = items[p]
      /\ more[last + 1] = Item(label)
  BY <1>1, <1>2, AppendProperties, LenProperties
<1>4. Agree(more, <<>>) /\ Answered(more) BY <1>1, <1>2, OtherAgrees DEF Sound
<1>5. /\ places = {p \in 1..last : items[p].kind \in Shown}
      /\ \A p \in places : items[p].kind # "image"
  BY <1>1 DEF Sound, Latest
<1> HIDE DEF more, last
<1>6. places \cup {last + 1} = {p \in DOMAIN more : more[p].kind \in Shown}
  BY <1>1, <1>2, <1>3, <1>5
<1>7. \A p \in places : more[p].kind # "image" /\ p <= last + 1 BY <1>1, <1>3, <1>5
<1>8. refused => more[last + 1].kind # "image" BY <1>2, <1>3
<1>9. Latest(more, places \cup {last + 1}, refused)
  <2>1. ASSUME NEW p \in places \cup {last + 1}, NEW q \in places \cup {last + 1},
               more[p].kind = "image"
        PROVE  q <= p
    BY <1>1, <1>7, <2>1
  <2> QED BY <1>6, <1>7, <1>8, <2>1 DEF Latest
<1> QED BY <1>3, <1>4, <1>9 DEF Sound, more, last

\* The model calls, when no other call waits.
LEMMA CallsAreSound ==
  ASSUME NEW items, NEW places, NEW refused, NEW ids \in Seq(Ids),
         Sound(items, places, <<>>, refused)
  PROVE  Sound(items \o [i \in 1..Len(ids) |-> Call(ids[i])], places, ids, refused)
<1> DEFINE more == items \o [i \in 1..Len(ids) |-> Call(ids[i])]
           last == Len(items)
           answered == Count(items, "output", last)
<1>1. items \in Seq(ItemType) /\ DOMAIN items = 1..last /\ last \in Nat
  BY LenProperties DEF Sound
<1>2. /\ more \in Seq(ItemType) /\ Len(more) = last + Len(ids)
      /\ last \in Nat /\ Len(ids) \in Nat
      /\ \A p \in 1..last : more[p] = items[p]
      /\ \A i \in 1..Len(ids) : more[last + i] = Call(ids[i])
      /\ \A kind : \A p \in 0..last : Count(more, kind, p) = Count(items, kind, p)
      /\ \A i \in 0..Len(ids) :
           /\ Count(more, "call", last + i) = Count(items, "call", last) + i
           /\ Count(more, "output", last + i) = answered
  BY <1>1, CallsCounts
<1>3. DOMAIN more = 1..(last + Len(ids)) BY <1>2, LenProperties
<1>4. answered \in Nat /\ Count(items, "call", last) = answered
  <2>1. answered \in Nat /\ Count(items, "call", last) \in Nat BY <1>1, CountIsNat
  <2>2. Count(items, "call", last) = answered + 0 BY EmptySeq DEF Sound, Agree
  <2> QED BY <2>1, <2>2
<1> HIDE DEF more, last
<1>5. \A p \in 1..last : /\ more[p] = items[p] /\ p \in DOMAIN more /\ p \in DOMAIN items
                         /\ Count(more, "call", p) = Count(items, "call", p)
                         /\ Count(more, "output", p) = Count(items, "output", p)
  BY <1>1, <1>2, <1>3
<1>6. ASSUME NEW p \in DOMAIN more, p \notin 1..last
      PROVE  p - last \in 1..Len(ids) /\ last + (p - last) = p
  BY <1>1, <1>2, <1>3, <1>6
<1>7. \A p \in 1..last : p \in Nat /\ Count(items, "call", p) <= answered
  BY <1>1, <1>4, CountGrows
<1>8. Agree(more, ids)
  <2>1. /\ Count(more, "call", Len(more)) = answered + Len(ids)
        /\ Count(more, "output", Len(more)) = answered
    BY <1>2, <1>4
  <2>2. ASSUME NEW p \in DOMAIN more, more[p].kind = "call"
        PROVE  /\ Count(more, "call", p) > answered =>
                    more[p].id = ids[Count(more, "call", p) - answered]
               /\ Count(more, "call", p) <= answered =>
                    \E q \in DOMAIN more : /\ q > p /\ more[q] = Output(more[p].id)
                                           /\ Count(more, "output", q) = Count(more, "call", p)
    <3>1. CASE p \in 1..last
      <4>1. items[p].kind = "call" /\ Count(items, "call", p) <= answered /\ p \in DOMAIN items
        BY <1>5, <1>7, <2>2, <3>1
      <4>2. PICK q \in DOMAIN items : /\ q > p /\ items[q] = Output(items[p].id)
                                      /\ Count(items, "output", q) = Count(items, "call", p)
        BY <4>1 DEF Sound, Agree, last
      <4>3. Count(items, "call", p) \in Nat BY <1>7, <3>1, CountIsNat
      <4>4. ~ (Count(more, "call", p) > answered) BY <1>4, <1>5, <3>1, <4>1, <4>3
      <4>5. q \in 1..last BY <1>1, <4>2
      <4>6. /\ q \in DOMAIN more /\ q > p /\ more[q] = Output(more[p].id)
            /\ Count(more, "output", q) = Count(more, "call", p)
        BY <1>5, <3>1, <4>2, <4>5
      <4> QED BY <4>4, <4>6
    <3>2. CASE p \notin 1..last
      <4> DEFINE i == p - last
      <4>1. i \in 1..Len(ids) /\ last + i = p BY <1>6, <3>2
      <4>2. Count(more, "call", p) = answered + i BY <1>2, <1>4, <4>1
      <4>3. more[p] = Call(ids[i]) BY <1>2, <4>1
      <4>4. more[p].id = ids[i] BY <4>3 DEF Call
      <4> HIDE DEF i
      <4>5. Count(more, "call", p) - answered = i /\ ~ (Count(more, "call", p) <= answered)
        BY <1>2, <1>4, <4>1, <4>2
      <4> QED BY <4>4, <4>5
    <3> QED BY <3>1, <3>2
  <2> QED BY <2>1, <2>2 DEF Agree
<1>9. \A p \in DOMAIN more : more[p].kind \in Shown => p \in 1..last
  <2>1. ASSUME NEW p \in DOMAIN more, p \notin 1..last PROVE more[p].kind \notin Shown
    <3>1. more[last + (p - last)] = Call(ids[p - last]) BY <1>2, <1>6, <2>1
    <3> QED BY <1>6, <2>1, <3>1 DEF Call, Shown
  <2> QED BY <2>1
<1>10. Answered(more) BY <1>5, <1>9 DEF Sound, Answered
<1>11. Latest(more, places, refused)
  <2>1. {p \in DOMAIN more : more[p].kind \in Shown} = {p \in DOMAIN items : items[p].kind \in Shown}
    BY <1>1, <1>5, <1>9
  <2>2. \A p \in places : more[p] = items[p] BY <1>1, <1>5 DEF Sound, Latest
  <2> QED BY <2>1, <2>2 DEF Sound, Latest
<1> QED BY <1>2, <1>8, <1>10, <1>11 DEF Sound, more

-----------------------------------------------------------------------------
(* The invariant holds at first                                             *)

\* Under the protocol of today the items are the messages.
LEMMA ItemsAreMessages ==
  /\ protocol_version = 1 => Upgrade.items = messages /\ Upgrade.shown = observation_indices
  /\ protocol_version = 0 => Upgrade = Upgraded(messages)
  BY DEF Upgrade

\* A fresh run has said nothing yet.
LEMMA FreshIsSound == Sound(<<Item("prompt")>>, {}, <<>>, FALSE)
<1> DEFINE items == <<Item("prompt")>>
<1>1. /\ items \in Seq(ItemType) /\ Len(items) = 1 /\ DOMAIN items = {1}
      /\ items[1].kind = "prompt"
  BY DEF Item, ItemType
<1> HIDE DEF items
<1>2. ASSUME NEW kind \in {"call", "output"} PROVE Count(items, kind, 1) = 0
  <2>1. {q \in 1..1 : items[q].kind = kind} = {} BY <1>1
  <2> QED BY <2>1, FS_EmptySet DEF Count
<1>3. Agree(items, <<>>) BY <1>1, <1>2, EmptySeq DEF Agree
<1>4. Answered(items) /\ Latest(items, {}, FALSE) BY <1>1 DEF Answered, Latest, Shown
<1> QED BY <1>1, <1>3, <1>4 DEF Sound, items

LEMMA InitWhole == Init => Whole
<1> SUFFICES ASSUME Init PROVE Whole OBVIOUS
<1>1. CASE Fresh
  <2> USE <1>1 DEF Init, Fresh
  <2>1. Sound(Upgrade.items, Upgrade.shown, pending, text_only)
    BY FreshIsSound, ItemsAreMessages
  <2>2. TypeOK
    <3>1. <<>> \in Seq(Ids) /\ Len(<<>>) = 0 BY EmptySeq
    <3>2. pending \in Seq(Ids) /\ Len(pending) <= MaxCalls BY <3>1, BudgetAssumption
    <3>3. rounds_left \in 0..Budget /\ observations \in 0..MaxImages BY BudgetAssumption
    <3> QED BY <3>2, <3>3 DEF TypeOK
  <2>3. RunsBefore BY EmptySeq DEF RunsBefore
  <2>4. requests \in Int /\ InRound /\ ExecutedOnce /\ BudgetKept
    BY BudgetAssumption DEF InRound, ExecutedOnce, BudgetKept
  <2> QED BY <2>1, <2>2, <2>3, <2>4 DEF Whole
<1>2. CASE \E c \in Checkpoints : Restored(c)
  <2>1. PICK c \in Checkpoints : Restored(c) BY <1>2
  <2> USE DEF Init, Restored
  <2>2. /\ pending \in Seq(Ids) /\ Len(pending) \in 1..MaxCalls
        /\ \A i, j \in DOMAIN pending : pending[i] = pending[j] => i = j
        /\ rounds_left \in 0..Budget /\ observations \in 0..MaxImages
        /\ text_only \in BOOLEAN /\ retry \in BOOLEAN
        /\ Sound(Upgraded(messages).items, Upgraded(messages).shown, pending, text_only)
    BY <2>1, CheckpointAssumption DEF Sound
  <2>3. Sound(Upgrade.items, Upgrade.shown, pending, text_only)
    BY <2>1, <2>2, ItemsAreMessages
  <2>4. pending # <<>> BY <2>2, EmptySeq, BudgetAssumption
  <2>5. TypeOK BY <2>1, <2>2, BudgetAssumption DEF TypeOK
  <2>6. RunsBefore BY EmptySeq DEF RunsBefore
  <2>7. InRound /\ ExecutedOnce BY <2>1, <2>2, <2>4 DEF InRound, ExecutedOnce
  <2>8. requests \in Int /\ BudgetKept BY <2>1, <2>2, BudgetAssumption DEF BudgetKept
  <2> QED BY <2>3, <2>5, <2>6, <2>7, <2>8 DEF Whole
<1> QED BY <1>1, <1>2 DEF Init

-----------------------------------------------------------------------------
(* Rounds                                                                   *)

\* The state that waits for its user may be old; any other is of today.
LEMMA CurrentSound ==
  ASSUME Whole, phase # "waiting"
  PROVE  protocol_version = 1 /\ Sound(messages, observation_indices, pending, text_only)
<1>1. protocol_version = 1 BY DEF Whole, InRound, TypeOK
<1> QED BY <1>1, ItemsAreMessages DEF Whole

\* What is left to show of a step, when the items it makes are sound.
LEMMA StepSound ==
  ASSUME protocol_version' = 1, Sound(messages, observation_indices, pending, text_only)'
  PROVE  /\ Sound(Upgrade.items, Upgrade.shown, pending, text_only)'
         /\ observation_indices' \subseteq DOMAIN messages'
<1>1. Upgrade.items' = messages' /\ Upgrade.shown' = observation_indices' BY DEF Upgrade
<1>2. observation_indices' \subseteq DOMAIN messages' BY DEF Sound, Latest
<1> QED BY <1>1, <1>2

\* A round begins: images of older ones are released, those of the last are shown.
LEMMA StartRoundKeeps ==
  ASSUME Whole, StartRound
  PROVE  Whole'
<1> USE DEF StartRound
<1>1. protocol_version = 1 /\ Sound(messages, observation_indices, <<>>, text_only)
  BY CurrentSound DEF Whole
<1>2. text_only \in BOOLEAN /\ text_only' = text_only /\ pending' = <<>> BY DEF Whole, TypeOK
<1>3. Sound(messages', observation_indices', <<>>, text_only)
  <2>1. CASE observations = 0 BY <1>1, <2>1 DEF Show
  <2>2. CASE observations # 0
    <3> DEFINE label == IF text_only THEN "note" ELSE "image"
               old == Relabel(messages, observation_indices, "released")
    <3>1. Sound(old, observation_indices, <<>>, TRUE) BY <1>1, RelabelIsSound
    <3>2. label \in {"image", "note"} /\ (text_only => label = "note") OBVIOUS
    <3>3. Len(old) = Len(messages)
      <4>1. messages \in Seq(ItemType)
            /\ \A p \in observation_indices : messages[p].kind \in Shown
        BY <1>1 DEF Sound, Latest
      <4>2. "released" \in Shown BY DEF Shown
      <4> HIDE DEF old
      <4> QED BY <4>1, <4>2, RelabelCounts DEF old
    <3> HIDE DEF old, label
    <3>4. Sound(Append(old, Item(label)), observation_indices \cup {Len(messages) + 1}, <<>>, text_only)
      BY <1>2, <3>1, <3>2, <3>3, ShowIsSound
    <3>5. /\ messages' = Append(old, Item(label))
          /\ observation_indices' = observation_indices \cup {Len(messages) + 1}
      BY <2>2 DEF Show, old, label
    <3> QED BY <3>4, <3>5
  <2> QED BY <2>1, <2>2
<1>4. /\ Sound(Upgrade.items, Upgrade.shown, pending, text_only)'
      /\ observation_indices' \subseteq DOMAIN messages'
  BY <1>1, <1>2, <1>3, StepSound
<1>5. TypeOK' BY <1>2, <1>4, BudgetAssumption DEF Whole, TypeOK
<1>6. requests' \in Int /\ BudgetKept'
  BY <1>2, BudgetAssumption DEF Whole, TypeOK, BudgetKept
<1>7. InRound' BY <1>1 DEF Whole, InRound
<1>8. RunsBefore' /\ ExecutedOnce'
  <2>1. rounds_left \in Nat /\ rounds_left' = rounds_left - 1 /\ executed' = executed
    BY BudgetAssumption DEF Whole, TypeOK
  <2>2. executed \in Seq(Nat \X Ids) /\ \A i \in DOMAIN executed : executed[i][1] >= rounds_left
    BY DEF Whole, RunsBefore
  <2>3. \A i \in DOMAIN executed : executed[i][1] \in Nat BY <2>2
  <2>4. \A i \in DOMAIN executed : executed[i][1] >= rounds_left' /\ executed[i][1] > rounds_left'
    BY <2>1, <2>2, <2>3
  <2> QED BY <2>1, <2>2, <2>4 DEF Whole, RunsBefore, ExecutedOnce
<1> QED BY <1>4, <1>5, <1>6, <1>7, <1>8 DEF Whole

\* Images are refused: what was shown is noted, and one request more is sent.
LEMMA TextFallbackKeeps ==
  ASSUME Whole, TextFallback
  PROVE  Whole'
<1> USE DEF TextFallback
<1>1. protocol_version = 1 /\ Sound(messages, observation_indices, pending, text_only)
  BY CurrentSound
<1>2. Sound(messages', observation_indices', pending', text_only')
  BY <1>1, RelabelIsSound
<1>3. /\ Sound(Upgrade.items, Upgrade.shown, pending, text_only)'
      /\ observation_indices' \subseteq DOMAIN messages'
  BY <1>1, <1>2, StepSound
<1>4. TypeOK' BY <1>3 DEF Whole, TypeOK
<1>5. requests' \in Int /\ BudgetKept'
  BY BudgetAssumption DEF Whole, TypeOK, BudgetKept
<1>6. InRound' BY <1>1 DEF Whole, InRound
<1>7. RunsBefore' /\ ExecutedOnce' BY DEF Whole, RunsBefore, ExecutedOnce
<1> QED BY <1>3, <1>4, <1>5, <1>6, <1>7 DEF Whole

\* The run is complete.
LEMMA CompleteKeeps ==
  ASSUME Whole, Complete
  PROVE  Whole'
<1> USE DEF Complete, saved
<1>1. protocol_version = 1 /\ Sound(messages, observation_indices, pending, text_only)
  BY CurrentSound
<1>2. /\ Sound(Upgrade.items, Upgrade.shown, pending, text_only)'
      /\ observation_indices' \subseteq DOMAIN messages'
  BY <1>1, StepSound
<1>3. TypeOK' BY <1>2 DEF Whole, TypeOK
<1>4. requests' \in Int /\ BudgetKept' /\ InRound' /\ RunsBefore' /\ ExecutedOnce'
  BY <1>1 DEF Whole, BudgetKept, InRound, RunsBefore, ExecutedOnce
<1> QED BY <1>2, <1>3, <1>4 DEF Whole

\* The model calls.
LEMMA CallsKeeps ==
  ASSUME Whole, Calls
  PROVE  Whole'
<1>1. PICK n \in 1..MaxCalls, said \in BOOLEAN : \E ids \in [1..n -> Ids] :
        /\ \A i, j \in 1..n : ids[i] = ids[j] => i = j
        /\ messages' = messages \o (IF said THEN <<Item("text")>> ELSE <<>>)
                                \o [i \in 1..n |-> Call(ids[i])]
        /\ pending' = ids
  BY DEF Calls
<1>2. PICK ids \in [1..n -> Ids] :
        /\ \A i, j \in 1..n : ids[i] = ids[j] => i = j
        /\ messages' = messages \o (IF said THEN <<Item("text")>> ELSE <<>>)
                                \o [i \in 1..n |-> Call(ids[i])]
        /\ pending' = ids
  BY <1>1
<1>3. n \in Nat /\ ids \in Seq(Ids) /\ Len(ids) = n /\ ids # <<>> /\ DOMAIN ids = 1..n
  <2>1. n \in Nat /\ n >= 1 BY BudgetAssumption
  <2>2. ids \in Seq(Ids) /\ Len(ids) = n BY <2>1, FunctionIsSeq
  <2> QED BY <2>1, <2>2, EmptySeq
<1>4. protocol_version = 1 /\ Sound(messages, observation_indices, <<>>, text_only)
  BY CurrentSound DEF Whole, InRound, Calls
<1> DEFINE before == messages \o (IF said THEN <<Item("text")>> ELSE <<>>)
<1>5. Sound(before, observation_indices, <<>>, text_only)
  <2>1. messages \in Seq(ItemType) BY <1>4 DEF Sound
  <2>2. CASE said
    <3>1. Item("text") \in ItemType BY DEF Item, ItemType
    <3>2. before = Append(messages, Item("text")) BY <2>1, <2>2, <3>1, AppendIsConcat
    <3> QED BY <1>4, <3>2, TextIsSound
  <2>3. CASE ~said
    <3>1. before = messages BY <2>1, <2>3, ConcatEmptySeq
    <3> QED BY <1>4, <3>1
  <2> QED BY <2>2, <2>3
<1> HIDE DEF before
<1>6. Sound(before \o [i \in 1..Len(ids) |-> Call(ids[i])], observation_indices, ids, text_only)
  BY <1>3, <1>5, CallsAreSound
<1>7. messages' = before \o [i \in 1..Len(ids) |-> Call(ids[i])] BY <1>2, <1>3 DEF before
<1> USE DEF Calls
<1>8. Sound(messages', observation_indices', pending', text_only')
  BY <1>2, <1>6, <1>7
<1>9. /\ Sound(Upgrade.items, Upgrade.shown, pending, text_only)'
      /\ observation_indices' \subseteq DOMAIN messages'
  BY <1>4, <1>8, StepSound
<1>10. TypeOK' BY <1>2, <1>3, <1>9, BudgetAssumption DEF Whole, TypeOK
<1>11. requests' \in Int /\ BudgetKept' BY DEF Whole, BudgetKept
<1>12. InRound' BY <1>2, <1>3, <1>4 DEF InRound
<1>13. RunsBefore' /\ ExecutedOnce'
  <2>1. /\ executed' = executed /\ executed \in Seq(Nat \X Ids)
        /\ rounds_left' = rounds_left /\ rounds_left \in Nat
        /\ \A i \in DOMAIN executed : executed[i][1] > rounds_left
    BY BudgetAssumption DEF Whole, RunsBefore, TypeOK
  <2>2. \A i \in DOMAIN executed : executed[i][1] \in Nat BY <2>1
  <2>3. \A i \in DOMAIN executed : executed[i][1] # rounds_left /\ executed[i][1] >= rounds_left
    BY <2>1, <2>2
  <2>4. phase' = "calls" OBVIOUS
  <2> QED BY <2>1, <2>3, <2>4 DEF Whole, RunsBefore, ExecutedOnce
<1> QED BY <1>9, <1>10, <1>11, <1>12, <1>13 DEF Whole

-----------------------------------------------------------------------------
(* Tool calls, pauses and the end                                           *)

\* The first of the calls that wait, once it has run.
LEMMA RanKeeps ==
  ASSUME Whole, pending # <<>>, phase \in {"calls", "waiting"}, executed' = Ran
  PROVE  /\ executed' \in Seq(Nat \X Ids) /\ ExecutedOnce'
         /\ \A i \in DOMAIN executed' :
              /\ executed'[i][1] >= rounds_left
              /\ executed'[i][1] = rounds_left =>
                   \A j \in DOMAIN Tail(pending) : executed'[i][2] # Tail(pending)[j]
<1> DEFINE new == <<rounds_left, Head(pending)>>
           last == Len(executed)
<1>1. /\ pending \in Seq(Ids) /\ rounds_left \in Nat
      /\ executed \in Seq(Nat \X Ids) /\ last \in Nat /\ DOMAIN executed = 1..last
  BY BudgetAssumption, LenProperties DEF Whole, TypeOK, RunsBefore
<1>2. /\ Head(pending) \in Ids /\ Head(pending) = pending[1] /\ Tail(pending) \in Seq(Ids)
      /\ Len(pending) \in Nat \ {0} /\ Len(Tail(pending)) = Len(pending) - 1
      /\ \A i \in 1..(Len(pending) - 1) : Tail(pending)[i] = pending[i + 1]
  BY <1>1, HeadTailProperties, EmptySeq
<1>3. new \in Nat \X Ids /\ new[1] = rounds_left /\ new[2] = pending[1] BY <1>1, <1>2
<1>4. /\ executed' \in Seq(Nat \X Ids) /\ DOMAIN executed' = 1..(last + 1)
      /\ \A i \in 1..last : executed'[i] = executed[i]
      /\ executed'[last + 1] = new
  BY <1>1, <1>3, AppendProperties, LenProperties DEF Ran
<1> HIDE DEF new, last
<1>5. \A j \in 1..(Len(pending) - 1) :
        Tail(pending)[j] = pending[j + 1] /\ j + 1 \in DOMAIN pending /\ 1 \in DOMAIN pending /\ j + 1 # 1
  BY <1>1, <1>2, LenProperties
<1>6. DOMAIN Tail(pending) = 1..(Len(pending) - 1) BY <1>2, LenProperties
<1>7. \A i, j \in DOMAIN pending : pending[i] = pending[j] => i = j BY DEF Whole, InRound
<1>8. \A i \in 1..last :
        /\ executed[i][1] >= rounds_left
        /\ executed[i][1] = rounds_left => \A j \in DOMAIN pending : executed[i][2] # pending[j]
  BY <1>1 DEF Whole, RunsBefore
<1>9. \A i \in 1..last : executed[i] # new
  <2>1. 1 \in DOMAIN pending BY <1>1, <1>2, LenProperties
  <2> QED BY <1>3, <1>8, <2>1
<1>10. ExecutedOnce'
  <2>1. \A i, j \in 1..last : executed[i] = executed[j] => i = j
    BY <1>1 DEF Whole, ExecutedOnce
  <2>2. ASSUME NEW i \in 1..(last + 1), NEW j \in 1..(last + 1), executed'[i] = executed'[j]
        PROVE  i = j
    BY <1>1, <1>4, <1>9, <2>1, <2>2
  <2> QED BY <1>4, <2>2 DEF ExecutedOnce
<1>11. ASSUME NEW i \in DOMAIN executed'
       PROVE  /\ executed'[i][1] >= rounds_left
              /\ executed'[i][1] = rounds_left =>
                   \A j \in DOMAIN Tail(pending) : executed'[i][2] # Tail(pending)[j]
  <2>1. CASE i \in 1..last
    <3>1. executed'[i] = executed[i] BY <1>4, <2>1
    <3> QED BY <1>5, <1>6, <1>8, <2>1, <3>1
  <2>2. CASE i = last + 1
    <3>1. executed'[i] = new BY <1>4, <2>2
    <3>2. \A j \in DOMAIN Tail(pending) : new[2] # Tail(pending)[j] BY <1>3, <1>5, <1>6, <1>7
    <3> QED BY <1>1, <1>3, <3>1, <3>2
  <2> QED BY <1>1, <1>4, <2>1, <2>2
<1> QED BY <1>4, <1>10, <1>11

\* A tail has the distinct calls of the sequence it is the tail of.
LEMMA TailOfPending ==
  ASSUME Whole, pending # <<>>
  PROVE  /\ Tail(pending) \in Seq(Ids) /\ Len(Tail(pending)) <= MaxCalls
         /\ (Tail(pending) = <<>> <=> Len(pending) = 1)
         /\ \A i, j \in DOMAIN Tail(pending) : Tail(pending)[i] = Tail(pending)[j] => i = j
         /\ \A i \in DOMAIN Tail(pending) : \E j \in DOMAIN pending : Tail(pending)[i] = pending[j]
<1>1. pending \in Seq(Ids) /\ Len(pending) <= MaxCalls BY DEF Whole, TypeOK
<1>2. /\ Tail(pending) \in Seq(Ids) /\ Len(pending) \in Nat \ {0}
      /\ Len(Tail(pending)) = Len(pending) - 1
      /\ \A i \in 1..(Len(pending) - 1) : Tail(pending)[i] = pending[i + 1]
  BY <1>1, HeadTailProperties, EmptySeq
<1>3. DOMAIN Tail(pending) = 1..(Len(pending) - 1) /\ DOMAIN pending = 1..Len(pending)
  BY <1>1, <1>2, LenProperties
<1>4. \A i, j \in DOMAIN pending : pending[i] = pending[j] => i = j BY DEF Whole, InRound
<1>5. \A i \in DOMAIN Tail(pending) : i \in Nat /\ Tail(pending)[i] = pending[i + 1]
                                     /\ i + 1 \in DOMAIN pending
  BY <1>2, <1>3
<1>6. ASSUME NEW i \in DOMAIN Tail(pending), NEW j \in DOMAIN Tail(pending),
             Tail(pending)[i] = Tail(pending)[j]
      PROVE  i = j
  <2>1. i + 1 = j + 1 BY <1>4, <1>5, <1>6
  <2> QED BY <1>5, <2>1
<1>7. Tail(pending) = <<>> <=> Len(pending) = 1
  <2>1. Len(<<>>) = 0 /\ (Tail(pending) # <<>> => Len(Tail(pending)) \in Nat \ {0})
    BY <1>2, EmptySeq
  <2> QED BY <1>2, <2>1
<1>8. Len(Tail(pending)) <= MaxCalls BY <1>1, <1>2, BudgetAssumption
<1> QED BY <1>2, <1>5, <1>6, <1>7, <1>8

\* A call gets its output, whether its tool has run or not.
LEMMA ReplyKeeps ==
  ASSUME Whole, phase = "calls", NEW images \in 0..(MaxImages - observations), Reply(images),
         executed' = Ran \/ executed' = executed
  PROVE  Whole'
<1> USE DEF Reply
<1>1. protocol_version = 1 /\ Sound(messages, observation_indices, pending, text_only)
  BY CurrentSound
<1>2. pending # <<>> /\ pending \in Seq(Ids) BY DEF Whole, TypeOK, InRound
<1>3. Sound(messages', observation_indices', pending', text_only')
  BY <1>1, <1>2, OutputIsSound
<1>4. /\ Sound(Upgrade.items, Upgrade.shown, pending, text_only)'
      /\ observation_indices' \subseteq DOMAIN messages'
  BY <1>1, <1>3, StepSound
<1>5. observations' \in 0..MaxImages BY BudgetAssumption DEF Whole, TypeOK
<1>6. TypeOK' BY <1>2, <1>4, <1>5, TailOfPending DEF Whole, TypeOK
<1>7. requests' \in Int /\ BudgetKept' BY DEF Whole, BudgetKept
<1>8. InRound' BY <1>1, <1>2, TailOfPending DEF InRound
<1>9. RunsBefore' /\ ExecutedOnce'
  <2>1. phase' \notin {"sent", "resent"} /\ rounds_left' = rounds_left /\ pending' = Tail(pending)
    OBVIOUS
  <2>2. CASE executed' = Ran BY <1>2, <2>1, <2>2, RanKeeps DEF RunsBefore
  <2>3. CASE executed' = executed
    <3>1. \A i \in DOMAIN executed : executed[i][1] = rounds_left =>
            \A j \in DOMAIN Tail(pending) : executed[i][2] # Tail(pending)[j]
      BY <1>2, TailOfPending DEF Whole, RunsBefore
    <3> QED BY <2>1, <2>3, <3>1 DEF Whole, RunsBefore, ExecutedOnce
  <2> QED BY <2>2, <2>3
<1> QED BY <1>4, <1>6, <1>7, <1>8, <1>9 DEF Whole

\* The tool runs.
LEMMA InvokeKeeps ==
  ASSUME Whole, Invoke
  PROVE  Whole'
<1>1. PICK images \in 0..(MaxImages - observations) : Reply(images) BY DEF Invoke
<1> QED BY <1>1, ReplyKeeps DEF Invoke

\* The arguments are not JSON.
LEMMA MalformedKeeps ==
  ASSUME Whole, Malformed
  PROVE  Whole'
<1>1. 0 \in 0..(MaxImages - observations) BY BudgetAssumption DEF Whole, TypeOK
<1> QED BY <1>1, ReplyKeeps DEF Malformed

\* The tool needs the user.
LEMMA AskUserKeeps ==
  ASSUME Whole, AskUser
  PROVE  Whole'
<1> USE DEF AskUser, saved
<1>1. protocol_version = 1 /\ Sound(messages, observation_indices, pending, text_only)
  BY CurrentSound
<1>2. /\ Sound(Upgrade.items, Upgrade.shown, pending, text_only)'
      /\ observation_indices' \subseteq DOMAIN messages'
  BY <1>1, StepSound
<1>3. TypeOK' BY <1>2 DEF Whole, TypeOK
<1>4. requests' \in Int /\ BudgetKept' /\ InRound' /\ RunsBefore' /\ ExecutedOnce'
  BY <1>1 DEF Whole, BudgetKept, InRound, RunsBefore, ExecutedOnce
<1> QED BY <1>2, <1>3, <1>4 DEF Whole

\* The user answers, perhaps after the engine has been replaced.
LEMMA ResumeKeeps ==
  ASSUME Whole, Resume
  PROVE  Whole'
<1> USE DEF Resume
<1>1. pending # <<>> /\ pending \in Seq(Ids) BY DEF Whole, TypeOK, InRound
<1>2. Sound(Upgrade.items, Upgrade.shown, pending, text_only) BY DEF Whole
<1>3. Sound(messages', observation_indices', pending', text_only')
  <2>1. CASE retry
    <3>1. messages' = Upgrade.items /\ pending' = pending
      BY <1>2, <2>1, ConcatEmptySeq DEF Sound
    <3> QED BY <1>2, <3>1
  <2>2. CASE ~retry
    <3>1. Output(Head(pending)) \in ItemType
      BY <1>1, HeadTailProperties DEF Output, ItemType
    <3>2. messages' = Append(Upgrade.items, Output(Head(pending))) /\ pending' = Tail(pending)
      BY <1>2, <2>2, <3>1, AppendIsConcat DEF Sound
    <3> QED BY <1>1, <1>2, <3>2, OutputIsSound
  <2> QED BY <2>1, <2>2
<1>4. /\ Sound(Upgrade.items, Upgrade.shown, pending, text_only)'
      /\ observation_indices' \subseteq DOMAIN messages'
  BY <1>3, StepSound
<1>5. TypeOK' BY <1>1, <1>4, TailOfPending DEF Whole, TypeOK
<1>6. requests' \in Int /\ BudgetKept' BY DEF Whole, BudgetKept
<1>7. InRound' BY <1>1, TailOfPending DEF Whole, InRound
<1>8. RunsBefore' /\ ExecutedOnce'
  <2>1. phase' \notin {"sent", "resent"} /\ rounds_left' = rounds_left /\ executed' = executed
    OBVIOUS
  <2>2. \A i \in DOMAIN executed : executed[i][1] = rounds_left =>
          \A j \in DOMAIN pending' : executed[i][2] # pending'[j]
    <3>1. \A i \in DOMAIN executed : executed[i][1] = rounds_left =>
            \A j \in DOMAIN pending : executed[i][2] # pending[j]
      BY DEF Whole, RunsBefore
    <3>2. \A j \in DOMAIN pending' : \E k \in DOMAIN pending : pending'[j] = pending[k]
      BY <1>1, TailOfPending
    <3> QED BY <3>1, <3>2
  <2> QED BY <2>1, <2>2 DEF Whole, RunsBefore, ExecutedOnce
<1> QED BY <1>4, <1>5, <1>6, <1>7, <1>8 DEF Whole

\* The run ends early, perhaps while a tool is at work.
LEMMA EndKeeps ==
  ASSUME Whole, End
  PROVE  Whole'
<1> USE DEF End, saved
<1>1. protocol_version = 1 /\ Sound(messages, observation_indices, pending, text_only)
  BY CurrentSound
<1>2. /\ Sound(Upgrade.items, Upgrade.shown, pending, text_only)'
      /\ observation_indices' \subseteq DOMAIN messages'
  BY <1>1, StepSound
<1>3. TypeOK' BY <1>2 DEF Whole, TypeOK
<1>4. requests' \in Int /\ BudgetKept' /\ InRound'
  BY <1>1 DEF Whole, BudgetKept, InRound
<1>5. RunsBefore' /\ ExecutedOnce'
  <2>1. CASE executed' = executed BY <2>1 DEF Whole, RunsBefore, ExecutedOnce
  <2>2. CASE phase = "calls" /\ executed' = Ran
    <3>1. pending # <<>> BY <2>2 DEF Whole, InRound
    <3> QED BY <2>2, <3>1, RanKeeps DEF RunsBefore
  <2> QED BY <2>1, <2>2
<1> QED BY <1>2, <1>3, <1>4, <1>5 DEF Whole

LEMMA NextWhole ==
  ASSUME Whole, [Next]_vars
  PROVE  Whole'
<1>1. CASE Next
  BY <1>1, StartRoundKeeps, TextFallbackKeeps, CompleteKeeps, CallsKeeps, InvokeKeeps,
     MalformedKeeps, AskUserKeeps, ResumeKeeps, EndKeeps DEF Next
<1>2. CASE UNCHANGED vars
  BY <1>2 DEF vars, saved, Whole, TypeOK, Upgrade, InRound, RunsBefore, ExecutedOnce, BudgetKept
<1> QED BY <1>1, <1>2

\* What the properties say is part of it.
LEMMA WholeSuffices ==
  ASSUME Whole
  PROVE  Ledger /\ AnsweredBeforeShown /\ LatestImagesOnly
  BY ItemsAreMessages DEF Whole, Sound, Ledger, AnsweredBeforeShown, LatestImagesOnly

-----------------------------------------------------------------------------
(* What is proved: of the engine alone, and of it beside the device tasks   *)

\* Every variable of the engine keeps its type: rounds, calls and images stay within their
\* limits, and the places of the observations are places of the messages.
THEOREM EngineTypes == Spec => []TypeOK
<1>1. Init => Whole BY InitWhole
<1>2. Whole /\ [Next]_vars => Whole' BY NextWhole
<1>3. Whole => TypeOK BY DEF Whole
<1> QED BY <1>1, <1>2, <1>3, PTL DEF Spec

\* Every call has one output, in the order of the calls, also after any number of pauses.
THEOREM LedgerTheorem == Spec => []Ledger
<1>1. Whole => Ledger BY WholeSuffices
<1> QED BY InitWhole, NextWhole, <1>1, PTL DEF Spec

\* No tool runs twice for one call.
THEOREM ExecutedOnceTheorem == Spec => []ExecutedOnce
<1>1. Whole => ExecutedOnce BY DEF Whole
<1> QED BY InitWhole, NextWhole, <1>1, PTL DEF Spec

\* No observation stands between a call and its output.
THEOREM AnsweredTheorem == Spec => []AnsweredBeforeShown
<1>1. Whole => AnsweredBeforeShown BY WholeSuffices
<1> QED BY InitWhole, NextWhole, <1>1, PTL DEF Spec

\* The engine knows its observations, shows the latest only, and none that were refused.
THEOREM ImagesTheorem == Spec => []LatestImagesOnly
<1>1. Whole => LatestImagesOnly BY WholeSuffices
<1> QED BY InitWhole, NextWhole, <1>1, PTL DEF Spec

\* Every request is paid from one budget, but for the one that repeats a refused one.
THEOREM BudgetTheorem == Spec => []BudgetKept
<1>1. Whole => BudgetKept BY DEF Whole
<1> QED BY InitWhole, NextWhole, <1>1, PTL DEF Spec

\* Beside the engine, whatever it does, a confirmed stop reaches every device task and what a
\* device may be working on has a record.
THEOREM TasksTheorem == StepsSpec => []TasksKept
<1>1. RoundsOrTasks => S!Kept
  BY TasksAssumption, S!InitKept DEF RoundsOrTasks
<1>2. S!Kept /\ [Steps]_<<part, vars, tasks>> => S!Kept'
  <2> SUFFICES ASSUME S!Kept, [Steps]_<<part, vars, tasks>> PROVE S!Kept'
    OBVIOUS
  <2>1. [S!Next]_(S!vars) BY DEF Steps, tasks, S!vars
  <2> QED BY <2>1, TasksAssumption, S!NextKeeps
<1>3. S!Kept => TasksKept
  BY TasksAssumption, S!KeptSuffices DEF TasksKept
<1> QED BY <1>1, <1>2, <1>3, PTL DEF StepsSpec

\* Nor does it matter to the engine what the tasks do.
THEOREM RoundsTheorem ==
  StepsSpec => [](TypeOK /\ Ledger /\ ExecutedOnce /\ AnsweredBeforeShown /\ LatestImagesOnly
                    /\ BudgetKept)
<1>1. RoundsOrTasks => Whole BY InitWhole DEF RoundsOrTasks
<1>2. Whole /\ [Steps]_<<part, vars, tasks>> => Whole'
  <2> SUFFICES ASSUME Whole, [Steps]_<<part, vars, tasks>> PROVE Whole'
    OBVIOUS
  <2>1. [Next]_vars BY DEF Steps
  <2> QED BY <2>1, NextWhole
<1>3. Whole => TypeOK /\ Ledger /\ ExecutedOnce /\ AnsweredBeforeShown /\ LatestImagesOnly
                 /\ BudgetKept
  BY WholeSuffices DEF Whole
<1> QED BY <1>1, <1>2, <1>3, PTL DEF StepsSpec
=============================================================================
