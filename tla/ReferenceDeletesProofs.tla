------------------------ MODULE ReferenceDeletesProofs ------------------------
(* Theorems about ReferenceDeletes, for every set of documents, every graph   *)
(* of references and policies, every batch and any number of hook actions.    *)
EXTENDS ReferenceDeletes, FiniteSetTheorems, WellFoundedInduction, TLAPS

-----------------------------------------------------------------------------
(* The stack of running deletes.                                             *)

Callers == {"caller", "cascade", "hook"}

\* The innermost frame, and the stack without it.
LEMMA StackParts ==
  ASSUME stack \in Seq(Frame), stack # <<>>
  PROVE  /\ Len(stack) \in Nat \ {0} /\ Top \in Frame /\ Top = stack[Len(stack)]
         /\ Front(stack) \in Seq(Frame)
         /\ Len(Front(stack)) = Len(stack) - 1
         /\ \A i \in 1 .. Len(stack) - 1 : Front(stack)[i] = stack[i]
<1> DEFINE n == Len(stack)
<1>1. n \in Nat \ {0} /\ stack \in [1 .. n -> Frame]
  OBVIOUS
<1>2. Front(stack) = [i \in 1 .. n - 1 |-> stack[i]]
  BY <1>1 DEF Front
<1>3. n - 1 \in Nat /\ \A i \in 1 .. n - 1 : stack[i] \in Frame
  BY <1>1
<1>4. Front(stack) \in Seq(Frame) /\ Len(Front(stack)) = n - 1
  BY <1>2, <1>3
<1>5. QED
  BY <1>1, <1>2, <1>4 DEF Top, Last

\* The innermost frame goes on: it keeps its document and who runs it.
Advanced(s, phase) ==
  /\ s \in Seq(Frame) /\ Len(s) = Len(stack)
  /\ \A i \in 1 .. Len(stack) - 1 : s[i] = stack[i]
  /\ s[Len(stack)].doc = Top.doc /\ s[Len(stack)].by = Top.by
  /\ s[Len(stack)].phase = phase

\* Changes of the innermost frame's list and phase advance it.
LEMMA AdvancedFrames ==
  ASSUME stack \in Seq(Frame), stack # <<>>
  PROVE  /\ \A S \in SUBSET Doc :
              /\ Advanced([stack EXCEPT ![Len(stack)].todo = S], Top.phase)
              /\ Advanced([stack EXCEPT ![Len(stack)].phase = "owners", ![Len(stack)].todo = S], "owners")
         /\ Advanced([stack EXCEPT ![Len(stack)].phase = "after"], "after")
<1> DEFINE n == Len(stack)
<1>1. n \in 1 .. n /\ stack \in [1 .. n -> Frame] /\ Top = stack[n] /\ Top \in Frame
  BY StackParts
<1>2. ASSUME NEW f \in Frame, f.doc = Top.doc, f.by = Top.by
      PROVE  Advanced([stack EXCEPT ![n] = f], f.phase)
  <2> DEFINE s == [stack EXCEPT ![n] = f]
  <2>1. s \in Seq(Frame) /\ Len(s) = n
    BY <1>1
  <2>2. s[n] = f /\ \A i \in 1 .. n - 1 : s[i] = stack[i]
    BY <1>1
  <2>3. QED
    BY <1>2, <2>1, <2>2 DEF Advanced
<1>3. ASSUME NEW S \in SUBSET Doc
      PROVE  /\ Advanced([stack EXCEPT ![n].todo = S], Top.phase)
             /\ Advanced([stack EXCEPT ![n].phase = "owners", ![n].todo = S], "owners")
  <2>1. [Top EXCEPT !.todo = S] \in Frame /\ [[Top EXCEPT !.phase = "owners"] EXCEPT !.todo = S] \in Frame
    BY <1>1 DEF Frame
  <2>2. /\ [stack EXCEPT ![n].todo = S] = [stack EXCEPT ![n] = [Top EXCEPT !.todo = S]]
        /\ [stack EXCEPT ![n].phase = "owners", ![n].todo = S]
             = [stack EXCEPT ![n] = [[Top EXCEPT !.phase = "owners"] EXCEPT !.todo = S]]
    BY <1>1
  <2>3. QED
    BY <1>1, <1>2, <2>1, <2>2 DEF Frame
<1>4. Advanced([stack EXCEPT ![n].phase = "after"], "after")
  <2>1. [Top EXCEPT !.phase = "after"] \in Frame
    BY <1>1 DEF Frame
  <2>2. [stack EXCEPT ![n].phase = "after"] = [stack EXCEPT ![n] = [Top EXCEPT !.phase = "after"]]
    BY <1>1
  <2>3. QED
    BY <1>1, <1>2, <2>1, <2>2 DEF Frame
<1>5. QED
  BY <1>3, <1>4

\* An operation that is called runs in a new frame, or its caller has an error.
LEMMA StartMoves ==
  ASSUME NEW d \in Doc, NEW by \in Callers, NEW frames \in Seq(Frame), rollbackOnly \in BOOLEAN,
         Start(d, by, frames)
  PROVE  /\ rollbackOnly' \in BOOLEAN /\ (rollbackOnly => rollbackOnly')
         /\ \/ error' = NoError /\ \E f \in Frame : f.phase = "before" /\ f.by = by /\ stack' = Append(frames, f)
            \/ error' \in [code : Codes, by : {by}] /\ stack' = frames
<1> DEFINE f == [doc |-> d, phase |-> "before", todo |-> {}, by |-> by]
<1>1. f \in Frame /\ f.phase = "before" /\ f.by = by
  BY DEF Frame, Callers
<1>2. Refusal(d) \in Codes \cup {"none"}
  BY DEF Refusal, Codes
<1>3. rollbackOnly' \in BOOLEAN /\ (rollbackOnly => rollbackOnly')
  BY DEF Start, Aborts
<1>4. CASE Refusal(d) = "none"
  BY <1>1, <1>3, <1>4 DEF Start
<1>5. CASE Refusal(d) # "none"
  BY <1>2, <1>3, <1>5 DEF Start
<1>6. QED
  BY <1>4, <1>5

-----------------------------------------------------------------------------
(* The database.                                                             *)

\* The owners that are left are those that refer to the document: a deleted
\* one has no index row.
LEMMA RemainingOwners ==
  ASSUME NEW t \in Doc, Consistent(db)
  PROVE  Remaining(t) = {o \in Doc : o # t /\ <<o, t>> \in db.index}
BY DEF Remaining, OwnersOf, Consistent

\* The row of a document, and the references to it, are gone together.
LEMMA ClearedDatabase ==
  ASSUME NEW t \in Doc, db \in Databases, Consistent(db)
  PROVE  /\ Cleared(t) \in Databases
         /\ Cleared(t).index = {r \in db.index : r[1] # t /\ r[2] # t}
         /\ Consistent(Cleared(t))
<1> DEFINE new == Cleared(t)
<1>1. /\ db.stored \subseteq Doc /\ db.index \subseteq Doc \X Doc
      /\ db.working \in [Doc -> SUBSET Doc] /\ db.live \in [Doc -> SUBSET Doc]
  BY DEF Databases
<1>2. /\ new.stored = db.stored \ {t}
      /\ new.working = [o \in Doc |-> IF o = t THEN {} ELSE Without(t, db.working)[o]]
      /\ new.live = [o \in Doc |-> IF o = t THEN {} ELSE Without(t, db.live)[o]]
      /\ new.index = {r \in db.index : r[1] # t /\ ~(r[2] = t /\ r[1] \in Remaining(t))}
  BY DEF Cleared, WithoutRow
<1>3. new.index = {r \in db.index : r[1] # t /\ r[2] # t}
  <2>1. \A r \in db.index : r[1] \in Doc /\ r = <<r[1], r[2]>>
    BY <1>1
  <2>2. QED
    BY <1>2, <2>1, RemainingOwners
<1>4. \A o \in Doc : /\ new.working[o] = IF o = t THEN {} ELSE db.working[o] \ {t}
                     /\ new.live[o] = IF o = t THEN {} ELSE db.live[o] \ {t}
  <2> TAKE o \in Doc
  <2>1. o \notin Remaining(t) /\ o # t => t \notin db.working[o] \cup db.live[o]
    BY RemainingOwners DEF Consistent
  <2>2. QED
    BY <1>2, <2>1 DEF Without
<1>5. new \in Databases
  <2>1. new.working \in [Doc -> SUBSET Doc] /\ new.live \in [Doc -> SUBSET Doc]
    <3>1. \A o \in Doc : new.working[o] \in SUBSET Doc /\ new.live[o] \in SUBSET Doc
      BY <1>1, <1>4
    <3>2. DOMAIN new.working = Doc /\ new.working = [o \in Doc |-> new.working[o]]
      BY <1>2
    <3>3. DOMAIN new.live = Doc /\ new.live = [o \in Doc |-> new.live[o]]
      BY <1>2
    <3> HIDE DEF new
    <3>4. QED
      BY <3>1, <3>2, <3>3
  <2>2. new.stored \in SUBSET Doc /\ new.index \in SUBSET (Doc \X Doc)
    BY <1>1, <1>2
  <2>3. new = [stored |-> new.stored, working |-> new.working, live |-> new.live, index |-> new.index]
    BY DEF Cleared, WithoutRow
  <2>4. QED
    BY <2>1, <2>2, <2>3 DEF Databases
<1>6. Consistent(new)
  <2>1. ASSUME NEW o \in Doc
        PROVE  new.working[o] \cup new.live[o] = {u \in Doc : <<o, u>> \in new.index}
    <3>1. db.working[o] \cup db.live[o] = {u \in Doc : <<o, u>> \in db.index}
      BY DEF Consistent
    <3>2. QED
      BY <1>3, <1>4, <3>1
  <2>2. \A r \in new.index : r[1] \in new.stored /\ r[2] \in new.stored
    BY <1>2, <1>3 DEF Consistent
  <2>3. QED
    BY <2>1, <2>2 DEF Consistent
<1>7. QED
  BY <1>3, <1>5, <1>6

\* A hook writes the reference in the head and in the index.
LEMMA WrittenDatabase ==
  ASSUME NEW o \in Doc, NEW t \in Doc, db \in Databases, Consistent(db), HookWrites(o, t)
  PROVE  /\ db' \in Databases /\ Consistent(db')
         /\ db'.index = db.index \cup {<<o, t>>}
<1>1. /\ db' = [db EXCEPT !.stored = @ \cup {o}, !.working[o] = @ \cup {t}, !.index = @ \cup {<<o, t>>}]
      /\ t \in db.stored \cup {o}
  BY DEF HookWrites
<1>2. /\ db.stored \subseteq Doc /\ db.index \subseteq Doc \X Doc
      /\ db.working \in [Doc -> SUBSET Doc] /\ db.live \in [Doc -> SUBSET Doc]
      /\ db = [stored |-> db.stored, working |-> db.working, live |-> db.live, index |-> db.index]
  BY DEF Databases
<1>3. db' = [stored |-> db.stored \cup {o}, working |-> [db.working EXCEPT ![o] = @ \cup {t}],
             live |-> db.live, index |-> db.index \cup {<<o, t>>}]
  BY <1>1, <1>2 DEF Databases
<1>4. [db.working EXCEPT ![o] = @ \cup {t}] \in [Doc -> SUBSET Doc]
  BY <1>2
<1>5. db' \in Databases
  BY <1>2, <1>3, <1>4 DEF Databases
<1>6. Consistent(db')
  <2>1. ASSUME NEW p \in Doc
        PROVE  db'.working[p] \cup db'.live[p] = {u \in Doc : <<p, u>> \in db'.index}
    <3>1. db.working[p] \cup db.live[p] = {u \in Doc : <<p, u>> \in db.index}
      BY DEF Consistent
    <3>2. /\ db'.working[p] = IF p = o THEN db.working[p] \cup {t} ELSE db.working[p]
          /\ db'.live[p] = db.live[p] /\ db'.index = db.index \cup {<<o, t>>}
      BY <1>2, <1>3
    <3>3. QED
      BY <3>1, <3>2
  <2>2. \A r \in db'.index : r[1] \in db'.stored /\ r[2] \in db'.stored
    BY <1>1, <1>3 DEF Consistent
  <2>3. QED
    BY <2>1, <2>2 DEF Consistent
<1>7. QED
  BY <1>3, <1>5, <1>6

\* Owners are deleted in the order of their IDs: there is a first one.
LEMMA LeastNumber ==
  ASSUME NEW S \in SUBSET Nat, S # {}
  PROVE  \E n \in S : \A m \in S : n <= m
<1> DEFINE R == OpToRel(<, Nat)
<1>1. R = {p \in Nat \X Nat : p[1] < p[2]}
  BY DEF OpToRel
<1>2. IsWellFoundedOn(R, Nat)
  BY NatLessThanWellFounded
<1> HIDE DEF R
<1>3. PICK n \in S : \A m \in S : ~ (<<m, n>> \in R)
  BY <1>2, WFMin
<1>4. \A m \in S : ~(m < n)
  BY <1>1, <1>3
<1>5. QED
  BY <1>4

-----------------------------------------------------------------------------
(* Types.  TypeInv adds to TypeOK that the frames of the stack say who is     *)
(* told of an error, and that what is marked as being deleted has a frame.    *)

Marks(s, marked, gone) ==
  /\ \A i \in 1 .. Len(s) : s[i].by = "caller" => i = 1
  /\ \A i \in 1 .. Len(s) : s[i].phase = "after" => s[i].doc \in gone
  /\ \A d \in marked : \E i \in 1 .. Len(s) : s[i].doc = d /\ s[i].phase # "before"

CallerFailed == error # NoError /\ error.by = "caller"

StackInv ==
  /\ Marks(stack, pending, deleted)
  /\ CallerFailed => stack = <<>>

TypeInv == TypeOK /\ StackInv /\ Consistent(db) /\ Consistent(before)

\* Marks survive the end of the innermost delete, which is marked no more.
LEMMA MarksOfFront ==
  ASSUME stack \in Seq(Frame), stack # <<>>, NEW gone, Marks(stack, pending, gone)
  PROVE  Marks(Front(stack), Unmarked, gone)
<1> DEFINE n == Len(stack)
           f == Front(stack)
<1>1. n \in Nat \ {0} /\ Top = stack[n] /\ Len(f) = n - 1 /\ \A i \in 1 .. n - 1 : f[i] = stack[i]
  BY StackParts
<1>2. \A d \in Unmarked : d \in pending /\ (Top.phase # "before" => d # Top.doc)
  BY DEF Unmarked
<1>3. ASSUME NEW d \in Unmarked PROVE \E i \in 1 .. Len(f) : f[i].doc = d /\ f[i].phase # "before"
  <2>1. PICK i \in 1 .. n : stack[i].doc = d /\ stack[i].phase # "before"
    BY <1>2 DEF Marks
  <2>2. i # n
    BY <1>1, <1>2, <2>1
  <2>3. i \in 1 .. Len(f)
    BY <1>1, <2>2
  <2>4. QED
    BY <1>1, <2>1, <2>3
<1>4. QED
  BY <1>1, <1>3 DEF Marks

\* Marks survive when the innermost delete goes on.
LEMMA MarksOfAdvanced ==
  ASSUME stack \in Seq(Frame), stack # <<>>, NEW s, NEW phase, Advanced(s, phase),
         NEW gone, NEW marked, Marks(stack, pending, deleted), deleted \subseteq gone,
         phase = "before" => marked \subseteq pending /\ Top.phase = "before",
         phase # "before" => marked \subseteq pending \cup {Top.doc},
         phase = "after" => Top.doc \in gone
  PROVE  Marks(s, marked, gone)
<1> DEFINE n == Len(stack)
<1>1. /\ n \in Nat \ {0} /\ Top = stack[n] /\ Len(s) = n /\ \A i \in 1 .. n - 1 : s[i] = stack[i]
      /\ s[n].doc = Top.doc /\ s[n].by = Top.by /\ s[n].phase = phase
  BY StackParts DEF Advanced
<1>2. \A i \in 1 .. n : i = n \/ s[i] = stack[i]
  BY <1>1
<1>3. \A i \in 1 .. n : s[i].by = "caller" => i = 1
  BY <1>1, <1>2 DEF Marks
<1>4. \A i \in 1 .. n : s[i].phase = "after" => s[i].doc \in gone
  BY <1>1, <1>2 DEF Marks
<1>5. ASSUME NEW d \in marked PROVE \E i \in 1 .. n : s[i].doc = d /\ s[i].phase # "before"
  <2>1. CASE d = Top.doc /\ phase # "before"
    BY <1>1, <2>1
  <2>2. CASE ~(d = Top.doc /\ phase # "before")
    <3>1. d \in pending
      BY <2>2
    <3>2. PICK i \in 1 .. n : stack[i].doc = d /\ stack[i].phase # "before"
      BY <3>1 DEF Marks
    <3>3. i # n
      BY <1>1, <2>2, <3>2
    <3>4. QED
      BY <1>2, <3>2, <3>3
  <2>3. QED
    BY <2>1, <2>2
<1>6. QED
  BY <1>1, <1>3, <1>4, <1>5 DEF Marks

\* Marks survive when a nested operation is called.
LEMMA MarksOfAppend ==
  ASSUME NEW s \in Seq(Frame), Marks(s, pending, deleted), NEW f \in Frame,
         f.phase = "before", f.by = "caller" => s = <<>>
  PROVE  Append(s, f) \in Seq(Frame) /\ Marks(Append(s, f), pending, deleted)
<1> DEFINE n == Len(s)
           a == Append(s, f)
<1>1. a \in Seq(Frame) /\ Len(a) = n + 1 /\ n \in Nat /\ a[n + 1] = f /\ \A i \in 1 .. n : a[i] = s[i]
  OBVIOUS
<1>2. s = <<>> => n = 0
  OBVIOUS
<1>3. \A i \in 1 .. n + 1 : i = n + 1 \/ i \in 1 .. n
  BY <1>1
<1>4. \A i \in 1 .. n : i \in 1 .. n + 1
  BY <1>1
<1>5. QED
  BY <1>1, <1>2, <1>3, <1>4 DEF Marks

\* An operation that fails ends its delete, and whoever ran it has the error.
LEMMA FailStep ==
  ASSUME TypeInv, stack # <<>>, NEW code \in Codes, Fail(code)
  PROVE  /\ stack' \in Seq(Frame) /\ pending' \subseteq Doc /\ rollbackOnly' \in BOOLEAN
         /\ error' \in [code : Codes, by : Callers]
         /\ Marks(stack', pending', deleted)
         /\ rollbackOnly => rollbackOnly'
         /\ IF error'.by = "caller" THEN stack' = <<>> ELSE rollbackOnly'
<1>1. stack \in Seq(Frame) /\ pending \subseteq Doc /\ rollbackOnly \in BOOLEAN /\ Marks(stack, pending, deleted)
  BY DEF TypeInv, TypeOK, StackInv
<1>2. /\ stack' = Front(stack) /\ pending' = Unmarked
      /\ rollbackOnly' = Aborts(Top.by) /\ error' = [code |-> code, by |-> Top.by]
  BY DEF Fail
<1>3. Top \in Frame /\ Top.by \in Callers
  BY <1>1, StackParts DEF Frame, Callers
<1>4. stack' \in Seq(Frame) /\ Marks(stack', pending', deleted)
  BY <1>1, <1>2, StackParts, MarksOfFront
<1>5. Top.by = "caller" => stack' = <<>>
  BY <1>1, <1>2, StackParts DEF Marks
<1>6. pending' \subseteq Doc
  BY <1>1, <1>2 DEF Unmarked
<1>7. QED
  BY <1>1, <1>2, <1>3, <1>4, <1>5, <1>6 DEF Aborts

\* An operation that is called from a stack whose marks hold leaves them.
LEMMA StartStep ==
  ASSUME TypeInv, NEW d \in Doc, NEW by \in Callers, NEW frames \in Seq(Frame),
         Marks(frames, pending, deleted), by = "caller" => frames = <<>>, Start(d, by, frames)
  PROVE  /\ stack' \in Seq(Frame) /\ rollbackOnly' \in BOOLEAN
         /\ error' \in [code : Codes, by : Callers] \cup {NoError}
         /\ Marks(stack', pending, deleted)
         /\ rollbackOnly => rollbackOnly'
         /\ error' # NoError /\ error'.by = "caller" => stack' = <<>>
<1>1. rollbackOnly \in BOOLEAN
  BY DEF TypeInv, TypeOK
<1>2. rollbackOnly' \in BOOLEAN /\ (rollbackOnly => rollbackOnly')
  BY <1>1, StartMoves
<1>3. CASE error' = NoError /\ \E f \in Frame : f.phase = "before" /\ f.by = by /\ stack' = Append(frames, f)
  BY <1>2, <1>3, MarksOfAppend
<1>4. CASE error' \in [code : Codes, by : {by}] /\ stack' = frames
  BY <1>2, <1>4
<1>5. QED
  BY <1>1, <1>3, <1>4, StartMoves

\* The steps of the running deletes, of their hooks and of the transaction keep
\* the types, the marks and the consistency of the database.
LEMMA TypeStep == TypeInv /\ [Next]_vars => TypeInv'
<1> SUFFICES ASSUME TypeInv, [Next]_vars PROVE TypeInv'
  OBVIOUS
<1> USE DEF TypeInv, StackInv, CallerFailed, Running
<1> DEFINE Errors == [code : Codes, by : Callers] \cup {NoError}
<1>1. /\ stack \in Seq(Frame) /\ db \in Databases /\ pending \subseteq Doc /\ deleted \subseteq Doc
      /\ batch \in Seq(Doc) /\ rollbackOnly \in BOOLEAN /\ hooks \in Nat /\ error \in Errors
      /\ Marks(stack, pending, deleted) /\ Consistent(db) /\ Consistent(before)
  BY DEF TypeOK, Callers
<1>2. CASE UNCHANGED vars
  BY <1>2 DEF vars, TypeOK
<1>3. CASE NextRequest
  <2>1. Head(batch) \in Doc /\ batch' \in Seq(Doc) /\ <<>> \in Seq(Frame) /\ stack = <<>>
    BY <1>1, <1>3 DEF NextRequest
  <2>2. Start(Head(batch), "caller", <<>>) /\ "caller" \in Callers
    BY <1>3 DEF NextRequest, Callers
  <2>3. /\ stack' \in Seq(Frame) /\ rollbackOnly' \in BOOLEAN /\ error' \in Errors
        /\ Marks(stack', pending, deleted)
        /\ error' # NoError /\ error'.by = "caller" => stack' = <<>>
    BY <1>1, <2>1, <2>2, StartStep
  <2>4. QED
    BY <1>1, <1>3, <2>1, <2>3 DEF NextRequest, TypeOK, Callers
<1>4. CASE ListOwners
  <2>1. stack # <<>> /\ Top.phase = "before" /\ error = NoError /\ Top \in Frame /\ Top.doc \in Doc
    BY <1>1, <1>4, StackParts DEF ListOwners, Frame
  <2>2. CASE Top.doc \notin db.stored
    <3>1. Fail("not_found") /\ "not_found" \in Codes
      BY <1>4, <2>2 DEF ListOwners, Codes
    <3>2. QED
      BY <1>4, <2>1, <3>1, FailStep DEF ListOwners, TypeOK, Callers
  <2>3. CASE Top.doc \in db.stored
    <3> DEFINE S == CascadeOwnersOf(Top.doc, pending')
    <3>1. /\ pending' = pending \cup {Top.doc}
          /\ stack' = [stack EXCEPT ![Len(stack)].phase = "owners", ![Len(stack)].todo = S]
          /\ UNCHANGED <<rollbackOnly, error>>
      BY <1>4, <2>3 DEF ListOwners
    <3>2. S \in SUBSET Doc
      BY DEF CascadeOwnersOf, OwnersOf
    <3> HIDE DEF S
    <3>3. Advanced(stack', "owners")
      BY <1>1, <2>1, <3>1, <3>2, AdvancedFrames
    <3>4. Marks(stack', pending', deleted)
      <4>1. pending' \subseteq pending \cup {Top.doc} /\ deleted \subseteq deleted
        BY <3>1
      <4>2. \A s : Advanced(s, "owners") => Marks(s, pending', deleted)
        BY <1>1, <2>1, <4>1, MarksOfAdvanced
      <4>3. QED
        BY <3>3, <4>2
    <3>5. QED
      BY <1>1, <1>4, <2>1, <3>1, <3>3, <3>4 DEF ListOwners, TypeOK, Advanced
  <2>4. QED
    BY <2>2, <2>3
<1>5. CASE DeleteOwner
  <2> DEFINE o == NextOwner
             advanced == [stack EXCEPT ![Len(stack)].todo = @ \ {o}]
  <2>1. /\ stack # <<>> /\ Top.phase = "owners" /\ error = NoError
        /\ Top \in Frame /\ Top.todo \subseteq Doc /\ Top.todo # {}
    BY <1>1, <1>5, StackParts DEF DeleteOwner, Frame
  <2>2. o \in Doc
    <3>1. \E p \in Top.todo : \A q \in Top.todo : p <= q
      <4>1. Top.todo \subseteq Nat
        BY <2>1, ReferenceDeletesAssumption
      <4>2. QED
        BY <2>1, <4>1, LeastNumber
    <3>2. QED
      BY <2>1, <3>1 DEF NextOwner
  <2>3. advanced \in Seq(Frame) /\ Marks(advanced, pending, deleted)
    <3>1. Top.todo \ {o} \in SUBSET Doc /\ advanced = [stack EXCEPT ![Len(stack)].todo = Top.todo \ {o}]
      BY <1>1, <2>1, StackParts
    <3>2. Advanced(advanced, "owners")
      BY <1>1, <2>1, <3>1, AdvancedFrames
    <3>3. QED
      BY <1>1, <2>1, <3>2, MarksOfAdvanced DEF Advanced
  <2>4. CASE o \in pending \cup deleted
    <3>1. stack' = advanced /\ UNCHANGED <<error, rollbackOnly>>
      BY <1>5, <2>4 DEF DeleteOwner
    <3>2. QED
      BY <1>1, <1>5, <2>1, <2>3, <3>1 DEF DeleteOwner, TypeOK
  <2>5. CASE o \notin pending \cup deleted
    <3>1. Start(o, "cascade", advanced) /\ "cascade" \in Callers /\ "cascade" # "caller"
      BY <1>5, <2>5 DEF DeleteOwner, Callers
    <3>2. /\ stack' \in Seq(Frame) /\ rollbackOnly' \in BOOLEAN /\ error' \in Errors
          /\ Marks(stack', pending, deleted)
          /\ error' # NoError /\ error'.by = "caller" => stack' = <<>>
      BY <2>2, <2>3, <3>1, StartStep
    <3>3. QED
      BY <1>1, <1>5, <3>2 DEF DeleteOwner, TypeOK, Callers
  <2>6. QED
    BY <2>4, <2>5
<1>6. CASE DeleteRow
  <2>1. stack # <<>> /\ Top.phase = "owners" /\ error = NoError /\ Top \in Frame /\ Top.doc \in Doc
    BY <1>1, <1>6, StackParts DEF DeleteRow, Frame
  <2>2. CASE Blocking(Top.doc) # {} \/ Top.doc \notin db.stored
    <3>1. /\ Fail(IF Blocking(Top.doc) # {} THEN "delete_restricted" ELSE "not_found")
          /\ (IF Blocking(Top.doc) # {} THEN "delete_restricted" ELSE "not_found") \in Codes
          /\ UNCHANGED <<db, deleted>>
      BY <1>6, <2>2 DEF DeleteRow, Codes
    <3>2. QED
      BY <1>6, <2>1, <3>1, FailStep DEF DeleteRow, TypeOK, Callers
  <2>3. CASE ~(Blocking(Top.doc) # {} \/ Top.doc \notin db.stored)
    <3>1. /\ db' = Cleared(Top.doc) /\ deleted' = deleted \cup {Top.doc}
          /\ stack' = [stack EXCEPT ![Len(stack)].phase = "after"]
          /\ UNCHANGED <<pending, rollbackOnly, error>>
      BY <1>6, <2>3 DEF DeleteRow
    <3>2. db' \in Databases /\ Consistent(db')
      BY <1>1, <2>1, <3>1, ClearedDatabase
    <3>3. Advanced(stack', "after")
      BY <1>1, <2>1, <3>1, AdvancedFrames
    <3>4. Marks(stack', pending', deleted')
      BY <1>1, <2>1, <3>1, <3>3, MarksOfAdvanced
    <3>5. QED
      BY <1>1, <1>6, <2>1, <3>1, <3>2, <3>3, <3>4 DEF DeleteRow, TypeOK, Advanced
  <2>4. QED
    BY <2>2, <2>3
<1>7. CASE Return
  <2>1. stack # <<>> /\ stack' = Front(stack) /\ pending' = Unmarked /\ error = NoError
    BY <1>7 DEF Return
  <2>2. stack' \in Seq(Frame) /\ Marks(stack', pending', deleted) /\ pending' \subseteq Doc
    BY <1>1, <2>1, StackParts, MarksOfFront DEF Unmarked
  <2>3. QED
    BY <1>1, <1>7, <2>1, <2>2 DEF Return, TypeOK
<1>8. CASE Handle
  <2>1. stack # <<>> /\ error # NoError /\ error.code \in Codes /\ "hook_failed" \in Codes
    BY <1>1, <1>8 DEF Handle, Codes
  <2>2. CASE error' = NoError /\ UNCHANGED <<stack, pending, rollbackOnly>>
    BY <1>8, <2>2 DEF Handle, TypeOK
  <2>3. ASSUME NEW code \in Codes, Fail(code) PROVE TypeInv'
    BY <1>8, <2>1, <2>3, FailStep DEF Handle, TypeOK, Callers
  <2>4. QED
    BY <1>8, <2>1, <2>2, <2>3 DEF Handle
<1>9. CASE Rollback
  BY <1>1, <1>9 DEF Rollback, TypeOK, NoError
<1>10. CASE Commit
  BY <1>1, <1>10 DEF Commit, TypeOK, Codes
<1>11. ASSUME NEW d \in Doc, HookDeletes(d) PROVE TypeInv'
  <2>1. Start(d, "hook", stack) /\ "hook" \in Callers /\ "hook" # "caller"
    BY <1>11 DEF HookDeletes, Callers
  <2>2. /\ stack' \in Seq(Frame) /\ rollbackOnly' \in BOOLEAN /\ error' \in Errors
        /\ Marks(stack', pending, deleted)
        /\ error' # NoError /\ error'.by = "caller" => stack' = <<>>
    BY <1>1, <2>1, StartStep
  <2>3. hooks' \in Nat
    BY <1>1, <1>11 DEF HookDeletes, HookRuns
  <2>4. asked' \in [deletes : SUBSET Doc, writes : SUBSET (Doc \X Doc), hooked : BOOLEAN]
    BY <1>11 DEF HookDeletes, TypeOK
  <2>5. QED
    BY <1>1, <1>11, <2>2, <2>3, <2>4 DEF HookDeletes, TypeOK, Callers
<1>12. ASSUME NEW o \in Doc, NEW t \in Doc, HookWrites(o, t) PROVE TypeInv'
  <2>1. db' \in Databases /\ Consistent(db')
    BY <1>1, <1>12, WrittenDatabase
  <2>2. hooks' \in Nat
    BY <1>1, <1>12 DEF HookWrites, HookRuns
  <2>3. asked' \in [deletes : SUBSET Doc, writes : SUBSET (Doc \X Doc), hooked : BOOLEAN]
    <3>1. asked' = [asked EXCEPT !.writes = @ \cup {<<o, t>>}, !.hooked = TRUE]
      BY <1>12 DEF HookWrites
    <3>2. asked.writes \cup {<<o, t>>} \in SUBSET (Doc \X Doc)
      BY DEF TypeOK
    <3>3. QED
      BY <3>1, <3>2 DEF TypeOK
  <2>4. QED
    BY <1>1, <1>12, <2>1, <2>2, <2>3 DEF HookWrites, TypeOK
<1>13. QED
  BY <1>2, <1>3, <1>4, <1>5, <1>6, <1>7, <1>8, <1>9, <1>10, <1>11, <1>12 DEF Next

-----------------------------------------------------------------------------
(* What becomes of a reference.  RowInv: as long as the transaction may       *)
(* commit, the row of a reference it has seen is there, or its owner was      *)
(* deleted, or its field is cleared, or the delete of its owner cascades and  *)
(* is still running.                                                          *)

\* The transaction will not commit.
Doomed == rollbackOnly \/ CallerFailed

Accounted(r) ==
  \/ r \in db.index
  \/ r[1] \in deleted
  \/ policy[r[1]][r[2]] = "nullify"
  \/ policy[r[1]][r[2]] = "cascade" /\ r[1] \in pending

RowInv ==
  /\ outcome = "running" => Doomed \/ \A r \in RowsSeen : Accounted(r)
  /\ outcome = "committed" => pending = {} /\ \A r \in RowsSeen : Accounted(r)

\* A failed operation dooms the transaction: its caller has the error, or it is
\* marked.
LEMMA FailDooms ==
  ASSUME TypeInv, stack # <<>>, NEW code \in Codes, Fail(code)
  PROVE  Doomed'
<1>1. error' \in [code : Codes, by : Callers] /\ IF error'.by = "caller" THEN TRUE ELSE rollbackOnly'
  BY FailStep
<1>2. error'.code \in Codes /\ "none" \notin Codes
  BY <1>1 DEF Codes
<1>3. error' # NoError
  BY <1>2 DEF NoError
<1>4. QED
  BY <1>1, <1>3 DEF Doomed, CallerFailed

\* The transaction is running: every step but a commit leaves it doomed, or the
\* rows accounted for.
LEMMA RowStep == TypeInv /\ RowInv /\ [Next]_vars => RowInv'
<1> SUFFICES ASSUME TypeInv, RowInv, [Next]_vars PROVE RowInv'
  OBVIOUS
<1>1. /\ stack \in Seq(Frame) /\ db \in Databases /\ Consistent(db) /\ before \in Databases
      /\ policy \in [Doc -> [Doc -> Policies]] /\ rollbackOnly \in BOOLEAN
      /\ asked.writes \subseteq Doc \X Doc
      /\ CallerFailed => stack = <<>>
  BY DEF TypeInv, TypeOK, StackInv
<1>2. \A r \in RowsSeen : r[1] \in Doc /\ r[2] \in Doc /\ r = <<r[1], r[2]>>
  <2>1. RowsSeen \subseteq Doc \X Doc
    BY <1>1 DEF RowsSeen, Databases
  <2>2. QED
    BY <2>1
<1>3. CASE UNCHANGED vars
  BY <1>3 DEF vars, RowInv, Doomed, CallerFailed, RowsSeen, Accounted
<1>4. ASSUME outcome = "running", outcome' = "running", Doomed => Doomed',
             Doomed' \/ \A r \in RowsSeen' : (r \in RowsSeen /\ (Accounted(r) => Accounted(r)')) \/ Accounted(r)'
      PROVE  RowInv'
  BY <1>4 DEF RowInv
<1>5. ASSUME outcome = "running", outcome' = "running", UNCHANGED <<policy, db, before, deleted, asked>>,
             rollbackOnly => rollbackOnly', ~CallerFailed, pending \subseteq pending'
      PROVE  RowInv'
  BY <1>4, <1>5 DEF Accounted, RowsSeen, Doomed
<1>6. CASE NextRequest
  <2>1. Start(Head(batch), "caller", <<>>) /\ <<>> \in Seq(Frame) /\ Head(batch) \in Doc /\ "caller" \in Callers
    BY <1>6 DEF NextRequest, TypeInv, TypeOK, Callers
  <2>2. rollbackOnly => rollbackOnly'
    BY <1>1, <2>1, StartMoves
  <2>3. QED
    BY <1>5, <1>6, <2>2 DEF NextRequest, Running, CallerFailed
<1>7. CASE ListOwners
  <2>1. stack # <<>> /\ outcome = "running" /\ outcome' = "running" /\ ~CallerFailed
    BY <1>7 DEF ListOwners, Running, CallerFailed
  <2>2. CASE Top.doc \notin db.stored
    <3>1. Fail("not_found") /\ "not_found" \in Codes
      BY <1>7, <2>2 DEF ListOwners, Codes
    <3>2. QED
      BY <2>1, <3>1, FailDooms, <1>4
  <2>3. CASE Top.doc \in db.stored
    BY <1>5, <1>7, <2>1, <2>3 DEF ListOwners
  <2>4. QED
    BY <2>2, <2>3
<1>8. CASE DeleteOwner
  <2>1. rollbackOnly => rollbackOnly'
    BY <1>1, <1>8 DEF DeleteOwner, Start, Aborts
  <2>2. QED
    BY <1>5, <1>8, <2>1 DEF DeleteOwner, Running, CallerFailed
<1>9. CASE DeleteRow
  <2>1. /\ stack # <<>> /\ outcome = "running" /\ outcome' = "running" /\ ~CallerFailed
        /\ Top \in Frame /\ Top.doc \in Doc
    BY <1>1, <1>9, StackParts DEF DeleteRow, Running, CallerFailed, Frame
  <2>2. CASE Blocking(Top.doc) # {} \/ Top.doc \notin db.stored
    <3>1. /\ Fail(IF Blocking(Top.doc) # {} THEN "delete_restricted" ELSE "not_found")
          /\ (IF Blocking(Top.doc) # {} THEN "delete_restricted" ELSE "not_found") \in Codes
      BY <1>9, <2>2 DEF DeleteRow, Codes
    <3>2. QED
      BY <2>1, <3>1, FailDooms, <1>4
  <2>3. CASE ~(Blocking(Top.doc) # {} \/ Top.doc \notin db.stored)
    <3>1. /\ db' = Cleared(Top.doc) /\ deleted' = deleted \cup {Top.doc}
          /\ UNCHANGED <<policy, before, asked, pending, rollbackOnly, error>>
      BY <1>9, <2>3 DEF DeleteRow
    <3>2. db'.index = {r \in db.index : r[1] # Top.doc /\ r[2] # Top.doc}
      BY <1>1, <2>1, <3>1, ClearedDatabase
    <3>3. ASSUME NEW r \in RowsSeen, r \in db.index, r[1] # Top.doc, r[2] = Top.doc
          PROVE  policy[r[1]][r[2]] = "nullify" \/ (policy[r[1]][r[2]] = "cascade" /\ r[1] \in pending)
      <4>1. r[1] \in Remaining(Top.doc)
        BY <1>1, <1>2, <2>1, <3>3, RemainingOwners
      <4>2. policy[r[1]][r[2]] \in Policies
        BY <1>1, <1>2
      <4>3. QED
        BY <2>3, <3>3, <4>1, <4>2 DEF Blocking, Policies
    <3>4. ASSUME NEW r \in RowsSeen, Accounted(r) PROVE Accounted(r)'
      BY <3>1, <3>2, <3>3, <3>4 DEF Accounted
    <3>5. RowsSeen' = RowsSeen /\ (Doomed => Doomed')
      BY <3>1 DEF RowsSeen, Doomed, CallerFailed
    <3>6. QED
      BY <1>4, <2>1, <3>4, <3>5
  <2>4. QED
    BY <2>2, <2>3
<1>10. CASE Return
  <2>1. /\ outcome = "running" /\ outcome' = "running" /\ stack # <<>> /\ Top.phase = "after"
        /\ pending' = Unmarked /\ UNCHANGED <<policy, db, before, deleted, asked, rollbackOnly, error>>
    BY <1>10 DEF Return, Running
  <2>2. Top.doc \in deleted
    BY <1>1, <2>1, StackParts DEF TypeInv, StackInv, Marks
  <2>3. ASSUME NEW r \in RowsSeen, Accounted(r) PROVE Accounted(r)'
    BY <2>1, <2>2, <2>3 DEF Accounted, Unmarked
  <2>4. QED
    BY <1>4, <2>1, <2>3 DEF RowsSeen, Doomed, CallerFailed
<1>11. CASE Handle
  <2>1. /\ outcome = "running" /\ outcome' = "running" /\ stack # <<>> /\ ~CallerFailed
        /\ error.code \in Codes /\ "hook_failed" \in Codes
    BY <1>1, <1>11 DEF Handle, Codes, TypeInv, TypeOK
  <2>2. CASE error' = NoError /\ UNCHANGED <<stack, pending, rollbackOnly>>
    BY <1>5, <1>11, <2>1, <2>2 DEF Handle
  <2>3. ASSUME NEW code \in Codes, Fail(code) PROVE RowInv'
    BY <1>4, <2>1, <2>3, FailDooms
  <2>4. QED
    BY <1>11, <2>1, <2>2, <2>3 DEF Handle
<1>12. CASE Rollback
  <2>1. outcome' \notin {"running", "committed"}
    <3>1. error \in [code : Codes, by : Callers] /\ error.code \in Codes /\ outcome' = error.code
      BY <1>12 DEF Rollback, TypeInv, TypeOK, Callers
    <3>2. QED
      BY <3>1 DEF Codes
  <2>2. QED
    BY <2>1 DEF RowInv
<1>13. CASE Commit
  <2>1. CASE rollbackOnly
    BY <1>13, <2>1 DEF Commit, RowInv
  <2>2. CASE ~rollbackOnly
    <3>1. stack = <<>> /\ outcome = "running" /\ ~CallerFailed /\ outcome' = "committed"
      BY <1>13, <2>2 DEF Commit, Running, CallerFailed
    <3>2. UNCHANGED <<policy, db, before, deleted, asked, pending>>
      BY <1>13, <2>2 DEF Commit
    <3>3. pending = {}
      BY <3>1 DEF TypeInv, StackInv, Marks
    <3>4. \A r \in RowsSeen : Accounted(r)
      BY <2>2, <3>1 DEF RowInv, Doomed
    <3>5. QED
      BY <3>1, <3>2, <3>3, <3>4 DEF RowInv, RowsSeen, Accounted
  <2>3. QED
    BY <2>1, <2>2
<1>14. ASSUME NEW d \in Doc, HookDeletes(d) PROVE RowInv'
  <2>1. rollbackOnly => rollbackOnly'
    BY <1>1, <1>14 DEF HookDeletes, Start, Aborts
  <2>2. /\ outcome = "running" /\ outcome' = "running" /\ ~CallerFailed /\ asked'.writes = asked.writes
        /\ UNCHANGED <<policy, db, before, deleted, pending>>
    BY <1>14 DEF HookDeletes, HookRuns, Running, CallerFailed, TypeInv, TypeOK
  <2>3. QED
    BY <1>4, <2>1, <2>2 DEF Accounted, RowsSeen, Doomed
<1>15. ASSUME NEW o \in Doc, NEW t \in Doc, HookWrites(o, t) PROVE RowInv'
  <2>1. db'.index = db.index \cup {<<o, t>>}
    BY <1>1, <1>15, WrittenDatabase
  <2>2. /\ outcome = "running" /\ outcome' = "running" /\ ~CallerFailed
        /\ UNCHANGED <<policy, before, deleted, pending, rollbackOnly, error>>
    BY <1>15 DEF HookWrites, HookRuns, Running, CallerFailed
  <2>3. asked'.writes = asked.writes \cup {<<o, t>>}
    BY <1>15 DEF HookWrites, TypeInv, TypeOK
  <2>4. QED
    BY <1>4, <2>1, <2>2, <2>3 DEF Accounted, RowsSeen, Doomed, CallerFailed
<1>16. QED
  BY <1>3, <1>6, <1>7, <1>8, <1>9, <1>10, <1>11, <1>12, <1>13, <1>14, <1>15 DEF Next

\* The transaction as it is begun.
LEMMA TransactionStart == Init => TypeInv /\ RowInv
<1> SUFFICES ASSUME Init PROVE TypeInv /\ RowInv
  OBVIOUS
<1>1. /\ policy \in [Doc -> [Doc -> Policies]] /\ db \in Databases /\ before = db
      /\ hooks \in Nat /\ Consistent(db)
  BY ReferenceDeletesAssumption DEF Init
<1>2. batch \in Seq(Doc) /\ ToSet(batch) \subseteq Doc
  BY ReferenceDeletesAssumption DEF Init, ToSet
<1>3. /\ stack = <<>> /\ pending = {} /\ deleted = {} /\ rollbackOnly = FALSE
      /\ error = NoError /\ outcome = "running"
  BY DEF Init
<1>4. asked = [deletes |-> ToSet(batch), writes |-> {}, hooked |-> FALSE]
  BY DEF Init
<1>5. TypeOK
  <2>1. asked \in [deletes : SUBSET Doc, writes : SUBSET (Doc \X Doc), hooked : BOOLEAN]
    <3>1. ToSet(batch) \in SUBSET Doc /\ {} \in SUBSET (Doc \X Doc) /\ FALSE \in BOOLEAN
      BY <1>2
    <3>2. QED
      BY <1>4, <3>1, Zenon
  <2>2. stack \in Seq(Frame) /\ rollbackOnly \in BOOLEAN
    <3>1. <<>> \in Seq(Frame)
      OBVIOUS
    <3>2. stack = <<>> /\ rollbackOnly = FALSE
      BY <1>3
    <3>3. QED
      BY <3>1, <3>2, Zenon
  <2>3. before \in Databases /\ pending \subseteq Doc /\ deleted \subseteq Doc
    BY <1>1, <1>3
  <2>4. /\ error \in [code : Codes, by : Callers] \cup {NoError}
        /\ outcome \in {"running", "committed"} \cup Codes
    BY <1>3
  <2>5. QED
    BY <1>1, <1>2, <2>1, <2>2, <2>3, <2>4, Zenon DEF TypeOK, Callers
<1>6. StackInv
  BY <1>3 DEF StackInv, Marks, CallerFailed
<1>7. RowInv
  BY <1>1, <1>3, <1>4 DEF RowInv, RowsSeen, Accounted
<1>8. QED
  BY <1>1, <1>5, <1>6, <1>7 DEF TypeInv

-----------------------------------------------------------------------------
(* Who is deleted.  OwnedInv: as long as the transaction may commit, what was *)
(* deleted and what is being deleted belongs to the trees of the documents    *)
(* that were asked for; the owners that a running delete has listed refer to  *)
(* its document.                                                              *)

\* The documents whose deletes run.
Docs(s) == {s[i].doc : i \in 1 .. Len(s)}

\* Deleted, or being deleted.
Basis == deleted \cup Docs(stack)

\* Owners wait for their delete in the frame of a document they refer to.
Listed(s) ==
  \A i \in 1 .. Len(s) : \A o \in s[i].todo :
    <<o, s[i].doc>> \in RowsSeen /\ policy[o][s[i].doc] = "cascade"

\* Basis is in the trees of those that were asked for.
TreeInv == Basis \subseteq Tree(asked.deletes \cap Basis, {r \in RowsSeen : r[2] \in Basis})

OwnedInv ==
  /\ outcome = "running" =>
       /\ ToSet(batch) \subseteq asked.deletes
       /\ db.index \subseteq RowsSeen
       /\ Listed(stack)
       /\ Doomed \/ TreeInv
  /\ OnlyOwnedDocumentsGo

\* A set that holds the documents asked for, and with a document its owners.
Owned(S, D, R) ==
  /\ D \subseteq S
  /\ \A r \in R : r[2] \in S /\ policy[r[1]][r[2]] = "cascade" => r[1] \in S

\* The tree is in each such set.
LEMMA TreeIsLeast ==
  ASSUME NEW D, NEW R
  PROVE  Tree(D, R) = {d \in Doc : \A S \in SUBSET Doc : Owned(S, D, R) => d \in S}
BY Zenon DEF Tree, Owned

\* The trees grow with what is asked for and what is seen: who joins Basis was
\* asked for or refers to one of Basis by a cascade field.
LEMMA TreeStep ==
  ASSUME TreeInv, policy' = policy, Basis' \subseteq Doc, Basis \subseteq Basis',
         asked.deletes \subseteq asked'.deletes, RowsSeen \subseteq RowsSeen',
         \A d \in Basis' \ Basis :
           d \in asked'.deletes \/ \E t \in Basis : <<d, t>> \in RowsSeen' /\ policy[d][t] = "cascade"
  PROVE  TreeInv'
<1> DEFINE D == asked.deletes \cap Basis
           R == {r \in RowsSeen : r[2] \in Basis}
           E == asked'.deletes \cap Basis'
           Q == {r \in RowsSeen' : r[2] \in Basis'}
<1>1. ASSUME NEW d \in Basis', NEW S \in SUBSET Doc,
             E \subseteq S,
             \A r \in Q : r[2] \in S /\ policy[r[1]][r[2]] = "cascade" => r[1] \in S
      PROVE  d \in S
  <2>1. Owned(S, D, R)
    BY <1>1 DEF Owned
  <2>2. Basis \subseteq S
    <3>1. Basis \subseteq {b \in Doc : \A T \in SUBSET Doc : Owned(T, D, R) => b \in T}
      BY TreeIsLeast DEF TreeInv
    <3>2. QED
      BY <2>1, <3>1
  <2>3. CASE d \in Basis
    BY <2>2, <2>3
  <2>4. CASE d \notin Basis /\ d \in asked'.deletes
    BY <1>1, <2>4
  <2>5. CASE d \notin Basis /\ d \notin asked'.deletes
    <3>1. PICK t \in Basis : <<d, t>> \in RowsSeen' /\ policy[d][t] = "cascade"
      BY <2>5
    <3>2. <<d, t>> \in Q /\ <<d, t>>[1] = d /\ <<d, t>>[2] = t /\ t \in S
      BY <2>2, <3>1
    <3>3. QED
      BY <1>1, <3>1, <3>2
  <2>6. QED
    BY <2>3, <2>4, <2>5
<1>2. \A d \in Basis' : d \in Tree(asked.deletes \cap Basis, {r \in RowsSeen : r[2] \in Basis})'
  <2>1. \A d \in Basis' : \A S \in SUBSET Doc :
          /\ E \subseteq S
          /\ \A r \in Q : r[2] \in S /\ policy'[r[1]][r[2]] = "cascade" => r[1] \in S
          => d \in S
    BY <1>1
  <2>2. QED
    BY <2>1 DEF Tree
<1>3. QED
  BY <1>2 DEF TreeInv

\* A frame that goes on keeps its document and the other frames.
LEMMA DocsOfAdvanced ==
  ASSUME stack \in Seq(Frame), stack # <<>>, NEW s, NEW phase, Advanced(s, phase)
  PROVE  /\ Docs(s) = Docs(stack)
         /\ (Listed(stack) /\ \A o \in s[Len(stack)].todo :
               <<o, Top.doc>> \in RowsSeen /\ policy[o][Top.doc] = "cascade") => Listed(s)
<1> DEFINE n == Len(stack)
<1>1. /\ n \in Nat \ {0} /\ Top = stack[n] /\ Len(s) = n
      /\ \A i \in 1 .. n - 1 : s[i] = stack[i]
      /\ s[n].doc = Top.doc
  BY StackParts DEF Advanced
<1>2. \A i \in 1 .. n : i = n \/ s[i] = stack[i]
  BY <1>1
<1>3. \A i \in 1 .. n : s[i].doc = stack[i].doc
  BY <1>1, <1>2
<1>4. Docs(s) = Docs(stack)
  BY <1>1, <1>3 DEF Docs
<1>5. ASSUME Listed(stack), \A o \in s[n].todo :
               <<o, Top.doc>> \in RowsSeen /\ policy[o][Top.doc] = "cascade"
      PROVE  Listed(s)
  BY <1>1, <1>2, <1>5 DEF Listed
<1>6. QED
  BY <1>4, <1>5

\* The owners of the innermost frame, when it lists them, goes on with one less
\* and is over.
LEMMA TodoOfTop ==
  ASSUME stack \in Seq(Frame), stack # <<>>
  PROVE  /\ \A S : /\ [stack EXCEPT ![Len(stack)].todo = S][Len(stack)].todo = S
                   /\ [stack EXCEPT ![Len(stack)].phase = "owners",
                                    ![Len(stack)].todo = S][Len(stack)].todo = S
         /\ [stack EXCEPT ![Len(stack)].phase = "after"][Len(stack)].todo = Top.todo
<1>1. Len(stack) \in 1 .. Len(stack) /\ Top = stack[Len(stack)] /\ Top \in Frame
  BY StackParts
<1>2. QED
  BY <1>1 DEF Frame

\* The innermost frame leaves.
LEMMA DocsOfFront ==
  ASSUME stack \in Seq(Frame), stack # <<>>
  PROVE  /\ Docs(stack) = Docs(Front(stack)) \cup {Top.doc}
         /\ Listed(stack) => Listed(Front(stack))
<1> DEFINE n == Len(stack)
           f == Front(stack)
<1>1. n \in Nat \ {0} /\ Top = stack[n] /\ Len(f) = n - 1 /\ \A i \in 1 .. n - 1 : f[i] = stack[i]
  BY StackParts
<1>2. \A i \in 1 .. n : i = n \/ i \in 1 .. n - 1
  BY <1>1
<1>3. \A i \in 1 .. n - 1 : i \in 1 .. n
  BY <1>1
<1>4. n \in 1 .. n
  BY <1>1
<1> HIDE DEF f, n
<1>5. Docs(stack) = Docs(f) \cup {Top.doc}
  <2>1. Docs(stack) = {stack[i].doc : i \in 1 .. n} /\ Docs(f) = {f[i].doc : i \in 1 .. n - 1}
    BY <1>1 DEF Docs, n
  <2>2. \A d \in Docs(stack) : d \in Docs(f) \cup {Top.doc}
    BY <1>1, <1>2, <2>1
  <2>3. \A d \in Docs(f) \cup {Top.doc} : d \in Docs(stack)
    BY <1>1, <1>3, <1>4, <2>1
  <2>4. QED
    BY <2>2, <2>3
<1>6. Listed(stack) => Listed(f)
  BY <1>1, <1>3 DEF Listed, n
<1>7. QED
  BY <1>5, <1>6 DEF f

\* A delete that is called has a frame without owners, or changes no frame.
LEMMA DocsOfStart ==
  ASSUME NEW d \in Doc, NEW by \in Callers, NEW frames \in Seq(Frame), Start(d, by, frames)
  PROVE  /\ stack' = frames \/ Docs(stack') = Docs(frames) \cup {d}
         /\ Listed(frames) => Listed(stack')
<1> DEFINE f == [doc |-> d, phase |-> "before", todo |-> {}, by |-> by]
           n == Len(frames)
           a == Append(frames, f)
<1>1. stack' = frames \/ stack' = a
  BY DEF Start
<1>2. f \in Frame /\ f.doc = d /\ f.todo = {}
  BY DEF Frame, Callers
<1> HIDE DEF f
<1>3. n \in Nat /\ Len(a) = n + 1 /\ a[n + 1] = f /\ \A i \in 1 .. n : a[i] = frames[i]
  BY <1>2
<1>4. /\ \A i \in 1 .. n + 1 : i = n + 1 \/ i \in 1 .. n
      /\ \A i \in 1 .. n : i \in 1 .. n + 1
      /\ n + 1 \in 1 .. n + 1
  BY <1>3
<1> HIDE DEF a, n
<1>5. Docs(a) = Docs(frames) \cup {d}
  <2>1. Docs(a) = {a[i].doc : i \in 1 .. n + 1} /\ Docs(frames) = {frames[i].doc : i \in 1 .. n}
    BY <1>3 DEF Docs, n
  <2>2. \A e \in Docs(a) : e \in Docs(frames) \cup {d}
    BY <1>2, <1>3, <1>4, <2>1
  <2>3. \A e \in Docs(frames) \cup {d} : e \in Docs(a)
    BY <1>2, <1>3, <1>4, <2>1
  <2>4. QED
    BY <2>2, <2>3
<1>6. ASSUME Listed(frames) PROVE Listed(a)
  BY <1>2, <1>3, <1>4, <1>6 DEF Listed, n
<1>7. QED
  BY <1>1, <1>5, <1>6

\* The frames delete documents.
LEMMA DocsTyped ==
  ASSUME NEW s \in Seq(Frame)
  PROVE  Docs(s) \subseteq Doc
<1>1. \A i \in 1 .. Len(s) : s[i] \in Frame
  OBVIOUS
<1>2. \A f \in Frame : f.doc \in Doc
  BY DEF Frame
<1>3. QED
  BY <1>1, <1>2 DEF Docs

\* A step of the running transaction that keeps what was asked for and seen.
LEMMA OwnedKept ==
  ASSUME TypeInv', OwnedInv, outcome = "running", outcome' = "running", policy' = policy,
         ToSet(batch') \subseteq asked'.deletes,
         asked.deletes \subseteq asked'.deletes, RowsSeen \subseteq RowsSeen',
         db'.index \subseteq RowsSeen', Listed(stack'), Doomed => Doomed',
         \/ Doomed'
         \/ /\ Basis \subseteq Basis'
            /\ \A d \in Basis' \ Basis :
                 d \in asked'.deletes \/ \E t \in Basis : <<d, t>> \in RowsSeen' /\ policy[d][t] = "cascade"
  PROVE  OwnedInv'
<1>1. Basis' \subseteq Doc
  <2>1. stack' \in Seq(Frame) /\ deleted' \subseteq Doc
    BY DEF TypeInv, TypeOK
  <2>2. Docs(stack') \subseteq Doc
    BY <2>1, DocsTyped
  <2>3. QED
    BY <2>1, <2>2 DEF Basis, Docs
<1>2. Doomed' \/ TreeInv'
  BY <1>1, TreeStep DEF OwnedInv
<1>3. Listed(stack)'
  BY DEF Listed
<1>4. QED
  BY <1>2, <1>3 DEF OwnedInv, OnlyOwnedDocumentsGo

\* The deletes of the transaction, its hooks and its end keep OwnedInv.
LEMMA OwnedStep == TypeInv /\ OwnedInv /\ [Next]_vars => OwnedInv'
<1> SUFFICES ASSUME TypeInv, OwnedInv, [Next]_vars PROVE OwnedInv'
  OBVIOUS
<1>1. /\ stack \in Seq(Frame) /\ batch \in Seq(Doc) /\ db \in Databases /\ Consistent(db)
      /\ rollbackOnly \in BOOLEAN /\ deleted \subseteq Doc
      /\ CallerFailed => stack = <<>>
  BY DEF TypeInv, TypeOK, StackInv
<1>2. TypeInv'
  BY TypeStep
<1>3. CASE UNCHANGED vars
  BY <1>3 DEF vars, OwnedInv, OnlyOwnedDocumentsGo, Doomed, CallerFailed, TreeInv, Basis, Docs, Listed,
     RowsSeen, Tree
<1>4. outcome = "running" =>
        ToSet(batch) \subseteq asked.deletes /\ db.index \subseteq RowsSeen /\ Listed(stack)
  BY DEF OwnedInv
<1>5. ASSUME outcome = "running", outcome' = "running", UNCHANGED <<policy, before, batch, asked>>,
             db'.index \subseteq db.index, Listed(stack'), Doomed => Doomed',
             \/ Doomed'
             \/ /\ Basis \subseteq Basis'
                /\ \A d \in Basis' \ Basis : \E t \in Basis : <<d, t>> \in RowsSeen /\ policy[d][t] = "cascade"
      PROVE  OwnedInv'
  <2>1. RowsSeen' = RowsSeen
    BY <1>5 DEF RowsSeen
  <2>2. QED
    BY <1>2, <1>4, <1>5, <2>1, OwnedKept
<1>6. ASSUME outcome = "running", outcome' = "running", UNCHANGED <<policy, db, before, batch, asked>>,
             stack # <<>>, ~CallerFailed, NEW code \in Codes, Fail(code)
      PROVE  OwnedInv'
  <2>1. Doomed'
    BY <1>6, FailDooms
  <2>2. Listed(stack')
    BY <1>1, <1>4, <1>6, DocsOfFront DEF Fail
  <2>3. QED
    BY <1>5, <1>6, <2>1, <2>2
<1>7. CASE NextRequest
  <2>1. /\ outcome = "running" /\ outcome' = "running" /\ ~CallerFailed
        /\ stack = <<>> /\ batch # <<>> /\ batch' = Tail(batch) /\ UNCHANGED <<policy, db, before, asked, deleted>>
        /\ Start(Head(batch), "caller", <<>>) /\ <<>> \in Seq(Frame) /\ "caller" \in Callers
    BY <1>7 DEF NextRequest, Running, CallerFailed, Callers
  <2>2. /\ Head(batch) \in Doc /\ Head(batch) \in ToSet(batch)
        /\ ToSet(Tail(batch)) \subseteq ToSet(batch)
    BY <1>1, <2>1 DEF ToSet
  <2>3. Listed(<<>>) /\ Docs(<<>>) = {}
    BY DEF Listed, Docs
  <2>4. Listed(stack') /\ (stack' = <<>> \/ Docs(stack') = {Head(batch)})
    BY <2>1, <2>2, <2>3, DocsOfStart
  <2>5. Basis = deleted /\ (Basis' = deleted \/ Basis' = deleted \cup {Head(batch)})
    BY <2>1, <2>3, <2>4 DEF Basis, Docs
  <2>6. rollbackOnly => rollbackOnly'
    BY <1>1, <2>1, <2>2, StartMoves
  <2>7. Doomed => Doomed'
    BY <2>1, <2>6 DEF Doomed
  <2>8. RowsSeen' = RowsSeen
    BY <2>1 DEF RowsSeen
  <2>9. QED
    BY <1>2, <1>4, <2>1, <2>2, <2>4, <2>5, <2>7, <2>8, OwnedKept
<1>8. CASE ListOwners
  <2>1. /\ stack # <<>> /\ outcome = "running" /\ outcome' = "running" /\ ~CallerFailed
        /\ Top \in Frame /\ Top.doc \in Doc /\ UNCHANGED <<policy, db, before, batch, asked, deleted>>
    BY <1>1, <1>8, StackParts DEF ListOwners, Running, CallerFailed, Frame
  <2>2. CASE Top.doc \notin db.stored
    <3>1. Fail("not_found") /\ "not_found" \in Codes
      BY <1>8, <2>2 DEF ListOwners, Codes
    <3>2. QED
      BY <1>6, <2>1, <3>1
  <2>3. CASE Top.doc \in db.stored
    <3> DEFINE S == CascadeOwnersOf(Top.doc, pending')
    <3>1. /\ stack' = [stack EXCEPT ![Len(stack)].phase = "owners", ![Len(stack)].todo = S]
          /\ UNCHANGED <<rollbackOnly, error>>
      BY <1>8, <2>3 DEF ListOwners
    <3>2. S \in SUBSET Doc /\ \A o \in S : <<o, Top.doc>> \in db.index /\ policy[o][Top.doc] = "cascade"
      BY DEF CascadeOwnersOf, OwnersOf
    <3> HIDE DEF S
    <3>3. Advanced(stack', "owners") /\ stack'[Len(stack)].todo = S
      BY <1>1, <2>1, <3>1, <3>2, AdvancedFrames, TodoOfTop
    <3>4. Docs(stack') = Docs(stack) /\ Listed(stack')
      BY <1>1, <1>4, <2>1, <3>2, <3>3, DocsOfAdvanced
    <3>5. Basis' = Basis /\ (Doomed => Doomed')
      BY <2>1, <3>1, <3>4 DEF Basis, Docs, Doomed, CallerFailed
    <3>6. QED
      BY <1>5, <2>1, <3>4, <3>5
  <2>4. QED
    BY <2>2, <2>3
<1>9. CASE DeleteOwner
  <2> DEFINE o == NextOwner
             advanced == [stack EXCEPT ![Len(stack)].todo = @ \ {o}]
  <2>1. /\ stack # <<>> /\ outcome = "running" /\ outcome' = "running" /\ ~CallerFailed
        /\ Top \in Frame /\ Top.doc \in Doc /\ Top.todo \subseteq Doc /\ Top.todo # {}
        /\ UNCHANGED <<policy, db, before, batch, asked, deleted>>
    BY <1>1, <1>9, StackParts DEF DeleteOwner, Running, CallerFailed, Frame
  <2>2. o \in Top.todo /\ o \in Doc
    <3>1. \E p \in Top.todo : \A q \in Top.todo : p <= q
      <4>1. Top.todo \subseteq Nat
        BY <2>1, ReferenceDeletesAssumption
      <4>2. QED
        BY <2>1, <4>1, LeastNumber
    <3>2. QED
      BY <2>1, <3>1 DEF NextOwner
  <2>3. /\ Top.todo \ {o} \in SUBSET Doc
        /\ advanced = [stack EXCEPT ![Len(stack)].todo = Top.todo \ {o}]
    BY <1>1, <2>1, StackParts
  <2>4. Start(o, "cascade", advanced) \/ (stack' = advanced /\ UNCHANGED <<error, rollbackOnly>>)
    BY <1>9 DEF DeleteOwner
  <2>5. \A p \in Top.todo : <<p, Top.doc>> \in RowsSeen /\ policy[p][Top.doc] = "cascade"
    BY <1>1, <1>4, <2>1, StackParts DEF Listed
  <2>6. Top.doc \in Basis
    BY <1>1, <2>1, DocsOfFront DEF Basis
  <2> HIDE DEF advanced, o
  <2>7. Advanced(advanced, Top.phase) /\ advanced[Len(stack)].todo = Top.todo \ {o}
    BY <1>1, <2>1, <2>3, AdvancedFrames, TodoOfTop
  <2>8. Docs(advanced) = Docs(stack) /\ Listed(advanced) /\ advanced \in Seq(Frame)
    <3>1. \A p \in advanced[Len(stack)].todo : <<p, Top.doc>> \in RowsSeen /\ policy[p][Top.doc] = "cascade"
      BY <2>5, <2>7
    <3>2. QED
      BY <1>1, <1>4, <2>1, <2>7, <3>1, DocsOfAdvanced DEF Advanced
  <2>9. /\ Listed(stack') /\ (rollbackOnly => rollbackOnly')
        /\ Docs(stack') = Docs(stack) \/ Docs(stack') = Docs(stack) \cup {o}
    <3>1. CASE Start(o, "cascade", advanced)
      <4>1. "cascade" \in Callers
        BY DEF Callers
      <4>2. QED
        BY <1>1, <2>2, <2>8, <3>1, <4>1, DocsOfStart, StartMoves
    <3>2. CASE stack' = advanced /\ UNCHANGED <<error, rollbackOnly>>
      BY <2>8, <3>2
    <3>3. QED
      BY <2>4, <3>1, <3>2
  <2>10. Basis' = Basis \/ Basis' = Basis \cup {o}
    BY <2>1, <2>9 DEF Basis, Docs
  <2>11. Doomed => Doomed'
    BY <2>1, <2>9 DEF Doomed
  <2>12. <<o, Top.doc>> \in RowsSeen /\ policy[o][Top.doc] = "cascade"
    BY <2>2, <2>5
  <2>13. QED
    BY <1>5, <2>1, <2>6, <2>9, <2>10, <2>11, <2>12
<1>10. CASE DeleteRow
  <2>1. /\ stack # <<>> /\ outcome = "running" /\ outcome' = "running" /\ ~CallerFailed
        /\ Top \in Frame /\ Top.doc \in Doc /\ UNCHANGED <<policy, before, batch, asked>>
    BY <1>1, <1>10, StackParts DEF DeleteRow, Running, CallerFailed, Frame
  <2>2. CASE Blocking(Top.doc) # {} \/ Top.doc \notin db.stored
    <3>1. /\ Fail(IF Blocking(Top.doc) # {} THEN "delete_restricted" ELSE "not_found")
          /\ (IF Blocking(Top.doc) # {} THEN "delete_restricted" ELSE "not_found") \in Codes
          /\ UNCHANGED <<db, deleted>>
      BY <1>10, <2>2 DEF DeleteRow, Codes
    <3>2. QED
      BY <1>6, <2>1, <3>1
  <2>3. CASE ~(Blocking(Top.doc) # {} \/ Top.doc \notin db.stored)
    <3>1. /\ db' = Cleared(Top.doc) /\ deleted' = deleted \cup {Top.doc}
          /\ stack' = [stack EXCEPT ![Len(stack)].phase = "after"]
          /\ UNCHANGED <<rollbackOnly, error>>
      BY <1>10, <2>3 DEF DeleteRow
    <3>2. db'.index \subseteq db.index
      BY <1>1, <2>1, <3>1, ClearedDatabase
    <3>3. Advanced(stack', "after") /\ stack'[Len(stack)].todo = Top.todo
      BY <1>1, <2>1, <3>1, AdvancedFrames, TodoOfTop
    <3>4. \A p \in Top.todo : <<p, Top.doc>> \in RowsSeen /\ policy[p][Top.doc] = "cascade"
      BY <1>1, <1>4, <2>1, StackParts DEF Listed
    <3>5. Docs(stack') = Docs(stack) /\ Listed(stack')
      BY <1>1, <1>4, <2>1, <3>3, <3>4, DocsOfAdvanced
    <3>6. Basis' = Basis
      <4>1. Top.doc \in Docs(stack)
        BY <1>1, <2>1, DocsOfFront
      <4>2. QED
        BY <3>1, <3>5, <4>1 DEF Basis, Docs
    <3>7. Doomed => Doomed'
      BY <3>1 DEF Doomed, CallerFailed
    <3>8. QED
      BY <1>5, <2>1, <3>2, <3>5, <3>6, <3>7
  <2>4. QED
    BY <2>2, <2>3
<1>11. CASE Return
  <2>1. /\ outcome = "running" /\ outcome' = "running" /\ stack # <<>> /\ Top.phase = "after"
        /\ stack' = Front(stack)
        /\ UNCHANGED <<policy, db, before, batch, asked, deleted, rollbackOnly, error>>
    BY <1>11 DEF Return, Running
  <2>2. Top.doc \in deleted
    BY <1>1, <2>1, StackParts DEF TypeInv, StackInv, Marks
  <2>3. Docs(stack) = Docs(stack') \cup {Top.doc} /\ Listed(stack')
    BY <1>1, <1>4, <2>1, DocsOfFront
  <2>4. Basis' = Basis
    BY <2>1, <2>2, <2>3 DEF Basis, Docs
  <2>5. Doomed => Doomed'
    BY <2>1 DEF Doomed, CallerFailed
  <2>6. QED
    BY <1>5, <2>1, <2>3, <2>4, <2>5
<1>12. CASE Handle
  <2>1. /\ outcome = "running" /\ outcome' = "running" /\ stack # <<>> /\ ~CallerFailed
        /\ error.code \in Codes /\ "hook_failed" \in Codes
        /\ UNCHANGED <<policy, db, before, batch, asked, deleted>>
    BY <1>1, <1>12 DEF Handle, Codes, TypeInv, TypeOK
  <2>2. CASE error' = NoError /\ UNCHANGED <<stack, pending, rollbackOnly>>
    <3>1. Listed(stack') /\ Basis' = Basis /\ (Doomed => Doomed')
      BY <1>4, <2>1, <2>2 DEF Basis, Docs, Doomed
    <3>2. QED
      BY <1>5, <2>1, <3>1
  <2>3. ASSUME NEW code \in Codes, Fail(code) PROVE OwnedInv'
    BY <1>6, <2>1, <2>3
  <2>4. QED
    BY <1>12, <2>1, <2>2, <2>3 DEF Handle
<1>13. CASE Rollback
  <2>1. outcome' \notin {"running", "committed"}
    <3>1. error \in [code : Codes, by : Callers] /\ error.code \in Codes /\ outcome' = error.code
      BY <1>13 DEF Rollback, TypeInv, TypeOK, Callers
    <3>2. QED
      BY <3>1 DEF Codes
  <2>2. QED
    BY <2>1 DEF OwnedInv, OnlyOwnedDocumentsGo
<1>14. CASE Commit
  <2>1. CASE rollbackOnly
    BY <1>14, <2>1 DEF Commit, OwnedInv, OnlyOwnedDocumentsGo
  <2>2. CASE ~rollbackOnly
    <3>1. /\ stack = <<>> /\ outcome = "running" /\ ~CallerFailed /\ outcome' = "committed"
          /\ UNCHANGED <<policy, before, deleted, asked>>
      BY <1>14, <2>2 DEF Commit, Running, CallerFailed
    <3>2. Basis = deleted
      BY <3>1 DEF Basis, Docs
    <3>3. deleted \subseteq Tree(asked.deletes \cap deleted, {r \in RowsSeen : r[2] \in deleted})
      BY <2>2, <3>1, <3>2 DEF OwnedInv, Doomed, TreeInv
    <3>4. OnlyOwnedDocumentsGo'
      BY <3>1, <3>3 DEF OnlyOwnedDocumentsGo, RowsSeen, Tree
    <3>5. QED
      BY <3>1, <3>4 DEF OwnedInv
  <2>3. QED
    BY <2>1, <2>2
<1>15. ASSUME NEW d \in Doc, HookDeletes(d) PROVE OwnedInv'
  <2>1. /\ outcome = "running" /\ outcome' = "running" /\ ~CallerFailed
        /\ asked'.writes = asked.writes /\ asked'.deletes = asked.deletes \cup {d}
        /\ UNCHANGED <<policy, db, before, batch, deleted>>
        /\ Start(d, "hook", stack) /\ "hook" \in Callers
    BY <1>15 DEF HookDeletes, HookRuns, Running, CallerFailed, TypeInv, TypeOK, Callers
  <2>2. Listed(stack') /\ (Docs(stack') = Docs(stack) \/ Docs(stack') = Docs(stack) \cup {d})
    BY <1>1, <1>4, <2>1, DocsOfStart
  <2>3. Basis' = Basis \/ Basis' = Basis \cup {d}
    BY <2>1, <2>2 DEF Basis, Docs
  <2>4. rollbackOnly => rollbackOnly'
    BY <1>1, <2>1, StartMoves
  <2>5. Doomed => Doomed'
    BY <2>1, <2>4 DEF Doomed
  <2>6. RowsSeen' = RowsSeen
    BY <2>1 DEF RowsSeen
  <2>7. QED
    BY <1>2, <1>4, <2>1, <2>2, <2>3, <2>5, <2>6, OwnedKept
<1>16. ASSUME NEW o \in Doc, NEW t \in Doc, HookWrites(o, t) PROVE OwnedInv'
  <2>1. db'.index = db.index \cup {<<o, t>>}
    BY <1>1, <1>16, WrittenDatabase
  <2>2. /\ outcome = "running" /\ outcome' = "running" /\ ~CallerFailed
        /\ UNCHANGED <<policy, before, batch, deleted, stack, rollbackOnly, error>>
    BY <1>16 DEF HookWrites, HookRuns, Running, CallerFailed
  <2>3. asked'.writes = asked.writes \cup {<<o, t>>} /\ asked'.deletes = asked.deletes
    BY <1>16 DEF HookWrites, TypeInv, TypeOK
  <2>4. RowsSeen' = RowsSeen \cup {<<o, t>>}
    BY <2>2, <2>3 DEF RowsSeen
  <2>5. Listed(stack') /\ Basis' = Basis /\ (Doomed => Doomed')
    BY <1>4, <2>2 DEF Basis, Docs, Doomed, CallerFailed
  <2>6. QED
    BY <1>2, <1>4, <2>1, <2>2, <2>3, <2>4, <2>5, OwnedKept
<1>17. QED
  BY <1>3, <1>7, <1>8, <1>9, <1>10, <1>11, <1>12, <1>13, <1>14, <1>15, <1>16 DEF Next

\* Nothing is deleted when the transaction is begun.
LEMMA OwnedStart == Init => OwnedInv
<1> SUFFICES ASSUME Init PROVE OwnedInv
  OBVIOUS
<1>1. /\ stack = <<>> /\ deleted = {} /\ outcome = "running" /\ before = db
      /\ asked = [deletes |-> ToSet(batch), writes |-> {}, hooked |-> FALSE]
  BY DEF Init
<1>2. asked.deletes = ToSet(batch) /\ RowsSeen = db.index
  BY <1>1 DEF RowsSeen
<1>3. Listed(stack) /\ Basis = {}
  BY <1>1 DEF Listed, Basis, Docs
<1>4. QED
  BY <1>1, <1>2, <1>3 DEF OwnedInv, OnlyOwnedDocumentsGo, TreeInv

-----------------------------------------------------------------------------
(* Why a delete is rejected.  CalmInv: without hooks the running deletes are  *)
(* of different documents that are stored, all but the innermost wait for     *)
(* their owners, and every owner of a document whose owners were listed is on *)
(* the list, or its delete runs, unless it is gone.                           *)

\* A running delete, where D are the documents whose deletes run.
FrameOK(f, marked, stored, index, D) ==
  /\ f.phase = "before" <=> f.doc \notin marked
  /\ f.phase # "after" => f.doc \in stored
  /\ f.phase = "owners" =>
       \A o \in Doc : /\ <<o, f.doc>> \in index /\ o # f.doc
                      /\ policy[o][f.doc] = "cascade"
                      => o \in marked \cup f.todo \cup D

\* The running deletes.
Calm(s, marked, stored, index, D) ==
  /\ \A i, j \in 1 .. Len(s) : s[i].doc = s[j].doc => i = j
  /\ \A i \in 1 .. Len(s) : /\ i < Len(s) => s[i].phase = "owners"
                            /\ FrameOK(s[i], marked, stored, index, D)

\* What the caller asked for and was started.
Finished == asked.deletes \ ToSet(batch)

CalmInv ==
  Hookless =>
    /\ asked.writes = {}
    /\ IsFiniteSet(asked.deletes) /\ IsFiniteSet(before.stored)
    /\ outcome = "running" =>
         /\ db.stored = before.stored \ deleted
         /\ IsInjective(batch)
         /\ \A i \in 1 .. Len(stack) : stack[i].by # "hook"
         /\ error = NoError =>
              /\ ~rollbackOnly
              /\ Calm(stack, pending, db.stored, db.index, Docs(stack))
              /\ Basis \subseteq Tree(Finished, before.index)
         /\ error # NoError =>
              /\ error.by # "hook"
              /\ error.code = "not_found" => error.by = "caller"
              /\ Justified(error.code)
    /\ RejectionsAreJustified

\* A tree holds its roots and, with a document, its owners, and grows with them.
LEMMA TreeHolds ==
  ASSUME NEW D, NEW R
  PROVE  /\ D \cap Doc \subseteq Tree(D, R)
         /\ \A r \in R : r[1] \in Doc /\ r[2] \in Tree(D, R) /\ policy[r[1]][r[2]] = "cascade"
                           => r[1] \in Tree(D, R)
         /\ \A E : D \subseteq E => Tree(D, R) \subseteq Tree(E, R)
         /\ Tree(D, R) \subseteq Doc
<1> DEFINE T(E) == {d \in Doc : \A S \in SUBSET Doc : Owned(S, E, R) => d \in S}
<1>1. \A E : Tree(E, R) = T(E)
  BY TreeIsLeast
<1>2. D \cap Doc \subseteq T(D)
  BY DEF Owned
<1>3. \A r \in R : r[1] \in Doc /\ r[2] \in T(D) /\ policy[r[1]][r[2]] = "cascade" => r[1] \in T(D)
  BY DEF Owned
<1>4. \A E : D \subseteq E => T(D) \subseteq T(E)
  BY DEF Owned
<1>5. T(D) \subseteq Doc
  OBVIOUS
<1> HIDE DEF T
<1>6. QED
  BY <1>1, <1>2, <1>3, <1>4, <1>5

\* A tree has its roots and owners that refer to something.
LEMMA TreeFinite ==
  ASSUME NEW D, NEW R, NEW O, D \subseteq Doc, O \subseteq Doc,
         \A r \in R : r[1] \in O, IsFiniteSet(D), IsFiniteSet(O)
  PROVE  IsFiniteSet(Tree(D, R))
<1>1. D \cup O \in SUBSET Doc /\ Owned(D \cup O, D, R)
  BY DEF Owned
<1>2. Tree(D, R) \in SUBSET (D \cup O)
  BY <1>1, TreeIsLeast
<1>3. IsFiniteSet(D \cup O)
  BY FS_Union
<1>4. QED
  BY <1>2, <1>3, FS_Subset

\* Deletes of different documents, and one more, do not fit a smaller tree.
LEMMA StackFits ==
  ASSUME NEW T, IsFiniteSet(T), stack \in Seq(Frame), Docs(stack) \subseteq T,
         \A i, j \in 1 .. Len(stack) : stack[i].doc = stack[j].doc => i = j,
         NEW o \in T, o \notin Docs(stack), Len(stack) >= MaxDepth
  PROVE  Cardinality(T) > MaxDepth
<1> DEFINE n == Len(stack)
           f == [i \in 1 .. n + 1 |-> IF i = n + 1 THEN o ELSE stack[i].doc]
<1>1. n \in Nat /\ MaxDepth \in Nat /\ n >= MaxDepth
  BY ReferenceDeletesAssumption
<1>2. \A i \in 1 .. n : stack[i].doc \in T /\ stack[i].doc # o
  BY DEF Docs
<1>3. \A i \in 1 .. n + 1 : i = n + 1 \/ i \in 1 .. n
  BY <1>1
<1>4. f \in [1 .. n + 1 -> T]
  BY <1>2, <1>3
<1>5. \A i, j \in 1 .. n + 1 : f[i] = f[j] => i = j
  BY <1>2, <1>3
<1>6. IsFiniteSet(1 .. n + 1) /\ Cardinality(1 .. n + 1) = n + 1
  <2>1. n + 1 \in Int /\ 1 \in Int /\ ~(1 > n + 1)
    BY <1>1
  <2>2. QED
    BY <2>1, FS_Interval
<1>7. Cardinality(T) \in Nat
  BY FS_CardinalityType
<1> HIDE DEF f, n
<1>8. ~(Cardinality(T) < n + 1)
  <2> DEFINE I == 1 .. n + 1
  <2>1. /\ IsFiniteSet(I) /\ Cardinality(I) = n + 1 /\ f \in [I -> T]
        /\ \A i, j \in I : f[i] = f[j] => i = j
    BY <1>4, <1>5, <1>6
  <2> HIDE DEF I
  <2>2. f \in Injection(I, T)
    BY <2>1 DEF Injection, IsInjective
  <2>3. Cardinality(I) <= Cardinality(T)
    BY <2>2, FS_Injection, Zenon
  <2>4. QED
    BY <1>1, <1>7, <2>1, <2>3
<1>9. QED
  BY <1>1, <1>7, <1>8

\* A delete that is called for a stored document runs.
LEMMA CalmAppended ==
  ASSUME NEW s \in Seq(Frame), NEW d \in Doc, NEW f \in Frame, NEW marked, NEW stored, NEW index,
         Calm(s, marked, stored, index, Docs(s) \cup {d}),
         \A i \in 1 .. Len(s) : s[i].phase = "owners",
         f.doc = d, f.phase = "before", d \in stored, d \notin marked
  PROVE  Calm(Append(s, f), marked, stored, index, Docs(s) \cup {d})
<1> DEFINE n == Len(s)
           a == Append(s, f)
           D == Docs(s) \cup {d}
<1>1. n \in Nat /\ Len(a) = n + 1 /\ a[n + 1] = f /\ \A i \in 1 .. n : a[i] = s[i]
  OBVIOUS
<1>2. \A i \in 1 .. n + 1 : i = n + 1 \/ i \in 1 .. n
  BY <1>1
<1>3. \A i \in 1 .. n : s[i].doc # d
  BY DEF Calm, FrameOK
<1>4. /\ FrameOK(f, marked, stored, index, D)
      /\ \A i \in 1 .. n : FrameOK(s[i], marked, stored, index, D)
  BY DEF FrameOK, Calm
<1> HIDE DEF a, D, n
<1>5. \A i, j \in 1 .. n + 1 : a[i].doc = a[j].doc => i = j
  BY <1>1, <1>2, <1>3 DEF Calm, n
<1>6. \A i \in 1 .. n + 1 : /\ i < n + 1 => a[i].phase = "owners"
                            /\ FrameOK(a[i], marked, stored, index, D)
  BY <1>1, <1>2, <1>4 DEF n
<1>7. QED
  BY <1>1, <1>5, <1>6 DEF Calm, a, D

\* The innermost frame goes on.
LEMMA CalmAdvanced ==
  ASSUME stack \in Seq(Frame), stack # <<>>, NEW s, NEW phase, Advanced(s, phase),
         NEW marked, NEW stored, NEW index, NEW D,
         Calm(stack, pending, db.stored, db.index, Docs(stack)),
         FrameOK(s[Len(stack)], marked, stored, index, D),
         \A i \in 1 .. Len(stack) - 1 :
           FrameOK(stack[i], pending, db.stored, db.index, Docs(stack)) /\ stack[i].phase = "owners"
             /\ stack[i].doc # Top.doc
           => FrameOK(stack[i], marked, stored, index, D)
  PROVE  Calm(s, marked, stored, index, D)
<1> DEFINE n == Len(stack)
<1>1. /\ n \in Nat \ {0} /\ Top = stack[n] /\ Len(s) = n
      /\ \A i \in 1 .. n - 1 : s[i] = stack[i]
      /\ s[n].doc = Top.doc
  BY StackParts DEF Advanced
<1>2. \A i \in 1 .. n : i = n \/ (i \in 1 .. n - 1 /\ s[i] = stack[i])
  BY <1>1
<1>3. \A i \in 1 .. n : s[i].doc = stack[i].doc
  BY <1>1, <1>2
<1>4. \A i, j \in 1 .. n : s[i].doc = s[j].doc => i = j
  BY <1>3 DEF Calm
<1>5. ASSUME NEW i \in 1 .. n - 1
      PROVE  s[i].phase = "owners" /\ FrameOK(s[i], marked, stored, index, D)
  <2>1. i \in 1 .. n /\ n \in 1 .. n /\ i # n /\ i < n
    BY <1>1
  <2>2. stack[i].doc # Top.doc
    BY <1>1, <2>1 DEF Calm
  <2>3. QED
    BY <1>1, <2>1, <2>2 DEF Calm
<1>6. QED
  BY <1>1, <1>2, <1>4, <1>5 DEF Calm

\* The innermost delete ends, of a document without references to it.
LEMMA CalmPopped ==
  ASSUME stack \in Seq(Frame), stack # <<>>, NEW stored, NEW index,
         Calm(stack, pending, stored, index, Docs(stack)),
         \A o \in Doc : <<Top.doc, o>> \notin index
  PROVE  Calm(Front(stack), pending \ {Top.doc}, stored, index, Docs(Front(stack)))
<1> DEFINE n == Len(stack)
           s == Front(stack)
<1>1. n \in Nat \ {0} /\ Top = stack[n] /\ Len(s) = n - 1 /\ \A i \in 1 .. n - 1 : s[i] = stack[i]
  BY StackParts
<1>2. Docs(stack) = Docs(s) \cup {Top.doc}
  BY DocsOfFront
<1>3. \A i \in 1 .. n - 1 : i \in 1 .. n /\ n \in 1 .. n /\ i # n /\ i < n
  BY <1>1
<1>4. \A i \in 1 .. n - 1 : stack[i] \in Frame /\ stack[i].doc \in Doc
  <2>1. \A i \in 1 .. n - 1 : stack[i] \in Frame
    BY <1>3
  <2>2. QED
    BY <2>1 DEF Frame
<1> HIDE DEF s
<1>5. \A i, j \in 1 .. n - 1 : s[i].doc = s[j].doc => i = j
  BY <1>1, <1>3 DEF Calm
<1>6. ASSUME NEW i \in 1 .. n - 1
      PROVE  s[i].phase = "owners" /\ FrameOK(s[i], pending \ {Top.doc}, stored, index, Docs(s))
  <2>1. /\ s[i].phase = "owners" /\ s[i].doc # Top.doc /\ s[i].doc \in Doc
        /\ FrameOK(s[i], pending, stored, index, Docs(stack))
    BY <1>1, <1>3, <1>4 DEF Calm
  <2>2. QED
    BY <1>2, <2>1 DEF FrameOK
<1>7. QED
  BY <1>1, <1>5, <1>6 DEF Calm, s

\* An operation fails for a reason, or goes on, without hooks.
LEMMA CalmKept ==
  ASSUME CalmInv, Hookless, outcome = "running", outcome' = "running",
         UNCHANGED <<policy, before, asked>>,
         db'.stored = before.stored \ deleted', IsInjective(batch'),
         \A i \in 1 .. Len(stack') : stack'[i].by # "hook",
         \/ /\ error' = NoError /\ ~rollbackOnly'
            /\ Calm(stack', pending', db'.stored, db'.index, Docs(stack'))
            /\ deleted' \cup Docs(stack') \subseteq Tree(asked.deletes \ ToSet(batch'), before.index)
         \/ /\ error' # NoError /\ error'.by # "hook"
            /\ error'.code = "not_found" => error'.by = "caller"
            /\ Justified(error'.code)
  PROVE  CalmInv'
<1>1. /\ asked'.writes = {} /\ IsFiniteSet(asked'.deletes) /\ IsFiniteSet(before'.stored)
  BY DEF CalmInv
<1>2. CASE /\ error' = NoError /\ ~rollbackOnly'
           /\ Calm(stack', pending', db'.stored, db'.index, Docs(stack'))
           /\ deleted' \cup Docs(stack') \subseteq Tree(asked.deletes \ ToSet(batch'), before.index)
  <2>1. Calm(stack, pending, db.stored, db.index, Docs(stack))'
    BY <1>2 DEF Calm, FrameOK, Docs
  <2>2. (Basis \subseteq Tree(Finished, before.index))'
    BY <1>2 DEF Basis, Docs, Finished, Tree
  <2>3. QED
    BY <1>1, <1>2, <2>1, <2>2 DEF CalmInv, RejectionsAreJustified
<1>3. CASE /\ error' # NoError /\ error'.by # "hook"
           /\ error'.code = "not_found" => error'.by = "caller"
           /\ Justified(error'.code)
  <2>1. Justified(error.code)'
    BY <1>3 DEF Justified, Tree
  <2>2. QED
    BY <1>1, <1>3, <2>1 DEF CalmInv, RejectionsAreJustified
<1>4. QED
  BY <1>2, <1>3

\* The innermost delete fails for a reason.
LEMMA CalmFails ==
  ASSUME TypeInv, CalmInv, Hookless, outcome = "running", outcome' = "running",
         UNCHANGED <<policy, before, asked, db, deleted, batch>>, stack # <<>>,
         NEW code \in Codes, code # "not_found", Justified(code), Fail(code)
  PROVE  CalmInv'
<1>1. stack \in Seq(Frame) /\ stack' = Front(stack) /\ error' = [code |-> code, by |-> Top.by]
  BY DEF Fail, TypeInv, TypeOK
<1>2. /\ Len(stack) \in Nat \ {0} /\ Top = stack[Len(stack)]
      /\ Len(stack') = Len(stack) - 1 /\ \A i \in 1 .. Len(stack) - 1 : stack'[i] = stack[i]
  BY <1>1, StackParts
<1>3. /\ db.stored = before.stored \ deleted /\ IsInjective(batch)
      /\ \A i \in 1 .. Len(stack) : stack[i].by # "hook"
  BY DEF CalmInv
<1>4. Top.by # "hook" /\ \A i \in 1 .. Len(stack') : stack'[i].by # "hook"
  BY <1>2, <1>3
<1>5. error' # NoError /\ error'.by = Top.by /\ error'.code = code
  <2>1. code # "none"
    BY DEF Codes
  <2>2. QED
    BY <1>1, <2>1 DEF NoError
<1>6. QED
  BY <1>3, <1>4, <1>5, CalmKept

\* The deletes of a transaction without hooks keep CalmInv.
LEMMA CalmStep == TypeInv /\ OwnedInv /\ CalmInv /\ [Next]_vars => CalmInv'
<1> SUFFICES ASSUME TypeInv, OwnedInv, CalmInv, [Next]_vars, Hookless' PROVE CalmInv'
  BY DEF CalmInv
<1> DEFINE Roots == Tree(Finished, before.index)
           Asked == Tree(asked.deletes, before.index)
<1>1. /\ stack \in Seq(Frame) /\ batch \in Seq(Doc) /\ db \in Databases /\ before \in Databases
      /\ Consistent(db) /\ Consistent(before) /\ asked.deletes \subseteq Doc
      /\ policy \in [Doc -> [Doc -> Policies]]
      /\ rollbackOnly \in BOOLEAN /\ deleted \subseteq Doc /\ pending \subseteq Doc
      /\ CallerFailed => stack = <<>>
      /\ before.stored \subseteq Doc /\ before.index \subseteq Doc \X Doc
      /\ db.stored \subseteq Doc /\ db.index \subseteq Doc \X Doc
  BY DEF TypeInv, TypeOK, StackInv, Databases
<1>2. CASE UNCHANGED vars
  BY <1>2 DEF vars, CalmInv, Hookless, RejectionsAreJustified, Justified, Calm, FrameOK, Docs, Basis,
     Finished, Tree
<1>3. ASSUME NEW d \in Doc, HookDeletes(d) PROVE FALSE
  BY <1>3 DEF HookDeletes, Hookless, TypeInv, TypeOK
<1>4. ASSUME NEW o \in Doc, NEW t \in Doc, HookWrites(o, t) PROVE FALSE
  BY <1>4 DEF HookWrites, Hookless, TypeInv, TypeOK
<1>5. ASSUME UNCHANGED asked, outcome = "running"
      PROVE  /\ Hookless
             /\ asked.writes = {} /\ db.index \subseteq before.index
             /\ ToSet(batch) \subseteq asked.deletes
             /\ Listed(stack) /\ RowsSeen = before.index
             /\ IsFiniteSet(asked.deletes) /\ IsFiniteSet(before.stored)
             /\ db.stored = before.stored \ deleted /\ IsInjective(batch)
             /\ \A i \in 1 .. Len(stack) : stack[i].by # "hook"
             /\ error = NoError => /\ ~rollbackOnly
                                   /\ Calm(stack, pending, db.stored, db.index, Docs(stack))
                                   /\ deleted \subseteq Roots /\ Docs(stack) \subseteq Roots
             /\ error # NoError => /\ error.by # "hook"
                                   /\ error.code = "not_found" => error.by = "caller"
                                   /\ Justified(error.code)
  <2>1. Hookless
    BY <1>5 DEF Hookless
  <2>2. asked.writes = {} /\ db.index \subseteq RowsSeen
    BY <1>5, <2>1 DEF CalmInv, OwnedInv
  <2>3. RowsSeen = before.index
    BY <2>2 DEF RowsSeen
  <2>4. QED
    BY <1>5, <2>1, <2>2, <2>3 DEF CalmInv, OwnedInv, Basis
<1>6. Roots \subseteq Asked /\ Roots \subseteq Doc /\ Asked \subseteq Doc
  <2>1. Finished \subseteq asked.deletes
    BY DEF Finished
  <2>2. QED
    BY <2>1, TreeHolds
<1>7. CASE NextRequest
  <2> DEFINE d == Head(batch)
  <2>1. /\ outcome = "running" /\ outcome' = "running" /\ error = NoError
        /\ stack = <<>> /\ batch # <<>> /\ batch' = Tail(batch)
        /\ UNCHANGED <<policy, db, before, asked, deleted, pending>>
        /\ Start(d, "caller", <<>>)
    BY <1>7 DEF NextRequest, Running
  <2>2. /\ d \in Doc /\ d \in ToSet(batch) /\ d \notin ToSet(Tail(batch))
        /\ ToSet(Tail(batch)) \subseteq ToSet(batch) /\ IsInjective(Tail(batch))
    <3>1. IsInjective(batch)
      BY <1>5, <2>1
    <3>2. /\ Len(batch) \in Nat \ {0} /\ DOMAIN batch = 1 .. Len(batch)
          /\ DOMAIN Tail(batch) = 1 .. Len(batch) - 1
          /\ \A i \in 1 .. Len(batch) - 1 : Tail(batch)[i] = batch[i + 1]
          /\ d = batch[1] /\ d \in Doc
      BY <1>1, <2>1
    <3> HIDE DEF d
    <3>3. \A i \in 1 .. Len(batch) - 1 : i + 1 \in 1 .. Len(batch) /\ i + 1 # 1 /\ 1 \in 1 .. Len(batch)
      BY <3>2
    <3>4. 1 \in 1 .. Len(batch)
      BY <3>2
    <3>5. IsInjective(Tail(batch))
      BY <3>1, <3>2, <3>3 DEF IsInjective
    <3>6. d \in ToSet(batch) /\ d \notin ToSet(Tail(batch)) /\ ToSet(Tail(batch)) \subseteq ToSet(batch)
      BY <3>1, <3>2, <3>3, <3>4 DEF IsInjective, ToSet
    <3>7. QED
      BY <3>2, <3>5, <3>6
  <2>3. pending = {} /\ Docs(<<>>) = {} /\ Len(<<>>) = 0
    BY <2>1 DEF Docs, TypeInv, StackInv, Marks
  <2>4. Refusal(d) = IF d \notin db.stored THEN "not_found" ELSE "none"
    <3>1. MaxDepth \in Nat \ {0} /\ MaxRepeats \in Nat \ {0}
      BY ReferenceDeletesAssumption
    <3>2. Repeats(d) = 0
      <4>1. {i \in DOMAIN stack : stack[i].doc = d} = {}
        BY <2>1
      <4>2. QED
        BY <4>1, FS_EmptySet DEF Repeats
    <3>3. ~rollbackOnly
      BY <1>5, <2>1
    <3>4. QED
      BY <2>1, <2>3, <3>1, <3>2, <3>3 DEF Refusal
  <2> DEFINE f == [doc |-> d, phase |-> "before", todo |-> {}, by |-> "caller"]
  <2>5. /\ stack' = IF d \in db.stored THEN Append(<<>>, f) ELSE <<>>
        /\ error' = IF d \in db.stored THEN NoError ELSE [code |-> "not_found", by |-> "caller"]
        /\ ~rollbackOnly'
    <3> HIDE DEF d
    <3>1. CASE d \in db.stored
      <4>1. Refusal(d) = "none"
        BY <2>4, <3>1
      <4>2. /\ stack' = Append(<<>>, [doc |-> d, phase |-> "before", todo |-> {}, by |-> "caller"])
            /\ error' = NoError
        BY <2>1, <4>1 DEF Start
      <4>3. rollbackOnly' = rollbackOnly
        BY <2>1, <4>1 DEF Start
      <4>4. QED
        BY <1>5, <2>1, <3>1, <4>2, <4>3
    <3>2. CASE d \notin db.stored
      <4>1. Refusal(d) = "not_found"
        BY <2>4, <3>2
      <4>2. /\ stack' = <<>>
            /\ error' = [code |-> "not_found", by |-> "caller"]
        BY <2>1, <4>1 DEF Start
      <4>3. rollbackOnly' = Aborts("caller")
        BY <2>1, <4>1 DEF Start
      <4>4. QED
        BY <1>5, <2>1, <3>2, <4>2, <4>3 DEF Aborts
    <3>3. QED
      BY <3>1, <3>2
  <2>6. f \in Frame /\ f.doc = d /\ f.phase = "before" /\ f.by = "caller"
    BY <2>2 DEF Frame
  <2> HIDE DEF f
  <2>7. /\ Finished \cup {d} \subseteq asked.deletes \ ToSet(batch')
        /\ Finished \subseteq asked.deletes \ {d}
        /\ d \in asked.deletes
    BY <1>5, <2>1, <2>2 DEF Finished
  <2>8. CASE d \in db.stored
    <3>1. stack' = Append(<<>>, f) /\ error' = NoError
      BY <2>5, <2>8
    <3>2. Len(stack') = 1 /\ stack'[1] = f
      BY <3>1
    <3>3. Docs(stack') = {d} /\ \A i \in 1 .. Len(stack') : stack'[i].by # "hook"
      BY <2>6, <3>2 DEF Docs
    <3>4. Calm(stack', pending', db'.stored, db'.index, Docs(stack'))
      <4>1. FrameOK(f, pending, db.stored, db.index, Docs(stack'))
        BY <2>3, <2>6, <2>8 DEF FrameOK
      <4>2. QED
        BY <2>1, <3>2, <4>1 DEF Calm
    <3>5. deleted' \cup Docs(stack') \subseteq Tree(asked.deletes \ ToSet(batch'), before.index)
      <4> DEFINE E == asked.deletes \ ToSet(batch')
      <4>1. Finished \subseteq E /\ d \in E
        BY <2>7
      <4> HIDE DEF E
      <4>2. Roots \subseteq Tree(E, before.index) /\ E \cap Doc \subseteq Tree(E, before.index)
        BY <4>1, TreeHolds
      <4>3. deleted \subseteq Roots
        BY <1>5, <2>1
      <4>4. QED
        BY <2>1, <2>2, <3>3, <4>1, <4>2, <4>3 DEF E
    <3>6. QED
      BY <1>5, <2>1, <2>2, <2>5, <3>1, <3>3, <3>4, <3>5, CalmKept
  <2>9. CASE d \notin db.stored
    <3>1. /\ stack' = <<>> /\ error' = [code |-> "not_found", by |-> "caller"]
          /\ error' # NoError /\ error'.code = "not_found" /\ error'.by = "caller"
      BY <2>5, <2>9 DEF NoError
    <3>2. Justified("not_found")
      <4>1. d \notin before.stored \/ d \in deleted
        BY <1>5, <2>1, <2>9
      <4>2. deleted \subseteq Roots
        BY <1>5, <2>1
      <4>3. Roots \subseteq Tree(asked.deletes \ {d}, before.index)
        BY <2>7, TreeHolds
      <4>4. d \notin before.stored \/ d \in Tree(asked.deletes \ {d}, before.index)
        BY <4>1, <4>2, <4>3
      <4>5. QED
        BY <2>7, <4>4 DEF Justified
    <3>3. Len(stack') = 0
      BY <3>1
    <3>4. QED
      BY <1>5, <2>1, <2>2, <3>1, <3>2, <3>3, CalmKept
  <2>10. QED
    BY <2>8, <2>9
<1>8. CASE ListOwners
  <2>1. /\ stack # <<>> /\ outcome = "running" /\ outcome' = "running" /\ error = NoError
        /\ Top.phase = "before" /\ Top \in Frame /\ Top.doc \in Doc
        /\ Len(stack) \in 1 .. Len(stack) /\ Top = stack[Len(stack)]
        /\ UNCHANGED <<policy, db, before, batch, asked, deleted>>
    BY <1>1, <1>8, StackParts DEF ListOwners, Running, Frame
  <2>2. Calm(stack, pending, db.stored, db.index, Docs(stack)) /\ ~rollbackOnly
    BY <1>5, <2>1
  <2>3. Top.doc \in db.stored
    BY <2>1, <2>2 DEF Calm, FrameOK
  <2> DEFINE S == CascadeOwnersOf(Top.doc, pending')
  <2>4. /\ pending' = pending \cup {Top.doc}
        /\ stack' = [stack EXCEPT ![Len(stack)].phase = "owners", ![Len(stack)].todo = S]
        /\ UNCHANGED <<rollbackOnly, error>>
    BY <1>8, <2>3 DEF ListOwners
  <2>5. /\ S \in SUBSET Doc
        /\ \A o \in Doc : <<o, Top.doc>> \in db.index /\ o # Top.doc /\ policy[o][Top.doc] = "cascade"
                          => o \in pending' \cup S
    BY DEF CascadeOwnersOf, OwnersOf
  <2> HIDE DEF S
  <2>6. Advanced(stack', "owners") /\ stack'[Len(stack)].todo = S
    BY <1>1, <2>1, <2>4, <2>5, AdvancedFrames, TodoOfTop
  <2>7. Docs(stack') = Docs(stack)
    BY <1>1, <2>1, <2>6, DocsOfAdvanced
  <2>8. Calm(stack', pending', db.stored, db.index, Docs(stack))
    <3>1. FrameOK(stack'[Len(stack)], pending', db.stored, db.index, Docs(stack))
      BY <2>3, <2>4, <2>5, <2>6 DEF FrameOK, Advanced
    <3>2. ASSUME NEW i \in 1 .. Len(stack) - 1,
                 FrameOK(stack[i], pending, db.stored, db.index, Docs(stack)), stack[i].phase = "owners"
          PROVE  FrameOK(stack[i], pending', db.stored, db.index, Docs(stack))
      BY <2>4, <3>2 DEF FrameOK
    <3>3. QED
      BY <1>1, <2>1, <2>2, <2>6, <3>1, <3>2, CalmAdvanced
  <2>9. \A i \in 1 .. Len(stack') : stack'[i].by # "hook"
    <3>1. \A i \in 1 .. Len(stack) : stack'[i].by = stack[i].by
      BY <2>1, <2>6 DEF Advanced
    <3>2. QED
      BY <1>5, <2>1, <2>6, <3>1 DEF Advanced
  <2>10. deleted' \cup Docs(stack') \subseteq Tree(asked.deletes \ ToSet(batch'), before.index)
    BY <1>5, <2>1, <2>7 DEF Finished
  <2>11. QED
    BY <1>5, <2>1, <2>2, <2>4, <2>7, <2>8, <2>9, <2>10, CalmKept
<1>9. CASE DeleteOwner
  <2> DEFINE o == NextOwner
             advanced == [stack EXCEPT ![Len(stack)].todo = @ \ {o}]
  <2>1. /\ stack # <<>> /\ outcome = "running" /\ outcome' = "running" /\ error = NoError
        /\ Top.phase = "owners" /\ Top \in Frame /\ Top.doc \in Doc
        /\ Top.todo \subseteq Doc /\ Top.todo # {}
        /\ Len(stack) \in 1 .. Len(stack) /\ Top = stack[Len(stack)]
        /\ UNCHANGED <<policy, db, before, batch, asked, deleted, pending>>
    BY <1>1, <1>9, StackParts DEF DeleteOwner, Running, Frame
  <2>2. o \in Top.todo /\ o \in Doc
    <3>1. \E p \in Top.todo : \A q \in Top.todo : p <= q
      <4>1. Top.todo \subseteq Nat
        BY <2>1, ReferenceDeletesAssumption
      <4>2. QED
        BY <2>1, <4>1, LeastNumber
    <3>2. QED
      BY <2>1, <3>1 DEF NextOwner
  <2>3. /\ Top.todo \ {o} \in SUBSET Doc
        /\ advanced = [stack EXCEPT ![Len(stack)].todo = Top.todo \ {o}]
    BY <1>1, <2>1, StackParts
  <2>4. IF o \in pending \cup deleted
        THEN stack' = advanced /\ UNCHANGED <<error, rollbackOnly>>
        ELSE Start(o, "cascade", advanced)
    BY <1>9 DEF DeleteOwner
  <2>5. /\ Calm(stack, pending, db.stored, db.index, Docs(stack)) /\ ~rollbackOnly
        /\ Docs(stack) \subseteq Roots /\ deleted \subseteq Roots
    BY <1>5, <2>1
  <2>6. <<o, Top.doc>> \in before.index /\ policy[o][Top.doc] = "cascade" /\ o \in before.stored
    <3>1. <<o, Top.doc>> \in RowsSeen /\ policy[o][Top.doc] = "cascade"
      BY <1>5, <2>1, <2>2 DEF Listed
    <3>2. <<o, Top.doc>> \in before.index /\ <<o, Top.doc>>[1] = o
      BY <1>5, <2>1, <3>1
    <3>3. QED
      BY <1>1, <3>1, <3>2 DEF Consistent
  <2>7. o \in Roots
    <3>1. Top.doc \in Roots
      BY <1>1, <2>1, <2>5, DocsOfFront
    <3>2. <<o, Top.doc>>[1] = o /\ <<o, Top.doc>>[2] = Top.doc
      OBVIOUS
    <3>3. QED
      BY <2>2, <2>6, <3>1, <3>2, TreeHolds
  <2> HIDE DEF advanced, o
  <2>8. Advanced(advanced, "owners") /\ advanced[Len(stack)].todo = Top.todo \ {o}
    BY <1>1, <2>1, <2>3, AdvancedFrames, TodoOfTop
  <2>9. Docs(advanced) = Docs(stack) /\ advanced \in Seq(Frame) /\ Len(advanced) = Len(stack)
    BY <1>1, <2>1, <2>8, DocsOfAdvanced DEF Advanced
  <2>10. \A i \in 1 .. Len(stack) : advanced[i].by # "hook" /\ advanced[i].phase = "owners"
    <3>1. \A i \in 1 .. Len(stack) : i = Len(stack) \/ (i \in 1 .. Len(stack) - 1 /\ i < Len(stack))
      BY <2>1
    <3>2. \A i \in 1 .. Len(stack) - 1 : advanced[i] = stack[i]
      BY <2>8 DEF Advanced
    <3>3. advanced[Len(stack)].by = Top.by /\ advanced[Len(stack)].phase = "owners"
      BY <2>8 DEF Advanced
    <3>4. \A i \in 1 .. Len(stack) : stack[i].by # "hook"
      BY <1>5, <2>1
    <3>5. QED
      BY <2>1, <2>5, <3>1, <3>2, <3>3, <3>4 DEF Calm
  <2>11. Calm(advanced, pending, db.stored, db.index, Docs(stack) \cup {o})
    <3>1. FrameOK(stack[Len(stack)], pending, db.stored, db.index, Docs(stack))
      BY <2>1, <2>5 DEF Calm
    <3>2. FrameOK(advanced[Len(stack)], pending, db.stored, db.index, Docs(stack) \cup {o})
      BY <2>1, <2>8, <3>1 DEF FrameOK, Advanced
    <3>3. ASSUME NEW i \in 1 .. Len(stack) - 1,
                 FrameOK(stack[i], pending, db.stored, db.index, Docs(stack))
          PROVE  FrameOK(stack[i], pending, db.stored, db.index, Docs(stack) \cup {o})
      BY <3>3 DEF FrameOK
    <3>4. QED
      BY <1>1, <2>1, <2>5, <2>8, <3>2, <3>3, CalmAdvanced
  <2>12. CASE o \in pending \cup deleted
    <3>1. stack' = advanced /\ UNCHANGED <<error, rollbackOnly>>
      BY <2>4, <2>12
    <3>2. o \in pending \/ \A t \in Doc : <<o, t>> \notin db.index
      <4>1. o \in deleted => o \notin db.stored
        BY <1>5, <2>1
      <4>2. \A t \in Doc : <<o, t>>[1] = o
        OBVIOUS
      <4>3. QED
        BY <1>1, <2>12, <4>1, <4>2 DEF Consistent
    <3>3. Calm(advanced, pending, db.stored, db.index, Docs(stack))
      <4>1. \A i \in 1 .. Len(advanced) : advanced[i].doc \in Doc
        <5>1. \A i \in 1 .. Len(advanced) : advanced[i] \in Frame
          BY <2>9
        <5>2. QED
          BY <5>1 DEF Frame
      <4>2. ASSUME NEW f, f.doc \in Doc, FrameOK(f, pending, db.stored, db.index, Docs(stack) \cup {o})
            PROVE  FrameOK(f, pending, db.stored, db.index, Docs(stack))
        BY <3>2, <4>2 DEF FrameOK
      <4>3. QED
        BY <2>11, <4>1, <4>2 DEF Calm
    <3>4. Docs(stack') = Docs(stack) /\ \A i \in 1 .. Len(stack') : stack'[i].by # "hook"
      BY <2>9, <2>10, <3>1
    <3>5. deleted' \cup Docs(stack') \subseteq Tree(asked.deletes \ ToSet(batch'), before.index)
      BY <2>1, <2>5, <3>4 DEF Finished
    <3>6. QED
      BY <1>5, <2>1, <2>5, <3>1, <3>3, <3>4, <3>5, CalmKept
  <2>13. CASE o \notin pending \cup deleted
    <3>1. Start(o, "cascade", advanced)
      BY <2>4, <2>13
    <3>2. \A i \in 1 .. Len(stack) : stack[i].doc # o
      <4>1. \A i \in 1 .. Len(stack) : i = Len(stack) \/ i < Len(stack)
        BY <2>1
      <4>2. \A i \in 1 .. Len(stack) : stack[i].doc \in pending
        BY <2>1, <2>5, <4>1 DEF Calm, FrameOK
      <4>3. QED
        BY <2>13, <4>2
    <3>3. o \in db.stored
      BY <1>5, <2>1, <2>6, <2>13
    <3>4. Refusal(o) = IF Len(stack) >= MaxDepth THEN "operation_recursion" ELSE "none"
      <4>1. Repeats(o) = 0
        <5>1. {i \in DOMAIN stack : stack[i].doc = o} = {}
          BY <1>1, <3>2
        <5>2. QED
          BY <5>1, FS_EmptySet DEF Repeats
      <4>2. MaxRepeats \in Nat \ {0}
        BY ReferenceDeletesAssumption
      <4>3. QED
        BY <2>5, <3>3, <4>1, <4>2 DEF Refusal
    <3> DEFINE f == [doc |-> o, phase |-> "before", todo |-> {}, by |-> "cascade"]
    <3>5. /\ stack' = IF Len(stack) >= MaxDepth THEN advanced ELSE Append(advanced, f)
          /\ error' = IF Len(stack) >= MaxDepth THEN [code |-> "operation_recursion", by |-> "cascade"]
                      ELSE NoError
          /\ rollbackOnly' = rollbackOnly
      BY <3>1, <3>4 DEF Start
    <3>6. f \in Frame /\ f.doc = o /\ f.phase = "before" /\ f.by = "cascade"
      BY <2>2 DEF Frame
    <3> HIDE DEF f
    <3>7. CASE Len(stack) >= MaxDepth
      <4>1. /\ stack' = advanced /\ error' # NoError
            /\ error'.code = "operation_recursion" /\ error'.by = "cascade"
        BY <3>5, <3>7 DEF NoError
      <4>2. IsFiniteSet(Asked)
        <5>1. \A r \in before.index : r[1] \in before.stored
          BY <1>1 DEF Consistent
        <5>2. IsFiniteSet(asked.deletes) /\ IsFiniteSet(before.stored)
          BY <1>5, <2>1
        <5>3. QED
          BY <1>1, <5>1, <5>2, TreeFinite
      <4>3. /\ Docs(stack) \subseteq Asked /\ o \in Asked /\ o \notin Docs(stack)
            /\ \A i, j \in 1 .. Len(stack) : stack[i].doc = stack[j].doc => i = j
        BY <1>6, <2>5, <2>7, <3>2 DEF Docs, Calm
      <4> HIDE DEF Asked
      <4>4. Cardinality(Asked) > MaxDepth
        BY <1>1, <3>7, <4>2, <4>3, StackFits
      <4>5. Justified("operation_recursion")
        BY <4>4 DEF Justified, Asked
      <4>6. \A i \in 1 .. Len(stack') : stack'[i].by # "hook"
        BY <2>9, <2>10, <4>1
      <4>7. QED
        BY <1>5, <2>1, <4>1, <4>5, <4>6, CalmKept
    <3>8. CASE ~(Len(stack) >= MaxDepth)
      <4>1. stack' = Append(advanced, f) /\ error' = NoError
        BY <3>5, <3>8
      <4>2. Calm(stack', pending, db.stored, db.index, Docs(stack) \cup {o})
        BY <2>2, <2>9, <2>10, <2>11, <2>13, <3>3, <3>6, <4>1, CalmAppended
      <4>3. Docs(stack') = Docs(stack) \cup {o}
        <5>1. "cascade" \in Callers
          BY DEF Callers
        <5>2. stack' # advanced
          BY <2>9, <3>6, <4>1
        <5>3. QED
          BY <2>2, <2>9, <3>1, <5>1, <5>2, DocsOfStart
      <4>4. \A i \in 1 .. Len(stack') : stack'[i].by # "hook"
        BY <2>9, <2>10, <3>6, <4>1
      <4>5. deleted' \cup Docs(stack') \subseteq Tree(asked.deletes \ ToSet(batch'), before.index)
        BY <2>1, <2>5, <2>7, <4>3 DEF Finished
      <4>6. QED
        BY <1>5, <2>1, <2>5, <3>5, <4>1, <4>2, <4>3, <4>4, <4>5, CalmKept
    <3>9. QED
      BY <3>7, <3>8
  <2>14. QED
    BY <2>12, <2>13
<1>10. CASE DeleteRow
  <2> DEFINE t == Top.doc
  <2>1. /\ stack # <<>> /\ outcome = "running" /\ outcome' = "running" /\ error = NoError
        /\ Top.phase = "owners" /\ Top.todo = {} /\ Top \in Frame /\ t \in Doc
        /\ Len(stack) \in 1 .. Len(stack) /\ Top = stack[Len(stack)]
        /\ UNCHANGED <<policy, before, batch, asked>>
    BY <1>1, <1>10, StackParts DEF DeleteRow, Running, Frame
  <2>2. /\ Calm(stack, pending, db.stored, db.index, Docs(stack)) /\ ~rollbackOnly
        /\ Docs(stack) \subseteq Roots /\ deleted \subseteq Roots
    BY <1>5, <2>1
  <2>3. FrameOK(Top, pending, db.stored, db.index, Docs(stack))
    BY <2>1, <2>2 DEF Calm
  <2>4. Docs(stack) \subseteq pending
    <3>1. \A i \in 1 .. Len(stack) : i = Len(stack) \/ i < Len(stack)
      BY <2>1
    <3>2. \A i \in 1 .. Len(stack) : stack[i].doc \in pending
      BY <2>1, <2>2, <3>1 DEF Calm, FrameOK
    <3>3. QED
      BY <3>2 DEF Docs
  <2>5. t \in db.stored /\ t \in Docs(stack)
    BY <1>1, <2>1, <2>3, DocsOfFront DEF FrameOK
  <2>6. CASE Blocking(t) # {}
    <3>1. PICK o \in Blocking(t) : TRUE
      BY <2>6
    <3>2. /\ o \in Remaining(t)
          /\ policy[o][t] = "restrict" \/ (policy[o][t] = "cascade" /\ o \notin pending)
      BY <3>1 DEF Blocking
    <3>3. o \in Doc /\ o # t /\ <<o, t>> \in db.index
      BY <1>1, <2>1, <3>2, RemainingOwners
    <3>4. policy[o][t] = "restrict"
      BY <2>1, <2>3, <2>4, <3>2, <3>3 DEF FrameOK
    <3>5. <<o, t>> \in before.index /\ t \in Asked
      BY <1>5, <1>6, <2>1, <2>2, <2>5, <3>3
    <3>6. Justified("delete_restricted")
      <4>1. <<o, t>>[1] = o /\ <<o, t>>[2] = t
        OBVIOUS
      <4>2. \E r \in before.index : r[1] # r[2] /\ r[2] \in Asked /\ policy[r[1]][r[2]] = "restrict"
        BY <3>3, <3>4, <3>5, <4>1
      <4>3. QED
        BY <4>2 DEF Justified
    <3>7. Fail("delete_restricted") /\ "delete_restricted" \in Codes /\ UNCHANGED <<db, deleted>>
      BY <1>10, <2>6 DEF DeleteRow, Codes
    <3>8. Hookless /\ "delete_restricted" # "not_found"
      BY <1>5, <2>1
    <3>9. QED
      BY <2>1, <3>6, <3>7, <3>8, CalmFails
  <2>7. CASE Blocking(t) = {}
    <3>1. /\ db' = Cleared(t) /\ deleted' = deleted \cup {t}
          /\ stack' = [stack EXCEPT ![Len(stack)].phase = "after"]
          /\ UNCHANGED <<pending, rollbackOnly, error>>
      BY <1>10, <2>5, <2>7 DEF DeleteRow
    <3>2. db'.index \subseteq db.index
      BY <1>1, <2>1, <3>1, ClearedDatabase
    <3>3. db'.stored = db.stored \ {t}
      BY <3>1 DEF Cleared, WithoutRow
    <3>4. Advanced(stack', "after")
      BY <1>1, <2>1, <3>1, AdvancedFrames
    <3>5. Docs(stack') = Docs(stack)
      BY <1>1, <2>1, <3>4, DocsOfAdvanced
    <3>6. Calm(stack', pending, db'.stored, db'.index, Docs(stack))
      <4>1. FrameOK(stack'[Len(stack)], pending, db'.stored, db'.index, Docs(stack))
        BY <2>4, <2>5, <3>4 DEF FrameOK, Advanced
      <4>2. ASSUME NEW i \in 1 .. Len(stack) - 1,
                   FrameOK(stack[i], pending, db.stored, db.index, Docs(stack)),
                   stack[i].phase = "owners", stack[i].doc # Top.doc
            PROVE  FrameOK(stack[i], pending, db'.stored, db'.index, Docs(stack))
        BY <3>2, <3>3, <4>2 DEF FrameOK
      <4>3. QED
        BY <1>1, <2>1, <2>2, <3>4, <4>1, <4>2, CalmAdvanced
    <3>7. \A i \in 1 .. Len(stack') : stack'[i].by # "hook"
      <4>1. \A i \in 1 .. Len(stack) : stack'[i].by = stack[i].by
        BY <2>1, <3>4 DEF Advanced
      <4>2. QED
        BY <1>5, <2>1, <3>4, <4>1 DEF Advanced
    <3>8. deleted' \cup Docs(stack') \subseteq Tree(asked.deletes \ ToSet(batch'), before.index)
      BY <2>1, <2>2, <2>5, <3>1, <3>5 DEF Finished
    <3>9. db'.stored = before.stored \ deleted'
      BY <1>5, <2>1, <3>1, <3>3
    <3>10. QED
      BY <1>5, <2>1, <2>2, <3>1, <3>5, <3>6, <3>7, <3>8, <3>9, CalmKept
  <2>8. QED
    BY <2>6, <2>7
<1>11. CASE Return
  <2>1. /\ stack # <<>> /\ outcome = "running" /\ outcome' = "running" /\ error = NoError
        /\ Top.phase = "after" /\ stack' = Front(stack) /\ pending' = pending \ {Top.doc}
        /\ UNCHANGED <<policy, db, before, batch, asked, deleted, rollbackOnly, error>>
    BY <1>11 DEF Return, Running, Unmarked
  <2>2. Top.doc \in deleted
    BY <1>1, <2>1, StackParts DEF TypeInv, StackInv, Marks
  <2>3. \A o \in Doc : <<Top.doc, o>> \notin db.index
    <3>1. Top.doc \notin db.stored
      BY <1>5, <2>1, <2>2
    <3>2. \A o \in Doc : <<Top.doc, o>>[1] = Top.doc
      OBVIOUS
    <3>3. QED
      BY <1>1, <3>1, <3>2 DEF Consistent
  <2>4. /\ Calm(stack, pending, db.stored, db.index, Docs(stack)) /\ ~rollbackOnly
        /\ Docs(stack) \subseteq Roots /\ deleted \subseteq Roots
    BY <1>5, <2>1
  <2>5. Calm(stack', pending', db.stored, db.index, Docs(stack'))
    BY <1>1, <2>1, <2>3, <2>4, CalmPopped
  <2>6. Docs(stack') \subseteq Docs(stack)
    BY <1>1, <2>1, DocsOfFront
  <2>7. \A i \in 1 .. Len(stack') : stack'[i].by # "hook"
    <3>1. /\ Len(stack) \in Nat \ {0} /\ Len(stack') = Len(stack) - 1
          /\ \A i \in 1 .. Len(stack) - 1 : stack'[i] = stack[i]
      BY <1>1, <2>1, StackParts
    <3>2. QED
      BY <1>5, <2>1, <3>1
  <2>8. deleted' \cup Docs(stack') \subseteq Tree(asked.deletes \ ToSet(batch'), before.index)
    BY <2>1, <2>4, <2>6 DEF Finished
  <2>9. QED
    BY <1>5, <2>1, <2>4, <2>5, <2>7, <2>8, CalmKept
<1>12. CASE Handle
  <2>1. /\ outcome = "running" /\ outcome' = "running" /\ stack # <<>> /\ error # NoError
        /\ UNCHANGED <<policy, db, before, batch, asked, deleted>>
    BY <1>12 DEF Handle
  <2>2. /\ Hookless /\ error.by # "hook" /\ Justified(error.code)
        /\ error.code = "not_found" => error.by = "caller"
    BY <1>5, <2>1
  <2>3. error.by # "caller" /\ error.code \in Codes
    BY <1>1, <2>1 DEF CallerFailed, TypeInv, TypeOK
  <2>4. error.code # "not_found"
    BY <2>2, <2>3
  <2>5. Fail(error.code)
    BY <1>12, <2>2, <2>4 DEF Handle
  <2>6. QED
    BY <2>1, <2>2, <2>3, <2>4, <2>5, CalmFails
<1>13. CASE Rollback
  <2>1. /\ outcome = "running" /\ error # NoError /\ outcome' = error.code
        /\ UNCHANGED <<policy, before, asked>>
    BY <1>13 DEF Rollback
  <2>2. error.code \in Codes /\ outcome' # "running"
    BY <2>1 DEF TypeInv, TypeOK, Codes
  <2>3. Justified(error.code) /\ asked.writes = {} /\ IsFiniteSet(asked.deletes) /\ IsFiniteSet(before.stored)
    BY <1>5, <2>1
  <2>4. RejectionsAreJustified'
    BY <2>1, <2>3 DEF RejectionsAreJustified, Justified, Tree
  <2>5. QED
    BY <2>1, <2>2, <2>3, <2>4 DEF CalmInv
<1>14. CASE Commit
  <2>1. /\ outcome = "running" /\ error = NoError /\ UNCHANGED <<policy, before, asked>>
        /\ outcome' = IF rollbackOnly THEN "aborted" ELSE "committed"
    BY <1>14 DEF Commit, Running
  <2>2. ~rollbackOnly /\ asked.writes = {} /\ IsFiniteSet(asked.deletes) /\ IsFiniteSet(before.stored)
    BY <1>5, <2>1
  <2>3. outcome' = "committed"
    BY <2>1, <2>2
  <2>4. QED
    BY <2>1, <2>2, <2>3 DEF CalmInv, RejectionsAreJustified
<1>15. QED
  BY <1>2, <1>3, <1>4, <1>7, <1>8, <1>9, <1>10, <1>11, <1>12, <1>13, <1>14 DEF Next

\* A batch names finitely many documents, each once.
LEMMA CalmStart == Init => CalmInv
<1> SUFFICES ASSUME Init PROVE CalmInv
  OBVIOUS
<1>1. /\ before = db /\ IsFiniteSet(before.stored) /\ IsInjective(batch) /\ batch \in Seq(Doc)
  BY ReferenceDeletesAssumption DEF Init
<1>2. /\ stack = <<>> /\ pending = {} /\ deleted = {} /\ rollbackOnly = FALSE
      /\ error = NoError /\ outcome = "running"
      /\ asked = [deletes |-> ToSet(batch), writes |-> {}, hooked |-> FALSE]
  BY DEF Init
<1>3. IsFiniteSet(ToSet(batch))
  <2> DEFINE I == 1 .. Len(batch)
             T == ToSet(batch)
  <2>1. IsFiniteSet(I)
    <3>1. 1 \in Int /\ Len(batch) \in Int
      BY <1>1
    <3>2. QED
      BY <3>1, FS_Interval
  <2>2. DOMAIN batch = I /\ batch = [i \in I |-> batch[i]]
    BY <1>1
  <2> HIDE DEF I
  <2>3. T = {batch[i] : i \in I}
    BY <2>2 DEF ToSet
  <2> HIDE DEF T
  <2>4. batch \in Surjection(I, T)
    BY <2>2, <2>3 DEF Surjection
  <2>5. QED
    BY <2>1, <2>4, FS_Surjection DEF T
<1>4. asked.deletes = ToSet(batch) /\ asked.writes = {}
  BY <1>2
<1>5. Calm(stack, pending, db.stored, db.index, Docs(stack)) /\ Basis = {}
  BY <1>2 DEF Calm, Basis, Docs
<1>6. db.stored = before.stored \ deleted /\ \A i \in 1 .. Len(stack) : stack[i].by # "hook"
  BY <1>1, <1>2
<1>7. QED
  BY <1>1, <1>2, <1>3, <1>4, <1>5, <1>6 DEF CalmInv, RejectionsAreJustified

-----------------------------------------------------------------------------
(* The theorems.                                                             *)

\* The invariant holds in every reachable state.
LEMMA DeleteInvariant == Spec => [](TypeInv /\ RowInv)
BY TransactionStart, TypeStep, RowStep, PTL DEF Spec

\* Database, stack and bookkeeping of the transaction have their types.
THEOREM TypeCorrect == Spec => []TypeOK
<1>1. TypeInv => TypeOK
  BY DEF TypeInv
<1>2. QED
  BY <1>1, DeleteInvariant, PTL

\* Whatever was deleted in cascades, cycles and hooks, no head refers to a
\* document that is gone, and the index has the rows of the heads and no other.
THEOREM NoDanglingReference == Spec => []NothingDangles
<1>1. TypeInv => NothingDangles
  BY DEF TypeInv, NothingDangles
<1>2. QED
  BY <1>1, DeleteInvariant, PTL

\* Once the transaction is committed, a row it has seen whose target is gone was
\* cleared, or its owner is deleted.
LEMMA GoneTargets ==
  ASSUME TypeInv, RowInv, outcome = "committed",
         NEW r \in RowsSeen, r[2] \in deleted \ db.stored
  PROVE  policy[r[1]][r[2]] = "nullify" \/ r[1] \in deleted
<1>1. pending = {} /\ Accounted(r)
  BY DEF RowInv
<1>2. r \notin db.index
  BY DEF TypeInv, Consistent
<1>3. QED
  BY <1>1, <1>2 DEF Accounted

\* Who referred to a deleted document through a cascade field was deleted in
\* the same transaction, also when a hook wrote the reference meanwhile.
THEOREM OwnersAreDeleted == Spec => []OwnedDocumentsGo
<1>1. TypeInv /\ RowInv => OwnedDocumentsGo
  <2>1. "cascade" # "nullify"
    OBVIOUS
  <2>2. QED
    BY <2>1, GoneTargets DEF OwnedDocumentsGo
<1>2. QED
  BY <1>1, DeleteInvariant, PTL

\* No document that is left referred to a deleted one through a restrict field.
THEOREM RestrictFieldsRestrict == Spec => []RestrictionsHold
<1>1. TypeInv /\ RowInv => RestrictionsHold
  <2>1. "restrict" # "nullify"
    OBVIOUS
  <2>2. QED
    BY <2>1, GoneTargets DEF RestrictionsHold
<1>2. QED
  BY <1>1, DeleteInvariant, PTL

\* Nothing else goes: a document was deleted because the caller or a hook asked
\* for it, or with a document it referred to through a cascade field, even when
\* hooks ignored that a delete of theirs was rejected.
THEOREM OnlyTheOwnedAreDeleted == Spec => []OnlyOwnedDocumentsGo
<1>1. OwnedInv => OnlyOwnedDocumentsGo
  BY DEF OwnedInv
<1>2. QED
  BY <1>1, OwnedStart, OwnedStep, DeleteInvariant, PTL DEF Spec

\* Without hooks a delete is only rejected for a restrict field in the trees of
\* what was asked for, a tree deeper than the operation limit, or a document that
\* was not there or that another one of the batch owns: a cascade never rejects
\* itself, in cycles and diamonds of owners either.
THEOREM RejectionsHaveReasons == Spec => []RejectionsAreJustified
<1>1. CalmInv => RejectionsAreJustified
  BY DEF CalmInv, RejectionsAreJustified
<1>2. QED
  BY <1>1, OwnedStart, OwnedStep, CalmStart, CalmStep, DeleteInvariant, PTL DEF Spec
=============================================================================
